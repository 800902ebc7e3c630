\* two maps that own their keys and values, copied into each other
CONSTANTS
    k1 = k1 k2 = k2 k3 = k3 k4 = k4 k5 = k5 k6 = k6 v1 = v1 v2 = v2 m1 = m1 m2 = m2
    Missing = Missing
    Hole = Hole
    Null = Null
    None = None
    Key = {k1, k2, k3}
    Value = {v1, Null}
    Class <- SmallClass
    Hash <- SmallHash
    Map = {m1, m2}
    Capacities = {0}
    Ownerships <- NoneOrAll
    Enumerable = {}
    MaxSize = 4
    MaxMutations = 4
SPECIFICATION Spec
SYMMETRY Interchangeable
INVARIANTS OwnershipExact NoDangling
PROPERTIES RefinesAbstractMap
