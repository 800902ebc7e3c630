\* one raw map and an open enumerator: chains, growing, shrinking
CONSTANTS
    k1 = k1 k2 = k2 k3 = k3 k4 = k4 k5 = k5 k6 = k6 v1 = v1 v2 = v2
    m1 = m1 m2 = m2
    Missing = Missing
    Hole = Hole
    Null = Null
    None = None
    Key = {k1, k2, k3, k4, k5, k6}
    Value = {v1}
    Class <- FirstTwoEqual
    Hash <- CollidingHash
    Map = {m1}
    Capacities = {0, 6}
    Ownerships = {{}}
    Enumerable = {m1}
    MaxSize = 8
    MaxMutations = 9
SPECIFICATION Spec
INVARIANTS TypeOK ProbeChains HoleRemains LookupsAgree EnumeratorComplete
PROPERTIES MutationsVisible
