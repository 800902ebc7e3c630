\* can a set lose its last hole?
CONSTANTS
    k1 = k1 k2 = k2 k3 = k3 k4 = k4 k5 = k5 s1 = s1 s2 = s2
    Hole = Hole
    None = None
    Storage = Storage
    Running = Running
    Hung = Hung
    Aborted = Aborted
    Key = {k1, k2, k3, k4, k5}
    Class <- FirstTwoEqual
    Hash <- CollidingHash
    SetId = {s1, s2}
    Capacities = {0}
    StaticCapacities = {4, 6}
    Owned = {k1, k2, k3, k4, k5}
    MaxSize <- SizeBound
    Shared = {k1, k2, k3}
SPECIFICATION Spec
CHECK_DEADLOCK FALSE
INVARIANTS EndIsFound
