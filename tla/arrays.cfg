\* two arrays of each kind, one of them with up to three items, and two allocators
CONSTANTS
    o1 = o1 o2 = o2 o3 = o3 b1 = b1 b2 = b2 b3 = b3 b4 = b4
    NULL = NULL
    Moved = Moved
    NotFound = NotFound
    None = None
    Default = Default
    MinCapacity = 1
    MaxItems = 3
    QuickWindow = 1
    SizeofStruct = 2
    Id = {1, 2}
    Block = {b1, b2, b3, b4}
    pool = pool
    Allocator <- SomePool
    Pointer = {o1}
    Object = {o1, o2, o3}
    Class <- FirstTwoEqual
    Rank <- NullFirst
    Capacities = {0, 1}
    LentCapacity = 1
    Kinds <- AllKinds
SPECIFICATION Spec
CONSTRAINT Small
VIEW View
INVARIANTS TypeOK HeapExact EnumeratorSound OwnershipExact SearchesExact
PROPERTIES RefinesSequenceStore
