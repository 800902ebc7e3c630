\* three buckets of two items, of which one or two may be kept as spares
CONSTANTS
    b1 = b1 b2 = b2 b3 = b3
    x = x y = y
    NULL = NULL
    None = None
    Stale = Stale
    Bucket = {b1, b2, b3}
    Item = {x, y}
    BucketSize = 2
    Allowances = {1, 2}
SPECIFICATION StructSpec
CONSTRAINT Apart
VIEW View
SYMMETRY Symmetric
INVARIANTS TypeOK Chained NoLeak SparesBalanced CountExact AssertionsHold EnumeratesAll HeldExact
PROPERTIES RefinesFIFOQueue
