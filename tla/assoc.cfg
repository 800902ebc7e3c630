\* two assocs, of integer keys and of strings that are owned
CONSTANTS
    a1 = a1 a2 = a2 c1 = c1 u = u w = w x = x y = y
    NULL = NULL
    NotAKey = NotAKey
    NotFound = NotFound
    None = None
    Id = {x, y}
    Intptr <- UpToThree
    String = {a1, a2, c1}
    Value = {u}
    Class <- FirstTwoEqual
    Order <- UpAndDown
    Capacities = {1}
    MaxPairs = 4
SPECIFICATION Spec
CONSTRAINT Small
VIEW View
SYMMETRY Interchangeable
INVARIANTS SortedWhenSearched OwnershipExact
PROPERTIES RefinesPairBag
