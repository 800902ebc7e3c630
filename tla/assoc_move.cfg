\* one assoc of integer keys whose range is moved
CONSTANTS
    a1 = a1 a2 = a2 c1 = c1 u = u w = w x = x y = y
    NULL = NULL
    NotAKey = NotAKey
    NotFound = NotFound
    None = None
    Id = {x}
    Intptr = {0, 1, 2, 3, 4}
    String = {a1, a2, c1}
    Value = {u}
    Class <- FirstTwoEqual
    Order <- UpAndDown
    Capacities = {1}
    MaxPairs = 3
SPECIFICATION Spec
VIEW View
PROPERTY MoveLeavesOthers
