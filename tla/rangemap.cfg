\* four locations: up to four ranges, a buffer that grows from nothing to four or six
CONSTANTS
    LocationMax = 3
    Value = {v, w}
    Capacities = {0, 3}
    Given <- AllGiven
    Junk = Junk
    None = None
    Stale = Stale
SPECIFICATION Spec
INVARIANTS WellFormed QueryComplete EnumeratesInOrder
PROPERTIES RefinesRangeDictionary
