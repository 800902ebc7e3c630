\* the smallest sets that show it
CONSTANTS
    LocationMax = 6
    Capacities = {3}
    StaticSize = 2
    Given <- AllGiven
    Batches = {}
    Deltas <- BothDeltas
    None = None
SPECIFICATION Spec
PROPERTIES ShiftKeepsLower
