\* seven locations, sets that start empty, small, or in the caller's storage
CONSTANTS
    LocationMax = 6
    Capacities = {0, 3}
    StaticSize = 2
    Given <- AllGiven
    Batches <- SmallBatches
    Deltas <- UpDeltas
    None = None
SPECIFICATION Spec
INVARIANTS WellFormed InsertAndRemoveExact SearchFindsClosest ShiftExact
PROPERTIES RefinesLocationSet
