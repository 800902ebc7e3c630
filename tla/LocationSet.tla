----------------------------- MODULE LocationSet -----------------------------
(***************************************************************************)
(* What mulle__rangeset promises: a set of the locations 0 .. LocationMax, *)
(* however it is cut into ranges and whatever memory it occupies.          *)
(***************************************************************************)
EXTENDS Integers, Sequences

CONSTANTS
    LocationMax,   \* mulle_range_location_max
    Batches,       \* the sequences of ranges handed to the batch operations
    None           \* no set

VARIABLE locations    \* the set of locations, None outside init .. done

Location == 0 .. LocationMax
Held     == IF locations = None THEN {} ELSE locations

(* an empty range covers nothing, an invalid one is ignored                *)
CoveredBy(range) ==
    IF range.location + range.length <= LocationMax + 1
    THEN range.location .. range.location + range.length - 1
    ELSE {}

CoveredByAll(ranges) == UNION {CoveredBy(ranges[i]) : i \in DOMAIN ranges}

(* the locations from cut on move by delta, those that leave are gone      *)
Moved(S, cut, delta) ==
    {x \in S : x < cut} \cup ({x + delta : x \in {y \in S : y >= cut}} \cap Location)

Create  == locations = None /\ locations' = {}
Discard == locations # None /\ locations' = None

Change(S) == locations # None /\ locations' = S

Add    == \E a, b \in Location : Change(Held \cup (a .. b))
Remove == \E a, b \in Location : Change(Held \ (a .. b))
Clear  == Change({})

AddAll    == \E batch \in Batches : Change(Held \cup CoveredByAll(batch))
RemoveAll == \E batch \in Batches : Change(Held \ CoveredByAll(batch))

(* an upward shift frees the top of the domain, then moves what is above a *)
(* cut; the cut need not be the location that the caller named             *)
ShiftUp ==
    \E cut \in Location, delta \in 1 .. LocationMax + 1 :
        Change(Moved(Held \ (LocationMax + 1 - delta .. LocationMax), cut, delta))

Init == locations = None
Next == Create \/ Discard \/ Add \/ Remove \/ Clear \/ AddAll \/ RemoveAll \/ ShiftUp
Spec == Init /\ [][Next]_locations
==============================================================================
