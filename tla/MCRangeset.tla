----------------------------- MODULE MCRangeset ------------------------------
(***************************************************************************)
(* A small instance of Rangeset for TLC, and what its documentation says   *)
(* of a shift.                                                             *)
(***************************************************************************)
EXTENDS Rangeset

(* every valid range, an empty one and two that leave the domain           *)
AllGiven == ValidRanges \cup {Make(2, 0), Make(LocationMax, 2), Make(LocationMax + 1, 1)}

(* bound: batches in and out of order, overlapping, with a rejected range  *)
SmallBatches ==
    {<<Make(0, 2), Make(3, 1)>>, <<Make(5, 1), Make(1, 1), Make(3, 1)>>,
     <<Make(1, 4), Make(2, 2), Make(6, 2)>>}

UpDeltas   == {1, 3, LocationMax + 1}
BothDeltas == {-2, 1}

-----------------------------------------------------------------------------
(* dox/API_RANGESET.md:431: "Shift all locations at or after `location` by *)
(* `delta` positions", so locations before it stay where they are.         *)
ShiftKeepsLower ==
    [][\A l \in Location, delta \in Deltas :
           Shift(l, delta) =>
               (Covered(set.ranges) \cap 0 .. l - 1) \ (LocationMax + 1 - delta .. LocationMax)
                   \subseteq Covered(set'.ranges)]_set
==============================================================================
