------------------------------- MODULE Ranges --------------------------------
(***************************************************************************)
(* struct mulle_range and the searches in arrays of ranges.  They belong   *)
(* to mulle-data, outside this repository, and are modelled as the range   *)
(* set and the range map use them.                                         *)
(***************************************************************************)
EXTENDS Integers, Sequences, FiniteSets

CONSTANT LocationMax    \* mulle_range_location_max, INTPTR_MAX - 1

ASSUME RangesAssumption == LocationMax \in Nat

Location == 0 .. LocationMax
AnyRange == [location : Nat, length : Nat]

Make(location, length) == [location |-> location, length |-> length]
Span(first, end)       == Make(first, end - first)
End(r)                 == r.location + r.length        \* mulle_range_get_max
IsValid(r)             == r.location <= LocationMax /\ End(r) <= LocationMax + 1
Holds(r, l)            == r.location <= l /\ l < End(r)
Intersects(a, b)       == a.location < End(b) /\ b.location < End(a)
Encloses(a, b)         == a.location <= b.location /\ End(b) <= End(a)

Distance(r, l) ==
    IF Holds(r, l) THEN 0
    ELSE IF l < r.location THEN r.location - l ELSE l - End(r) + 1

(* mulle_range_intersects_bsearch: the ranges it may find                  *)
Touched(s, r) == {i \in DOMAIN s : Intersects(s[i], r)}

(* _mulle_range_hole_bsearch: how many ranges precede the location         *)
HoleIndex(s, l) == Cardinality({i \in DOMAIN s : s[i].location < l})

(* the ranges that insert and remove do not reject                         *)
ValidRanges == {r \in [location : Location, length : 1 .. LocationMax + 1] : IsValid(r)}

(* no range is empty or invalid, and each ends before the next begins      *)
InOrder(s) ==
    /\ \A i \in DOMAIN s : s[i].length > 0 /\ IsValid(s[i])
    /\ \A i \in 1 .. Len(s) - 1 : End(s[i]) <= s[i + 1].location
==============================================================================
