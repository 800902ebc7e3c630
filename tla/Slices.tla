------------------------------- MODULE Slices --------------------------------
(***************************************************************************)
(* The arithmetic of capacities and of ranges in sequences that the arrays *)
(* and the assoc share.                                                    *)
(***************************************************************************)
EXTENDS Powers, Sequences

Max2(m, n) == IF m > n THEN m ELSE n

-----------------------------------------------------------------------------
(* struct mulle_range, of mulle-data: a length of -1 is everything from    *)
(* the location on.                                                        *)

All == -1
Make(location, length) == [location |-> location, length |-> length]

(* what lies outside of the array leaves nothing of the range              *)
Validated(r, n) ==
    IF r.length = All /\ r.location <= n THEN Make(r.location, n - r.location)
    ELSE IF r.length # All /\ r.location + r.length <= n THEN r
    ELSE Make(0, 0)

Intersection(r, n) ==
    LET end == IF r.length = All \/ r.location + r.length > n THEN n
               ELSE r.location + r.length
    IN  IF r.location >= end THEN Make(0, 0) ELSE Make(r.location, end - r.location)

(* memcpy out of, memmove within the items                                 *)
Slice(s, r)     == SubSeq(s, r.location + 1, r.location + r.length)
Without(s, r)   == SubSeq(s, 1, r.location)
                   \o SubSeq(s, r.location + r.length + 1, Len(s))
With(s, i, ps)  == SubSeq(s, 1, i) \o ps \o SubSeq(s, i + 1, Len(s))
=============================================================================
