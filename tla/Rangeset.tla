------------------------------ MODULE Rangeset -------------------------------
(***************************************************************************)
(* mulle__rangeset: locations kept as an array of ranges, which operations *)
(* merge, split, trim and move in place.  The array lives in the caller's  *)
(* storage until it outgrows it, then on the heap.                         *)
(*                                                                         *)
(* The loops of insert and remove visit, one by one, the ranges that the   *)
(* given range touches.  In a sorted array these are neighbours, so each   *)
(* operation is written as one splice of the array.                        *)
(***************************************************************************)
EXTENDS Ranges, Powers, FiniteSetsExt

CONSTANTS
    Capacities,    \* the capacities sets are created with
    StaticSize,    \* the capacity of the caller's storage
    Given,         \* the ranges handed to insert and remove
    Batches,       \* the sequences of ranges handed to the batch operations
    Deltas,        \* the distances handed to shift
    None           \* no set

ASSUME RangesetAssumption ==
    /\ StaticSize \in Nat /\ Capacities \subseteq Nat
    /\ Given \subseteq AnyRange
    /\ Batches \subseteq Seq(AnyRange)
    /\ Deltas \subseteq Int
    /\ \A delta \in Deltas : -(LocationMax + 1) <= delta /\ delta <= LocationMax + 1
    /\ \A locations \in SUBSET Location : locations # None

VARIABLE set    \* [ranges, size, static], None outside init .. done

MinSize == 2                        \* MULLE__RANGESET_MIN_SIZE
Word    == 2 * (LocationMax + 2)    \* uintptr_t: INTPTR_MAX is LocationMax + 1

-----------------------------------------------------------------------------
(* The array *)

Splice(s, lo, hi, pieces) == SubSeq(s, 1, lo - 1) \o pieces \o SubSeq(s, hi + 1, Len(s))

(* mutant: joining both neighbours forgets the length of the next          *)
JoinedShort(s, r) ==
    LET index     == HoleIndex(s, r.location)
        meetsPrev == index > 0 /\ End(s[index]) = r.location
        meetsNext == index < Len(s) /\ End(r) = s[index + 1].location
        first     == IF meetsPrev THEN s[index].location ELSE r.location
        end       == IF meetsNext /\ ~meetsPrev THEN End(s[index + 1]) ELSE End(r)
    IN  Splice(s, IF meetsPrev THEN index ELSE index + 1,
               IF meetsNext THEN index + 1 ELSE index, <<Span(first, end)>>)

(* a range that touches none is joined with the ranges it is adjacent to   *)
InsertedAbsent(s, r) ==
    LET index     == HoleIndex(s, r.location)
        meetsPrev == index > 0 /\ End(s[index]) = r.location
        meetsNext == index < Len(s) /\ End(r) = s[index + 1].location
        first     == IF meetsPrev THEN s[index].location ELSE r.location
        end       == IF meetsNext THEN End(s[index + 1]) ELSE End(r)
    IN  Splice(s, IF meetsPrev THEN index ELSE index + 1,
               IF meetsNext THEN index + 1 ELSE index, <<Span(first, end)>>)

(* mutant: only the found range is extended over the inserted one          *)
InsertedOverFirst(s, r) ==
    LET touched == Touched(s, r)
        lo      == Min(touched)
    IN  IF touched = {} THEN InsertedAbsent(s, r)
        ELSE Splice(s, lo, lo, <<Span(Min({r.location, s[lo].location}),
                                      Max({End(r), End(s[lo])}))>>)

(* the ranges it touches become one range, which is not joined any further *)
Inserted(s, r) ==
    LET touched == Touched(s, r)
        lo      == Min(touched)
        hi      == Max(touched)
    IN  IF touched = {} THEN InsertedAbsent(s, r)
        ELSE Splice(s, lo, hi, <<Span(Min({r.location, s[lo].location}),
                                      Max({End(r), End(s[hi])}))>>)

(* mutant: the part of a range behind the removed one is dropped with it   *)
RemovedTail(s, r) ==
    LET touched == Touched(s, r)
        lo      == Min(touched)
        hi      == Max(touched)
    IN  IF touched = {} THEN s
        ELSE Splice(s, lo, hi,
                    IF s[lo].location < r.location
                    THEN <<Span(s[lo].location, r.location)>> ELSE <<>>)

(* what sticks out of the removed range on either side stays; the part     *)
(* behind a hole is inserted anew and may join the next range              *)
Removed(s, r) ==
    LET touched == Touched(s, r)
        lo      == Min(touched)
        hi      == Max(touched)
        front   == IF s[lo].location < r.location
                   THEN <<Span(s[lo].location, r.location)>> ELSE <<>>
        back    == IF End(r) < End(s[hi]) THEN <<Span(End(r), End(s[hi]))>> ELSE <<>>
    IN  IF touched = {} THEN s
        ELSE IF lo = hi /\ Len(front \o back) = 2
        THEN InsertedAbsent(Splice(s, lo, hi, front), back[1])
        ELSE Splice(s, lo, hi, front \o back)

-----------------------------------------------------------------------------
(* The memory *)

New(size, static) == [ranges |-> <<>>, size |-> size, static |-> static]

(* grow: the next power of two, which leaves the caller's storage          *)
GrownSize(size) == Pow2Round(2 * size)

Stored(p, ranges) ==
    IF Len(ranges) <= p.size THEN [p EXCEPT !.ranges = ranges]
    ELSE [ranges |-> ranges, size |-> GrownSize(p.size), static |-> FALSE]

(* shrink: halve while the half is more than MinSize and holds all ranges  *)
ShrunkSize(size, length) ==
    size \div Power[Min({k \in 0 .. size :
                            LET half == size \div Power[k + 1]
                            IN  half <= MinSize \/ half < length})]

Shrunk(p) ==
    IF p.static THEN p ELSE [p EXCEPT !.size = ShrunkSize(@, Len(p.ranges))]

-----------------------------------------------------------------------------
(* Insert, remove and shift as functions of the set *)

WithRange(p, r) ==
    IF r.length = 0 \/ ~IsValid(r) THEN p ELSE Stored(p, Inserted(p.ranges, r))

WithoutRange(p, r) ==
    IF r.length = 0 \/ ~IsValid(r) THEN p ELSE Stored(p, Removed(p.ranges, r))

(* insert_ranges and remove_ranges: one range after the other              *)
WithRanges(p, batch) ==
    LET after[k \in 0 .. Len(batch)] ==
            IF k = 0 THEN p ELSE WithRange(after[k - 1], batch[k])
    IN  after[Len(batch)]

WithoutRanges(p, batch) ==
    LET after[k \in 0 .. Len(batch)] ==
            IF k = 0 THEN p ELSE WithoutRange(after[k - 1], batch[k])
    IN  after[Len(batch)]

(* search_nearest_p: the range with the location, else the nearer of its   *)
(* neighbours, the upper one when both are as near                         *)
NearestIndex(s, l) ==
    LET upper == Min({HoleIndex(s, l) + 1, Len(s)})
    IN  IF \E i \in DOMAIN s : Holds(s[i], l)
        THEN CHOOSE i \in DOMAIN s : Holds(s[i], l)
        ELSE IF upper > 1 /\ Distance(s[upper], l) > Distance(s[upper - 1], l)
        THEN upper - 1 ELSE upper

MovedBy(r, delta) == [r EXCEPT !.location = (@ + delta) % Word]

(* deltashift: all ranges from the index on                                *)
DeltaShifted(s, index, delta) ==
    [i \in DOMAIN s |-> IF i < index THEN s[i] ELSE MovedBy(s[i], delta)]

(* what would leave the domain is removed before anything moves            *)
ShiftClears(p, l, delta) ==
    IF delta > 0 THEN WithoutRange(p, Make(LocationMax + 1 - delta, delta))
    ELSE IF l + delta < 0 THEN WithoutRange(p, Make(l, -(l + delta)))
    ELSE p

(* mutant: the split range is shortened only after the rest has moved      *)
ShiftedUnsplit(p, l, delta) ==
    LET cleared == ShiftClears(p, l, delta)
        s       == cleared.ranges
        f       == NearestIndex(s, l)
    IN  IF p.ranges = <<>> \/ delta = 0 \/ s = <<>> THEN cleared
        ELSE [cleared EXCEPT !.ranges = DeltaShifted(s, f, delta)]

(* a range that spans the location is split, else everything from the      *)
(* nearest range on moves, and may meet the range before it                *)
Shifted(p, l, delta) ==
    LET cleared == ShiftClears(p, l, delta)
        s       == cleared.ranges
        f       == NearestIndex(s, l)
        moved   == DeltaShifted(s, f, delta)
        before  == Span(s[f].location, l)
        after   == Make((l + delta) % Word, End(s[f]) - l)
    IN  IF p.ranges = <<>> \/ delta = 0 THEN p
        ELSE IF s = <<>> THEN cleared
        ELSE IF Holds(s[f], l) /\ s[f].location < l
        THEN WithRange([cleared EXCEPT
                !.ranges = [DeltaShifted(s, f + 1, delta) EXCEPT ![f] = before]], after)
        ELSE IF delta < 0 /\ f > 1 /\ End(s[f - 1]) = moved[f].location
        THEN [cleared EXCEPT
                !.ranges = Splice(moved, f - 1, f, <<Span(s[f - 1].location, End(moved[f]))>>)]
        ELSE [cleared EXCEPT !.ranges = moved]

-----------------------------------------------------------------------------
(* Queries *)

(* mulle__rangeset_contains: a single range has to enclose the other       *)
Contains(s, r) == r.length > 0 /\ \E i \in DOMAIN s : Encloses(s[i], r)

(* mutant: a range that ends at the location is taken to be above it       *)
SearchRangeStuck(s, l, op) ==
    LET f == NearestIndex(s, l)
    IN  IF s = <<>> THEN 0
        ELSE IF "equal" \in op /\ Holds(s[f], l) THEN f
        ELSE IF "less" \in op /\ l > 0
        THEN IF s[f].location >= l THEN f - 1 ELSE f
        ELSE IF "greater" \in op /\ l < LocationMax
        THEN IF End(s[f]) - 1 < l THEN IF f = Len(s) THEN 0 ELSE f + 1 ELSE f
        ELSE 0

(* search_range: the index of the range, 0 for none.  op is the set of the *)
(* bits of the search operation                                            *)
SearchRange(s, l, op) ==
    LET f == NearestIndex(s, l)
    IN  IF s = <<>> THEN 0
        ELSE IF "equal" \in op /\ Holds(s[f], l) THEN f
        ELSE IF "less" \in op /\ l > 0
        THEN IF s[f].location >= l THEN f - 1 ELSE f
        ELSE IF "greater" \in op /\ l < LocationMax
        THEN IF End(s[f]) - 1 <= l THEN IF f = Len(s) THEN 0 ELSE f + 1 ELSE f
        ELSE 0

(* search_location: the location, LocationMax + 1 for mulle_not_found_e    *)
SearchLocation(s, l, op) ==
    LET i == SearchRange(s, l, op)
    IN  IF i = 0 THEN LocationMax + 1
        ELSE IF "equal" \in op /\ Holds(s[i], l) THEN l
        ELSE IF "less" \in op THEN IF Holds(s[i], l - 1) THEN l - 1 ELSE End(s[i]) - 1
        ELSE IF Holds(s[i], l + 1) THEN l + 1 ELSE s[i].location

-----------------------------------------------------------------------------
(* Operations *)

Create(capacity) == set = None /\ set' = New(capacity, FALSE)
CreateStatic     == set = None /\ set' = New(StaticSize, TRUE)
Done             == set # None /\ set' = None

Insert(r) == set # None /\ set' = WithRange(set, r)
Remove(r) == set # None /\ set' = WithoutRange(set, r)

InsertRanges(batch) == set # None /\ set' = WithRanges(set, batch)
RemoveRanges(batch) == set # None /\ set' = Shrunk(WithoutRanges(set, batch))

Reset == set # None /\ set' = Shrunk([set EXCEPT !.ranges = <<>>])

ShrinkToFit ==
    /\ set # None
    /\ set' = IF Len(set.ranges) < set.size /\ ~set.static
              THEN [set EXCEPT !.size = Len(set.ranges)] ELSE set

Shift(l, delta) == set # None /\ set' = Shifted(set, l, delta)

Init == set = None

Next ==
    \/ \E capacity \in Capacities : Create(capacity)
    \/ CreateStatic
    \/ Done
    \/ \E r \in Given : Insert(r) \/ Remove(r)
    \/ \E batch \in Batches : InsertRanges(batch) \/ RemoveRanges(batch)
    \/ Reset
    \/ ShrinkToFit
    \/ \E l \in Location, delta \in Deltas : Shift(l, delta)

Spec == Init /\ [][Next]_set
-----------------------------------------------------------------------------
(* Properties *)

Ranges  == IF set = None THEN <<>> ELSE set.ranges
Covered(s) == UNION {s[i].location .. End(s[i]) - 1 : i \in DOMAIN s}

Abstract == INSTANCE LocationSet WITH
    locations <- IF set = None THEN None ELSE Covered(set.ranges)

(* The array never holds more ranges than it has room for, it is the       *)
(* caller's storage exactly as long as that has not been outgrown, and     *)
(* merging, splitting, trimming and shifting up leave it sorted and free   *)
(* of overlaps, on which every binary search relies.                       *)
WellFormed ==
    /\ set # None =>
        /\ set.ranges \in Seq([location : 0 .. Word - 1, length : Nat])
        /\ set.static \in BOOLEAN
        /\ Len(set.ranges) <= set.size
        /\ set.static => set.size = StaticSize
    /\ InOrder(Ranges)

(* A range set is a set of locations: every operation has the effect of an *)
(* operation on a plain set, whatever ranges it merges or splits, and      *)
(* growing and shrinking change nothing.                                   *)
RefinesLocationSet == Abstract!Spec

(* In every set that can come about, inserting any range adds exactly its  *)
(* locations and removing it takes exactly these.                          *)
InsertAndRemoveExact ==
    \A r \in ValidRanges :
        /\ Covered(Inserted(Ranges, r)) = Covered(Ranges) \cup Abstract!CoveredBy(r)
        /\ Covered(Removed(Ranges, r))  = Covered(Ranges) \ Abstract!CoveredBy(r)

(* the closest location of S that satisfies the search operation           *)
Closest(S, l, op) ==
    LET found == {x \in S : \/ "equal" \in op /\ x = l
                            \/ "less" \in op /\ x < l
                            \/ "greater" \in op /\ x > l}
    IN  IF found = {} THEN LocationMax + 1
        ELSE IF "less" \in op THEN Max(found) ELSE Min(found)

Searches == {{"equal"}, {"less"}, {"less", "equal"}, {"greater"}, {"greater", "equal"}}

(* search_location finds the closest location for each of the five search  *)
(* operations, from every location, the first and the last included, also  *)
(* in sets with adjacent ranges, and search_nearest returns a range no     *)
(* other is closer than, although it only compares the two neighbours of   *)
(* a hole.                                                                 *)
SearchFindsClosest ==
    /\ \A l \in Location, op \in Searches :
        SearchLocation(Ranges, l, op) = Closest(Covered(Ranges), l, op)
    /\ \A l \in Location : Ranges # <<>> =>
        \A i \in DOMAIN Ranges :
            Distance(Ranges[NearestIndex(Ranges, l)], l) <= Distance(Ranges[i], l)

(* Where no lower range is nearer to the location than an upper one, and   *)
(* what moves down has room to do so, a shift moves exactly the locations  *)
(* at or above the given one, and the array stays in order.                *)
ShiftExact ==
    \A l \in Location, delta \in -LocationMax .. LocationMax :
        LET rest  == ShiftClears([ranges |-> Ranges, size |-> Len(Ranges), static |-> FALSE],
                                 l, delta).ranges
            after == Shifted([ranges |-> Ranges, size |-> Len(Ranges), static |-> FALSE],
                             l, delta).ranges
            near  == rest[NearestIndex(rest, l)]
        IN  /\ rest # <<>> /\ Ranges # <<>>
            /\ End(near) > l
            /\ \A x \in Covered(Ranges) :
                   /\ delta > 0 => x <= LocationMax - delta
                   /\ delta < 0 => x < l + delta \/ x >= l
            => InOrder(after) /\ Covered(after) = Abstract!Moved(Covered(Ranges), l, delta)
==============================================================================
