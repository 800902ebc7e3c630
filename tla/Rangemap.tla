------------------------------ MODULE Rangemap -------------------------------
(***************************************************************************)
(* mulle__rangemap: sorted ranges that do not overlap, each with a value,  *)
(* in one buffer: first size places for ranges, then size places for       *)
(* values.  The two halves move in step, and when the buffer grows the     *)
(* values have to follow the end of the ranges.  Place 1 is the first of   *)
(* the buffer, offset 0 of the code.                                       *)
(***************************************************************************)
EXTENDS Ranges

CONSTANTS
    Value,
    Capacities,    \* the capacities maps are created with
    Given,         \* the ranges handed to insert and remove
    Junk,          \* what a place that is not in use holds
    None,          \* no map, no enumerator, no result
    Stale          \* an enumerator whose map was modified

ASSUME RangemapAssumption ==
    /\ Capacities \subseteq Nat /\ Given \subseteq AnyRange
    /\ Junk \notin Value \cup AnyRange
    /\ None # Stale
    /\ None \notin [cells : Seq(ValidRanges \cup Value \cup {Junk}), length : Nat, size : Nat]
    /\ \A entries \in SUBSET [range : ValidRanges, value : Value] : entries # None

VARIABLES
    map,      \* [cells, length, size], None outside init .. done
    rover,    \* the enumerator and what it has returned
    ret       \* what the last writing operation returned

vars == <<map, rover, ret>>

Rejected(r) == r.length = 0 \/ ~IsValid(r)

-----------------------------------------------------------------------------
(* The buffer *)

NewMap(size) == [cells |-> [k \in 1 .. 2 * size |-> Junk], length |-> 0, size |-> size]

RangesOf(m) == [i \in 1 .. m.length |-> m.cells[i]]
ValuesOf(m) == [i \in 1 .. m.length |-> m.cells[m.size + i]]

(* memmove of n cells                                                      *)
MoveCells(cells, to, from, n) ==
    [k \in DOMAIN cells |-> IF k \in to .. to + n - 1 THEN cells[k - to + from] ELSE cells[k]]

(* what is left behind the last range and the last value is not looked at  *)
Tidied(m) ==
    [m EXCEPT !.cells =
        [k \in DOMAIN @ |->
            IF k \in 1 .. m.length \cup m.size + 1 .. m.size + m.length THEN @[k] ELSE Junk]]

Resized(m, size) ==
    [k \in 1 .. 2 * size |-> IF k <= 2 * m.size THEN m.cells[k] ELSE Junk]

(* mutant: the values stay where they are                                  *)
GrownUnmoved(m) ==
    LET size == IF m.size = 0 THEN 2 ELSE 2 * m.size
    IN  [m EXCEPT !.size = size, !.cells = Resized(m, size)]

Grown(m) ==
    LET size == IF m.size = 0 THEN 2 ELSE 2 * m.size
    IN  [m EXCEPT !.size = size, !.cells = MoveCells(Resized(m, size), size + 1, m.size + 1, m.length)]

WithEntry(m, r, v) ==
    LET g     == IF m.length >= m.size THEN Grown(m) ELSE m
        place == HoleIndex(RangesOf(m), r.location) + 1
        above == m.length - place + 1
        moved == MoveCells(MoveCells(g.cells, place + 1, place, above),
                           g.size + place + 1, g.size + place, above)
    IN  [g EXCEPT !.length = @ + 1,
                  !.cells = [moved EXCEPT ![place] = r, ![g.size + place] = v]]

WithoutEntry(m, place) ==
    LET above == m.length - place
    IN  Tidied([m EXCEPT !.length = @ - 1,
                         !.cells = MoveCells(MoveCells(@, place, place + 1, above),
                                             m.size + place, m.size + place + 1, above)])

-----------------------------------------------------------------------------
(* Queries *)

(* search: the place of the range with the location, 0 for not found       *)
Search(m, l) ==
    LET found == Touched(RangesOf(m), Make(l, 1))
    IN  IF found = {} THEN 0 ELSE CHOOSE i \in found : TRUE

GetExact(m, r) ==
    LET i == Search(m, r.location)
    IN  IF i = 0 THEN None
        ELSE IF m.cells[i] # r THEN None
        ELSE m.cells[m.size + i]

(* mutant: a range that begins before the query is forgotten               *)
FirstFromHole(m, r) == HoleIndex(RangesOf(m), r.location) + 1

(* where get_ranges_values begins                                          *)
FirstIntersecting(m, r) ==
    LET below == HoleIndex(RangesOf(m), r.location)
    IN  IF below = m.length \/ (below > 0 /\ Intersects(m.cells[below], r))
        THEN below ELSE below + 1

(* the places get_ranges_values counts: it scans on while ranges intersect *)
Intersecting(m, r) ==
    IF Rejected(r) \/ m.length = 0 THEN {}
    ELSE LET first == FirstIntersecting(m, r)
         IN  {i \in first .. m.length :
                 \A j \in first .. i : Intersects(m.cells[j], r)}

-----------------------------------------------------------------------------
(* Operations *)

(* _n_mutations moves on: next of an enumerator opened before asserts      *)
Modify    == rover' = IF rover = None THEN None ELSE Stale
Leave     == UNCHANGED <<map, rover>>

Create(capacity) ==
    map = None /\ map' = NewMap(capacity) /\ ret' = None /\ UNCHANGED rover

(* an enumerator must not outlive the map                                  *)
Done == map # None /\ map' = None /\ rover' = None /\ ret' = None

(* mutant: only the first location of the range is looked up               *)
IsTakenAt(m, r) == Touched(RangesOf(m), Make(r.location, 1)) # {}

IsTaken(m, r) == Touched(RangesOf(m), r) # {}

Insert(r, v) ==
    /\ map # None
    /\ \/ Rejected(r) /\ ret' = "EINVAL" /\ Leave
       \/ ~Rejected(r) /\ IsTaken(map, r) /\ ret' = "EADDRINUSE" /\ Leave
       \/ /\ ~Rejected(r) /\ ~IsTaken(map, r)
          /\ map' = WithEntry(map, r, v)
          /\ ret' = "OK"
          /\ Modify

(* the binary search may find any of the ranges that intersect             *)
Remove(r) ==
    /\ map # None
    /\ \/ Rejected(r) /\ ret' = "EINVAL" /\ Leave
       \/ ~Rejected(r) /\ ~IsTaken(map, r) /\ ret' = "ENOENT" /\ Leave
       \/ /\ ~Rejected(r)
          /\ \E found \in Touched(RangesOf(map), r) :
                \/ map.cells[found] # r /\ ret' = "EACCES" /\ Leave
                \/ /\ map.cells[found] = r
                   /\ map' = WithoutEntry(map, found)
                   /\ ret' = "OK"
                   /\ Modify

Reset ==
    /\ map # None
    /\ map' = Tidied([map EXCEPT !.length = 0])
    /\ ret' = None
    /\ Modify

(* the enumerator holds pointers into both halves of the buffer            *)
Enumerate ==
    /\ map # None
    /\ rover' = [curr |-> 1, sentinel |-> map.length + 1, values |-> map.size + 1,
                 seen |-> <<>>]
    /\ UNCHANGED <<map, ret>>

(* mutant: the pointer to the values stays                                 *)
AdvancedHalf(r) ==
    [r EXCEPT !.curr = @ + 1,
              !.seen = Append(@, [range |-> map.cells[r.curr], value |-> map.cells[r.values]])]

Advanced(r) ==
    [r EXCEPT !.curr = @ + 1, !.values = @ + 1,
              !.seen = Append(@, [range |-> map.cells[r.curr], value |-> map.cells[r.values]])]

EnumerateNext ==
    /\ rover \notin {None, Stale} /\ rover.curr < rover.sentinel
    /\ rover' = Advanced(rover)
    /\ UNCHANGED <<map, ret>>

(* a loop has ended, or is left                                            *)
EnumerateDone == rover # None /\ rover' = None /\ UNCHANGED <<map, ret>>

Init == map = None /\ rover = None /\ ret = None

Next ==
    \/ \E capacity \in Capacities : Create(capacity)
    \/ Done
    \/ \E r \in Given, v \in Value : Insert(r, v)
    \/ \E r \in Given : Remove(r)
    \/ Reset
    \/ Enumerate
    \/ EnumerateNext
    \/ EnumerateDone

Spec == Init /\ [][Next]_vars

-----------------------------------------------------------------------------
(* Properties *)

Here     == map # None
Entry(i) == [range |-> RangesOf(map)[i], value |-> ValuesOf(map)[i]]
Entries  == [i \in 1 .. map.length |-> Entry(i)]

(* the map as a set of ranges with values                                  *)
EntrySet == IF map = None THEN None ELSE {Entry(i) : i \in 1 .. map.length}

Abstract == INSTANCE RangeDictionary WITH
    Usable  <- ValidRanges,
    Overlap <- Intersects,
    entries <- EntrySet

(* The buffer has room for what is in it, pointers of an enumerator stay   *)
(* within the half they point into, and the array is sorted and free of    *)
(* overlaps, on which both binary searches and the forward scan rely.      *)
WellFormed ==
    /\ Here => InOrder(RangesOf(map))
    /\ map # None =>
        /\ map.length <= map.size
        /\ map.cells \in [1 .. 2 * map.size -> ValidRanges \cup Value \cup {Junk}]
    /\ rover \notin {None, Stale} =>
        map # None /\ rover.curr \in 1 .. rover.sentinel /\ rover.sentinel = map.length + 1
    /\ ret \in {None, "OK", "EINVAL", "EADDRINUSE", "ENOENT", "EACCES"}

(* A range map is a set of ranges with values: nothing overlaps, each      *)
(* range keeps the value it was inserted with, however the halves of the   *)
(* buffer move, and the results say what happened.                         *)
RefinesRangeDictionary == Abstract!Spec

(* get_ranges_values finds all ranges that intersect the query, also when  *)
(* it begins in a hole, inside a range, or behind all of them, and         *)
(* get_exact returns the value of a stored range and of no other.          *)
QueryComplete ==
    Here => \A r \in ValidRanges :
        LET same == {i \in 1 .. map.length : RangesOf(map)[i] = r}
        IN  /\ Intersecting(map, r) = {i \in 1 .. map.length : Intersects(map.cells[i], r)}
            /\ GetExact(map, r) =
                   IF same = {} THEN None ELSE ValuesOf(map)[CHOOSE i \in same : TRUE]

(* An enumerator that is not stale has returned the first entries in order *)
(* of location, and when it ends it has returned all.                      *)
EnumeratesInOrder ==
    rover \notin {None, Stale} =>
        /\ rover.seen = SubSeq(Entries, 1, rover.curr - 1)
        /\ rover.curr = rover.sentinel => rover.seen = Entries
==============================================================================
