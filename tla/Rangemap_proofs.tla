--------------------------- MODULE Rangemap_proofs ----------------------------
(***************************************************************************)
(* Proofs about Rangemap, for every domain of locations, every capacity    *)
(* and any values: ranges and values stay in step while the buffer grows,  *)
(* its queries miss nothing, and it is a set of ranges with values.        *)
(***************************************************************************)
EXTENDS Rangemap, NumberFacts

-----------------------------------------------------------------------------
(* In an array in order, the ranges below a location, and those a range    *)
(* touches, are neighbours.                                                *)

LEMMA RangeNumbers ==
    ASSUME NEW r \in AnyRange
    PROVE  /\ r.location \in Nat /\ r.length \in Nat /\ End(r) \in Nat
           /\ End(r) = r.location + r.length
BY DEF AnyRange, End

LEMMA MakeFacts ==
    ASSUME NEW a \in Nat, NEW n \in Nat
    PROVE  /\ Make(a, n) \in AnyRange
           /\ Make(a, n).location = a /\ Make(a, n).length = n /\ End(Make(a, n)) = a + n
BY DEF Make, AnyRange, End

(* Each range ends before every later one begins, not just the next.       *)
Apart(s) == \A i, j \in 1 .. Len(s) : i < j => End(s[i]) <= s[j].location

Proper(s) == \A i \in 1 .. Len(s) : s[i].length > 0 /\ IsValid(s[i])

LEMMA InOrderApart ==
    ASSUME NEW s \in Seq(AnyRange)
    PROVE  InOrder(s) <=> Proper(s) /\ Apart(s)
<1>1. /\ Len(s) \in Nat /\ DOMAIN s = 1 .. Len(s)
      /\ \A i \in 1 .. Len(s) : s[i] \in AnyRange
  OBVIOUS
<1>2. \A i \in 1 .. Len(s) : /\ s[i].location \in Nat /\ s[i].length \in Nat
                             /\ End(s[i]) \in Nat /\ s[i].location <= End(s[i])
  BY <1>1, RangeNumbers
<1>3. ASSUME InOrder(s) PROVE Apart(s)
  <2> DEFINE T == {d \in Nat : \A i, j \in 1 .. Len(s) :
                       j = i + 1 + d => End(s[i]) <= s[j].location}
  <2>1. 0 \in T
    <3> SUFFICES ASSUME NEW i \in 1 .. Len(s), NEW j \in 1 .. Len(s), j = i + 1 + 0
                 PROVE  End(s[i]) <= s[j].location
      OBVIOUS
    <3>1. i \in 1 .. Len(s) - 1 /\ j = i + 1
      BY <1>1
    <3> QED
      BY <1>3, <3>1 DEF InOrder
  <2>2. ASSUME NEW d \in Nat, d \in T PROVE d + 1 \in T
    <3> SUFFICES ASSUME NEW i \in 1 .. Len(s), NEW j \in 1 .. Len(s), j = i + 1 + (d + 1)
                 PROVE  End(s[i]) <= s[j].location
      OBVIOUS
    <3>1. j - 1 \in 1 .. Len(s) /\ j - 1 \in 1 .. Len(s) - 1 /\ j - 1 = i + 1 + d /\ (j - 1) + 1 = j
      BY <1>1
    <3>2. End(s[i]) <= s[j - 1].location
      BY <2>2, <3>1
    <3>3. End(s[j - 1]) <= s[j].location
      BY <1>3, <3>1 DEF InOrder
    <3> QED
      BY <1>2, <3>1, <3>2, <3>3
  <2> HIDE DEF T
  <2>3. \A d \in Nat : d \in T
    BY <2>1, <2>2, Induction
  <2>4. ASSUME NEW i \in 1 .. Len(s), NEW j \in 1 .. Len(s), i < j
        PROVE  End(s[i]) <= s[j].location
    <3>1. j - i - 1 \in Nat /\ j = i + 1 + (j - i - 1)
      BY <2>4
    <3>2. j - i - 1 \in T
      BY <2>3, <3>1
    <3> QED
      BY <3>1, <3>2 DEF T
  <2> QED
    BY <2>4 DEF Apart
<1>4. ASSUME Apart(s) PROVE \A i \in 1 .. Len(s) - 1 : End(s[i]) <= s[i + 1].location
  BY <1>1, <1>4 DEF Apart
<1>5. InOrder(s) => Proper(s)
  BY <1>1 DEF InOrder, Proper
<1>6. Proper(s) => \A i \in DOMAIN s : s[i].length > 0 /\ IsValid(s[i])
  BY <1>1 DEF Proper
<1> QED
  BY <1>3, <1>4, <1>5, <1>6 DEF InOrder

(* _mulle_range_hole_bsearch splits the array at the location.             *)
LEMMA HoleFacts ==
    ASSUME NEW s \in Seq(AnyRange), InOrder(s), NEW l \in Nat
    PROVE  /\ HoleIndex(s, l) \in 0 .. Len(s)
           /\ \A i \in 1 .. Len(s) : i <= HoleIndex(s, l) <=> s[i].location < l
<1> DEFINE T == {i \in DOMAIN s : s[i].location < l}
<1>1. /\ Len(s) \in Nat /\ DOMAIN s = 1 .. Len(s)
      /\ \A i \in 1 .. Len(s) : s[i].location \in Nat /\ End(s[i]) \in Nat
                                /\ s[i].location <= End(s[i])
  <2>1. \A i \in 1 .. Len(s) : s[i] \in AnyRange
    OBVIOUS
  <2> QED
    BY <2>1, RangeNumbers
<1>2. Apart(s)
  BY InOrderApart
<1>3. T \subseteq 1 .. Len(s)
  BY <1>1
<1>4. ASSUME NEW i \in 1 .. Len(s), NEW j \in 1 .. Len(s), i < j, j \in T PROVE i \in T
  <2>1. End(s[i]) <= s[j].location /\ s[j].location < l
    BY <1>2, <1>4 DEF Apart
  <2> QED
    BY <1>1, <2>1
<1>5. HoleIndex(s, l) = Cardinality(T)
  BY DEF HoleIndex
<1>6. \A i \in 1 .. Len(s) : i \in T <=> s[i].location < l
  BY <1>1
<1> HIDE DEF T
<1>7. Cardinality(T) \in 0 .. Len(s) /\ T = 1 .. Cardinality(T)
  BY <1>1, <1>3, <1>4, Initial
<1>8. \A i \in 1 .. Len(s) : i <= Cardinality(T) <=> i \in T
  BY <1>1, <1>7
<1> QED
  BY <1>5, <1>6, <1>7, <1>8

-----------------------------------------------------------------------------
(* Arrays of ranges *)

RangeSeq == Seq(AnyRange)

Usable(r) == r \in AnyRange /\ r.length > 0 /\ IsValid(r)

LEMMA SeqFacts ==
    ASSUME NEW s \in RangeSeq
    PROVE  /\ Len(s) \in Nat /\ DOMAIN s = 1 .. Len(s)
           /\ \A i \in 1 .. Len(s) : /\ s[i] \in AnyRange
                                     /\ s[i].location \in Nat /\ s[i].length \in Nat
                                     /\ End(s[i]) \in Nat
                                     /\ End(s[i]) = s[i].location + s[i].length
<1>1. /\ Len(s) \in Nat /\ DOMAIN s = 1 .. Len(s)
      /\ \A i \in 1 .. Len(s) : s[i] \in AnyRange
  BY DEF RangeSeq
<1> QED
  BY <1>1, RangeNumbers

(* A member of an array in order, and its place among the others.          *)
LEMMA MemberFacts ==
    ASSUME NEW s \in RangeSeq, InOrder(s)
    PROVE  /\ Len(s) \in Nat /\ LocationMax \in Nat
           /\ \A i \in 1 .. Len(s) :
                 /\ Usable(s[i]) /\ s[i].location \in Nat /\ End(s[i]) \in Nat
                 /\ s[i].location < End(s[i])
                 /\ s[i].location <= LocationMax /\ End(s[i]) <= LocationMax + 1
           /\ \A i, j \in 1 .. Len(s) : i < j => End(s[i]) <= s[j].location
<1>1. Proper(s) /\ Apart(s)
  BY InOrderApart DEF RangeSeq
<1>2. \A i \in 1 .. Len(s) : Usable(s[i]) /\ s[i].location < End(s[i])
  BY <1>1, SeqFacts DEF Proper, Usable
<1> QED
  BY <1>1, <1>2, SeqFacts, RangesAssumption DEF Apart, Usable, IsValid

LEMMA UsableNumbers ==
    ASSUME NEW r, Usable(r)
    PROVE  /\ r.location \in Nat /\ End(r) \in Nat /\ r.location < End(r)
           /\ LocationMax \in Nat /\ r.location <= LocationMax /\ End(r) <= LocationMax + 1
BY RangeNumbers, RangesAssumption DEF Usable, IsValid

(* Two usable ranges that do not intersect are one behind the other.       *)
LEMMA BehindEachOther ==
    ASSUME NEW a, NEW b, Usable(a), Usable(b), ~ Intersects(a, b)
    PROVE  End(a) <= b.location \/ End(b) <= a.location
BY UsableNumbers DEF Intersects

(* A range that touches none fits where the search finds the hole.         *)
LEMMA HoleFits ==
    ASSUME NEW s \in RangeSeq, InOrder(s), NEW r, Usable(r), Touched(s, r) = {}
    PROVE  /\ HoleIndex(s, r.location) \in 0 .. Len(s)
           /\ \A i \in 1 .. Len(s) :
                 /\ i <= HoleIndex(s, r.location) => End(s[i]) <= r.location
                 /\ i > HoleIndex(s, r.location) => End(r) <= s[i].location
<1>1. /\ r.location \in Nat /\ End(r) \in Nat /\ r.location < End(r)
  BY UsableNumbers
<1>2. /\ HoleIndex(s, r.location) \in 0 .. Len(s)
      /\ \A i \in 1 .. Len(s) : i <= HoleIndex(s, r.location) <=> s[i].location < r.location
  BY <1>1, HoleFacts DEF RangeSeq
<1>3. ASSUME NEW i \in 1 .. Len(s)
      PROVE  /\ i <= HoleIndex(s, r.location) => End(s[i]) <= r.location
             /\ i > HoleIndex(s, r.location) => End(r) <= s[i].location
  <2>1. /\ Usable(s[i]) /\ s[i].location \in Nat /\ End(s[i]) \in Nat
        /\ s[i].location < End(s[i])
    BY MemberFacts
  <2>2. ~ Intersects(s[i], r)
    BY SeqFacts DEF Touched
  <2>3. End(s[i]) <= r.location \/ End(r) <= s[i].location
    BY <2>1, <2>2, BehindEachOther
  <2>4. i \in Nat /\ HoleIndex(s, r.location) \in Nat
    BY <1>2, SeqFacts
  <2> QED
    BY <1>1, <1>2, <2>1, <2>3, <2>4
<1> QED
  BY <1>2, <1>3

-----------------------------------------------------------------------------
Cell == ValidRanges \cup Value \cup {Junk}

(* The two halves of the buffer, and that the ranges are in order.         *)
MapOK(m) ==
    /\ m = [cells |-> m.cells, length |-> m.length, size |-> m.size]
    /\ m.size \in Nat /\ m.length \in Nat /\ m.length <= m.size
    /\ m.cells \in [1 .. 2 * m.size -> Cell]
    /\ \A i \in 1 .. m.length : m.cells[i] \in ValidRanges /\ m.cells[m.size + i] \in Value
    /\ \A i, j \in 1 .. m.length : i < j => End(m.cells[i]) <= m.cells[j].location

-----------------------------------------------------------------------------
(* What is in the buffer *)

LEMMA ValidFacts ==
    /\ \A r \in ValidRanges : r \in AnyRange /\ Usable(r)
    /\ \A r \in AnyRange : r \in ValidRanges <=> ~ Rejected(r)
<1>1. LocationMax \in Nat
  BY RangesAssumption
<1>2. \A r \in ValidRanges : r \in AnyRange /\ Usable(r)
  BY <1>1 DEF ValidRanges, AnyRange, Location, Usable
<1>3. ASSUME NEW r \in AnyRange PROVE r \in ValidRanges <=> ~ Rejected(r)
  <2>1. r = [location |-> r.location, length |-> r.length]
    BY DEF AnyRange
  <2>2. r.location \in Nat /\ r.length \in Nat /\ End(r) = r.location + r.length
    BY RangeNumbers
  <2>3. ASSUME ~ Rejected(r) PROVE r.location \in Location /\ r.length \in 1 .. LocationMax + 1
    BY <1>1, <2>2, <2>3 DEF Rejected, IsValid, Location
  <2>4. ~ Rejected(r) => r \in ValidRanges
    BY <2>1, <2>3 DEF ValidRanges, Rejected
  <2>5. r \in ValidRanges => ~ Rejected(r)
    BY <1>1 DEF ValidRanges, Rejected
  <2> QED
    BY <2>4, <2>5
<1> QED
  BY <1>2, <1>3

LEMMA HalvesFacts ==
    ASSUME NEW m, MapOK(m)
    PROVE  /\ m.length \in Nat /\ m.size \in Nat
           /\ RangesOf(m) \in RangeSeq /\ Len(RangesOf(m)) = m.length
           /\ InOrder(RangesOf(m)) /\ DOMAIN RangesOf(m) = 1 .. m.length
           /\ \A i \in 1 .. m.length : /\ RangesOf(m)[i] = m.cells[i]
                                       /\ ValuesOf(m)[i] = m.cells[m.size + i]
           /\ \A r : Touched(RangesOf(m), r) = {i \in 1 .. m.length : Intersects(m.cells[i], r)}
<1>1. PICK n, rs : n \in Nat /\ n = m.length /\ rs = [i \in 1 .. n |-> m.cells[i]]
  BY DEF MapOK
<1>2. RangesOf(m) = rs
  BY <1>1 DEF RangesOf
<1>3. \A i \in 1 .. n : m.cells[i] \in AnyRange /\ Usable(m.cells[i])
  BY <1>1, ValidFacts DEF MapOK
<1>4. rs \in RangeSeq /\ Len(rs) = n /\ DOMAIN rs = 1 .. n
  BY <1>1, <1>3 DEF RangeSeq
<1>5. Proper(rs) /\ Apart(rs)
  <2>1. \A i \in 1 .. n : rs[i] = m.cells[i]
    BY <1>1
  <2>2. Proper(rs)
    BY <1>3, <1>4, <2>1 DEF Proper, Usable
  <2>3. Apart(rs)
    BY <1>1, <1>4, <2>1 DEF Apart, MapOK
  <2> QED
    BY <2>2, <2>3
<1>6. InOrder(rs)
  BY <1>4, <1>5, InOrderApart DEF RangeSeq
<1>7. \A i \in 1 .. n : rs[i] = m.cells[i] /\ ValuesOf(m)[i] = m.cells[m.size + i]
  BY <1>1 DEF ValuesOf
<1>8. \A r : Touched(rs, r) = {i \in 1 .. n : Intersects(m.cells[i], r)}
  BY <1>4, <1>7 DEF Touched
<1> QED
  BY <1>1, <1>2, <1>4, <1>6, <1>7, <1>8 DEF MapOK

(* A place of the buffer that is used, and its range.                      *)
LEMMA PlaceFacts ==
    ASSUME NEW m, MapOK(m), NEW i \in 1 .. m.length
    PROVE  /\ i \in Nat /\ m.cells[i] \in AnyRange /\ Usable(m.cells[i])
           /\ m.cells[i].location \in Nat /\ End(m.cells[i]) \in Nat
           /\ m.cells[i].location < End(m.cells[i])
<1>1. m.cells[i] \in AnyRange /\ Usable(m.cells[i])
  BY ValidFacts DEF MapOK
<1> QED
  BY <1>1, UsableNumbers

(* Ranges that have a location in common are the same.                     *)
LEMMA PlacesApart ==
    ASSUME NEW m, MapOK(m), NEW i \in 1 .. m.length, NEW j \in 1 .. m.length,
           Intersects(m.cells[i], m.cells[j])
    PROVE  i = j
<1>1. /\ m.cells[i].location < End(m.cells[j]) /\ m.cells[j].location < End(m.cells[i])
  BY DEF Intersects
<1>2. /\ i \in Nat /\ j \in Nat
      /\ m.cells[i].location \in Nat /\ End(m.cells[i]) \in Nat
      /\ m.cells[j].location \in Nat /\ End(m.cells[j]) \in Nat
  BY PlaceFacts
<1>3. /\ i < j => End(m.cells[i]) <= m.cells[j].location
      /\ j < i => End(m.cells[j]) <= m.cells[i].location
  BY DEF MapOK
<1> QED
  BY <1>1, <1>2, <1>3

-----------------------------------------------------------------------------
(* Moving cells *)

(* What memmove of k cells leaves in the n cells of a buffer.               *)
Moves(r, n, cells, to, from, k) ==
    \A i \in 1 .. n : /\ i < to \/ i >= to + k => r[i] = cells[i]
                      /\ i >= to /\ i < to + k => r[i] = cells[i - to + from]

LEMMA MoveFacts ==
    ASSUME NEW n \in Nat, NEW cells \in [1 .. n -> Cell],
           NEW to \in Nat, NEW from \in Nat, NEW k \in Nat,
           to >= 1, from >= 1, from + k <= n + 1,
           NEW r, r = MoveCells(cells, to, from, k)
    PROVE  r \in [1 .. n -> Cell] /\ Moves(r, n, cells, to, from, k)
<1>1. \A i \in 1 .. n : i \in to .. to + k - 1 <=> i >= to /\ i < to + k
  OBVIOUS
<1>2. r = [i \in 1 .. n |-> IF i \in to .. to + k - 1 THEN cells[i - to + from] ELSE cells[i]]
  BY DEF MoveCells
<1>3. \A i \in 1 .. n : i >= to /\ i < to + k => i - to + from \in 1 .. n
  OBVIOUS
<1> QED
  BY <1>1, <1>2, <1>3 DEF Moves

(* Growing keeps the entries and makes room for another.                   *)
LEMMA GrownFacts ==
    ASSUME NEW m, MapOK(m), NEW g, g = IF m.length >= m.size THEN Grown(m) ELSE m
    PROVE  /\ MapOK(g) /\ g.length = m.length /\ m.length < g.size
           /\ \A i \in 1 .. m.length : /\ g.cells[i] = m.cells[i]
                                       /\ g.cells[g.size + i] = m.cells[m.size + i]
<1>1. CASE m.length < m.size
  <2>1. g = m
    BY <1>1 DEF MapOK
  <2> QED
    BY <1>1, <2>1
<1>2. CASE ~ (m.length < m.size)
  <2>0. PICK n, old, c : /\ n \in Nat /\ old \in Nat /\ n <= old
                         /\ n = m.length /\ old = m.size /\ c = m.cells
    BY DEF MapOK
  <2> DEFINE new == IF old = 0 THEN 2 ELSE 2 * old
             cells == Resized(m, new)
             moved == MoveCells(cells, new + 1, old + 1, n)
  <2>1. /\ n \in Nat /\ old \in Nat /\ new \in Nat
        /\ n <= old /\ n < new /\ old < new /\ n = m.length /\ old = m.size
    BY <2>0
  <2>2. cells = Resized(m, new)
    OBVIOUS
  <2>3. moved = MoveCells(cells, new + 1, old + 1, n)
    OBVIOUS
  <2>4. g = [cells |-> moved, length |-> n, size |-> new]
    <3>1. m.length >= m.size
      BY <2>1, <1>2
    <3>2. g = [m EXCEPT !.size = new, !.cells = moved]
      BY <2>1, <3>1 DEF Grown
    <3>3. m = [cells |-> c, length |-> n, size |-> old]
      BY <2>0 DEF MapOK
    <3> HIDE DEF moved, new
    <3> QED
      BY <3>2, <3>3
  <2> HIDE DEF new, cells, moved
  <2>5. /\ cells \in [1 .. 2 * new -> Cell]
        /\ \A i \in 1 .. 2 * old : i \in 1 .. 2 * new /\ cells[i] = m.cells[i]
    <3>1. m.cells \in [1 .. 2 * old -> Cell] /\ Junk \in Cell
      BY <2>1 DEF MapOK, Cell
    <3>2. cells = [k \in 1 .. 2 * new |-> IF k <= 2 * old THEN m.cells[k] ELSE Junk]
      BY <2>1, <2>2 DEF Resized
    <3>3. \A k \in 1 .. 2 * new : k <= 2 * old => k \in 1 .. 2 * old
      BY <2>1
    <3>4. \A k \in 1 .. 2 * old : k \in 1 .. 2 * new /\ k <= 2 * old
      BY <2>1
    <3> QED
      BY <3>1, <3>2, <3>3, <3>4
  <2>6. /\ moved \in [1 .. 2 * new -> Cell]
        /\ \A i \in 1 .. 2 * new :
              /\ i < new + 1 \/ i >= new + 1 + n => moved[i] = cells[i]
              /\ i >= new + 1 /\ i < new + 1 + n => moved[i] = cells[i - (new + 1) + (old + 1)]
    <3>1. PICK size, to, from : size = 2 * new /\ to = new + 1 /\ from = old + 1
      OBVIOUS
    <3>2. size \in Nat /\ to \in Nat /\ from \in Nat
      BY <2>1, <3>1
    <3>3. to >= 1 /\ from >= 1 /\ from + n <= size + 1
      BY <2>1, <3>1
    <3>4. cells \in [1 .. size -> Cell]
      BY <2>5, <3>1
    <3>6. moved = MoveCells(cells, to, from, n)
      BY <2>3, <3>1
    <3>7. n \in Nat
      BY <2>1
    <3>5. moved \in [1 .. size -> Cell] /\ Moves(moved, size, cells, to, from, n)
      BY <3>2, <3>3, <3>4, <3>6, <3>7, MoveFacts
    <3> QED
      BY <3>1, <3>5 DEF Moves
  <2>7. \A i \in 1 .. n : /\ moved[i] = m.cells[i]
                          /\ moved[new + i] = m.cells[old + i]
    <3> TAKE i \in 1 .. n
    <3>1. /\ i \in 1 .. 2 * new /\ i < new + 1 /\ i \in 1 .. 2 * old
          /\ new + i \in 1 .. 2 * new /\ new + i >= new + 1 /\ new + i < new + 1 + n
          /\ (new + i) - (new + 1) + (old + 1) = old + i /\ old + i \in 1 .. 2 * old
      BY <2>1
    <3> QED
      BY <2>5, <2>6, <3>1
  <2>8. /\ g.cells = moved /\ g.length = n /\ g.size = new /\ n < new
    BY <2>1, <2>4
  <2>9. MapOK(g)
    <3>1. \A i \in 1 .. n : moved[i] \in ValidRanges /\ moved[new + i] \in Value
      BY <2>1, <2>7 DEF MapOK
    <3>2. \A i, j \in 1 .. n : i < j => End(moved[i]) <= moved[j].location
      BY <2>1, <2>7 DEF MapOK
    <3>3. g.size \in Nat /\ g.length \in Nat /\ g.length <= g.size
      BY <2>1, <2>8
    <3>4. g.cells \in [1 .. 2 * g.size -> Cell]
      BY <2>6, <2>8
    <3>5. \A i \in 1 .. g.length : g.cells[i] \in ValidRanges /\ g.cells[g.size + i] \in Value
      BY <2>8, <3>1
    <3>6. \A i, j \in 1 .. g.length : i < j => End(g.cells[i]) <= g.cells[j].location
      BY <2>8, <3>2
    <3>7. g = [cells |-> g.cells, length |-> g.length, size |-> g.size]
      BY <2>4, <2>8
    <3> QED
      BY <3>3, <3>4, <3>5, <3>6, <3>7 DEF MapOK
  <2> QED
    BY <2>1, <2>7, <2>8, <2>9
<1> QED
  BY <1>1, <1>2

-----------------------------------------------------------------------------
(* Insertion *)

(* h is m with an entry more at place p.                                   *)
EntryAdded(h, m, p, r, v) ==
    /\ h.length = m.length + 1
    /\ h.cells[p] = r /\ h.cells[h.size + p] = v
    /\ \A i \in 1 .. m.length :
          /\ i < p => /\ h.cells[i] = m.cells[i]
                      /\ h.cells[h.size + i] = m.cells[m.size + i]
          /\ i >= p => /\ h.cells[i + 1] = m.cells[i]
                       /\ h.cells[h.size + (i + 1)] = m.cells[m.size + i]

(* memmove opens the same gap in both halves.                              *)
WithGap(c, s, p, a, r, v) ==
    [MoveCells(MoveCells(c, p + 1, p, a), s + p + 1, s + p, a) EXCEPT ![p] = r, ![s + p] = v]

GapFilled(e, c, n, s, p, r, v) ==
    /\ e \in [1 .. 2 * s -> Cell]
    /\ e[p] = r /\ e[s + p] = v
    /\ \A i \in 1 .. n :
          /\ i < p => e[i] = c[i] /\ e[s + i] = c[s + i]
          /\ i >= p => e[i + 1] = c[i] /\ e[s + (i + 1)] = c[s + i]

LEMMA GapFacts ==
    ASSUME NEW n \in Nat, NEW s \in Nat, n < s, NEW p \in Nat, 1 <= p, p <= n + 1,
           NEW c \in [1 .. 2 * s -> Cell], NEW r \in ValidRanges, NEW v \in Value,
           NEW a \in Nat, a = n - p + 1,
           NEW e, e = WithGap(c, s, p, a, r, v)
    PROVE  GapFilled(e, c, n, s, p, r, v)
<1>1. PICK N, to, up, from : N = 2 * s /\ to = p + 1 /\ up = s + p + 1 /\ from = s + p
  OBVIOUS
<1>2. N \in Nat /\ to \in Nat /\ up \in Nat /\ from \in Nat
  BY <1>1
<1>3. PICK c1 : c1 = MoveCells(c, to, p, a)
  OBVIOUS
<1>4. PICK c2 : c2 = MoveCells(c1, up, from, a)
  OBVIOUS
<1>5. e = [c2 EXCEPT ![p] = r, ![from] = v]
  BY <1>1, <1>3, <1>4 DEF WithGap
<1>6. c1 \in [1 .. N -> Cell] /\ Moves(c1, N, c, to, p, a)
  <2>1. to >= 1 /\ p >= 1 /\ p + a <= N + 1
    BY <1>1
  <2>2. c \in [1 .. N -> Cell]
    BY <1>1
  <2> QED
    BY <1>2, <1>3, <2>1, <2>2, MoveFacts
<1>7. c2 \in [1 .. N -> Cell] /\ Moves(c2, N, c1, up, from, a)
  <2>1. up >= 1 /\ from >= 1 /\ from + a <= N + 1
    BY <1>1
  <2> QED
    BY <1>2, <1>4, <1>6, <2>1, MoveFacts
<1>8. p \in 1 .. N /\ from \in 1 .. N /\ p # from
  BY <1>1
<1>9. r \in Cell /\ v \in Cell
  BY DEF Cell
<1>10. /\ e \in [1 .. N -> Cell] /\ e[p] = r /\ e[from] = v
       /\ \A i \in 1 .. N : i # p /\ i # from => e[i] = c2[i]
  <2>1. PICK d : d = [c2 EXCEPT ![p] = r]
    OBVIOUS
  <2>2. c2 \in [1 .. N -> Cell]
    BY <1>7
  <2>3. d \in [1 .. N -> Cell] /\ d[p] = r /\ \A i \in 1 .. N : i # p => d[i] = c2[i]
    BY <1>8, <1>9, <2>1, <2>2
  <2>4. e = [d EXCEPT ![from] = v]
    BY <1>5, <2>1
  <2>5. /\ e \in [1 .. N -> Cell] /\ e[from] = v
        /\ \A i \in 1 .. N : i # from => e[i] = d[i]
    BY <1>8, <1>9, <2>3, <2>4
  <2> QED
    BY <1>8, <2>3, <2>5
<1>11. ASSUME NEW i \in 1 .. n, i < p PROVE e[i] = c[i] /\ e[s + i] = c[s + i]
  <2>1. PICK k : k = s + i
    OBVIOUS
  <2>2. /\ i \in 1 .. N /\ i < to /\ i < up /\ i # p /\ i # from
        /\ k \in 1 .. N /\ k >= to + a /\ k < up /\ k # p /\ k # from
    BY <1>1, <1>11, <2>1
  <2>3. c1[i] = c[i] /\ c1[k] = c[k]
    BY <1>6, <2>2 DEF Moves
  <2>4. c2[i] = c1[i] /\ c2[k] = c1[k]
    BY <1>7, <2>2 DEF Moves
  <2> QED
    BY <1>10, <2>1, <2>2, <2>3, <2>4
<1>12. ASSUME NEW i \in 1 .. n, i >= p PROVE e[i + 1] = c[i] /\ e[s + (i + 1)] = c[s + i]
  <2>1. PICK j, k, l : j = i + 1 /\ k = s + i /\ l = s + (i + 1)
    OBVIOUS
  <2>2. /\ j \in 1 .. N /\ j >= to /\ j < to + a /\ j < up /\ j # p /\ j # from
        /\ j - to + p = i
        /\ k \in 1 .. N /\ k >= to + a
        /\ l \in 1 .. N /\ l >= up /\ l < up + a /\ l # p /\ l # from
        /\ l - up + from = k
    BY <1>1, <1>12, <2>1
  <2>3. c1[j] = c[i] /\ c1[k] = c[k]
    BY <1>6, <2>2 DEF Moves
  <2>4. c2[j] = c1[j] /\ c2[l] = c1[k]
    BY <1>7, <2>2 DEF Moves
  <2> QED
    BY <1>10, <2>1, <2>2, <2>3, <2>4
<1> QED
  BY <1>1, <1>10, <1>11, <1>12 DEF GapFilled

LEMMA InsertCells ==
    ASSUME NEW m, MapOK(m), NEW r \in ValidRanges, NEW v \in Value,
           NEW h, h = WithEntry(m, r, v),
           NEW p, p = HoleIndex(RangesOf(m), r.location) + 1
    PROVE  /\ p \in Nat /\ 1 <= p /\ p <= m.length + 1
           /\ h = [cells |-> h.cells, length |-> h.length, size |-> h.size]
           /\ h.size \in Nat /\ h.length \in Nat /\ h.length <= h.size
           /\ h.cells \in [1 .. 2 * h.size -> Cell]
           /\ EntryAdded(h, m, p, r, v)
<1>1. PICK g : g = IF m.length >= m.size THEN Grown(m) ELSE m
  OBVIOUS
<1>2. /\ MapOK(g) /\ g.length = m.length /\ m.length < g.size
      /\ \A i \in 1 .. m.length : /\ g.cells[i] = m.cells[i]
                                  /\ g.cells[g.size + i] = m.cells[m.size + i]
  BY <1>1, GrownFacts
<1>3. PICK n, s, c : n = m.length /\ s = g.size /\ c = g.cells
  OBVIOUS
<1>4. /\ n \in Nat /\ s \in Nat /\ n < s /\ c \in [1 .. 2 * s -> Cell]
      /\ g = [cells |-> c, length |-> n, size |-> s]
  BY <1>2, <1>3 DEF MapOK
<1>5. p \in Nat /\ 1 <= p /\ p <= n + 1
  <2>1. /\ RangesOf(m) \in Seq(AnyRange) /\ InOrder(RangesOf(m)) /\ Len(RangesOf(m)) = n
    BY <1>3, HalvesFacts DEF RangeSeq
  <2>2. r.location \in Nat
    BY ValidFacts, UsableNumbers
  <2>3. HoleIndex(RangesOf(m), r.location) \in 0 .. n
    BY <2>1, <2>2, HoleFacts
  <2> QED
    BY <1>4, <2>3
<1>6. PICK a : a = n - p + 1
  OBVIOUS
<1>7. a \in Nat
  BY <1>4, <1>5, <1>6
<1>8. PICK e : e = WithGap(c, s, p, a, r, v)
  OBVIOUS
<1>9. h = [g EXCEPT !.length = @ + 1, !.cells = e]
  BY <1>1, <1>3, <1>6, <1>8 DEF WithEntry, WithGap
<1>10. PICK l : l = n + 1
  OBVIOUS
<1>11. h = [cells |-> e, length |-> l, size |-> s]
  BY <1>4, <1>9, <1>10
<1>12. GapFilled(e, c, n, s, p, r, v)
  BY <1>4, <1>5, <1>6, <1>7, <1>8, GapFacts
<1>13. h.cells = e /\ h.length = l /\ h.size = s
  BY <1>11
<1>14. EntryAdded(h, m, p, r, v)
  BY <1>2, <1>3, <1>10, <1>12, <1>13 DEF EntryAdded, GapFilled
<1>15. l \in Nat /\ l <= s
  BY <1>4, <1>10
<1>16. h.cells \in [1 .. 2 * h.size -> Cell]
  BY <1>12, <1>13 DEF GapFilled
<1>17. /\ h = [cells |-> h.cells, length |-> h.length, size |-> h.size]
       /\ h.size \in Nat /\ h.length \in Nat /\ h.length <= h.size
  BY <1>4, <1>11, <1>13, <1>15
<1>18. p <= m.length + 1
  BY <1>3, <1>5
<1> QED
  BY <1>5, <1>14, <1>16, <1>17, <1>18

(* A range that intersects none of the map finds its place among them.     *)
LEMMA InsertKeeps ==
    ASSUME NEW m, MapOK(m), NEW r \in ValidRanges, NEW v \in Value, ~ IsTaken(m, r),
           NEW h, h = WithEntry(m, r, v),
           NEW p, p = HoleIndex(RangesOf(m), r.location) + 1
    PROVE  MapOK(h)
<1>1. PICK n : n = m.length
  OBVIOUS
<1>2. n \in Nat
  BY <1>1 DEF MapOK
<1>3. /\ p \in Nat /\ 1 <= p /\ p <= n + 1
      /\ h = [cells |-> h.cells, length |-> h.length, size |-> h.size]
      /\ h.size \in Nat /\ h.length \in Nat /\ h.length <= h.size
      /\ h.cells \in [1 .. 2 * h.size -> Cell]
      /\ EntryAdded(h, m, p, r, v)
  BY <1>1, InsertCells
<1>4. PICK c, s : c = h.cells /\ s = h.size
  OBVIOUS
<1>5. /\ h.length = n + 1 /\ c[p] = r /\ c[s + p] = v
      /\ \A i \in 1 .. n : /\ i < p => c[i] = m.cells[i] /\ c[s + i] = m.cells[m.size + i]
                           /\ i >= p => /\ c[i + 1] = m.cells[i]
                                        /\ c[s + (i + 1)] = m.cells[m.size + i]
  BY <1>1, <1>3, <1>4 DEF EntryAdded
<1>6. /\ \A i \in 1 .. n : m.cells[i] \in ValidRanges /\ m.cells[m.size + i] \in Value
      /\ \A i, j \in 1 .. n : i < j => End(m.cells[i]) <= m.cells[j].location
  BY <1>1 DEF MapOK
<1>7. \A i \in 1 .. n : /\ i < p => End(m.cells[i]) <= r.location
                        /\ i >= p => End(r) <= m.cells[i].location
  <2>1. PICK s1, b : s1 = RangesOf(m) /\ b = HoleIndex(s1, r.location)
    OBVIOUS
  <2>2. /\ s1 \in RangeSeq /\ InOrder(s1) /\ Len(s1) = n
        /\ \A i \in 1 .. n : s1[i] = m.cells[i]
    BY <1>1, <2>1, HalvesFacts
  <2>3. Usable(r) /\ Touched(s1, r) = {}
    BY <2>1, ValidFacts DEF IsTaken
  <2>4. /\ b \in 0 .. n
        /\ \A i \in 1 .. n : /\ i <= b => End(s1[i]) <= r.location
                             /\ i > b => End(r) <= s1[i].location
    BY <2>1, <2>2, <2>3, HoleFits
  <2>5. p = b + 1
    BY <2>1
  <2>6. \A i \in 1 .. n : (i < p <=> i <= b) /\ (i >= p <=> i > b)
    BY <1>2, <2>4, <2>5
  <2> QED
    BY <2>2, <2>4, <2>6
(* where the entry i of h comes from *)
<1>8. \A i \in 1 .. n + 1 :
          \/ i < p /\ i \in 1 .. n /\ c[i] = m.cells[i] /\ c[s + i] = m.cells[m.size + i]
          \/ i = p /\ c[i] = r /\ c[s + i] = v
          \/ /\ i > p /\ i - 1 \in 1 .. n /\ i - 1 >= p
             /\ c[i] = m.cells[i - 1] /\ c[s + i] = m.cells[m.size + (i - 1)]
  <2> SUFFICES ASSUME NEW i \in 1 .. n + 1, i > p
               PROVE  /\ i - 1 \in 1 .. n /\ i - 1 >= p
                      /\ c[i] = m.cells[i - 1] /\ c[s + i] = m.cells[m.size + (i - 1)]
    BY <1>2, <1>3, <1>5
  <2>1. PICK k : k = i - 1
    OBVIOUS
  <2>2. k \in 1 .. n /\ k >= p /\ k + 1 = i
    BY <1>2, <1>3, <2>1
  <2> QED
    BY <1>5, <2>1, <2>2
<1>9. \A i \in 1 .. n + 1 : c[i] \in ValidRanges /\ c[s + i] \in Value
  BY <1>6, <1>8
<1>10. ASSUME NEW i \in 1 .. n + 1, NEW j \in 1 .. n + 1, i < j
       PROVE  End(c[i]) <= c[j].location
  <2>1. i \in Nat /\ j \in Nat
    BY <1>2
  <2>2. CASE j < p
    BY <1>3, <1>6, <1>8, <1>10, <2>1, <2>2
  <2>3. CASE j = p
    <3>1. i < p
      BY <1>10, <2>3
    <3>2. c[j] = r /\ i \in 1 .. n /\ c[i] = m.cells[i]
      BY <1>3, <1>8, <2>1, <2>3, <3>1
    <3> QED
      BY <1>7, <3>1, <3>2
  <2>4. CASE j > p
    <3>1. PICK k : k = j - 1
      OBVIOUS
    <3>2. k \in 1 .. n /\ k >= p /\ c[j] = m.cells[k]
      BY <1>3, <1>8, <2>1, <2>4, <3>1
    <3>3. CASE i < p
      <4>1. i \in 1 .. n /\ c[i] = m.cells[i]
        BY <1>3, <1>8, <2>1, <3>3
      <4>2. i < k
        BY <1>3, <3>2, <3>3, <2>1
      <4> QED
        BY <1>6, <3>2, <4>1, <4>2
    <3>4. CASE i = p
      BY <1>3, <1>5, <1>7, <3>2, <3>4
    <3>5. CASE i > p
      <4>1. PICK l : l = i - 1
        OBVIOUS
      <4>2. l \in 1 .. n /\ c[i] = m.cells[l]
        BY <1>3, <1>8, <2>1, <3>5, <4>1
      <4>3. l < k
        BY <1>10, <2>1, <3>1, <4>1
      <4> QED
        BY <1>6, <3>2, <4>2, <4>3
    <3> QED
      BY <1>3, <2>1, <3>3, <3>4, <3>5
  <2> QED
    BY <1>3, <2>1, <2>2, <2>3, <2>4
<1>11. \A i \in 1 .. h.length : h.cells[i] \in ValidRanges /\ h.cells[h.size + i] \in Value
  BY <1>4, <1>5, <1>9
<1>12. \A i, j \in 1 .. h.length : i < j => End(h.cells[i]) <= h.cells[j].location
  BY <1>4, <1>5, <1>10
<1> QED
  BY <1>3, <1>11, <1>12 DEF MapOK

-----------------------------------------------------------------------------
(* Removal *)

(* h holds the first l entries of c, in halves of s places.                *)
Holding(h, c, l, s) ==
    /\ h = [cells |-> h.cells, length |-> l, size |-> s]
    /\ h.length = l /\ h.size = s /\ h.cells \in [1 .. 2 * s -> Cell]
    /\ \A i \in 1 .. l : h.cells[i] = c[i] /\ h.cells[s + i] = c[s + i]

LEMMA TidiedFacts ==
    ASSUME NEW s \in Nat, NEW l \in Nat, l <= s, NEW c \in [1 .. 2 * s -> Cell],
           NEW m, m = [cells |-> c, length |-> l, size |-> s], NEW h, h = Tidied(m)
    PROVE  Holding(h, c, l, s)
<1> DEFINE e == [k \in 1 .. 2 * s |-> IF k \in 1 .. l \cup s + 1 .. s + l THEN c[k] ELSE Junk]
<1>1. h = [cells |-> e, length |-> l, size |-> s]
  BY DEF Tidied
<1>2. h.cells = e /\ h.length = l /\ h.size = s
  BY <1>1
<1>3. e \in [1 .. 2 * s -> Cell]
  BY DEF Cell
<1>4. ASSUME NEW i \in 1 .. l PROVE e[i] = c[i] /\ e[s + i] = c[s + i]
  <2>1. PICK k : k = s + i
    OBVIOUS
  <2>2. i \in 1 .. 2 * s /\ k \in 1 .. 2 * s /\ k \in s + 1 .. s + l
    BY <2>1
  <2> QED
    BY <2>1, <2>2
<1> HIDE DEF e
<1> QED
  BY <1>1, <1>2, <1>3, <1>4 DEF Holding

(* h is m without the entry at place p.                                    *)
EntryTaken(h, m, p) ==
    /\ h.length = m.length - 1
    /\ \A i \in 1 .. m.length - 1 :
          /\ i < p => /\ h.cells[i] = m.cells[i]
                      /\ h.cells[h.size + i] = m.cells[m.size + i]
          /\ i >= p => /\ h.cells[i] = m.cells[i + 1]
                       /\ h.cells[h.size + i] = m.cells[m.size + (i + 1)]

(* memmove closes the same gap in both halves.                             *)
WithoutGap(c, s, p, a) == MoveCells(MoveCells(c, p, p + 1, a), s + p, s + p + 1, a)

GapClosed(e, c, n, s, p) ==
    /\ e \in [1 .. 2 * s -> Cell]
    /\ \A i \in 1 .. n - 1 :
          /\ i < p => e[i] = c[i] /\ e[s + i] = c[s + i]
          /\ i >= p => e[i] = c[i + 1] /\ e[s + i] = c[s + (i + 1)]

LEMMA CloseFacts ==
    ASSUME NEW n \in Nat, NEW s \in Nat, n <= s, NEW p \in Nat, 1 <= p, p <= n,
           NEW c \in [1 .. 2 * s -> Cell], NEW a \in Nat, a = n - p,
           NEW e, e = WithoutGap(c, s, p, a)
    PROVE  GapClosed(e, c, n, s, p)
<1>1. PICK N, from, to, up : N = 2 * s /\ from = p + 1 /\ to = s + p /\ up = s + p + 1
  OBVIOUS
<1>2. N \in Nat /\ to \in Nat /\ up \in Nat /\ from \in Nat
  BY <1>1
<1>3. PICK c1 : c1 = MoveCells(c, p, from, a)
  OBVIOUS
<1>4. e = MoveCells(c1, to, up, a)
  BY <1>1, <1>3 DEF WithoutGap
<1>6. c1 \in [1 .. N -> Cell] /\ Moves(c1, N, c, p, from, a)
  <2>1. from >= 1 /\ p >= 1 /\ from + a <= N + 1
    BY <1>1
  <2>2. c \in [1 .. N -> Cell]
    BY <1>1
  <2> QED
    BY <1>2, <1>3, <2>1, <2>2, MoveFacts
<1>7. e \in [1 .. N -> Cell] /\ Moves(e, N, c1, to, up, a)
  <2>1. up >= 1 /\ to >= 1 /\ up + a <= N + 1
    BY <1>1
  <2> QED
    BY <1>2, <1>4, <1>6, <2>1, MoveFacts
<1>8. ASSUME NEW i \in 1 .. n - 1, i < p PROVE e[i] = c[i] /\ e[s + i] = c[s + i]
  <2>1. PICK k : k = s + i
    OBVIOUS
  <2>2. /\ i \in 1 .. N /\ i < to
        /\ k \in 1 .. N /\ k >= p + a /\ k < to
    BY <1>1, <1>8, <2>1
  <2>3. c1[i] = c[i] /\ c1[k] = c[k]
    BY <1>6, <1>8, <2>2 DEF Moves
  <2>4. e[i] = c1[i] /\ e[k] = c1[k]
    BY <1>7, <2>2 DEF Moves
  <2> QED
    BY <2>1, <2>3, <2>4
<1>9. ASSUME NEW i \in 1 .. n - 1, i >= p PROVE e[i] = c[i + 1] /\ e[s + i] = c[s + (i + 1)]
  <2>1. PICK j, k, l : j = i + 1 /\ k = s + i /\ l = s + (i + 1)
    OBVIOUS
  <2>2. /\ i \in 1 .. N /\ i < p + a /\ i < to /\ i - p + from = j
        /\ k \in 1 .. N /\ k >= to /\ k < to + a /\ k - to + up = l
        /\ l \in 1 .. N /\ l >= p + a
    BY <1>1, <1>9, <2>1
  <2>3. c1[i] = c[j] /\ c1[l] = c[l]
    BY <1>6, <1>9, <2>2 DEF Moves
  <2>4. e[i] = c1[i] /\ e[k] = c1[l]
    BY <1>7, <2>2 DEF Moves
  <2> QED
    BY <2>1, <2>3, <2>4
<1> QED
  BY <1>1, <1>7, <1>8, <1>9 DEF GapClosed

LEMMA RemoveCells ==
    ASSUME NEW m, MapOK(m), NEW p \in 1 .. m.length, NEW h, h = WithoutEntry(m, p)
    PROVE  /\ h = [cells |-> h.cells, length |-> h.length, size |-> h.size]
           /\ h.size \in Nat /\ h.length \in Nat /\ h.length <= h.size
           /\ h.cells \in [1 .. 2 * h.size -> Cell]
           /\ EntryTaken(h, m, p)
<1>1. PICK n, s, c : n = m.length /\ s = m.size /\ c = m.cells
  OBVIOUS
<1>2. /\ n \in Nat /\ s \in Nat /\ n <= s /\ c \in [1 .. 2 * s -> Cell]
      /\ m = [cells |-> c, length |-> n, size |-> s]
      /\ p \in Nat /\ 1 <= p /\ p <= n
  BY <1>1 DEF MapOK
<1>3. PICK a, l : a = n - p /\ l = n - 1
  OBVIOUS
<1>4. a \in Nat /\ l \in Nat /\ l <= s
  BY <1>2, <1>3
<1>5. PICK e : e = WithoutGap(c, s, p, a)
  OBVIOUS
<1>6. GapClosed(e, c, n, s, p)
  BY <1>2, <1>3, <1>4, <1>5, CloseFacts
<1>7. h = Tidied([m EXCEPT !.length = l, !.cells = e])
  BY <1>1, <1>3, <1>5 DEF WithoutEntry, WithoutGap
<1>8. PICK t : t = [m EXCEPT !.length = l, !.cells = e] /\ h = Tidied(t)
  BY <1>7
<1>14. t = [cells |-> e, length |-> l, size |-> s]
  BY <1>2, <1>8
<1>9. e \in [1 .. 2 * s -> Cell]
  BY <1>6 DEF GapClosed
<1>10. /\ h = [cells |-> h.cells, length |-> l, size |-> s]
       /\ h.length = l /\ h.size = s /\ h.cells \in [1 .. 2 * s -> Cell]
       /\ \A i \in 1 .. l : h.cells[i] = e[i] /\ h.cells[s + i] = e[s + i]
  <2>1. Holding(h, e, l, s)
    BY <1>2, <1>4, <1>8, <1>9, <1>14, TidiedFacts
  <2> QED
    BY <2>1 DEF Holding
<1>11. \A i \in 1 .. l : /\ i < p => e[i] = c[i] /\ e[s + i] = c[s + i]
                         /\ i >= p => e[i] = c[i + 1] /\ e[s + i] = c[s + (i + 1)]
  BY <1>3, <1>6 DEF GapClosed
<1>12. EntryTaken(h, m, p)
  BY <1>1, <1>3, <1>10, <1>11 DEF EntryTaken
<1>13. h = [cells |-> h.cells, length |-> h.length, size |-> h.size]
  BY <1>10
<1> QED
  BY <1>2, <1>4, <1>10, <1>12, <1>13

LEMMA RemoveKeeps ==
    ASSUME NEW m, MapOK(m), NEW p \in 1 .. m.length, NEW h, h = WithoutEntry(m, p)
    PROVE  MapOK(h)
<1>1. PICK n : n = m.length
  OBVIOUS
<1>2. n \in Nat /\ p \in Nat /\ 1 <= p /\ p <= n
  BY <1>1 DEF MapOK
<1>3. /\ h = [cells |-> h.cells, length |-> h.length, size |-> h.size]
      /\ h.size \in Nat /\ h.length \in Nat /\ h.length <= h.size
      /\ h.cells \in [1 .. 2 * h.size -> Cell]
      /\ EntryTaken(h, m, p)
  BY RemoveCells
<1>4. PICK c, s, l : c = h.cells /\ s = h.size /\ l = n - 1
  OBVIOUS
<1>5. /\ h.length = l
      /\ \A i \in 1 .. l : /\ i < p => c[i] = m.cells[i] /\ c[s + i] = m.cells[m.size + i]
                           /\ i >= p => /\ c[i] = m.cells[i + 1]
                                        /\ c[s + i] = m.cells[m.size + (i + 1)]
  BY <1>1, <1>3, <1>4 DEF EntryTaken
<1>6. /\ \A i \in 1 .. n : m.cells[i] \in ValidRanges /\ m.cells[m.size + i] \in Value
      /\ \A i, j \in 1 .. n : i < j => End(m.cells[i]) <= m.cells[j].location
  BY <1>1 DEF MapOK
(* where the entry i of h comes from *)
<1>7. \A i \in 1 .. l : \E k \in 1 .. n : /\ k = IF i < p THEN i ELSE i + 1
                                          /\ c[i] = m.cells[k]
                                          /\ c[s + i] = m.cells[m.size + k]
  <2> TAKE i \in 1 .. l
  <2>1. PICK k : k = IF i < p THEN i ELSE i + 1
    OBVIOUS
  <2>2. k \in 1 .. n
    BY <1>2, <1>4, <2>1
  <2> QED
    BY <1>5, <2>1, <2>2
<1>8. \A i \in 1 .. l : c[i] \in ValidRanges /\ c[s + i] \in Value
  BY <1>6, <1>7
<1>9. ASSUME NEW i \in 1 .. l, NEW j \in 1 .. l, i < j
      PROVE  End(c[i]) <= c[j].location
  <2>1. PICK a \in 1 .. n : a = (IF i < p THEN i ELSE i + 1) /\ c[i] = m.cells[a]
    BY <1>7
  <2>2. PICK b \in 1 .. n : b = (IF j < p THEN j ELSE j + 1) /\ c[j] = m.cells[b]
    BY <1>7
  <2>3. a < b
    BY <1>2, <1>4, <1>9, <2>1, <2>2
  <2> QED
    BY <1>6, <2>1, <2>2, <2>3
<1>10. \A i \in 1 .. h.length : h.cells[i] \in ValidRanges /\ h.cells[h.size + i] \in Value
  BY <1>4, <1>5, <1>8
<1>11. \A i, j \in 1 .. h.length : i < j => End(h.cells[i]) <= h.cells[j].location
  BY <1>4, <1>5, <1>9
<1> QED
  BY <1>3, <1>10, <1>11 DEF MapOK

LEMMA ClearedKeeps ==
    ASSUME NEW m, MapOK(m), NEW h, h = Tidied([m EXCEPT !.length = 0])
    PROVE  MapOK(h) /\ h.length = 0
<1>1. PICK n, s, c : n = m.length /\ s = m.size /\ c = m.cells
  OBVIOUS
<1>2. /\ n \in Nat /\ s \in Nat /\ c \in [1 .. 2 * s -> Cell]
      /\ m = [cells |-> c, length |-> n, size |-> s]
  BY <1>1 DEF MapOK
<1>3. [m EXCEPT !.length = 0] = [cells |-> c, length |-> 0, size |-> s]
  BY <1>2
<1>4. 0 \in Nat /\ 0 <= s
  BY <1>2
<1>5. /\ h = [cells |-> h.cells, length |-> 0, size |-> s]
      /\ h.length = 0 /\ h.size = s /\ h.cells \in [1 .. 2 * s -> Cell]
  <2>1. Holding(h, c, 0, s)
    BY <1>2, <1>3, <1>4, TidiedFacts
  <2> QED
    BY <2>1 DEF Holding
<1>6. /\ h = [cells |-> h.cells, length |-> h.length, size |-> h.size]
      /\ h.cells \in [1 .. 2 * h.size -> Cell]
      /\ h.size \in Nat /\ h.length \in Nat /\ h.length <= h.size
  BY <1>2, <1>5
<1>7. \A i \in 1 .. h.length : FALSE
  BY <1>5
<1> QED
  BY <1>5, <1>6, <1>7 DEF MapOK

LEMMA NewMapFacts ==
    ASSUME NEW size \in Nat
    PROVE  MapOK(NewMap(size)) /\ NewMap(size).length = 0
<1>1. PICK h, c : h = NewMap(size) /\ c = [k \in 1 .. 2 * size |-> Junk]
  OBVIOUS
<1>2. h = [cells |-> c, length |-> 0, size |-> size] /\ c \in [1 .. 2 * size -> Cell]
  BY <1>1 DEF NewMap, Cell
<1>3. h.length = 0 /\ h.size = size /\ h.cells = c
  BY <1>2
<1>4. \A i \in 1 .. h.length : FALSE
  BY <1>3
<1>5. h = [cells |-> h.cells, length |-> h.length, size |-> h.size]
  BY <1>2, <1>3
<1> QED
  BY <1>1, <1>2, <1>3, <1>4, <1>5 DEF MapOK

-----------------------------------------------------------------------------
(* What is in a map, as the abstract specification sees it *)

Pair(m, i) == [range |-> m.cells[i], value |-> m.cells[m.size + i]]
Pairs(m)   == {Pair(m, i) : i \in 1 .. m.length}
PairsOf(m) == IF m = None THEN None ELSE Pairs(m)

LEMMA NotNone ==
    ASSUME NEW m, MapOK(m)
    PROVE  m # None /\ Pairs(m) # None /\ Pairs(m) \subseteq [range : ValidRanges, value : Value]
<1>1. PICK c, n, s : c = m.cells /\ n = m.length /\ s = m.size
  OBVIOUS
<1>2. /\ m = [cells |-> c, length |-> n, size |-> s]
      /\ n \in Nat /\ s \in Nat /\ c \in [1 .. 2 * s -> Cell]
  BY <1>1 DEF MapOK
<1>3. c \in Seq(Cell)
  <2>1. PICK k : k = 2 * s
    OBVIOUS
  <2>2. k \in Nat
    BY <1>2, <2>1
  <2>3. c \in [1 .. k -> Cell]
    BY <1>2, <2>1
  <2> QED
    BY <2>2, <2>3
<1>4. m # None
  BY <1>2, <1>3, RangemapAssumption DEF Cell
<1>5. \A i \in 1 .. n : m.cells[i] \in ValidRanges /\ m.cells[m.size + i] \in Value
  BY <1>1 DEF MapOK
<1>6. Pairs(m) \in SUBSET [range : ValidRanges, value : Value]
  BY <1>1, <1>5 DEF Pairs, Pair
<1> QED
  BY <1>4, <1>6, RangemapAssumption

LEMMA PairFacts ==
    ASSUME NEW m, MapOK(m), NEW i, NEW j, i \in 1 .. m.length, j \in 1 .. m.length,
           Pair(m, i) = Pair(m, j)
    PROVE  i = j
<1>1. m.cells[i] = m.cells[j]
  <2>1. Pair(m, i).range = m.cells[i] /\ Pair(m, j).range = m.cells[j]
    BY DEF Pair
  <2> QED
    BY <2>1
<1>2. Intersects(m.cells[i], m.cells[j])
  BY <1>1, PlaceFacts DEF Intersects
<1> QED
  BY <1>2, PlacesApart

LEMMA InsertPairs ==
    ASSUME NEW m, MapOK(m), NEW r \in ValidRanges, NEW v \in Value,
           NEW h, h = WithEntry(m, r, v)
    PROVE  Pairs(h) = Pairs(m) \cup {[range |-> r, value |-> v]}
<1>1. PICK p, n : p = HoleIndex(RangesOf(m), r.location) + 1 /\ n = m.length
  OBVIOUS
<1>2. /\ p \in Nat /\ 1 <= p /\ p <= n + 1 /\ n \in Nat /\ EntryAdded(h, m, p, r, v)
  BY <1>1, InsertCells DEF MapOK
<1>3. /\ h.length = n + 1 /\ Pair(h, p) = [range |-> r, value |-> v]
      /\ \A i \in 1 .. n : /\ i < p => Pair(h, i) = Pair(m, i)
                           /\ i >= p => Pair(h, i + 1) = Pair(m, i)
  BY <1>1, <1>2 DEF EntryAdded, Pair
<1>4. Pairs(h) = {Pair(h, i) : i \in 1 .. n + 1} /\ Pairs(m) = {Pair(m, i) : i \in 1 .. n}
  BY <1>1, <1>3 DEF Pairs
<1> HIDE DEF Pair
<1>5. ASSUME NEW i \in 1 .. n PROVE Pair(m, i) \in {Pair(h, k) : k \in 1 .. n + 1}
  <2>1. i \in 1 .. n + 1 /\ i + 1 \in 1 .. n + 1 /\ (i < p \/ i >= p)
    BY <1>2
  <2> QED
    BY <1>3, <2>1
<1>6. ASSUME NEW i \in 1 .. n + 1
      PROVE  Pair(h, i) = Pair(h, p) \/ \E k \in 1 .. n : Pair(h, i) = Pair(m, k)
  <2>1. CASE i < p
    <3>1. i \in 1 .. n
      BY <1>2, <2>1
    <3> QED
      BY <1>3, <2>1, <3>1
  <2>2. CASE i > p
    <3>1. PICK k : k = i - 1
      OBVIOUS
    <3>2. k \in 1 .. n /\ k >= p /\ k + 1 = i
      BY <1>2, <2>2, <3>1
    <3> QED
      BY <1>3, <3>2
  <2> QED
    BY <1>2, <2>1, <2>2
<1>7. p \in 1 .. n + 1
  BY <1>2
<1> QED
  BY <1>3, <1>4, <1>5, <1>6, <1>7

LEMMA RemovePairs ==
    ASSUME NEW m, MapOK(m), NEW p \in 1 .. m.length, NEW h, h = WithoutEntry(m, p)
    PROVE  Pairs(h) = Pairs(m) \ {Pair(m, p)}
<1>1. PICK n : n = m.length
  OBVIOUS
<1>2. n \in Nat /\ p \in 1 .. n /\ p \in Nat /\ EntryTaken(h, m, p)
  <2>1. EntryTaken(h, m, p)
    BY RemoveCells
  <2> QED
    BY <1>1, <2>1 DEF MapOK
<1>3. /\ h.length = n - 1
      /\ \A i \in 1 .. n - 1 : /\ i < p => Pair(h, i) = Pair(m, i)
                               /\ i >= p => Pair(h, i) = Pair(m, i + 1)
  BY <1>1, <1>2 DEF EntryTaken, Pair
<1>4. Pairs(h) = {Pair(h, i) : i \in 1 .. n - 1} /\ Pairs(m) = {Pair(m, i) : i \in 1 .. n}
  BY <1>1, <1>3 DEF Pairs
<1>5. \A i \in 1 .. n : Pair(m, i) = Pair(m, p) => i = p
  BY <1>1, <1>2, PairFacts
<1> HIDE DEF Pair
<1>6. ASSUME NEW i \in 1 .. n - 1
      PROVE  \E k \in 1 .. n : k # p /\ Pair(h, i) = Pair(m, k)
  <2>1. i \in 1 .. n /\ i + 1 \in 1 .. n /\ (i < p \/ i >= p)
        /\ (i < p => i # p) /\ (i >= p => i + 1 # p)
    BY <1>2
  <2> QED
    BY <1>3, <2>1
<1>7. ASSUME NEW i \in 1 .. n, i # p
      PROVE  \E k \in 1 .. n - 1 : Pair(h, k) = Pair(m, i)
  <2>1. CASE i < p
    <3>1. i \in 1 .. n - 1
      BY <1>2, <2>1
    <3> QED
      BY <1>3, <2>1, <3>1
  <2>2. CASE i > p
    <3>1. PICK k : k = i - 1
      OBVIOUS
    <3>2. k \in 1 .. n - 1 /\ k >= p /\ k + 1 = i
      BY <1>2, <2>2, <3>1
    <3> QED
      BY <1>3, <3>2
  <2> QED
    BY <1>2, <1>7, <2>1, <2>2
<1> QED
  BY <1>4, <1>5, <1>6, <1>7

-----------------------------------------------------------------------------
(* The inductive invariant *)

MapsOK == map # None => MapOK(map)

(* An enumerator that is not stale points at the same entry in both halves *)
(* and has returned those before it.                                       *)
RoverOK ==
    rover \notin {None, Stale} =>
        /\ map # None
        /\ rover = [curr |-> rover.curr, sentinel |-> rover.sentinel,
                    values |-> rover.values, seen |-> rover.seen]
        /\ rover.curr \in 1 .. rover.sentinel
        /\ rover.sentinel = map.length + 1
        /\ rover.values = map.size + rover.curr
        /\ rover.seen = [i \in 1 .. rover.curr - 1 |-> Pair(map, i)]

RetOK == ret \in {None, "OK", "EINVAL", "EADDRINUSE", "ENOENT", "EACCES"}

RangemapInv == MapsOK /\ RoverOK /\ RetOK

(* RoverOK follows a modification, whatever the map has become.            *)
LEMMA ModifyFacts == Modify => RoverOK'
BY DEF Modify, RoverOK

LEMMA InsertInv ==
    ASSUME RangemapInv, NEW r \in Given, NEW v \in Value, Insert(r, v)
    PROVE  RangemapInv'
<1>1. map # None /\ MapOK(map)
  BY DEF RangemapInv, MapsOK, Insert
<1>2. CASE Leave
  BY <1>2 DEF Insert, Leave, RangemapInv, MapsOK, RoverOK, RetOK, Pair
<1>3. CASE ~ Rejected(r) /\ ~ IsTaken(map, r) /\ map' = WithEntry(map, r, v) /\ ret' = "OK" /\ Modify
  <2>1. r \in ValidRanges
    BY <1>3, RangemapAssumption, ValidFacts
  <2>2. MapOK(map')
    BY <1>1, <1>3, <2>1, InsertKeeps
  <2>3. RoverOK'
    BY <1>3, ModifyFacts
  <2> QED
    BY <1>3, <2>2, <2>3 DEF RangemapInv, MapsOK, RetOK
<1> QED
  BY <1>2, <1>3 DEF Insert

LEMMA RemoveInv ==
    ASSUME RangemapInv, NEW r \in Given, Remove(r)
    PROVE  RangemapInv'
<1>1. map # None /\ MapOK(map)
  BY DEF RangemapInv, MapsOK, Remove
<1>2. CASE Leave
  BY <1>2 DEF Remove, Leave, RangemapInv, MapsOK, RoverOK, RetOK, Pair
<1>3. ASSUME NEW found \in Touched(RangesOf(map), r),
             map' = WithoutEntry(map, found), ret' = "OK", Modify
      PROVE  RangemapInv'
  <2>1. found \in 1 .. map.length
    BY <1>1, HalvesFacts DEF Touched
  <2>2. MapOK(map')
    BY <1>1, <1>3, <2>1, RemoveKeeps
  <2>3. RoverOK'
    BY <1>3, ModifyFacts
  <2> QED
    BY <1>3, <2>2, <2>3 DEF RangemapInv, MapsOK, RetOK
<1> QED
  BY <1>2, <1>3 DEF Remove

LEMMA EnumerateInv ==
    ASSUME RangemapInv, Enumerate
    PROVE  RangemapInv'
<1>1. map # None /\ MapOK(map) /\ map' = map /\ ret' = ret
  BY DEF RangemapInv, MapsOK, Enumerate
<1>2. PICK r, n, s : r = rover' /\ n = map.length /\ s = map.size
  OBVIOUS
<1>3. n \in Nat /\ s \in Nat
  BY <1>1, <1>2 DEF MapOK
<1>4. r = [curr |-> 1, sentinel |-> n + 1, values |-> s + 1, seen |-> <<>>]
  BY <1>2 DEF Enumerate
<1>5. r.curr = 1 /\ r.sentinel = n + 1 /\ r.values = s + 1 /\ r.seen = <<>>
  BY <1>4
<1>6. r.curr \in 1 .. r.sentinel /\ r.values = s + r.curr
  BY <1>3, <1>5
<1>7. r.seen = [i \in 1 .. r.curr - 1 |-> Pair(map, i)]
  <2>1. 1 .. r.curr - 1 = {}
    BY <1>5
  <2> QED
    BY <1>5, <2>1
<1>8. RoverOK'
  <2>1. r = [curr |-> r.curr, sentinel |-> r.sentinel, values |-> r.values, seen |-> r.seen]
    BY <1>4, <1>5
  <2> QED
    BY <1>1, <1>2, <1>5, <1>6, <1>7, <2>1 DEF RoverOK, Pair
<1> QED
  BY <1>1, <1>8 DEF RangemapInv, MapsOK, RetOK

LEMMA EnumerateNextInv ==
    ASSUME RangemapInv, EnumerateNext
    PROVE  RangemapInv'
<1>1. /\ rover \notin {None, Stale} /\ map # None /\ MapOK(map) /\ map' = map /\ ret' = ret
  BY DEF RangemapInv, MapsOK, RoverOK, EnumerateNext
<1>2. PICK k, n, s, seen : /\ k = rover.curr /\ n = map.length /\ s = map.size
                           /\ seen = rover.seen
  OBVIOUS
<1>3. /\ n \in Nat /\ s \in Nat /\ k \in 1 .. n + 1 /\ k < n + 1
      /\ rover = [curr |-> k, sentinel |-> n + 1, values |-> s + k, seen |-> seen]
      /\ seen = [i \in 1 .. k - 1 |-> Pair(map, i)]
  BY <1>1, <1>2 DEF MapOK, RangemapInv, RoverOK, EnumerateNext
<1>4. PICK r, more, nk : r = rover' /\ more = Append(seen, Pair(map, k)) /\ nk = k + 1
  OBVIOUS
<1>5. r = [curr |-> nk, sentinel |-> n + 1, values |-> s + nk, seen |-> more]
  <2>1. (s + k) + 1 = s + nk
    BY <1>3, <1>4
  <2>2. r = [rover EXCEPT !.curr = nk, !.values = s + nk, !.seen = more]
    <3>1. rover.curr = k /\ rover.values = s + k /\ rover.seen = seen
      BY <1>3
    <3> QED
      BY <1>2, <1>4, <2>1, <3>1 DEF EnumerateNext, Advanced, Pair
  <2> QED
    BY <1>3, <2>2
<1>6. r.curr = nk /\ r.sentinel = n + 1 /\ r.values = s + nk /\ r.seen = more
  BY <1>5
<1>7. nk \in 1 .. n + 1 /\ nk - 1 = k /\ k \in 1 .. n /\ k \in Nat
  BY <1>3, <1>4
<1>8. more = [i \in 1 .. nk - 1 |-> Pair(map, i)]
  <2>1. seen = [i \in 1 .. k - 1 |-> Pair(map, i)] /\ more = Append(seen, Pair(map, k))
    BY <1>3, <1>4
  <2>2. PICK l, e : l = k - 1 /\ e = Pair(map, k)
    OBVIOUS
  <2>3. l \in Nat /\ l + 1 = k
    BY <1>7, <2>2
  <2>4. more = [i \in 1 .. k |-> IF i = k THEN Pair(map, k) ELSE seen[i]]
    <3>1. seen = [i \in 1 .. l |-> Pair(map, i)] /\ more = Append(seen, e)
      BY <2>1, <2>2
    <3>2. PICK X : X = {Pair(map, i) : i \in 1 .. l}
      OBVIOUS
    <3>3. seen \in [1 .. l -> X]
      BY <3>1, <3>2
    <3> HIDE DEF Pair
    <3>4. seen \in Seq(X) /\ Len(seen) = l
      BY <2>3, <3>3
    <3>5. more = [i \in 1 .. l + 1 |-> IF i = l + 1 THEN e ELSE seen[i]]
      BY <2>3, <3>1, <3>4
    <3> QED
      BY <2>2, <2>3, <3>5
  <2>5. \A i \in 1 .. k : i # k => i \in 1 .. k - 1
    BY <1>7
  <2> QED
    BY <1>7, <2>1, <2>4, <2>5
<1>9. RoverOK'
  <2>1. r = [curr |-> r.curr, sentinel |-> r.sentinel, values |-> r.values, seen |-> r.seen]
    BY <1>5, <1>6
  <2> QED
    BY <1>1, <1>2, <1>4, <1>6, <1>7, <1>8, <2>1 DEF RoverOK, Pair
<1> QED
  BY <1>1, <1>9 DEF RangemapInv, MapsOK, RetOK

LEMMA NextInv ==
    ASSUME RangemapInv, [Next]_vars
    PROVE  RangemapInv'
<1>1. ASSUME NEW capacity \in Capacities, Create(capacity) PROVE RangemapInv'
  <2>1. MapOK(map')
    <3>1. capacity \in Nat
      BY RangemapAssumption
    <3> QED
      BY <1>1, <3>1, NewMapFacts DEF Create
  <2>2. rover \in {None, Stale} /\ rover' = rover /\ ret' = None
    BY <1>1 DEF Create, RangemapInv, RoverOK
  <2> QED
    BY <2>1, <2>2 DEF RangemapInv, MapsOK, RoverOK, RetOK
<1>2. CASE Done
  BY <1>2 DEF Done, RangemapInv, MapsOK, RoverOK, RetOK
<1>3. ASSUME NEW r \in Given, NEW v \in Value, Insert(r, v) PROVE RangemapInv'
  BY <1>3, InsertInv
<1>4. ASSUME NEW r \in Given, Remove(r) PROVE RangemapInv'
  BY <1>4, RemoveInv
<1>5. CASE Reset
  <2>1. MapOK(map) /\ map' = Tidied([map EXCEPT !.length = 0]) /\ ret' = None /\ Modify
    BY <1>5 DEF Reset, RangemapInv, MapsOK
  <2>2. MapOK(map')
    BY <2>1, ClearedKeeps
  <2> QED
    BY <2>1, <2>2, ModifyFacts DEF RangemapInv, MapsOK, RetOK
<1>6. CASE Enumerate
  BY <1>6, EnumerateInv
<1>7. CASE EnumerateNext
  BY <1>7, EnumerateNextInv
<1>8. CASE EnumerateDone
  BY <1>8 DEF EnumerateDone, RangemapInv, MapsOK, RoverOK, RetOK
<1>9. CASE UNCHANGED vars
  BY <1>9 DEF vars, RangemapInv, MapsOK, RoverOK, RetOK, Pair
<1> QED
  BY <1>1, <1>2, <1>3, <1>4, <1>5, <1>6, <1>7, <1>8, <1>9 DEF Next

(* The two halves of the buffer stay in step, and so do an enumerator and  *)
(* the map it was made for, in every reachable state.                      *)
THEOREM RangemapInvariant == Spec => []RangemapInv
<1>1. Init => RangemapInv
  BY DEF Init, RangemapInv, MapsOK, RoverOK, RetOK
<1> QED
  BY <1>1, NextInv, PTL DEF Spec

(* The buffer has room for what is in it, its ranges are in order and      *)
(* apart, and an enumerator that is not stale stays within its half.       *)
THEOREM BufferWellFormed == Spec => []WellFormed
<1>1. RangemapInv => WellFormed
  <2> SUFFICES ASSUME RangemapInv PROVE WellFormed
    OBVIOUS
  <2>1. ASSUME map # None
        PROVE  /\ InOrder(RangesOf(map)) /\ map.length <= map.size
               /\ map.cells \in [1 .. 2 * map.size -> ValidRanges \cup Value \cup {Junk}]
    <3>1. MapOK(map)
      BY <2>1 DEF RangemapInv, MapsOK
    <3>2. InOrder(RangesOf(map))
      BY <3>1, HalvesFacts
    <3> QED
      BY <3>1, <3>2 DEF MapOK, Cell
  <2>2. rover \notin {None, Stale} =>
            map # None /\ rover.curr \in 1 .. rover.sentinel /\ rover.sentinel = map.length + 1
    BY DEF RangemapInv, RoverOK
  <2>3. ret \in {None, "OK", "EINVAL", "EADDRINUSE", "ENOENT", "EACCES"}
    BY DEF RangemapInv, RetOK
  <2> QED
    BY <2>1, <2>2, <2>3 DEF WellFormed, Here
<1> QED
  BY <1>1, RangemapInvariant, PTL

(* An enumerator that is not stale has returned the first entries in order *)
(* of location, and when it ends it has returned all.                      *)
THEOREM EnumeratedInOrder == Spec => []EnumeratesInOrder
<1>1. RangemapInv => EnumeratesInOrder
  <2> SUFFICES ASSUME RangemapInv, rover \notin {None, Stale}
               PROVE  /\ rover.seen = SubSeq(Entries, 1, rover.curr - 1)
                      /\ rover.curr = rover.sentinel => rover.seen = Entries
    BY DEF EnumeratesInOrder
  <2>1. MapOK(map)
    BY DEF RangemapInv, RoverOK, MapsOK
  <2>2. PICK n, k, l, e : n = map.length /\ k = rover.curr /\ l = k - 1 /\ e = Entries
    OBVIOUS
  <2>3. /\ n \in Nat /\ k \in 1 .. n + 1 /\ rover.sentinel = n + 1
        /\ rover.seen = [i \in 1 .. l |-> Pair(map, i)]
    BY <2>1, <2>2 DEF RangemapInv, RoverOK, MapOK
  <2>4. l \in Nat /\ l <= n /\ (k = n + 1 => l = n) /\ (l - 1) + 1 = l
    BY <2>2, <2>3
  <2>5. e = [i \in 1 .. n |-> Pair(map, i)]
    <3>1. \A i \in 1 .. n : Entry(i) = Pair(map, i)
      BY <2>1, <2>2, HalvesFacts DEF Entry, Pair
    <3> QED
      BY <2>2, <3>1 DEF Entries
  <2> HIDE DEF Pair
  <2>6. SubSeq(e, 1, l) = [i \in 1 .. l |-> Pair(map, i)]
    <3>1. SubSeq(e, 1, l) = [i \in 1 .. l |-> e[i]]
      BY <2>3, <2>4, <2>5
    <3>2. \A i \in 1 .. l : e[i] = Pair(map, i)
      BY <2>3, <2>4, <2>5
    <3> QED
      BY <3>1, <3>2
  <2> QED
    BY <2>2, <2>3, <2>4, <2>5, <2>6
<1> QED
  BY <1>1, RangemapInvariant, PTL

-----------------------------------------------------------------------------
(* Queries *)

(* The scan of get_ranges_values begins at the first range that intersects *)
(* and ends behind the last.                                               *)
LEMMA ScanFacts ==
    ASSUME NEW m, MapOK(m), NEW r \in ValidRanges
    PROVE  Intersecting(m, r) = {i \in 1 .. m.length : Intersects(m.cells[i], r)}
<1>1. PICK n, c, below, first : /\ n = m.length /\ c = m.cells
                                /\ below = HoleIndex(RangesOf(m), r.location)
                                /\ first = FirstIntersecting(m, r)
  OBVIOUS
<1>2. PICK a, b : a = r.location /\ b = End(r)
  OBVIOUS
<1>3. ~ Rejected(r) /\ a \in Nat /\ b \in Nat /\ a < b
  BY <1>2, ValidFacts, UsableNumbers
<1>4. /\ n \in Nat
      /\ \A i \in 1 .. n : /\ c[i].location \in Nat /\ End(c[i]) \in Nat
                           /\ c[i].location < End(c[i])
      /\ \A i, j \in 1 .. n : i < j => End(c[i]) <= c[j].location
  <2>1. n \in Nat /\ \A i, j \in 1 .. n : i < j => End(c[i]) <= c[j].location
    BY <1>1 DEF MapOK
  <2>2. \A i \in 1 .. n : /\ c[i].location \in Nat /\ End(c[i]) \in Nat
                          /\ c[i].location < End(c[i])
    BY <1>1, PlaceFacts
  <2> QED
    BY <2>1, <2>2
<1>5. below \in 0 .. n /\ \A i \in 1 .. n : i <= below <=> c[i].location < a
  <2>1. PICK s : s = RangesOf(m)
    OBVIOUS
  <2>2. /\ s \in Seq(AnyRange) /\ InOrder(s) /\ Len(s) = n
        /\ \A i \in 1 .. n : s[i] = c[i]
    BY <1>1, <2>1, HalvesFacts DEF RangeSeq
  <2>3. /\ HoleIndex(s, a) \in 0 .. n
        /\ \A i \in 1 .. n : i <= HoleIndex(s, a) <=> s[i].location < a
    BY <1>3, <2>2, HoleFacts
  <2> QED
    BY <1>1, <1>2, <2>1, <2>2, <2>3
<1>6. first = IF below = n \/ (below > 0 /\ Intersects(c[below], r)) THEN below ELSE below + 1
  BY <1>1 DEF FirstIntersecting
<1>7. \A i \in 1 .. n : Intersects(c[i], r) <=> c[i].location < b /\ a < End(c[i])
  BY <1>2 DEF Intersects
<1>8. ASSUME NEW i \in 1 .. n, Intersects(c[i], r)
      PROVE  i >= first /\ \A j \in first .. i : Intersects(c[j], r)
  <2>1. i \in Nat /\ below \in Nat /\ below <= n
    BY <1>4, <1>5
  <2>2. i >= below
    <3> SUFFICES ASSUME i < below PROVE FALSE
      BY <2>1
    <3>1. below \in 1 .. n
      BY <2>1
    <3>2. End(c[i]) <= c[below].location /\ c[below].location < a /\ a < End(c[i])
      BY <1>4, <1>5, <1>7, <1>8, <2>1, <3>1
    <3> QED
      BY <1>3, <1>4, <3>1, <3>2
  <2>3. i >= first
    <3>1. i = below => first = below
      BY <1>6, <1>8, <2>1
    <3>2. i # below => i >= below + 1
      BY <2>1, <2>2
    <3> QED
      BY <1>6, <2>1, <2>2, <3>1, <3>2
  <2>4. first \in Nat /\ first >= below /\ (below = 0 => first = 1)
    <3>1. below = 0 => n # 0
      BY <1>4
    <3> QED
      BY <1>4, <1>6, <2>1, <3>1
  <2>5. ASSUME NEW j \in first .. i PROVE Intersects(c[j], r)
    <3>1. j \in 1 .. n /\ j \in Nat
      BY <2>1, <2>4, <1>4
    <3>2. CASE j = i
      BY <1>8, <3>2
    <3>3. CASE j # i /\ j > below
      <4>1. End(c[j]) <= c[i].location /\ c[i].location < b
        BY <1>4, <1>7, <1>8, <3>1, <3>3
      <4>2. ~ (c[j].location < a)
        BY <1>5, <2>1, <3>1, <3>3
      <4> QED
        BY <1>3, <1>4, <1>7, <3>1, <4>1, <4>2
    <3>4. CASE j # i /\ j = below
      <4>1. first = below /\ below # n
        BY <1>4, <2>1, <2>4, <3>1, <3>4
      <4>2. below > 0 /\ Intersects(c[below], r)
        BY <1>6, <2>1, <4>1
      <4> QED
        BY <3>4, <4>2
    <3> QED
      BY <2>1, <2>4, <3>1, <3>2, <3>3, <3>4
  <2> QED
    BY <2>3, <2>5
<1>9. CASE n = 0
  <2>1. Intersecting(m, r) = {}
    BY <1>1, <1>9 DEF Intersecting
  <2>2. 1 .. n = {}
    BY <1>9
  <2> QED
    BY <1>1, <2>1, <2>2
<1>10. CASE n # 0
  <2>1. Intersecting(m, r) =
            {i \in first .. n : \A j \in first .. i : Intersects(c[j], r)}
    BY <1>1, <1>3, <1>10 DEF Intersecting
  <2>2. first \in Nat /\ first >= 1
    BY <1>4, <1>5, <1>6, <1>10
  <2>3. \A i \in first .. n : i \in 1 .. n /\ i \in first .. i
    BY <1>4, <2>2
  <2>4. \A i \in 1 .. n : i >= first => i \in first .. n
    BY <1>4, <2>2
  <2> QED
    BY <1>1, <1>8, <2>1, <2>3, <2>4
<1> QED
  BY <1>9, <1>10

LEMMA ExactFacts ==
    ASSUME NEW m, MapOK(m), NEW r \in ValidRanges,
           NEW same, same = {i \in 1 .. m.length : RangesOf(m)[i] = r}
    PROVE  GetExact(m, r) = IF same = {} THEN None ELSE ValuesOf(m)[CHOOSE i \in same : TRUE]
<1>1. PICK n, l, one, found : /\ n = m.length /\ l = r.location /\ one = Make(l, 1)
                              /\ found = Touched(RangesOf(m), one)
  OBVIOUS
<1>2. /\ n \in Nat /\ same = {i \in 1 .. n : m.cells[i] = r}
      /\ \A i \in 1 .. n : ValuesOf(m)[i] = m.cells[m.size + i]
      /\ found = {i \in 1 .. n : Intersects(m.cells[i], one)}
  BY <1>1, HalvesFacts
<1>3. l \in Nat /\ End(r) \in Nat /\ l < End(r)
  BY <1>1, ValidFacts, UsableNumbers
<1>4. one.location = l /\ End(one) = l + 1
  BY <1>1, <1>3, MakeFacts
<1>5. \A i \in 1 .. n : i \in found <=> m.cells[i].location <= l /\ l < End(m.cells[i])
  <2> TAKE i \in 1 .. n
  <2>1. m.cells[i].location \in Nat
    BY <1>1, PlaceFacts
  <2>2. m.cells[i].location <= l <=> m.cells[i].location < l + 1
    BY <1>3, <2>1
  <2> QED
    BY <1>2, <1>4, <2>2 DEF Intersects
<1>6. Search(m, l) = IF found = {} THEN 0 ELSE CHOOSE i \in found : TRUE
  BY <1>1 DEF Search
<1>7. GetExact(m, r) = IF Search(m, l) = 0 THEN None
                       ELSE IF m.cells[Search(m, l)] # r THEN None
                       ELSE m.cells[m.size + Search(m, l)]
  BY <1>1 DEF GetExact
<1>8. CASE same = {}
  <2>1. found # {} => Search(m, l) \in 1 .. n
    BY <1>2, <1>6
  <2>2. found = {} => Search(m, l) = 0
    BY <1>6
  <2>3. Search(m, l) \in 1 .. n => m.cells[Search(m, l)] # r
    BY <1>2, <1>8
  <2> QED
    BY <1>7, <1>8, <2>1, <2>2, <2>3
<1>9. CASE same # {}
  <2>1. PICK k : k \in same
    BY <1>9
  <2>2. k \in 1 .. n /\ m.cells[k] = r
    BY <1>2, <2>1
  <2>3. k \in found
    BY <1>1, <1>3, <1>5, <2>2
  <2>4. ASSUME NEW i \in found PROVE i = k
    <3>1. i \in 1 .. n /\ m.cells[i].location <= l /\ l < End(m.cells[i])
      BY <1>2, <1>5
    <3>2. m.cells[i].location \in Nat /\ End(m.cells[i]) \in Nat
      BY <1>1, <3>1, PlaceFacts
    <3>3. m.cells[i].location < End(m.cells[k]) /\ m.cells[k].location < End(m.cells[i])
      BY <1>1, <1>3, <2>2, <3>1, <3>2
    <3> QED
      BY <1>1, <2>2, <3>1, <3>3, PlacesApart DEF Intersects
  <2>5. Search(m, l) = k
    BY <1>6, <2>3, <2>4
  <2>6. \A i \in same : i = k
    <3> TAKE i \in same
    <3>1. i \in 1 .. n /\ m.cells[i] = r
      BY <1>2
    <3>2. i \in found
      BY <1>1, <1>3, <1>5, <3>1
    <3> QED
      BY <2>4, <3>2
  <2>7. (CHOOSE i \in same : TRUE) = k
    BY <2>1, <2>6
  <2>8. k # 0
    BY <1>2, <2>2
  <2> QED
    BY <1>2, <1>7, <1>9, <2>2, <2>5, <2>7, <2>8
<1> QED
  BY <1>8, <1>9

(* get_ranges_values finds all ranges that intersect the query, wherever   *)
(* it begins, and get_exact the value of a stored range and of no other.   *)
THEOREM QueriesComplete == Spec => []QueryComplete
<1>1. RangemapInv => QueryComplete
  <2> SUFFICES ASSUME map # None, MapOK(map), NEW r \in ValidRanges
               PROVE  LET same == {i \in 1 .. map.length : RangesOf(map)[i] = r}
                      IN  /\ Intersecting(map, r) =
                                 {i \in 1 .. map.length : Intersects(map.cells[i], r)}
                          /\ GetExact(map, r) =
                                 IF same = {} THEN None
                                 ELSE ValuesOf(map)[CHOOSE i \in same : TRUE]
    BY DEF QueryComplete, Here, RangemapInv, MapsOK
  <2>1. PICK same : same = {i \in 1 .. map.length : RangesOf(map)[i] = r}
    OBVIOUS
  <2>2. GetExact(map, r) =
            IF same = {} THEN None ELSE ValuesOf(map)[CHOOSE i \in same : TRUE]
    BY <2>1, ExactFacts
  <2>3. Intersecting(map, r) = {i \in 1 .. map.length : Intersects(map.cells[i], r)}
    BY ScanFacts
  <2> QED
    BY <2>1, <2>2, <2>3
<1> QED
  BY <1>1, RangemapInvariant, PTL

(* A range is taken if it overlaps that of an entry.                       *)
LEMMA TakenPairs ==
    ASSUME NEW m, MapOK(m), NEW r
    PROVE  IsTaken(m, r) <=> {e \in Pairs(m) : Intersects(e.range, r)} # {}
<1>1. Touched(RangesOf(m), r) = {i \in 1 .. m.length : Intersects(m.cells[i], r)}
  BY HalvesFacts
<1>2. \A i \in 1 .. m.length : Pair(m, i) \in Pairs(m) /\ Pair(m, i).range = m.cells[i]
  BY DEF Pairs, Pair
<1>3. \A e \in Pairs(m) : \E i \in 1 .. m.length : e.range = m.cells[i]
  BY DEF Pairs, Pair
<1> QED
  BY <1>1, <1>2, <1>3 DEF IsTaken

-----------------------------------------------------------------------------
(* Rangemap implements RangeDictionary *)

LEMMA EntriesFacts ==
    ASSUME MapsOK
    PROVE  /\ map = None => EntrySet = None
           /\ map # None => EntrySet = Pairs(map) /\ EntrySet # None
<1>1. map = None => EntrySet = None
  BY DEF EntrySet
<1>2. ASSUME map # None PROVE EntrySet = Pairs(map) /\ EntrySet # None
  <2>1. MapOK(map)
    BY <1>2 DEF MapsOK
  <2>2. \A i \in 1 .. map.length : Entry(i) = Pair(map, i)
    BY <2>1, HalvesFacts DEF Entry, Pair
  <2>3. EntrySet = Pairs(map)
    BY <1>2, <2>2 DEF EntrySet, Pairs
  <2> QED
    BY <2>1, <2>3, NotNone
<1> QED
  BY <1>1, <1>2

LEMMA NewEntries ==
    ASSUME MapsOK', map' # None
    PROVE  EntrySet' = Pairs(map') /\ EntrySet' # None
<1>1. MapsOK /\ map # None => EntrySet = Pairs(map) /\ EntrySet # None
  BY EntriesFacts
<1>2. (MapsOK /\ map # None => EntrySet = Pairs(map) /\ EntrySet # None)'
  BY EntriesFacts, <1>1, PTL
<1> QED
  BY <1>2 DEF Pairs, Pair

LEMMA LeaveStep ==
    ASSUME map' = map
    PROVE  EntrySet' = EntrySet
BY DEF EntrySet, Entry, RangesOf, ValuesOf

LEMMA InsertStep ==
    ASSUME RangemapInv, MapsOK', NEW r \in Given, NEW v \in Value, Insert(r, v)
    PROVE  Abstract!Insert(r, v)
<1>1. map # None /\ MapOK(map) /\ EntrySet = Pairs(map) /\ EntrySet # None
  BY EntriesFacts DEF Insert, RangemapInv, MapsOK
<1>2. r \in ValidRanges <=> ~ Rejected(r)
  BY RangemapAssumption, ValidFacts
<1>3. IsTaken(map, r) <=> {e \in EntrySet : Intersects(e.range, r)} # {}
  BY <1>1, TakenPairs
<1>4. Leave => EntrySet' = EntrySet
  BY LeaveStep DEF Leave
<1>5. ASSUME ~ Rejected(r), ~ IsTaken(map, r), map' = WithEntry(map, r, v)
      PROVE  EntrySet' = EntrySet \cup {[range |-> r, value |-> v]}
  <2>1. MapOK(map')
    BY <1>1, <1>2, <1>5, InsertKeeps
  <2>2. EntrySet' = Pairs(map')
    BY <2>1, NotNone, NewEntries
  <2>3. Pairs(map') = Pairs(map) \cup {[range |-> r, value |-> v]}
    BY <1>1, <1>2, <1>5, InsertPairs
  <2> QED
    BY <1>1, <2>2, <2>3
<1> QED
  BY <1>1, <1>2, <1>3, <1>4, <1>5 DEF Insert, Abstract!Insert, Abstract!Reject, Abstract!Hit

LEMMA RemoveStep ==
    ASSUME RangemapInv, MapsOK', NEW r \in Given, Remove(r)
    PROVE  Abstract!Remove(r)
<1>1. map # None /\ MapOK(map) /\ EntrySet = Pairs(map) /\ EntrySet # None
  BY EntriesFacts DEF Remove, RangemapInv, MapsOK
<1>2. r \in ValidRanges <=> ~ Rejected(r)
  BY RangemapAssumption, ValidFacts
<1>3. IsTaken(map, r) <=> {e \in EntrySet : Intersects(e.range, r)} # {}
  BY <1>1, TakenPairs
<1>4. Leave => EntrySet' = EntrySet
  BY LeaveStep DEF Leave
<1>5. ASSUME NEW found \in Touched(RangesOf(map), r), ~ Rejected(r)
      PROVE  /\ found \in 1 .. map.length /\ IsTaken(map, r)
             /\ map.cells[found] # r => \A e \in EntrySet : e.range # r
             /\ map.cells[found] = r =>
                    Pair(map, found) \in EntrySet /\ Pair(map, found).range = r
             /\ map' = WithoutEntry(map, found) => EntrySet' = EntrySet \ {Pair(map, found)}
  <2>1. /\ found \in 1 .. map.length /\ Intersects(map.cells[found], r)
        /\ IsTaken(map, r)
    BY <1>1, <1>5, HalvesFacts DEF IsTaken
  <2>2. ASSUME map.cells[found] # r, NEW e \in EntrySet, e.range = r PROVE FALSE
    <3>1. PICK i \in 1 .. map.length : e = Pair(map, i)
      BY <1>1 DEF Pairs
    <3>2. map.cells[i] = r
      BY <2>2, <3>1 DEF Pair
    <3>3. i = found
      BY <1>1, <2>1, <3>2, PlacesApart
    <3> QED
      BY <2>2, <3>2, <3>3
  <2>3. /\ Pair(map, found) \in EntrySet
        /\ Pair(map, found).range = map.cells[found]
    BY <1>1, <2>1 DEF Pairs, Pair
  <2>4. ASSUME map' = WithoutEntry(map, found)
        PROVE  EntrySet' = EntrySet \ {Pair(map, found)}
    <3>1. MapOK(map')
      BY <1>1, <2>1, <2>4, RemoveKeeps
    <3>2. EntrySet' = Pairs(map')
      BY <3>1, NotNone, NewEntries
    <3>3. Pairs(map') = Pairs(map) \ {Pair(map, found)}
      BY <1>1, <2>1, <2>4, RemovePairs
    <3> QED
      BY <1>1, <3>2, <3>3
  <2> QED
    BY <2>1, <2>2, <2>3, <2>4
<1>6. CASE Leave /\ \/ Rejected(r) /\ ret' = "EINVAL"
                    \/ ~ Rejected(r) /\ ~ IsTaken(map, r) /\ ret' = "ENOENT"
  BY <1>1, <1>2, <1>3, <1>4, <1>6 DEF Abstract!Remove, Abstract!Reject, Abstract!Hit
<1>7. ASSUME ~ Rejected(r), NEW found \in Touched(RangesOf(map), r),
             map.cells[found] # r, ret' = "EACCES", Leave
      PROVE  Abstract!Remove(r)
  <2>1. IsTaken(map, r) /\ \A e \in EntrySet : e.range # r
    BY <1>5, <1>7
  <2> QED
    BY <1>1, <1>2, <1>3, <1>4, <1>7, <2>1 DEF Abstract!Remove, Abstract!Hit
<1>8. ASSUME ~ Rejected(r), NEW found \in Touched(RangesOf(map), r),
             map.cells[found] = r, map' = WithoutEntry(map, found), ret' = "OK"
      PROVE  Abstract!Remove(r)
  <2>1. PICK e : e = Pair(map, found)
    OBVIOUS
  <2>2. e \in EntrySet /\ e.range = r /\ EntrySet' = EntrySet \ {e}
    BY <1>5, <1>8, <2>1
  <2> QED
    BY <1>1, <1>8, <2>2 DEF Abstract!Remove
<1> QED
  BY <1>6, <1>7, <1>8 DEF Remove

(* Every step of a range map is one of the dictionary or leaves it alone.  *)
LEMMA AbstractStep ==
    ASSUME RangemapInv, MapsOK', [Next]_vars
    PROVE  [Abstract!Next]_(Abstract!vars)
<1>1. map # None => EntrySet = Pairs(map) /\ EntrySet # None
  BY EntriesFacts DEF RangemapInv
<1>2. map = None <=> EntrySet = None
  BY <1>1 DEF EntrySet
<1>3. ASSUME NEW capacity \in Capacities, Create(capacity) PROVE Abstract!Create
  <2>1. map' = NewMap(capacity) /\ capacity \in Nat
    BY <1>3, RangemapAssumption DEF Create
  <2>2. MapOK(map') /\ map'.length = 0
    BY <2>1, NewMapFacts
  <2>3. EntrySet' = Pairs(map')
    BY <2>2, NotNone, NewEntries
  <2>4. Pairs(map') = {}
    BY <2>2 DEF Pairs
  <2> QED
    BY <1>2, <1>3, <2>3, <2>4 DEF Create, Abstract!Create
<1>4. ASSUME Done PROVE Abstract!Discard
  BY <1>2, <1>4 DEF Done, EntrySet, Abstract!Discard
<1>5. ASSUME NEW r \in Given, NEW v \in Value, Insert(r, v) PROVE Abstract!Insert(r, v)
  BY <1>5, InsertStep
<1>6. ASSUME NEW r \in Given, Remove(r) PROVE Abstract!Remove(r)
  BY <1>6, RemoveStep
<1>7. ASSUME Reset PROVE Abstract!Clear
  <2>1. MapOK(map) /\ map # None /\ map' = Tidied([map EXCEPT !.length = 0]) /\ ret' = None
    BY <1>7 DEF Reset, RangemapInv, MapsOK
  <2>2. MapOK(map') /\ map'.length = 0
    BY <2>1, ClearedKeeps
  <2>3. EntrySet' = Pairs(map')
    BY <2>2, NotNone, NewEntries
  <2>4. Pairs(map') = {}
    BY <2>2 DEF Pairs
  <2> QED
    BY <1>2, <2>1, <2>3, <2>4 DEF Abstract!Clear
<1>8. ASSUME map' = map, ret' = ret PROVE EntrySet' = EntrySet /\ ret' = ret
  BY <1>8, LeaveStep
<1>9. Enumerate \/ EnumerateNext \/ EnumerateDone \/ UNCHANGED vars =>
          map' = map /\ ret' = ret
  BY DEF Enumerate, EnumerateNext, EnumerateDone, vars
<1> QED
  BY <1>3, <1>4, <1>5, <1>6, <1>7, <1>8, <1>9 DEF Next, Abstract!Next, Abstract!vars

(* A range map is a set of ranges with values: nothing overlaps, each      *)
(* range keeps the value it was inserted with, however the halves of the   *)
(* buffer move, and the results say what happened.                         *)
THEOREM ImplementsRangeDictionary == Spec => RefinesRangeDictionary
<1>1. Init => Abstract!Init
  BY DEF Init, EntrySet, Abstract!Init
<1>2. RangemapInv => MapsOK
  BY DEF RangemapInv
<1>3. RangemapInv /\ MapsOK' /\ [Next]_vars => [Abstract!Next]_(Abstract!vars)
  BY AbstractStep
<1> QED
  BY <1>1, <1>2, <1>3, RangemapInvariant, PTL DEF Spec, RefinesRangeDictionary, Abstract!Spec
=============================================================================
