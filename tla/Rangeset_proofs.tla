--------------------------- MODULE Rangeset_proofs ----------------------------
(***************************************************************************)
(* Proofs about Rangeset, for every domain of locations, every capacity    *)
(* and every range: the array stays in order, and is a set of locations.   *)
(***************************************************************************)
EXTENDS Rangeset, NumberFacts

-----------------------------------------------------------------------------
(* In an array in order, the ranges below a location, and those a range    *)
(* touches, are neighbours.                                                *)

LEMMA RangeNumbers ==
    ASSUME NEW r \in AnyRange
    PROVE  /\ r.location \in Nat /\ r.length \in Nat /\ End(r) \in Nat
           /\ End(r) = r.location + r.length
BY DEF AnyRange, End

LEMMA MakeFacts ==
    ASSUME NEW a \in Nat, NEW n \in Nat
    PROVE  /\ Make(a, n) \in AnyRange
           /\ Make(a, n).location = a /\ Make(a, n).length = n /\ End(Make(a, n)) = a + n
BY DEF Make, AnyRange, End

LEMMA SpanFacts ==
    ASSUME NEW a \in Nat, NEW e \in Nat, a <= e
    PROVE  /\ Span(a, e) \in AnyRange
           /\ Span(a, e).location = a /\ Span(a, e).length = e - a /\ End(Span(a, e)) = e
BY DEF Span, Make, AnyRange, End

(* Each range ends before every later one begins, not just the next.       *)
Apart(s) == \A i, j \in 1 .. Len(s) : i < j => End(s[i]) <= s[j].location

Proper(s) == \A i \in 1 .. Len(s) : s[i].length > 0 /\ IsValid(s[i])

LEMMA InOrderApart ==
    ASSUME NEW s \in Seq(AnyRange)
    PROVE  InOrder(s) <=> Proper(s) /\ Apart(s)
<1>1. /\ Len(s) \in Nat /\ DOMAIN s = 1 .. Len(s)
      /\ \A i \in 1 .. Len(s) : s[i] \in AnyRange
  OBVIOUS
<1>2. \A i \in 1 .. Len(s) : /\ s[i].location \in Nat /\ s[i].length \in Nat
                             /\ End(s[i]) \in Nat /\ s[i].location <= End(s[i])
  BY <1>1, RangeNumbers
<1>3. ASSUME InOrder(s) PROVE Apart(s)
  <2> DEFINE T == {d \in Nat : \A i, j \in 1 .. Len(s) :
                       j = i + 1 + d => End(s[i]) <= s[j].location}
  <2>1. 0 \in T
    <3> SUFFICES ASSUME NEW i \in 1 .. Len(s), NEW j \in 1 .. Len(s), j = i + 1 + 0
                 PROVE  End(s[i]) <= s[j].location
      OBVIOUS
    <3>1. i \in 1 .. Len(s) - 1 /\ j = i + 1
      BY <1>1
    <3> QED
      BY <1>3, <3>1 DEF InOrder
  <2>2. ASSUME NEW d \in Nat, d \in T PROVE d + 1 \in T
    <3> SUFFICES ASSUME NEW i \in 1 .. Len(s), NEW j \in 1 .. Len(s), j = i + 1 + (d + 1)
                 PROVE  End(s[i]) <= s[j].location
      OBVIOUS
    <3>1. j - 1 \in 1 .. Len(s) /\ j - 1 \in 1 .. Len(s) - 1 /\ j - 1 = i + 1 + d /\ (j - 1) + 1 = j
      BY <1>1
    <3>2. End(s[i]) <= s[j - 1].location
      BY <2>2, <3>1
    <3>3. End(s[j - 1]) <= s[j].location
      BY <1>3, <3>1 DEF InOrder
    <3> QED
      BY <1>2, <3>1, <3>2, <3>3
  <2> HIDE DEF T
  <2>3. \A d \in Nat : d \in T
    BY <2>1, <2>2, Induction
  <2>4. ASSUME NEW i \in 1 .. Len(s), NEW j \in 1 .. Len(s), i < j
        PROVE  End(s[i]) <= s[j].location
    <3>1. j - i - 1 \in Nat /\ j = i + 1 + (j - i - 1)
      BY <2>4
    <3>2. j - i - 1 \in T
      BY <2>3, <3>1
    <3> QED
      BY <3>1, <3>2 DEF T
  <2> QED
    BY <2>4 DEF Apart
<1>4. ASSUME Apart(s) PROVE \A i \in 1 .. Len(s) - 1 : End(s[i]) <= s[i + 1].location
  BY <1>1, <1>4 DEF Apart
<1>5. InOrder(s) => Proper(s)
  BY <1>1 DEF InOrder, Proper
<1>6. Proper(s) => \A i \in DOMAIN s : s[i].length > 0 /\ IsValid(s[i])
  BY <1>1 DEF Proper
<1> QED
  BY <1>3, <1>4, <1>5, <1>6 DEF InOrder

(* _mulle_range_hole_bsearch splits the array at the location.             *)
LEMMA HoleFacts ==
    ASSUME NEW s \in Seq(AnyRange), InOrder(s), NEW l \in Nat
    PROVE  /\ HoleIndex(s, l) \in 0 .. Len(s)
           /\ \A i \in 1 .. Len(s) : i <= HoleIndex(s, l) <=> s[i].location < l
<1> DEFINE T == {i \in DOMAIN s : s[i].location < l}
<1>1. /\ Len(s) \in Nat /\ DOMAIN s = 1 .. Len(s)
      /\ \A i \in 1 .. Len(s) : s[i].location \in Nat /\ End(s[i]) \in Nat
                                /\ s[i].location <= End(s[i])
  <2>1. \A i \in 1 .. Len(s) : s[i] \in AnyRange
    OBVIOUS
  <2> QED
    BY <2>1, RangeNumbers
<1>2. Apart(s)
  BY InOrderApart
<1>3. T \subseteq 1 .. Len(s)
  BY <1>1
<1>4. ASSUME NEW i \in 1 .. Len(s), NEW j \in 1 .. Len(s), i < j, j \in T PROVE i \in T
  <2>1. End(s[i]) <= s[j].location /\ s[j].location < l
    BY <1>2, <1>4 DEF Apart
  <2> QED
    BY <1>1, <2>1
<1>5. HoleIndex(s, l) = Cardinality(T)
  BY DEF HoleIndex
<1>6. \A i \in 1 .. Len(s) : i \in T <=> s[i].location < l
  BY <1>1
<1> HIDE DEF T
<1>7. Cardinality(T) \in 0 .. Len(s) /\ T = 1 .. Cardinality(T)
  BY <1>1, <1>3, <1>4, Initial
<1>8. \A i \in 1 .. Len(s) : i <= Cardinality(T) <=> i \in T
  BY <1>1, <1>7
<1> QED
  BY <1>5, <1>6, <1>7, <1>8

-----------------------------------------------------------------------------
(* Arrays of ranges *)

RangeSeq == Seq(AnyRange)

Usable(r) == r \in AnyRange /\ r.length > 0 /\ IsValid(r)

LEMMA SeqFacts ==
    ASSUME NEW s \in RangeSeq
    PROVE  /\ Len(s) \in Nat /\ DOMAIN s = 1 .. Len(s)
           /\ \A i \in 1 .. Len(s) : /\ s[i] \in AnyRange
                                     /\ s[i].location \in Nat /\ s[i].length \in Nat
                                     /\ End(s[i]) \in Nat
                                     /\ End(s[i]) = s[i].location + s[i].length
<1>1. /\ Len(s) \in Nat /\ DOMAIN s = 1 .. Len(s)
      /\ \A i \in 1 .. Len(s) : s[i] \in AnyRange
  BY DEF RangeSeq
<1> QED
  BY <1>1, RangeNumbers

(* A member of an array in order, and its place among the others.          *)
LEMMA MemberFacts ==
    ASSUME NEW s \in RangeSeq, InOrder(s)
    PROVE  /\ Len(s) \in Nat /\ LocationMax \in Nat
           /\ \A i \in 1 .. Len(s) :
                 /\ Usable(s[i]) /\ s[i].location \in Nat /\ End(s[i]) \in Nat
                 /\ s[i].location < End(s[i])
                 /\ s[i].location <= LocationMax /\ End(s[i]) <= LocationMax + 1
           /\ \A i, j \in 1 .. Len(s) : i < j => End(s[i]) <= s[j].location
<1>1. Proper(s) /\ Apart(s)
  BY InOrderApart DEF RangeSeq
<1>2. \A i \in 1 .. Len(s) : Usable(s[i]) /\ s[i].location < End(s[i])
  BY <1>1, SeqFacts DEF Proper, Usable
<1> QED
  BY <1>1, <1>2, SeqFacts, RangesAssumption DEF Apart, Usable, IsValid

LEMMA UsableNumbers ==
    ASSUME NEW r, Usable(r)
    PROVE  /\ r.location \in Nat /\ End(r) \in Nat /\ r.location < End(r)
           /\ LocationMax \in Nat /\ r.location <= LocationMax /\ End(r) <= LocationMax + 1
BY RangeNumbers, RangesAssumption DEF Usable, IsValid

(* Two usable ranges that do not intersect are one behind the other.       *)
LEMMA BehindEachOther ==
    ASSUME NEW a, NEW b, Usable(a), Usable(b), ~ Intersects(a, b)
    PROVE  End(a) <= b.location \/ End(b) <= a.location
BY UsableNumbers DEF Intersects

(* A range that touches none fits where the search finds the hole.         *)
LEMMA HoleFits ==
    ASSUME NEW s \in RangeSeq, InOrder(s), NEW r, Usable(r), Touched(s, r) = {}
    PROVE  /\ HoleIndex(s, r.location) \in 0 .. Len(s)
           /\ \A i \in 1 .. Len(s) :
                 /\ i <= HoleIndex(s, r.location) => End(s[i]) <= r.location
                 /\ i > HoleIndex(s, r.location) => End(r) <= s[i].location
<1>1. /\ r.location \in Nat /\ End(r) \in Nat /\ r.location < End(r)
  BY UsableNumbers
<1>2. /\ HoleIndex(s, r.location) \in 0 .. Len(s)
      /\ \A i \in 1 .. Len(s) : i <= HoleIndex(s, r.location) <=> s[i].location < r.location
  BY <1>1, HoleFacts DEF RangeSeq
<1>3. ASSUME NEW i \in 1 .. Len(s)
      PROVE  /\ i <= HoleIndex(s, r.location) => End(s[i]) <= r.location
             /\ i > HoleIndex(s, r.location) => End(r) <= s[i].location
  <2>1. /\ Usable(s[i]) /\ s[i].location \in Nat /\ End(s[i]) \in Nat
        /\ s[i].location < End(s[i])
    BY MemberFacts
  <2>2. ~ Intersects(s[i], r)
    BY SeqFacts DEF Touched
  <2>3. End(s[i]) <= r.location \/ End(r) <= s[i].location
    BY <2>1, <2>2, BehindEachOther
  <2>4. i \in Nat /\ HoleIndex(s, r.location) \in Nat
    BY <1>2, SeqFacts
  <2> QED
    BY <1>1, <1>2, <2>1, <2>3, <2>4
<1> QED
  BY <1>2, <1>3

-----------------------------------------------------------------------------
(* x is in the array s                                                     *)
LEMMA CoveredFacts ==
    ASSUME NEW s \in RangeSeq
    PROVE  \A x : x \in Covered(s) <=> x \in Nat /\ \E i \in 1 .. Len(s) : Holds(s[i], x)
<1>1. DOMAIN s = 1 .. Len(s)
  BY SeqFacts
<1>2. ASSUME NEW x, NEW i \in 1 .. Len(s)
      PROVE  x \in s[i].location .. End(s[i]) - 1 <=> x \in Nat /\ Holds(s[i], x)
  <2>1. s[i].location \in Nat /\ End(s[i]) \in Nat
    BY SeqFacts
  <2> QED
    BY <2>1 DEF Holds
<1> QED
  BY <1>1, <1>2 DEF Covered

LEMMA ConcatFacts ==
    ASSUME NEW a \in RangeSeq, NEW b \in RangeSeq
    PROVE  /\ a \o b \in RangeSeq /\ Len(a \o b) = Len(a) + Len(b)
           /\ \A i \in 1 .. Len(a) : (a \o b)[i] = a[i]
           /\ \A i \in 1 .. Len(b) : (a \o b)[Len(a) + i] = b[i]
BY DEF RangeSeq

(* The parts of a spliced array, and that it has no others.                *)
LEMMA SpliceFacts ==
    ASSUME NEW s \in RangeSeq, NEW pieces \in RangeSeq,
           NEW lo \in 1 .. Len(s) + 1, NEW hi \in 0 .. Len(s), lo <= hi + 1
    PROVE  LET t == Splice(s, lo, hi, pieces)
               n == Len(pieces)
           IN  /\ t \in RangeSeq /\ Len(t) = (lo - 1) + n + (Len(s) - hi)
               /\ \A i \in 1 .. lo - 1 : i \in 1 .. Len(t) /\ t[i] = s[i]
               /\ \A i \in 1 .. n : lo - 1 + i \in 1 .. Len(t) /\ t[lo - 1 + i] = pieces[i]
               /\ \A i \in hi + 1 .. Len(s) :
                     i - hi + (lo - 1 + n) \in 1 .. Len(t) /\ t[i - hi + (lo - 1 + n)] = s[i]
               /\ \A k \in 1 .. Len(t) :
                     \/ k \in 1 .. lo - 1
                     \/ \E i \in 1 .. n : k = lo - 1 + i
                     \/ \E i \in hi + 1 .. Len(s) : k = i - hi + (lo - 1 + n)
<1> DEFINE a == SubSeq(s, 1, lo - 1)
           b == SubSeq(s, hi + 1, Len(s))
           n == Len(pieces)
           t == Splice(s, lo, hi, pieces)
<1>1. Len(s) \in Nat /\ n \in Nat /\ lo \in Nat /\ lo >= 1 /\ lo <= Len(s) + 1
      /\ hi \in Nat /\ hi <= Len(s)
  BY SeqFacts
<1>2. /\ a \in RangeSeq /\ Len(a) = lo - 1
      /\ \A i \in 1 .. lo - 1 : a[i] = s[i]
  BY <1>1 DEF RangeSeq
<1>3. /\ b \in RangeSeq /\ Len(b) = Len(s) - hi
      /\ \A i \in 1 .. Len(s) - hi : b[i] = s[hi + i]
  BY <1>1 DEF RangeSeq
<1> HIDE DEF a, b
<1> DEFINE c == a \o pieces
<1>4. /\ c \in RangeSeq /\ Len(c) = lo - 1 + n
      /\ \A i \in 1 .. lo - 1 : c[i] = a[i]
      /\ \A i \in 1 .. n : c[lo - 1 + i] = pieces[i]
  <2>1. /\ a \o pieces \in RangeSeq /\ Len(a \o pieces) = Len(a) + Len(pieces)
        /\ \A i \in 1 .. Len(a) : (a \o pieces)[i] = a[i]
        /\ \A i \in 1 .. Len(pieces) : (a \o pieces)[Len(a) + i] = pieces[i]
    BY <1>2, ConcatFacts
  <2> QED
    BY <1>2, <2>1
<1> HIDE DEF c
<1>5. /\ c \o b \in RangeSeq /\ Len(c \o b) = lo - 1 + n + (Len(s) - hi)
      /\ \A i \in 1 .. lo - 1 + n : (c \o b)[i] = c[i]
      /\ \A i \in 1 .. Len(s) - hi : (c \o b)[lo - 1 + n + i] = b[i]
  <2> HIDE DEF n
  <2>1. /\ c \o b \in RangeSeq /\ Len(c \o b) = Len(c) + Len(b)
        /\ \A i \in 1 .. Len(c) : (c \o b)[i] = c[i]
        /\ \A i \in 1 .. Len(b) : (c \o b)[Len(c) + i] = b[i]
    BY <1>3, <1>4, ConcatFacts
  <2> QED
    BY <1>3, <1>4, <2>1
<1>6. t = c \o b
  BY DEF Splice, a, b, c
<1> HIDE DEF t, n
<1>7. \A i \in 1 .. lo - 1 : i \in 1 .. Len(t) /\ t[i] = s[i]
  <2> TAKE i \in 1 .. lo - 1
  <2>1. i \in 1 .. lo - 1 + n /\ i \in 1 .. lo - 1 + n + (Len(s) - hi)
    BY <1>1
  <2> QED
    BY <1>2, <1>4, <1>5, <1>6, <2>1
<1>8. \A i \in 1 .. n : lo - 1 + i \in 1 .. Len(t) /\ t[lo - 1 + i] = pieces[i]
  <2> TAKE i \in 1 .. n
  <2>1. lo - 1 + i \in 1 .. lo - 1 + n /\ lo - 1 + i \in 1 .. lo - 1 + n + (Len(s) - hi)
    BY <1>1
  <2> QED
    BY <1>4, <1>5, <1>6, <2>1
<1>9. \A i \in hi + 1 .. Len(s) :
           i - hi + (lo - 1 + n) \in 1 .. Len(t) /\ t[i - hi + (lo - 1 + n)] = s[i]
  <2> TAKE i \in hi + 1 .. Len(s)
  <2>1. /\ i - hi \in 1 .. Len(s) - hi /\ hi + (i - hi) = i
        /\ i - hi + (lo - 1 + n) = lo - 1 + n + (i - hi)
        /\ i - hi + (lo - 1 + n) \in 1 .. lo - 1 + n + (Len(s) - hi)
    BY <1>1
  <2> QED
    BY <1>3, <1>5, <1>6, <2>1
<1>10. ASSUME NEW k \in 1 .. Len(t)
       PROVE  \/ k \in 1 .. lo - 1
              \/ \E i \in 1 .. n : k = lo - 1 + i
              \/ \E i \in hi + 1 .. Len(s) : k = i - hi + (lo - 1 + n)
  <2>1. k \in Nat /\ k >= 1 /\ k <= lo - 1 + n + (Len(s) - hi)
    BY <1>1, <1>5, <1>6
  <2>2. CASE k <= lo - 1
    BY <1>1, <2>1, <2>2
  <2>3. CASE k > lo - 1 /\ k <= lo - 1 + n
    <3>1. k - (lo - 1) \in 1 .. n /\ k = lo - 1 + (k - (lo - 1))
      BY <1>1, <2>1, <2>3
    <3> QED
      BY <3>1
  <2>4. CASE k > lo - 1 + n
    <3>1. /\ k - (lo - 1 + n) + hi \in hi + 1 .. Len(s)
          /\ k = (k - (lo - 1 + n) + hi) - hi + (lo - 1 + n)
      BY <1>1, <2>1, <2>4
    <3> QED
      BY <3>1
  <2> QED
    BY <1>1, <2>1, <2>2, <2>3, <2>4
<1> QED
  BY <1>5, <1>6, <1>7, <1>8, <1>9, <1>10 DEF t, n

(* Pieces between what stays in front of them and behind them.             *)
Fits(s, lo, hi, pieces) ==
    /\ s \in RangeSeq /\ InOrder(s) /\ pieces \in RangeSeq /\ InOrder(pieces)
    /\ lo \in 1 .. Len(s) + 1 /\ hi \in 0 .. Len(s) /\ lo <= hi + 1
    /\ \A i \in 1 .. lo - 1, k \in 1 .. Len(pieces) : End(s[i]) <= pieces[k].location
    /\ \A i \in hi + 1 .. Len(s), k \in 1 .. Len(pieces) : End(pieces[k]) <= s[i].location

LEMMA SpliceInOrder ==
    \A s, lo, hi, pieces : Fits(s, lo, hi, pieces) =>
           /\ Splice(s, lo, hi, pieces) \in RangeSeq
           /\ InOrder(Splice(s, lo, hi, pieces))
           /\ Len(Splice(s, lo, hi, pieces)) = (lo - 1) + Len(pieces) + (Len(s) - hi)
<1> SUFFICES ASSUME NEW s, NEW lo, NEW hi, NEW pieces, Fits(s, lo, hi, pieces)
             PROVE  /\ Splice(s, lo, hi, pieces) \in RangeSeq
                    /\ InOrder(Splice(s, lo, hi, pieces))
                    /\ Len(Splice(s, lo, hi, pieces)) =
                          (lo - 1) + Len(pieces) + (Len(s) - hi)
  OBVIOUS
<1>0. s \in RangeSeq /\ InOrder(s) /\ pieces \in RangeSeq /\ InOrder(pieces)
  BY DEF Fits
<1> DEFINE t == Splice(s, lo, hi, pieces)
           n == Len(pieces)
<1>1. lo \in 1 .. Len(s) + 1 /\ hi \in 0 .. Len(s) /\ lo <= hi + 1
  BY DEF Fits
<1>2. /\ t \in RangeSeq /\ Len(t) = (lo - 1) + n + (Len(s) - hi)
      /\ \A i \in 1 .. lo - 1 : i \in 1 .. Len(t) /\ t[i] = s[i]
      /\ \A i \in 1 .. n : lo - 1 + i \in 1 .. Len(t) /\ t[lo - 1 + i] = pieces[i]
      /\ \A i \in hi + 1 .. Len(s) :
            i - hi + (lo - 1 + n) \in 1 .. Len(t) /\ t[i - hi + (lo - 1 + n)] = s[i]
      /\ \A k \in 1 .. Len(t) :
            \/ k \in 1 .. lo - 1
            \/ \E i \in 1 .. n : k = lo - 1 + i
            \/ \E i \in hi + 1 .. Len(s) : k = i - hi + (lo - 1 + n)
  BY <1>0, <1>1, SpliceFacts
<1>3. Len(s) \in Nat /\ n \in Nat /\ lo \in Nat /\ hi \in Nat
  BY <1>0, <1>1, SeqFacts
<1>4. Proper(s) /\ Apart(s) /\ Proper(pieces) /\ Apart(pieces)
  BY <1>0, InOrderApart DEF RangeSeq
<1> HIDE DEF t
<1>5. Proper(t)
  <2> SUFFICES ASSUME NEW k \in 1 .. Len(t) PROVE t[k].length > 0 /\ IsValid(t[k])
    BY DEF Proper
  <2>1. CASE k \in 1 .. lo - 1
    <3>1. k \in 1 .. Len(s)
      BY <1>1, <1>3, <2>1
    <3> QED
      BY <1>2, <1>4, <2>1, <3>1 DEF Proper
  <2>2. CASE \E i \in 1 .. n : k = lo - 1 + i
    BY <1>2, <1>4, <2>2 DEF Proper
  <2>3. CASE \E i \in hi + 1 .. Len(s) : k = i - hi + (lo - 1 + n)
    <3>1. \A i \in hi + 1 .. Len(s) : i \in 1 .. Len(s)
      BY <1>3
    <3> QED
      BY <1>2, <1>4, <2>3, <3>1 DEF Proper
  <2> QED
    BY <1>2, <2>1, <2>2, <2>3
<1>6. Apart(t)
  <2> SUFFICES ASSUME NEW k \in 1 .. Len(t), NEW j \in 1 .. Len(t), k < j
               PROVE  End(t[k]) <= t[j].location
    BY DEF Apart
  <2>1. k \in Nat /\ j \in Nat
    BY <1>2, SeqFacts
  <2>2. CASE k \in 1 .. lo - 1
    <3>1. k \in 1 .. Len(s) /\ t[k] = s[k]
      BY <1>1, <1>2, <1>3, <2>2
    <3>2. CASE j \in 1 .. lo - 1
      <4>1. j \in 1 .. Len(s) /\ t[j] = s[j]
        BY <1>1, <1>2, <1>3, <3>2
      <4> QED
        BY <1>4, <3>1, <4>1 DEF Apart
    <3>3. ASSUME NEW i \in 1 .. n, j = lo - 1 + i PROVE End(t[k]) <= t[j].location
      BY <1>2, <2>2, <3>1, <3>3 DEF Fits
    <3>4. ASSUME NEW i \in hi + 1 .. Len(s), j = i - hi + (lo - 1 + n)
          PROVE  End(t[k]) <= t[j].location
      <4>1. i \in 1 .. Len(s) /\ t[j] = s[i] /\ k < i
        BY <1>1, <1>2, <1>3, <2>2, <3>4
      <4> QED
        BY <1>4, <3>1, <4>1 DEF Apart
    <3> QED
      BY <1>2, <3>2, <3>3, <3>4
  <2>3. ASSUME NEW i \in 1 .. n, k = lo - 1 + i PROVE End(t[k]) <= t[j].location
    <3>1. ~ (j \in 1 .. lo - 1)
      BY <1>3, <2>1, <2>3
    <3>2. ASSUME NEW m \in 1 .. n, j = lo - 1 + m PROVE End(t[k]) <= t[j].location
      <4>1. t[k] = pieces[i] /\ t[j] = pieces[m] /\ i < m
        BY <1>2, <1>3, <2>3, <3>2
      <4> QED
        BY <1>4, <4>1 DEF Apart
    <3>3. ASSUME NEW m \in hi + 1 .. Len(s), j = m - hi + (lo - 1 + n)
          PROVE  End(t[k]) <= t[j].location
      BY <1>2, <2>3, <3>3 DEF Fits
    <3> QED
      BY <1>2, <3>1, <3>2, <3>3
  <2>4. ASSUME NEW i \in hi + 1 .. Len(s), k = i - hi + (lo - 1 + n)
        PROVE  End(t[k]) <= t[j].location
    <3>1. k > lo - 1 + n
      BY <1>3, <2>4
    <3>2. ~ (j \in 1 .. lo - 1) /\ \A m \in 1 .. n : j # lo - 1 + m
      BY <1>3, <2>1, <3>1
    <3>3. ASSUME NEW m \in hi + 1 .. Len(s), j = m - hi + (lo - 1 + n)
          PROVE  End(t[k]) <= t[j].location
      <4>1. t[k] = s[i] /\ t[j] = s[m]
        BY <1>2, <2>4, <3>3
      <4>2. i \in 1 .. Len(s) /\ m \in 1 .. Len(s) /\ i < m
        BY <1>3, <2>1, <2>4, <3>3
      <4> QED
        BY <1>4, <4>1, <4>2 DEF Apart
    <3> QED
      BY <1>2, <3>2, <3>3
  <2> QED
    BY <1>2, <2>2, <2>3, <2>4
<1>7. InOrder(t)
  BY <1>2, <1>5, <1>6, InOrderApart DEF RangeSeq
<1> QED
  BY <1>2, <1>7 DEF t, n

LEMMA SpliceCovers ==
    ASSUME NEW s \in RangeSeq, NEW pieces \in RangeSeq,
           NEW lo \in 1 .. Len(s) + 1, NEW hi \in 0 .. Len(s), lo <= hi + 1, NEW x
    PROVE  x \in Covered(Splice(s, lo, hi, pieces)) <=>
              \/ x \in Nat /\ \E i \in 1 .. Len(s) : (i < lo \/ i > hi) /\ Holds(s[i], x)
              \/ x \in Covered(pieces)
<1> DEFINE t == Splice(s, lo, hi, pieces)
           n == Len(pieces)
<1>1. /\ t \in RangeSeq
      /\ \A i \in 1 .. lo - 1 : i \in 1 .. Len(t) /\ t[i] = s[i]
      /\ \A i \in 1 .. n : lo - 1 + i \in 1 .. Len(t) /\ t[lo - 1 + i] = pieces[i]
      /\ \A i \in hi + 1 .. Len(s) :
            i - hi + (lo - 1 + n) \in 1 .. Len(t) /\ t[i - hi + (lo - 1 + n)] = s[i]
      /\ \A k \in 1 .. Len(t) :
            \/ k \in 1 .. lo - 1
            \/ \E i \in 1 .. n : k = lo - 1 + i
            \/ \E i \in hi + 1 .. Len(s) : k = i - hi + (lo - 1 + n)
  BY SpliceFacts
<1> HIDE DEF t
<1>2. x \in Covered(t) <=> x \in Nat /\ \E k \in 1 .. Len(t) : Holds(t[k], x)
  BY <1>1, CoveredFacts
<1>3. x \in Covered(pieces) <=> x \in Nat /\ \E k \in 1 .. n : Holds(pieces[k], x)
  BY CoveredFacts
<1> HIDE DEF n
<1>4. Len(s) \in Nat /\ lo \in Nat /\ hi \in Nat /\ lo <= Len(s) + 1
  BY SeqFacts
<1>5. \A i \in 1 .. Len(s) : /\ i < lo <=> i \in 1 .. lo - 1
                             /\ i > hi <=> i \in hi + 1 .. Len(s)
  BY <1>4
<1>6. /\ \A i \in 1 .. lo - 1 : i \in 1 .. Len(s)
      /\ \A i \in hi + 1 .. Len(s) : i \in 1 .. Len(s)
  BY <1>4
<1>7. ASSUME NEW k \in 1 .. Len(t), Holds(t[k], x)
      PROVE  \/ \E i \in 1 .. Len(s) : (i < lo \/ i > hi) /\ Holds(s[i], x)
             \/ \E i \in 1 .. n : Holds(pieces[i], x)
  <2>1. CASE k \in 1 .. lo - 1
    <3>1. k \in 1 .. Len(s) /\ k < lo
      BY <1>5, <1>6, <2>1
    <3>2. t[k] = s[k]
      BY <1>1, <2>1
    <3> QED
      BY <1>7, <3>1, <3>2
  <2>2. ASSUME NEW i \in 1 .. n, k = lo - 1 + i PROVE Holds(pieces[i], x)
    BY <1>1, <1>7, <2>2
  <2>3. ASSUME NEW i \in hi + 1 .. Len(s), k = i - hi + (lo - 1 + n)
        PROVE  i \in 1 .. Len(s) /\ i > hi /\ Holds(s[i], x)
    <3>1. i \in 1 .. Len(s) /\ i > hi
      BY <1>5, <1>6
    <3>2. t[k] = s[i]
      BY <1>1, <2>3
    <3> QED
      BY <1>7, <3>1, <3>2
  <2>4. \/ k \in 1 .. lo - 1
        \/ \E i \in 1 .. n : k = lo - 1 + i
        \/ \E i \in hi + 1 .. Len(s) : k = i - hi + (lo - 1 + n)
    BY <1>1
  <2> QED
    BY <1>7, <2>1, <2>2, <2>3, <2>4
<1>8. ASSUME NEW i \in 1 .. Len(s), i < lo \/ i > hi, Holds(s[i], x)
      PROVE  \E k \in 1 .. Len(t) : Holds(t[k], x)
  BY <1>1, <1>5, <1>8
<1>9. ASSUME NEW i \in 1 .. n, Holds(pieces[i], x)
      PROVE  \E k \in 1 .. Len(t) : Holds(t[k], x)
  BY <1>1, <1>9
<1>10. x \in Covered(t) <=> \/ x \in Nat /\ \E i \in 1 .. Len(s) : (i < lo \/ i > hi) /\ Holds(s[i], x)
                            \/ x \in Covered(pieces)
  BY <1>2, <1>3, <1>7, <1>8, <1>9
<1> QED
  BY <1>10 DEF t

-----------------------------------------------------------------------------
(* Insert *)

LEMMA NoPiece ==
    <<>> \in RangeSeq /\ InOrder(<<>>) /\ Len(<<>>) = 0 /\ Covered(<<>>) = {}
<1>1. <<>> \in RangeSeq /\ Len(<<>>) = 0
  BY DEF RangeSeq
<1>2. Proper(<<>>) /\ Apart(<<>>)
  BY <1>1 DEF Proper, Apart
<1>3. InOrder(<<>>)
  BY <1>1, <1>2, InOrderApart DEF RangeSeq
<1> QED
  BY <1>1, <1>3 DEF Covered

LEMMA OnePiece ==
    ASSUME NEW r, Usable(r)
    PROVE  /\ <<r>> \in RangeSeq /\ InOrder(<<r>>) /\ Len(<<r>>) = 1 /\ <<r>>[1] = r
           /\ \A x : x \in Covered(<<r>>) <=> x \in Nat /\ Holds(r, x)
<1>1. <<r>> \in RangeSeq /\ Len(<<r>>) = 1 /\ <<r>>[1] = r
  BY DEF RangeSeq, Usable
<1>2. Proper(<<r>>) /\ Apart(<<r>>)
  BY <1>1 DEF Proper, Apart, Usable
<1>3. InOrder(<<r>>)
  BY <1>1, <1>2, InOrderApart DEF RangeSeq
<1> HIDE DEF RangeSeq
<1>4. \A x : x \in Covered(<<r>>) <=> x \in Nat /\ Holds(r, x)
  BY <1>1, CoveredFacts
<1> QED
  BY <1>1, <1>3, <1>4

LEMMA TwoPieces ==
    ASSUME NEW a, NEW b, Usable(a), Usable(b), End(a) <= b.location
    PROVE  /\ <<a, b>> \in RangeSeq /\ InOrder(<<a, b>>) /\ Len(<<a, b>>) = 2
           /\ <<a, b>>[1] = a /\ <<a, b>>[2] = b
           /\ \A x : x \in Covered(<<a, b>>) <=> x \in Nat /\ (Holds(a, x) \/ Holds(b, x))
<1>1. /\ <<a, b>> \in RangeSeq /\ Len(<<a, b>>) = 2
      /\ <<a, b>>[1] = a /\ <<a, b>>[2] = b
  BY DEF RangeSeq, Usable
<1>2. Proper(<<a, b>>) /\ Apart(<<a, b>>)
  BY <1>1 DEF Proper, Apart, Usable
<1>3. InOrder(<<a, b>>)
  BY <1>1, <1>2, InOrderApart DEF RangeSeq
<1>4. \A x : x \in Covered(<<a, b>>) <=> x \in Nat /\ (Holds(a, x) \/ Holds(b, x))
  <2>1. \A x : x \in Covered(<<a, b>>) <=>
                   x \in Nat /\ \E i \in 1 .. 2 : Holds(<<a, b>>[i], x)
    BY <1>1, CoveredFacts
  <2>2. \A i \in 1 .. 2 : i = 1 \/ i = 2
    OBVIOUS
  <2> QED
    BY <1>1, <2>1, <2>2
<1> QED
  BY <1>1, <1>3, <1>4

LEMMA UsableSpan ==
    ASSUME NEW a \in Nat, NEW e \in Nat, a < e, a <= LocationMax, e <= LocationMax + 1
    PROVE  /\ Usable(Span(a, e)) /\ Span(a, e).location = a /\ End(Span(a, e)) = e
           /\ \A x : Holds(Span(a, e), x) <=> a <= x /\ x < e
<1>1. /\ Span(a, e) \in AnyRange
      /\ Span(a, e).location = a /\ Span(a, e).length = e - a /\ End(Span(a, e)) = e
  BY SpanFacts
<1>2. Span(a, e).length > 0
  BY <1>1
<1> HIDE DEF Span
<1> QED
  BY <1>1, <1>2 DEF Usable, IsValid, Holds

(* What an insertion promises of the array t it makes of s.                *)
Gains(s, t, r) ==
    /\ t \in RangeSeq /\ InOrder(t) /\ Len(t) <= Len(s) + 1
    /\ \A x : x \in Covered(t) <=> x \in Covered(s) \/ (x \in Nat /\ Holds(r, x))

(* One range takes the place of those from lo to hi, which it encloses     *)
(* together with r, and covers no more.                                    *)
Replaces(s, r, lo, hi, first, end) ==
    /\ s \in RangeSeq /\ InOrder(s)
    /\ lo \in 1 .. Len(s) + 1 /\ hi \in 0 .. Len(s) /\ lo <= hi + 1
    /\ first \in Nat /\ end \in Nat /\ first < end
    /\ first <= LocationMax /\ end <= LocationMax + 1
    /\ \A i \in 1 .. Len(s) : /\ i < lo => End(s[i]) <= first
                              /\ i > hi => end <= s[i].location
    /\ \A x \in Nat : first <= x /\ x < end <=>
          \/ Holds(r, x)
          \/ \E i \in 1 .. Len(s) : lo <= i /\ i <= hi /\ Holds(s[i], x)

LEMMA Joins ==
    \A s, r, lo, hi, first, end :
        Replaces(s, r, lo, hi, first, end) =>
        Gains(s, Splice(s, lo, hi, <<Span(first, end)>>), r)
<1> SUFFICES ASSUME NEW s, NEW r, NEW lo, NEW hi, NEW first, NEW end,
                    Replaces(s, r, lo, hi, first, end)
             PROVE  Gains(s, Splice(s, lo, hi, <<Span(first, end)>>), r)
  OBVIOUS
<1> DEFINE p == Span(first, end)
           t == Splice(s, lo, hi, <<p>>)
<1>0. /\ s \in RangeSeq /\ InOrder(s)
      /\ lo \in 1 .. Len(s) + 1 /\ hi \in 0 .. Len(s) /\ lo <= hi + 1
      /\ first \in Nat /\ end \in Nat /\ first < end
      /\ first <= LocationMax /\ end <= LocationMax + 1
      /\ \A i \in 1 .. Len(s) : /\ i < lo => End(s[i]) <= first
                                /\ i > hi => end <= s[i].location
      /\ \A x \in Nat : first <= x /\ x < end <=>
            \/ Holds(r, x)
            \/ \E i \in 1 .. Len(s) : lo <= i /\ i <= hi /\ Holds(s[i], x)
  BY DEF Replaces
<1>1. /\ Usable(p) /\ p.location = first /\ End(p) = end
      /\ \A x : Holds(p, x) <=> first <= x /\ x < end
  BY <1>0, UsableSpan
<1>2. /\ <<p>> \in RangeSeq /\ InOrder(<<p>>) /\ Len(<<p>>) = 1 /\ <<p>>[1] = p
      /\ \A x : x \in Covered(<<p>>) <=> x \in Nat /\ Holds(p, x)
  BY <1>1, OnePiece
<1> HIDE DEF p
<1>5. Len(s) \in Nat /\ lo \in Nat /\ hi \in Nat
  BY <1>0, SeqFacts
<1>3. Fits(s, lo, hi, <<p>>)
  <2>1. \A k \in 1 .. Len(<<p>>) : <<p>>[k] = p
    BY <1>2
  <2>2. /\ \A i \in 1 .. lo - 1 : i \in 1 .. Len(s) /\ i < lo
        /\ \A i \in hi + 1 .. Len(s) : i \in 1 .. Len(s) /\ i > hi
    BY <1>0, <1>5
  <2> QED
    BY <1>0, <1>1, <1>2, <2>1, <2>2 DEF Fits
<1>4. /\ t \in RangeSeq /\ InOrder(t)
      /\ Len(t) = (lo - 1) + 1 + (Len(s) - hi)
  BY <1>2, <1>3, SpliceInOrder
<1>6. Len(t) <= Len(s) + 1
  BY <1>0, <1>4, <1>5
<1>7. ASSUME NEW x
      PROVE  x \in Covered(t) <=> x \in Covered(s) \/ (x \in Nat /\ Holds(r, x))
  <2>1. x \in Covered(t) <=>
              \/ x \in Nat /\ \E i \in 1 .. Len(s) : (i < lo \/ i > hi) /\ Holds(s[i], x)
              \/ x \in Covered(<<p>>)
    BY <1>0, <1>2, SpliceCovers
  <2>2. x \in Covered(s) <=> x \in Nat /\ \E i \in 1 .. Len(s) : Holds(s[i], x)
    BY <1>0, CoveredFacts
  <2>3. \A i \in 1 .. Len(s) : i < lo \/ i > hi \/ (lo <= i /\ i <= hi)
    BY <1>5
  <2>4. x \in Nat => (Holds(p, x) <=> Holds(r, x) \/
               \E i \in 1 .. Len(s) : lo <= i /\ i <= hi /\ Holds(s[i], x))
    BY <1>0, <1>1
  <2> HIDE DEF t
  <2> QED
    BY <1>2, <2>1, <2>2, <2>3, <2>4
<1> QED
  BY <1>4, <1>6, <1>7 DEF Gains, p, t

(* A range that touches none is joined with its direct neighbours.         *)
LEMMA InsertedAbsentGains ==
    ASSUME NEW s \in RangeSeq, InOrder(s), NEW r, Usable(r), Touched(s, r) = {}
    PROVE  Gains(s, InsertedAbsent(s, r), r)
<1> DEFINE h         == HoleIndex(s, r.location)
           meetsPrev == h > 0 /\ End(s[h]) = r.location
           meetsNext == h < Len(s) /\ End(r) = s[h + 1].location
           lo        == IF meetsPrev THEN h ELSE h + 1
           hi        == IF meetsNext THEN h + 1 ELSE h
           first     == IF meetsPrev THEN s[h].location ELSE r.location
           end       == IF meetsNext THEN End(s[h + 1]) ELSE End(r)
<1>1. /\ h \in 0 .. Len(s)
      /\ \A i \in 1 .. Len(s) : /\ i <= h => End(s[i]) <= r.location
                                /\ i > h  => End(r) <= s[i].location
  BY HoleFits
<1>2. InsertedAbsent(s, r) = Splice(s, lo, hi, <<Span(first, end)>>)
  BY DEF InsertedAbsent
<1>3. /\ Len(s) \in Nat /\ LocationMax \in Nat
      /\ \A i \in 1 .. Len(s) :
            /\ s[i].location \in Nat /\ End(s[i]) \in Nat /\ s[i].location < End(s[i])
            /\ s[i].location <= LocationMax /\ End(s[i]) <= LocationMax + 1
      /\ \A i, j \in 1 .. Len(s) : i < j => End(s[i]) <= s[j].location
  BY MemberFacts
<1>4. /\ r.location \in Nat /\ End(r) \in Nat /\ r.location < End(r)
      /\ r.location <= LocationMax /\ End(r) <= LocationMax + 1
  BY UsableNumbers
<1>5. \/ lo = h + 1 /\ first = r.location
      \/ h \in 1 .. Len(s) /\ lo = h /\ first = s[h].location /\ End(s[h]) = r.location
  BY <1>1, <1>3
<1>6. \/ hi = h /\ end = End(r)
      \/ h + 1 \in 1 .. Len(s) /\ hi = h + 1 /\ end = End(s[h + 1])
         /\ End(r) = s[h + 1].location
  BY <1>1, <1>3
<1> HIDE DEF h, lo, hi, first, end
<1>7. h \in Nat /\ h <= Len(s)
  BY <1>1, <1>3
<1>8. /\ lo \in 1 .. Len(s) + 1 /\ hi \in 0 .. Len(s) /\ lo <= hi + 1
  <2>1. (lo = h + 1 \/ (h >= 1 /\ lo = h)) /\ (hi = h \/ (h + 1 <= Len(s) /\ hi = h + 1))
    BY <1>3, <1>5, <1>6, <1>7
  <2> QED
    BY <1>3, <1>7, <2>1
<1>9. first \in Nat /\ first <= LocationMax /\ first <= r.location
  BY <1>3, <1>4, <1>5
<1>10. end \in Nat /\ end <= LocationMax + 1 /\ End(r) <= end
  BY <1>3, <1>4, <1>6
<1>11. first < end
  BY <1>4, <1>9, <1>10
<1>12. \A i \in 1 .. Len(s) : i < lo => End(s[i]) <= first
  BY <1>1, <1>3, <1>5, <1>7
<1>13. \A i \in 1 .. Len(s) : i > hi => end <= s[i].location
  BY <1>1, <1>3, <1>6, <1>7
<1>14. ASSUME NEW x \in Nat
       PROVE  first <= x /\ x < end <=>
                 \/ Holds(r, x)
                 \/ \E i \in 1 .. Len(s) : lo <= i /\ i <= hi /\ Holds(s[i], x)
  <2>1. first <= x /\ x < r.location <=>
           h \in 1 .. Len(s) /\ lo <= h /\ Holds(s[h], x)
    BY <1>3, <1>4, <1>5, <1>7 DEF Holds
  <2>2. End(r) <= x /\ x < end <=>
           h + 1 \in 1 .. Len(s) /\ h + 1 <= hi /\ Holds(s[h + 1], x)
    BY <1>3, <1>4, <1>6, <1>7 DEF Holds
  <2>3. \A i \in 1 .. Len(s) : lo <= i /\ i <= hi => i = h \/ i = h + 1
    BY <1>3, <1>5, <1>6, <1>7
  <2>4. h <= hi /\ lo <= h + 1
    BY <1>3, <1>5, <1>6, <1>7
  <2>5. (\E i \in 1 .. Len(s) : lo <= i /\ i <= hi /\ Holds(s[i], x)) <=>
           \/ first <= x /\ x < r.location
           \/ End(r) <= x /\ x < end
    BY <2>1, <2>2, <2>3, <2>4
  <2> QED
    BY <1>4, <1>9, <1>10, <2>5 DEF Holds
<1>15. Replaces(s, r, lo, hi, first, end)
  BY <1>8, <1>9, <1>10, <1>11, <1>12, <1>13, <1>14 DEF Replaces
<1> QED
  BY <1>2, <1>15, Joins

(* The ranges that r touches are neighbours, and only the first and the    *)
(* last can stick out of it.                                               *)
LEMMA TouchedFacts ==
    ASSUME NEW s \in RangeSeq, InOrder(s), NEW r, Usable(r), Touched(s, r) # {}
    PROVE  /\ Min(Touched(s, r)) \in 1 .. Len(s) /\ Max(Touched(s, r)) \in 1 .. Len(s)
           /\ Min(Touched(s, r)) <= Max(Touched(s, r))
           /\ Intersects(s[Min(Touched(s, r))], r) /\ Intersects(s[Max(Touched(s, r))], r)
           /\ \A i \in 1 .. Len(s) :
                 /\ i < Min(Touched(s, r)) => End(s[i]) <= r.location
                 /\ i > Max(Touched(s, r)) => End(r) <= s[i].location
<1> DEFINE T == Touched(s, r)
           lo == Min(T)
           hi == Max(T)
<1>1. /\ Len(s) \in Nat /\ LocationMax \in Nat
      /\ \A i \in 1 .. Len(s) :
            /\ Usable(s[i])
            /\ s[i].location \in Nat /\ End(s[i]) \in Nat /\ s[i].location < End(s[i])
      /\ \A i, j \in 1 .. Len(s) : i < j => End(s[i]) <= s[j].location
  BY MemberFacts
<1>2. /\ r.location \in Nat /\ End(r) \in Nat /\ r.location < End(r)
  BY UsableNumbers
<1>3. \A i : i \in T <=> i \in 1 .. Len(s) /\ Intersects(s[i], r)
  BY SeqFacts DEF Touched
<1> HIDE DEF T
<1>4. T \subseteq Nat /\ T \subseteq 0 .. Len(s) /\ T # {}
  BY <1>1, <1>3 DEF T
<1>5. lo \in T /\ \A i \in T : lo <= i
  BY <1>4, LeastNat DEF Min
<1>6. hi \in T /\ \A i \in T : i <= hi
  <2>1. \E m \in T : \A i \in T : i <= m
    BY <1>1, <1>4, GreatestNat
  <2>2. \E m \in T : \A i \in T : m >= i
    BY <1>4, <2>1
  <2>3. hi \in T /\ \A i \in T : hi >= i
    BY <2>2 DEF Max
  <2> QED
    BY <1>4, <2>3
<1> HIDE DEF lo, hi
<1>7. lo \in 1 .. Len(s) /\ hi \in 1 .. Len(s) /\ lo <= hi /\ lo \in Nat /\ hi \in Nat
      /\ Intersects(s[lo], r) /\ Intersects(s[hi], r)
  BY <1>1, <1>3, <1>5, <1>6
<1>8. ASSUME NEW i \in 1 .. Len(s), i < lo PROVE End(s[i]) <= r.location
  <2>1. ~ Intersects(s[i], r)
    BY <1>1, <1>3, <1>5, <1>7, <1>8
  <2>2. End(s[i]) <= r.location \/ End(r) <= s[i].location
    BY <1>1, <2>1, BehindEachOther
  <2>3. End(s[i]) <= s[lo].location /\ s[lo].location < End(r)
    BY <1>1, <1>7, <1>8 DEF Intersects
  <2> QED
    BY <1>1, <1>2, <1>7, <2>2, <2>3
<1>9. ASSUME NEW i \in 1 .. Len(s), i > hi PROVE End(r) <= s[i].location
  <2>1. ~ Intersects(s[i], r)
    BY <1>1, <1>3, <1>6, <1>7, <1>9
  <2>2. End(s[i]) <= r.location \/ End(r) <= s[i].location
    BY <1>1, <2>1, BehindEachOther
  <2>3. End(s[hi]) <= s[i].location /\ r.location < End(s[hi])
    BY <1>1, <1>7, <1>9 DEF Intersects
  <2> QED
    BY <1>1, <1>2, <1>7, <2>2, <2>3
<1> QED
  BY <1>7, <1>8, <1>9 DEF lo, hi, T

LEMMA Monotone ==
    ASSUME NEW s \in RangeSeq, InOrder(s), NEW i \in 1 .. Len(s), NEW j \in 1 .. Len(s),
           i <= j
    PROVE  s[i].location <= s[j].location /\ End(s[i]) <= End(s[j])
<1>1. /\ s[i].location \in Nat /\ End(s[i]) \in Nat /\ s[i].location < End(s[i])
      /\ s[j].location \in Nat /\ End(s[j]) \in Nat /\ s[j].location < End(s[j])
      /\ i < j => End(s[i]) <= s[j].location
  BY MemberFacts
<1>2. i = j \/ i < j
  BY SeqFacts
<1>3. CASE i = j
  BY <1>1, <1>3
<1>4. CASE i < j
  <2>1. End(s[i]) <= s[j].location
    BY <1>1, <1>4
  <2> QED
    BY <1>1, <2>1
<1> QED
  BY <1>2, <1>3, <1>4

LEMMA PairMin ==
    ASSUME NEW a \in Nat, NEW b \in Nat
    PROVE  /\ Min({a, b}) \in {a, b} /\ Min({a, b}) <= a /\ Min({a, b}) <= b
           /\ Max({a, b}) \in {a, b} /\ Max({a, b}) >= a /\ Max({a, b}) >= b
<1>1. (\E x \in {a, b} : \A y \in {a, b} : x <= y) /\ (\E x \in {a, b} : \A y \in {a, b} : x >= y)
  OBVIOUS
<1>2. Min({a, b}) \in {a, b} /\ \A y \in {a, b} : Min({a, b}) <= y
  BY <1>1 DEF Min
<1>3. Max({a, b}) \in {a, b} /\ \A y \in {a, b} : Max({a, b}) >= y
  BY <1>1 DEF Max
<1> QED
  BY <1>2, <1>3

LEMMA InsertedGains ==
    ASSUME NEW s \in RangeSeq, InOrder(s), NEW r, Usable(r)
    PROVE  Gains(s, Inserted(s, r), r)
<1>1. CASE Touched(s, r) = {}
  <2>1. Inserted(s, r) = InsertedAbsent(s, r)
    BY <1>1 DEF Inserted
  <2> QED
    BY <1>1, <2>1, InsertedAbsentGains
<1>2. CASE Touched(s, r) # {}
  <2> DEFINE lo    == Min(Touched(s, r))
             hi    == Max(Touched(s, r))
             first == Min({r.location, s[lo].location})
             end   == Max({End(r), End(s[hi])})
  <2>1. Inserted(s, r) = Splice(s, lo, hi, <<Span(first, end)>>)
    BY <1>2 DEF Inserted
  <2>2. /\ lo \in 1 .. Len(s) /\ hi \in 1 .. Len(s) /\ lo <= hi
        /\ Intersects(s[lo], r) /\ Intersects(s[hi], r)
        /\ \A i \in 1 .. Len(s) : /\ i < lo => End(s[i]) <= r.location
                                  /\ i > hi => End(r) <= s[i].location
    BY <1>2, TouchedFacts
  <2> HIDE DEF lo, hi
  <2>3. /\ Len(s) \in Nat /\ LocationMax \in Nat
        /\ \A i \in 1 .. Len(s) :
              /\ s[i].location \in Nat /\ End(s[i]) \in Nat /\ s[i].location < End(s[i])
              /\ s[i].location <= LocationMax /\ End(s[i]) <= LocationMax + 1
        /\ \A i, j \in 1 .. Len(s) : i < j => End(s[i]) <= s[j].location
    BY MemberFacts
  <2>4. /\ r.location \in Nat /\ End(r) \in Nat /\ r.location < End(r)
        /\ r.location <= LocationMax /\ End(r) <= LocationMax + 1
    BY UsableNumbers
  <2>5. /\ first \in {r.location, s[lo].location}
        /\ first <= r.location /\ first <= s[lo].location
    BY <2>2, <2>3, <2>4, PairMin
  <2>6. /\ end \in {End(r), End(s[hi])} /\ end >= End(r) /\ end >= End(s[hi])
    BY <2>2, <2>3, <2>4, PairMin
  <2> HIDE DEF first, end
  <2>7. first \in Nat /\ end \in Nat /\ first < end
        /\ first <= LocationMax /\ end <= LocationMax + 1
    BY <2>2, <2>3, <2>4, <2>5, <2>6
  <2>8. s[lo].location < End(r) /\ r.location < End(s[lo])
        /\ s[hi].location < End(r) /\ r.location < End(s[hi])
    BY <2>2 DEF Intersects
  <2>9. ASSUME NEW i \in 1 .. Len(s)
        PROVE  /\ i < lo => End(s[i]) <= first
               /\ i > hi => end <= s[i].location
    BY <2>2, <2>3, <2>5, <2>6
  <2>10. ASSUME NEW x \in Nat
         PROVE  first <= x /\ x < end <=>
                   \/ Holds(r, x)
                   \/ \E i \in 1 .. Len(s) : lo <= i /\ i <= hi /\ Holds(s[i], x)
    <3>1. first <= x /\ x < r.location => Holds(s[lo], x)
      BY <2>2, <2>3, <2>4, <2>5, <2>8 DEF Holds
    <3>2. End(r) <= x /\ x < end => Holds(s[hi], x)
      BY <2>2, <2>3, <2>4, <2>6, <2>8 DEF Holds
    <3>3. Holds(r, x) => first <= x /\ x < end
      BY <2>4, <2>5, <2>6, <2>7 DEF Holds
    <3>4. ASSUME NEW i \in 1 .. Len(s), lo <= i, i <= hi, Holds(s[i], x)
          PROVE  first <= x /\ x < end
      <4>1. s[lo].location <= s[i].location
        BY <2>2, <3>4, Monotone
      <4>2. End(s[i]) <= End(s[hi])
        BY <2>2, <3>4, Monotone
      <4>3. s[i].location <= x /\ x < End(s[i])
        BY <3>4 DEF Holds
      <4>4. /\ s[lo].location \in Nat /\ s[i].location \in Nat
            /\ End(s[i]) \in Nat /\ End(s[hi]) \in Nat
        BY <2>2, <2>3
      <4>5. first <= s[lo].location /\ End(s[hi]) <= end /\ first \in Nat /\ end \in Nat
        BY <2>5, <2>6, <2>7, <4>4
      <4> QED
        BY <4>1, <4>2, <4>3, <4>4, <4>5
    <3>5. first <= x /\ x < end =>
             (first <= x /\ x < r.location) \/ Holds(r, x) \/ (End(r) <= x /\ x < end)
      BY <2>4 DEF Holds
    <3> QED
      BY <2>2, <3>1, <3>2, <3>3, <3>4, <3>5
  <2>11. lo \in 1 .. Len(s) + 1 /\ hi \in 0 .. Len(s) /\ lo <= hi + 1
    BY <2>2, <2>3
  <2>12. Replaces(s, r, lo, hi, first, end)
    BY <2>7, <2>9, <2>10, <2>11 DEF Replaces
  <2> QED
    BY <2>1, <2>12, Joins
<1> QED
  BY <1>1, <1>2

-----------------------------------------------------------------------------
(* Remove *)

(* What a removal promises of the array t it makes of s.                   *)
Loses(s, t, r) ==
    /\ t \in RangeSeq /\ InOrder(t) /\ Len(t) <= Len(s) + 1
    /\ \A x : x \in Covered(t) <=> x \in Covered(s) /\ ~ Holds(r, x)

LEMMA NotTouched ==
    ASSUME NEW s \in RangeSeq, InOrder(s), NEW r, Usable(r),
           \A x \in Covered(s) : ~ Holds(r, x)
    PROVE  Touched(s, r) = {}
<1> SUFFICES ASSUME NEW i \in 1 .. Len(s), Intersects(s[i], r) PROVE FALSE
  BY SeqFacts DEF Touched
<1>1. s[i].location \in Nat /\ End(s[i]) \in Nat /\ s[i].location < End(s[i])
  BY MemberFacts
<1>2. r.location \in Nat /\ End(r) \in Nat /\ r.location < End(r)
  BY UsableNumbers
<1>3. \E x \in Nat : Holds(s[i], x) /\ Holds(r, x)
  <2>1. CASE s[i].location <= r.location
    <3>1. Holds(s[i], r.location) /\ Holds(r, r.location)
      BY <1>1, <1>2, <2>1 DEF Intersects, Holds
    <3> QED
      BY <1>2, <3>1
  <2>2. CASE r.location <= s[i].location
    <3>1. Holds(s[i], s[i].location) /\ Holds(r, s[i].location)
      BY <1>1, <1>2, <2>2 DEF Intersects, Holds
    <3> QED
      BY <1>1, <3>1
  <2> QED
    BY <1>1, <1>2, <2>1, <2>2
<1> QED
  BY <1>3, CoveredFacts

(* What sticks out of r: the pieces that remove leaves of what r touches.  *)
Front(s, r) == LET lo == Min(Touched(s, r))
               IN  IF s[lo].location < r.location
                   THEN <<Span(s[lo].location, r.location)>> ELSE <<>>
Back(s, r)  == LET hi == Max(Touched(s, r))
               IN  IF End(r) < End(s[hi]) THEN <<Span(End(r), End(s[hi]))>> ELSE <<>>

Remnant(s, r, pieces) ==
    LET lo == Min(Touched(s, r))
        hi == Max(Touched(s, r))
    IN  /\ pieces \in RangeSeq /\ InOrder(pieces)
        /\ \A k \in 1 .. Len(pieces) : /\ s[lo].location <= pieces[k].location
                                       /\ End(pieces[k]) <= End(s[hi])
        /\ \A x : x \in Covered(pieces) <=>
                     x \in Nat /\ \/ s[lo].location <= x /\ x < r.location
                                  \/ End(r) <= x /\ x < End(s[hi])

LEMMA PairConcat ==
    ASSUME NEW a, NEW b
    PROVE  <<a>> \o <<b>> = <<a, b>>
<1> DEFINE c == <<a>> \o <<b>>
<1>1. c \in Seq({a, b}) /\ Len(c) = 2 /\ c[1] = a /\ c[2] = b
  OBVIOUS
<1> HIDE DEF c
<1>2. c = [i \in 1 .. 2 |-> c[i]]
  BY <1>1
<1>3. \A i \in 1 .. 2 : i = 1 \/ i = 2
  OBVIOUS
<1>4. c = <<a, b>>
  BY <1>1, <1>2, <1>3
<1> QED
  BY <1>4 DEF c

LEMMA RemnantFacts ==
    ASSUME NEW s \in RangeSeq, InOrder(s), NEW r, Usable(r), Touched(s, r) # {}
    PROVE  /\ Remnant(s, r, Front(s, r) \o Back(s, r))
           /\ Front(s, r) \in RangeSeq /\ Back(s, r) \in RangeSeq
           /\ Len(Front(s, r)) \in 0 .. 1 /\ Len(Back(s, r)) \in 0 .. 1
<1> DEFINE lo     == Min(Touched(s, r))
           hi     == Max(Touched(s, r))
           f      == Span(s[lo].location, r.location)
           b      == Span(End(r), End(s[hi]))
           pieces == Front(s, r) \o Back(s, r)
<1>1. /\ lo \in 1 .. Len(s) /\ hi \in 1 .. Len(s) /\ lo <= hi
      /\ Intersects(s[lo], r) /\ Intersects(s[hi], r)
  BY TouchedFacts
<1>2. /\ Front(s, r) = IF s[lo].location < r.location THEN <<f>> ELSE <<>>
      /\ Back(s, r) = IF End(r) < End(s[hi]) THEN <<b>> ELSE <<>>
  BY DEF Front, Back
<1> HIDE DEF lo, hi
<1>3. /\ s[lo].location \in Nat /\ s[lo].location <= LocationMax
      /\ End(s[hi]) \in Nat /\ End(s[hi]) <= LocationMax + 1
      /\ s[lo].location <= End(s[hi]) /\ LocationMax \in Nat
  <2>1. s[lo].location <= s[hi].location
    BY <1>1, Monotone
  <2>2. /\ s[lo].location \in Nat /\ s[lo].location <= LocationMax
        /\ End(s[hi]) \in Nat /\ End(s[hi]) <= LocationMax + 1
        /\ s[hi].location < End(s[hi]) /\ s[hi].location \in Nat /\ LocationMax \in Nat
    BY <1>1, MemberFacts
  <2> QED
    BY <2>1, <2>2
<1>4. /\ r.location \in Nat /\ End(r) \in Nat /\ r.location < End(r)
      /\ r.location <= LocationMax /\ End(r) <= LocationMax + 1
  BY UsableNumbers
<1>5. s[lo].location < End(r) /\ r.location < End(s[hi])
  BY <1>1 DEF Intersects
<1>6. s[lo].location < r.location =>
          /\ Usable(f) /\ f.location = s[lo].location /\ End(f) = r.location
          /\ \A x : Holds(f, x) <=> s[lo].location <= x /\ x < r.location
  <2>1. r.location <= LocationMax + 1
    BY <1>3, <1>4
  <2> QED
    BY <1>3, <1>4, <2>1, UsableSpan
<1>7. End(r) < End(s[hi]) =>
          /\ Usable(b) /\ b.location = End(r) /\ End(b) = End(s[hi])
          /\ \A x : Holds(b, x) <=> End(r) <= x /\ x < End(s[hi])
  <2>1. End(r) < End(s[hi]) => End(r) <= LocationMax
    BY <1>3, <1>4
  <2> QED
    BY <1>3, <1>4, <2>1, UsableSpan
<1> HIDE DEF f, b
<1> DEFINE F == s[lo].location < r.location
           B == End(r) < End(s[hi])
<1>8. pieces = IF F THEN IF B THEN <<f, b>> ELSE <<f>> ELSE IF B THEN <<b>> ELSE <<>>
  <2>1. <<f>> \o <<b>> = <<f, b>>
    BY PairConcat
  <2>2. <<>> \o <<>> = <<>>
    OBVIOUS
  <2>3. \A p : <<>> \o <<p>> = <<p>> /\ <<p>> \o <<>> = <<p>>
    OBVIOUS
  <2>4. CASE F /\ B
    BY <1>2, <2>1, <2>4
  <2>5. CASE F /\ ~ B
    BY <1>2, <2>3, <2>5
  <2>6. CASE ~ F /\ B
    BY <1>2, <2>3, <2>6
  <2>7. CASE ~ F /\ ~ B
    BY <1>2, <2>2, <2>7
  <2> QED
    BY <2>4, <2>5, <2>6, <2>7
<1>9. /\ Front(s, r) \in RangeSeq /\ Back(s, r) \in RangeSeq
      /\ Len(Front(s, r)) \in 0 .. 1 /\ Len(Back(s, r)) \in 0 .. 1
  <2>1. F => <<f>> \in RangeSeq /\ Len(<<f>>) = 1
    BY <1>6, OnePiece
  <2>2. B => <<b>> \in RangeSeq /\ Len(<<b>>) = 1
    BY <1>7, OnePiece
  <2> QED
    BY <1>2, <2>1, <2>2, NoPiece
<1> HIDE DEF pieces
<1> SUFFICES Remnant(s, r, pieces)
  BY <1>9 DEF pieces
<1>10. \A x \in Nat : /\ (s[lo].location <= x /\ x < r.location) => F
                      /\ (End(r) <= x /\ x < End(s[hi])) => B
  BY <1>3, <1>4
<1>11. \/ pieces = <<f, b>> /\ F /\ B
       \/ pieces = <<f>> /\ F /\ ~ B
       \/ pieces = <<b>> /\ ~ F /\ B
       \/ pieces = <<>> /\ ~ F /\ ~ B
  BY <1>8
<1>12. CASE pieces = <<f, b>> /\ F /\ B
  <2>1. /\ pieces \in RangeSeq /\ InOrder(pieces) /\ Len(pieces) = 2
        /\ pieces[1] = f /\ pieces[2] = b
        /\ \A x : x \in Covered(pieces) <=> x \in Nat /\ (Holds(f, x) \/ Holds(b, x))
    <3>1. End(f) <= b.location
      BY <1>4, <1>6, <1>7, <1>12
    <3> QED
      BY <1>6, <1>7, <1>12, <3>1, TwoPieces
  <2>2. \A k \in 1 .. Len(pieces) : pieces[k] = f \/ pieces[k] = b
    <3>1. \A k \in 1 .. 2 : k = 1 \/ k = 2
      OBVIOUS
    <3> QED
      BY <2>1, <3>1
  <2>3. /\ s[lo].location <= f.location /\ End(f) <= End(s[hi])
        /\ s[lo].location <= b.location /\ End(b) <= End(s[hi])
    BY <1>3, <1>4, <1>5, <1>6, <1>7, <1>12
  <2>4. \A k \in 1 .. Len(pieces) : s[lo].location <= pieces[k].location
                                    /\ End(pieces[k]) <= End(s[hi])
    BY <2>2, <2>3
  <2>5. \A x : x \in Covered(pieces) <=>
                  x \in Nat /\ \/ s[lo].location <= x /\ x < r.location
                               \/ End(r) <= x /\ x < End(s[hi])
    BY <1>6, <1>7, <1>12, <2>1
  <2> QED
    BY <2>1, <2>4, <2>5 DEF Remnant, lo, hi
<1>13. CASE pieces = <<f>> /\ F /\ ~ B
  <2>1. /\ pieces \in RangeSeq /\ InOrder(pieces) /\ Len(pieces) = 1 /\ pieces[1] = f
        /\ \A x : x \in Covered(pieces) <=> x \in Nat /\ Holds(f, x)
    BY <1>6, <1>13, OnePiece
  <2>2. s[lo].location <= f.location /\ End(f) <= End(s[hi])
    BY <1>3, <1>4, <1>5, <1>6, <1>13
  <2>3. \A k \in 1 .. Len(pieces) : s[lo].location <= pieces[k].location
                                    /\ End(pieces[k]) <= End(s[hi])
    <3>1. \A k \in 1 .. 1 : k = 1
      OBVIOUS
    <3> QED
      BY <2>1, <2>2, <3>1
  <2>4. \A x : x \in Covered(pieces) <=>
                  x \in Nat /\ \/ s[lo].location <= x /\ x < r.location
                               \/ End(r) <= x /\ x < End(s[hi])
    BY <1>6, <1>10, <1>13, <2>1
  <2> QED
    BY <2>1, <2>3, <2>4 DEF Remnant, lo, hi
<1>14. CASE pieces = <<b>> /\ ~ F /\ B
  <2>1. /\ pieces \in RangeSeq /\ InOrder(pieces) /\ Len(pieces) = 1 /\ pieces[1] = b
        /\ \A x : x \in Covered(pieces) <=> x \in Nat /\ Holds(b, x)
    BY <1>7, <1>14, OnePiece
  <2>2. s[lo].location <= b.location /\ End(b) <= End(s[hi])
    BY <1>3, <1>4, <1>5, <1>7, <1>14
  <2>3. \A k \in 1 .. Len(pieces) : s[lo].location <= pieces[k].location
                                    /\ End(pieces[k]) <= End(s[hi])
    <3>1. \A k \in 1 .. 1 : k = 1
      OBVIOUS
    <3> QED
      BY <2>1, <2>2, <3>1
  <2>4. \A x : x \in Covered(pieces) <=>
                  x \in Nat /\ \/ s[lo].location <= x /\ x < r.location
                               \/ End(r) <= x /\ x < End(s[hi])
    BY <1>7, <1>10, <1>14, <2>1
  <2> QED
    BY <2>1, <2>3, <2>4 DEF Remnant, lo, hi
<1>15. CASE pieces = <<>> /\ ~ F /\ ~ B
  <2>1. pieces \in RangeSeq /\ InOrder(pieces) /\ Len(pieces) = 0 /\ Covered(pieces) = {}
    BY <1>15, NoPiece
  <2>2. \A k \in 1 .. Len(pieces) : FALSE
    BY <2>1
  <2> QED
    BY <1>10, <1>15, <2>1, <2>2 DEF Remnant, lo, hi
<1> QED
  BY <1>11, <1>12, <1>13, <1>14, <1>15

(* Pieces that cover what sticks out of r take the place of what r touches *)
LEMMA Trims ==
    ASSUME NEW s \in RangeSeq, InOrder(s), NEW r, Usable(r), Touched(s, r) # {},
           NEW pieces, Remnant(s, r, pieces)
    PROVE  LET lo == Min(Touched(s, r))
               hi == Max(Touched(s, r))
               t  == Splice(s, lo, hi, pieces)
           IN  /\ t \in RangeSeq /\ InOrder(t)
               /\ Len(t) = (lo - 1) + Len(pieces) + (Len(s) - hi)
               /\ \A x : x \in Covered(t) <=> x \in Covered(s) /\ ~ Holds(r, x)
<1> DEFINE lo == Min(Touched(s, r))
           hi == Max(Touched(s, r))
           t  == Splice(s, lo, hi, pieces)
<1>1. /\ lo \in 1 .. Len(s) /\ hi \in 1 .. Len(s) /\ lo <= hi
      /\ Intersects(s[lo], r) /\ Intersects(s[hi], r)
      /\ \A i \in 1 .. Len(s) : /\ i < lo => End(s[i]) <= r.location
                                /\ i > hi => End(r) <= s[i].location
  BY TouchedFacts
<1>2. /\ pieces \in RangeSeq /\ InOrder(pieces)
      /\ \A k \in 1 .. Len(pieces) : /\ s[lo].location <= pieces[k].location
                                     /\ End(pieces[k]) <= End(s[hi])
      /\ \A x : x \in Covered(pieces) <=>
                   x \in Nat /\ \/ s[lo].location <= x /\ x < r.location
                                \/ End(r) <= x /\ x < End(s[hi])
  BY DEF Remnant
<1> HIDE DEF lo, hi
<1>3. /\ Len(s) \in Nat
      /\ \A i \in 1 .. Len(s) :
            s[i].location \in Nat /\ End(s[i]) \in Nat /\ s[i].location < End(s[i])
      /\ \A i, j \in 1 .. Len(s) : i < j => End(s[i]) <= s[j].location
  BY MemberFacts
<1>4. r.location \in Nat /\ End(r) \in Nat /\ r.location < End(r)
  BY UsableNumbers
<1>5. lo \in 1 .. Len(s) + 1 /\ hi \in 0 .. Len(s) /\ lo <= hi + 1
  BY <1>1, <1>3
<1>6. \A k \in 1 .. Len(pieces) : pieces[k].location \in Nat /\ End(pieces[k]) \in Nat
  BY <1>2, SeqFacts
<1>7. Fits(s, lo, hi, pieces)
  <2>1. ASSUME NEW i \in 1 .. lo - 1, NEW k \in 1 .. Len(pieces)
        PROVE  End(s[i]) <= pieces[k].location
    <3>1. i \in 1 .. Len(s) /\ i < lo
      BY <1>1, <1>3
    <3>2. End(s[i]) <= s[lo].location /\ s[lo].location <= pieces[k].location
      BY <1>1, <1>2, <1>3, <3>1
    <3> QED
      BY <1>1, <1>3, <1>6, <3>1, <3>2
  <2>2. ASSUME NEW i \in hi + 1 .. Len(s), NEW k \in 1 .. Len(pieces)
        PROVE  End(pieces[k]) <= s[i].location
    <3>1. i \in 1 .. Len(s) /\ i > hi
      BY <1>1, <1>3
    <3>2. End(s[hi]) <= s[i].location /\ End(pieces[k]) <= End(s[hi])
      BY <1>1, <1>2, <1>3, <3>1
    <3>3. End(s[hi]) \in Nat /\ s[i].location \in Nat /\ End(pieces[k]) \in Nat
      BY <1>1, <1>3, <1>6, <3>1
    <3> QED
      BY <3>2, <3>3
  <2> QED
    BY <1>2, <1>5, <2>1, <2>2 DEF Fits
<1>8. t \in RangeSeq /\ InOrder(t) /\ Len(t) = (lo - 1) + Len(pieces) + (Len(s) - hi)
  BY <1>7, SpliceInOrder
<1>9. ASSUME NEW x
      PROVE  x \in Covered(t) <=> x \in Covered(s) /\ ~ Holds(r, x)
  <2>1. x \in Covered(t) <=>
              \/ x \in Nat /\ \E i \in 1 .. Len(s) : (i < lo \/ i > hi) /\ Holds(s[i], x)
              \/ x \in Covered(pieces)
    BY <1>2, <1>5, SpliceCovers
  <2> HIDE DEF t
  <2>2. x \in Covered(s) <=> x \in Nat /\ \E i \in 1 .. Len(s) : Holds(s[i], x)
    BY CoveredFacts
  <2>3. CASE x \notin Nat
    BY <1>2, <2>1, <2>2, <2>3
  <2>4. CASE x \in Nat
    <3>1. ASSUME NEW i \in 1 .. Len(s), i < lo \/ i > hi, Holds(s[i], x)
          PROVE  ~ Holds(r, x)
      BY <1>1, <1>3, <1>4, <2>4, <3>1 DEF Holds
    <3>2. s[lo].location < End(r) /\ r.location < End(s[lo])
          /\ s[hi].location < End(r) /\ r.location < End(s[hi])
      BY <1>1 DEF Intersects
    <3>3. s[lo].location <= x /\ x < r.location => Holds(s[lo], x) /\ ~ Holds(r, x)
      BY <1>1, <1>3, <1>4, <2>4, <3>2 DEF Holds
    <3>4. End(r) <= x /\ x < End(s[hi]) => Holds(s[hi], x) /\ ~ Holds(r, x)
      BY <1>1, <1>3, <1>4, <2>4, <3>2 DEF Holds
    <3>5. ASSUME NEW i \in 1 .. Len(s), ~ (i < lo \/ i > hi), Holds(s[i], x), ~ Holds(r, x)
          PROVE  \/ s[lo].location <= x /\ x < r.location
                 \/ End(r) <= x /\ x < End(s[hi])
      <4>1. lo <= i /\ i <= hi
        BY <1>1, <1>3, <3>5
      <4>2. s[lo].location <= s[i].location /\ End(s[i]) <= End(s[hi])
        BY <1>1, <4>1, Monotone
      <4>3. s[i].location <= x /\ x < End(s[i]) /\ (x < r.location \/ End(r) <= x)
        BY <1>4, <2>4, <3>5 DEF Holds
      <4>4. /\ s[lo].location \in Nat /\ s[i].location \in Nat
            /\ End(s[i]) \in Nat /\ End(s[hi]) \in Nat
        BY <1>1, <1>3
      <4> QED
        BY <2>4, <4>2, <4>3, <4>4
    <3> QED
      BY <1>1, <1>2, <2>1, <2>2, <2>4, <3>1, <3>3, <3>4, <3>5
  <2> QED
    BY <2>3, <2>4
<1> QED
  BY <1>8, <1>9 DEF t, lo, hi

(* Where r lies within one range and both ends stick out, remove leaves    *)
(* the front in place and inserts the back, which touches none.            *)
LEMMA Punches ==
    ASSUME NEW s \in RangeSeq, InOrder(s), NEW r, Usable(r), Touched(s, r) # {},
           Min(Touched(s, r)) = Max(Touched(s, r)),
           Len(Front(s, r) \o Back(s, r)) = 2
    PROVE  Loses(s, InsertedAbsent(Splice(s, Min(Touched(s, r)), Max(Touched(s, r)), Front(s, r)),
                                   Back(s, r)[1]), r)
<1> DEFINE lo == Min(Touched(s, r))
           f  == Span(s[lo].location, r.location)
           b  == Span(End(r), End(s[lo]))
           u  == Splice(s, lo, lo, <<f>>)
           t  == InsertedAbsent(u, b)
<1>1. /\ lo \in 1 .. Len(s) /\ Intersects(s[lo], r)
  BY TouchedFacts
<1>2. s[lo].location < r.location /\ End(r) < End(s[lo])
      /\ Front(s, r) = <<f>> /\ Back(s, r) = <<b>>
  <2>1. Len(Front(s, r)) = 1 /\ Len(Back(s, r)) = 1
    <3>1. /\ Front(s, r) \in RangeSeq /\ Back(s, r) \in RangeSeq
          /\ Len(Front(s, r)) \in 0 .. 1 /\ Len(Back(s, r)) \in 0 .. 1
      BY RemnantFacts
    <3>2. Len(Front(s, r)) + Len(Back(s, r)) = 2
      BY <3>1, ConcatFacts
    <3>3. \A m, n \in 0 .. 1 : m + n = 2 => m = 1 /\ n = 1
      OBVIOUS
    <3> QED
      BY <3>1, <3>2, <3>3
  <2>2. Front(s, r) # <<>> /\ Back(s, r) # <<>>
    BY <2>1, NoPiece
  <2> QED
    BY <2>2 DEF Front, Back
<1> HIDE DEF lo
<1>3. /\ Len(s) \in Nat /\ LocationMax \in Nat
      /\ \A i \in 1 .. Len(s) :
            /\ s[i].location \in Nat /\ End(s[i]) \in Nat /\ s[i].location < End(s[i])
            /\ s[i].location <= LocationMax /\ End(s[i]) <= LocationMax + 1
      /\ \A i, j \in 1 .. Len(s) : i < j => End(s[i]) <= s[j].location
  BY MemberFacts
<1>4. /\ r.location \in Nat /\ End(r) \in Nat /\ r.location < End(r)
      /\ r.location <= LocationMax /\ End(r) <= LocationMax + 1
  BY UsableNumbers
<1>5. /\ Usable(f) /\ f.location = s[lo].location /\ End(f) = r.location
      /\ \A x : Holds(f, x) <=> s[lo].location <= x /\ x < r.location
  <2>1. /\ s[lo].location \in Nat /\ s[lo].location <= LocationMax
        /\ r.location <= LocationMax + 1
    BY <1>1, <1>3, <1>4
  <2> QED
    BY <1>2, <1>4, <2>1, UsableSpan
<1>6. /\ Usable(b) /\ b.location = End(r) /\ End(b) = End(s[lo])
      /\ \A x : Holds(b, x) <=> End(r) <= x /\ x < End(s[lo])
  <2>1. /\ End(s[lo]) \in Nat /\ End(s[lo]) <= LocationMax + 1 /\ End(r) <= LocationMax
    BY <1>1, <1>2, <1>3, <1>4
  <2> QED
    BY <1>2, <1>4, <2>1, UsableSpan
<1> HIDE DEF f, b
<1>7. /\ <<f>> \in RangeSeq /\ InOrder(<<f>>) /\ Len(<<f>>) = 1 /\ <<f>>[1] = f
      /\ \A x : x \in Covered(<<f>>) <=> x \in Nat /\ Holds(f, x)
  BY <1>5, OnePiece
<1>8. lo \in 1 .. Len(s) + 1 /\ lo \in 0 .. Len(s) /\ lo <= lo + 1
  BY <1>1, <1>3
<1>9. Fits(s, lo, lo, <<f>>)
  <2>1. \A k \in 1 .. Len(<<f>>) : <<f>>[k] = f
    BY <1>7
  <2>2. \A i \in 1 .. lo - 1 : End(s[i]) <= f.location
    <3> TAKE i \in 1 .. lo - 1
    <3>1. i \in 1 .. Len(s) /\ i < lo
      BY <1>1, <1>3
    <3>2. End(s[i]) <= s[lo].location
      BY <1>1, <1>3, <3>1
    <3> QED
      BY <1>5, <3>2
  <2>3. \A i \in lo + 1 .. Len(s) : End(f) <= s[i].location
    <3> TAKE i \in lo + 1 .. Len(s)
    <3>1. i \in 1 .. Len(s) /\ lo < i
      BY <1>1, <1>3
    <3>2. End(s[lo]) <= s[i].location
      BY <1>1, <1>3, <3>1
    <3>3. End(s[lo]) \in Nat /\ s[i].location \in Nat
      BY <1>1, <1>3, <3>1
    <3>4. r.location < End(s[lo]) /\ End(f) = r.location
      BY <1>1, <1>5 DEF Intersects
    <3>5. r.location <= s[i].location
      BY <1>4, <3>2, <3>3, <3>4
    <3> QED
      BY <3>4, <3>5
  <2> QED
    BY <1>7, <1>8, <2>1, <2>2, <2>3 DEF Fits
<1>10. u \in RangeSeq /\ InOrder(u) /\ Len(u) = Len(s)
  <2>1. u \in RangeSeq /\ InOrder(u) /\ Len(u) = (lo - 1) + Len(<<f>>) + (Len(s) - lo)
    BY <1>9, SpliceInOrder
  <2> HIDE DEF u
  <2>2. Len(u) = (lo - 1) + 1 + (Len(s) - lo)
    BY <1>7, <2>1
  <2> QED
    BY <1>3, <1>8, <2>1, <2>2
<1>11. \A x : x \in Covered(u) <=>
                 x \in Nat /\ \/ \E i \in 1 .. Len(s) : (i < lo \/ i > lo) /\ Holds(s[i], x)
                              \/ s[lo].location <= x /\ x < r.location
  <2> TAKE x
  <2>1. x \in Covered(u) <=>
              \/ x \in Nat /\ \E i \in 1 .. Len(s) : (i < lo \/ i > lo) /\ Holds(s[i], x)
              \/ x \in Covered(<<f>>)
    BY <1>7, <1>8, SpliceCovers
  <2> HIDE DEF u
  <2> QED
    BY <1>5, <1>7, <2>1
<1> HIDE DEF u
<1>12. ASSUME NEW x \in Nat, NEW i \in 1 .. Len(s), i < lo \/ i > lo, Holds(s[i], x)
       PROVE  ~ (s[lo].location <= x /\ x < End(s[lo]))
  BY <1>1, <1>3, <1>12 DEF Holds
<1>13. Touched(u, b) = {}
  <2>1. ASSUME NEW x \in Covered(u) PROVE ~ Holds(b, x)
    <3>1. x \in Nat
      BY <1>11
    <3>2. CASE \E i \in 1 .. Len(s) : (i < lo \/ i > lo) /\ Holds(s[i], x)
      <4>1. ~ (s[lo].location <= x /\ x < End(s[lo]))
        BY <1>12, <3>1, <3>2
      <4> QED
        BY <1>1, <1>2, <1>3, <1>4, <1>6, <3>1, <4>1
    <3>3. CASE s[lo].location <= x /\ x < r.location
      BY <1>4, <1>6, <3>1, <3>3
    <3> QED
      BY <1>11, <3>2, <3>3
  <2> QED
    BY <1>6, <1>10, <2>1, NotTouched
<1>14. Gains(u, t, b)
  BY <1>6, <1>10, <1>13, InsertedAbsentGains
<1>15. ASSUME NEW x
       PROVE  x \in Covered(t) <=> x \in Covered(s) /\ ~ Holds(r, x)
  <2>1. x \in Covered(t) <=> x \in Covered(u) \/ (x \in Nat /\ Holds(b, x))
    BY <1>14 DEF Gains
  <2>2. x \in Covered(s) <=> x \in Nat /\ \E i \in 1 .. Len(s) : Holds(s[i], x)
    BY CoveredFacts
  <2>3. CASE x \in Nat
    <3>1. ASSUME NEW i \in 1 .. Len(s), i < lo \/ i > lo, Holds(s[i], x)
          PROVE  ~ Holds(r, x)
      <4>1. ~ (s[lo].location <= x /\ x < End(s[lo]))
        BY <1>12, <2>3, <3>1
      <4> QED
        BY <1>1, <1>2, <1>3, <1>4, <2>3, <4>1 DEF Holds
    <3>2. Holds(s[lo], x) /\ ~ Holds(r, x) <=>
             \/ s[lo].location <= x /\ x < r.location
             \/ End(r) <= x /\ x < End(s[lo])
      BY <1>1, <1>2, <1>3, <1>4, <2>3 DEF Holds
    <3>3. \A i \in 1 .. Len(s) : i = lo \/ i < lo \/ i > lo
      BY <1>3, <1>8
    <3> HIDE DEF t
    <3> QED
      BY <1>1, <1>6, <1>11, <2>1, <2>2, <2>3, <3>1, <3>2, <3>3
  <2>4. CASE x \notin Nat
    BY <1>11, <2>1, <2>2, <2>4
  <2> QED
    BY <2>3, <2>4
<1>16. t \in RangeSeq /\ InOrder(t) /\ Len(t) <= Len(s) + 1
  BY <1>10, <1>14 DEF Gains
<1>17. Loses(s, t, r)
  BY <1>15, <1>16 DEF Loses
<1>18. Back(s, r)[1] = b
  BY <1>2
<1> QED
  BY <1>2, <1>17, <1>18 DEF t, u, lo

LEMMA RemovedLoses ==
    ASSUME NEW s \in RangeSeq, InOrder(s), NEW r, Usable(r)
    PROVE  Loses(s, Removed(s, r), r)
<1> DEFINE lo     == Min(Touched(s, r))
           hi     == Max(Touched(s, r))
           pieces == Front(s, r) \o Back(s, r)
<1>0. Removed(s, r) = IF Touched(s, r) = {} THEN s
                      ELSE IF lo = hi /\ Len(pieces) = 2
                      THEN InsertedAbsent(Splice(s, lo, hi, Front(s, r)), Back(s, r)[1])
                      ELSE Splice(s, lo, hi, pieces)
  BY DEF Removed, Front, Back
<1>1. CASE Touched(s, r) = {}
  <2>1. ASSUME NEW x \in Covered(s) PROVE ~ Holds(r, x)
    <3>1. x \in Nat /\ \E i \in 1 .. Len(s) : Holds(s[i], x)
      BY CoveredFacts
    <3>2. PICK i \in 1 .. Len(s) : Holds(s[i], x)
      BY <3>1
    <3>3. End(s[i]) <= r.location \/ End(r) <= s[i].location
      <4>1. Usable(s[i])
        BY MemberFacts
      <4>2. ~ Intersects(s[i], r)
        BY <1>1, SeqFacts DEF Touched
      <4> QED
        BY <4>1, <4>2, BehindEachOther
    <3>4. s[i].location \in Nat /\ End(s[i]) \in Nat /\ r.location \in Nat /\ End(r) \in Nat
      BY MemberFacts, UsableNumbers
    <3> QED
      BY <3>1, <3>2, <3>3, <3>4 DEF Holds
  <2>2. Len(s) <= Len(s) + 1
    BY SeqFacts
  <2> QED
    BY <1>0, <1>1, <2>1, <2>2 DEF Loses
<1>2. CASE Touched(s, r) # {} /\ lo = hi /\ Len(pieces) = 2
  <2>1. Loses(s, InsertedAbsent(Splice(s, lo, hi, Front(s, r)), Back(s, r)[1]), r)
    BY <1>2, Punches
  <2> QED
    BY <1>0, <1>2, <2>1
<1>3. CASE Touched(s, r) # {} /\ ~ (lo = hi /\ Len(pieces) = 2)
  <2> DEFINE t == Splice(s, lo, hi, pieces)
  <2>1. Remnant(s, r, pieces)
    BY <1>3, RemnantFacts
  <2>2. Len(pieces) \in 0 .. 2
    <3>1. /\ Front(s, r) \in RangeSeq /\ Back(s, r) \in RangeSeq
          /\ Len(Front(s, r)) \in 0 .. 1 /\ Len(Back(s, r)) \in 0 .. 1
      BY <1>3, RemnantFacts
    <3>2. Len(pieces) = Len(Front(s, r)) + Len(Back(s, r))
      BY <3>1, ConcatFacts
    <3>3. \A m, n \in 0 .. 1 : m + n \in 0 .. 2
      OBVIOUS
    <3> QED
      BY <3>1, <3>2, <3>3
  <2>3. lo \in 1 .. Len(s) /\ hi \in 1 .. Len(s) /\ lo <= hi
    BY <1>3, TouchedFacts
  <2>4. /\ t \in RangeSeq /\ InOrder(t)
        /\ Len(t) = (lo - 1) + Len(pieces) + (Len(s) - hi)
        /\ \A x : x \in Covered(t) <=> x \in Covered(s) /\ ~ Holds(r, x)
    BY <1>3, <2>1, Trims
  <2>5. Removed(s, r) = t
    BY <1>0, <1>3
  <2> HIDE DEF lo, hi, pieces, t
  <2>6. Len(s) \in Nat
    BY SeqFacts
  <2>7. Len(t) <= Len(s) + 1
    <3>1. PICK n \in Nat : n = Len(s)
      BY <2>6
    <3>2. PICK k \in 0 .. 2 : k = Len(pieces)
      BY <2>2
    <3>3. lo \in 1 .. n /\ hi \in 1 .. n /\ lo <= hi /\ ~ (lo = hi /\ k = 2)
      BY <1>3, <2>3, <3>1, <3>2
    <3>4. (lo - 1) + k + (n - hi) <= n + 1
      BY <3>3
    <3> QED
      BY <2>4, <3>1, <3>2, <3>4
  <2> QED
    BY <2>4, <2>5, <2>7 DEF Loses
<1> QED
  BY <1>1, <1>2, <1>3

-----------------------------------------------------------------------------
(* The memory *)

State == [ranges : RangeSeq, size : Nat, static : BOOLEAN]

Sound(p) ==
    /\ p \in State
    /\ InOrder(p.ranges)
    /\ Len(p.ranges) <= p.size
    /\ p.static => p.size = StaticSize

Sounds == {p \in State : Sound(p)}

LEMMA SoundFacts ==
    ASSUME NEW p, Sound(p)
    PROVE  /\ p \in Sounds /\ p.ranges \in RangeSeq /\ InOrder(p.ranges)
           /\ Len(p.ranges) \in Nat /\ p.size \in Nat /\ p.static \in BOOLEAN
           /\ Len(p.ranges) <= p.size
<1>1. p \in State /\ InOrder(p.ranges) /\ Len(p.ranges) <= p.size
  BY DEF Sound
<1>2. p.ranges \in RangeSeq /\ p.size \in Nat /\ p.static \in BOOLEAN
  BY <1>1 DEF State
<1> QED
  BY <1>1, <1>2, SeqFacts DEF Sounds

LEMMA StoredSound ==
    ASSUME NEW p, Sound(p), NEW t \in RangeSeq, InOrder(t), Len(t) <= p.size + 1
    PROVE  Sound(Stored(p, t)) /\ Stored(p, t).ranges = t
<1>1. /\ p \in State /\ p.size \in Nat /\ p.static \in BOOLEAN
      /\ p.static => p.size = StaticSize
  BY SoundFacts DEF Sound
<1>2. Len(t) \in Nat
  BY SeqFacts
<1>3. CASE Len(t) <= p.size
  <2>1. Stored(p, t) = [p EXCEPT !.ranges = t]
    BY <1>3 DEF Stored
  <2>2. /\ [p EXCEPT !.ranges = t] \in State /\ [p EXCEPT !.ranges = t].ranges = t
        /\ [p EXCEPT !.ranges = t].size = p.size /\ [p EXCEPT !.ranges = t].static = p.static
    BY <1>1 DEF State
  <2> QED
    BY <1>1, <1>3, <2>1, <2>2 DEF Sound
<1>4. CASE ~ (Len(t) <= p.size)
  <2> DEFINE q == [ranges |-> t, size |-> GrownSize(p.size), static |-> FALSE]
  <2>1. Stored(p, t) = q
    BY <1>4 DEF Stored
  <2>2. PICK n \in Nat : n = p.size
    BY <1>1
  <2>3. 2 * n \in Nat
    OBVIOUS
  <2>4. /\ Pow2Round(2 * n) \in Nat /\ Pow2Round(2 * n) >= 2 * n /\ Pow2Round(2 * n) >= 1
    BY <2>3, RoundFacts
  <2>5. Pow2Round(2 * n) >= n + 1
    BY <2>4
  <2>6. GrownSize(p.size) = Pow2Round(2 * n)
    BY <2>2 DEF GrownSize
  <2>7. q \in State /\ q.ranges = t /\ q.size = Pow2Round(2 * n) /\ q.static = FALSE
    BY <2>4, <2>6 DEF State
  <2> HIDE DEF q
  <2>8. Len(t) <= q.size
    BY <1>2, <2>2, <2>4, <2>5, <2>7
  <2> QED
    BY <2>1, <2>7, <2>8 DEF Sound
<1> QED
  BY <1>3, <1>4

(* Halving stops while all ranges still fit.                               *)
LEMMA ShrunkSizeFacts ==
    ASSUME NEW size \in Nat, NEW length \in Nat, length <= size
    PROVE  ShrunkSize(size, length) \in Nat /\ length <= ShrunkSize(size, length)
<1> DEFINE K == {k \in 0 .. size : LET half == size \div Power[k + 1]
                                   IN  half <= MinSize \/ half < length}
           m == Min(K)
<1>1. /\ Power[0] = 1
      /\ \A e \in Nat : Power[e] \in Nat /\ Power[e] > e
  BY PowerFacts
<1>2. \A d \in Nat : d > 0 => size \div d \in Nat /\ (d > size => size \div d = 0)
  OBVIOUS
<1>3. K # {}
  <2>1. size + 1 \in Nat /\ size \in 0 .. size
    OBVIOUS
  <2>2. Power[size + 1] \in Nat /\ Power[size + 1] > size + 1
    BY <1>1, <2>1
  <2>3. size \div Power[size + 1] = 0
    BY <1>2, <2>2
  <2>4. size \div Power[size + 1] <= MinSize
    BY <2>3 DEF MinSize
  <2> QED
    BY <2>1, <2>4
<1>4. m \in K /\ \A k \in K : m <= k
  <2>1. K \subseteq Nat
    OBVIOUS
  <2> HIDE DEF K
  <2> QED
    BY <1>3, <2>1, LeastNat DEF Min
<1>5. ShrunkSize(size, length) = size \div Power[m]
  BY DEF ShrunkSize
<1> HIDE DEF m
<1>6. m \in 0 .. size
  BY <1>4
<1>7. CASE m = 0
  <2>1. size \div 1 = size
    OBVIOUS
  <2> QED
    BY <1>1, <1>5, <1>7, <2>1
<1>8. CASE m # 0
  <2>1. m - 1 \in 0 .. size /\ (m - 1) + 1 = m /\ ~ (m <= m - 1) /\ m \in Nat
    BY <1>6, <1>8
  <2>2. m - 1 \notin K
    BY <1>4, <2>1
  <2>3. ~ (size \div Power[m] < length)
    BY <2>1, <2>2
  <2>4. size \div Power[m] \in Nat
    <3>1. Power[m] \in Nat /\ Power[m] > 0
      BY <1>1, <2>1
    <3> QED
      BY <1>2, <3>1
  <2> QED
    BY <1>5, <2>3, <2>4
<1> QED
  BY <1>7, <1>8

LEMMA ShrunkSound ==
    ASSUME NEW p, Sound(p)
    PROVE  Sound(Shrunk(p)) /\ Shrunk(p).ranges = p.ranges
<1>1. /\ p \in State /\ p.ranges \in RangeSeq /\ InOrder(p.ranges)
      /\ Len(p.ranges) \in Nat /\ p.size \in Nat /\ p.static \in BOOLEAN
      /\ Len(p.ranges) <= p.size
  BY SoundFacts DEF Sound
<1>2. CASE p.static
  BY <1>2 DEF Shrunk
<1>3. CASE ~ p.static
  <2> DEFINE n == ShrunkSize(p.size, Len(p.ranges))
  <2>1. n \in Nat /\ Len(p.ranges) <= n
    BY <1>1, ShrunkSizeFacts
  <2>2. Shrunk(p) = [p EXCEPT !.size = n]
    BY <1>3 DEF Shrunk
  <2> HIDE DEF n
  <2>3. /\ [p EXCEPT !.size = n] \in State /\ [p EXCEPT !.size = n].ranges = p.ranges
        /\ [p EXCEPT !.size = n].size = n /\ [p EXCEPT !.size = n].static = p.static
    BY <1>1, <2>1 DEF State
  <2> QED
    BY <1>1, <1>3, <2>1, <2>2, <2>3 DEF Sound
<1> QED
  BY <1>2, <1>3

-----------------------------------------------------------------------------
(* Insert and remove as functions of the set *)

LEMMA CoveredByFacts ==
    ASSUME NEW r \in AnyRange
    PROVE  /\ Usable(r) <=> ~ (r.length = 0 \/ ~ IsValid(r))
           /\ Usable(r) => \A x : x \in Abstract!CoveredBy(r) <=> x \in Nat /\ Holds(r, x)
           /\ ~ Usable(r) => Abstract!CoveredBy(r) = {}
<1>1. /\ r.location \in Nat /\ r.length \in Nat /\ End(r) \in Nat
      /\ End(r) = r.location + r.length
  BY RangeNumbers
<1>2. LocationMax \in Nat
  BY RangesAssumption
<1>3. Usable(r) <=> r.length > 0 /\ r.location <= LocationMax /\ End(r) <= LocationMax + 1
  BY DEF Usable, IsValid
<1>4. Usable(r) <=> ~ (r.length = 0 \/ ~ IsValid(r))
  BY <1>1 DEF Usable
<1>5. Usable(r) => \A x : x \in Abstract!CoveredBy(r) <=> x \in Nat /\ Holds(r, x)
  BY <1>1, <1>2, <1>3 DEF Abstract!CoveredBy, Holds
<1>6. ~ Usable(r) => Abstract!CoveredBy(r) = {}
  BY <1>1, <1>2, <1>3 DEF Abstract!CoveredBy
<1> QED
  BY <1>4, <1>5, <1>6

LEMMA WithRangeFacts ==
    ASSUME NEW p, Sound(p), NEW r \in AnyRange
    PROVE  /\ Sound(WithRange(p, r))
           /\ Covered(WithRange(p, r).ranges) = Covered(p.ranges) \cup Abstract!CoveredBy(r)
<1>1. /\ p.ranges \in RangeSeq /\ InOrder(p.ranges) /\ p.size \in Nat
      /\ Len(p.ranges) \in Nat /\ Len(p.ranges) <= p.size
  BY SoundFacts
<1>2. CASE Usable(r)
  <2> DEFINE t == Inserted(p.ranges, r)
  <2>1. Gains(p.ranges, t, r)
    BY <1>1, <1>2, InsertedGains
  <2>2. WithRange(p, r) = Stored(p, t)
    BY <1>2, CoveredByFacts DEF WithRange
  <2> HIDE DEF t
  <2>3. t \in RangeSeq /\ InOrder(t) /\ Len(t) <= Len(p.ranges) + 1 /\ Len(t) \in Nat
    BY <2>1, SeqFacts DEF Gains
  <2>4. Len(t) <= p.size + 1
    BY <1>1, <2>3
  <2>5. Sound(Stored(p, t)) /\ Stored(p, t).ranges = t
    BY <2>3, <2>4, StoredSound
  <2>6. Covered(t) = Covered(p.ranges) \cup Abstract!CoveredBy(r)
    <3>1. \A x : x \in Covered(t) <=> x \in Covered(p.ranges) \/ (x \in Nat /\ Holds(r, x))
      BY <2>1 DEF Gains
    <3>2. \A x : x \in Abstract!CoveredBy(r) <=> x \in Nat /\ Holds(r, x)
      BY <1>2, CoveredByFacts
    <3> QED
      BY <3>1, <3>2
  <2> QED
    BY <2>2, <2>5, <2>6
<1>3. CASE ~ Usable(r)
  <2>1. WithRange(p, r) = p
    BY <1>3, CoveredByFacts DEF WithRange
  <2>2. Abstract!CoveredBy(r) = {}
    BY <1>3, CoveredByFacts
  <2> QED
    BY <2>1, <2>2
<1> QED
  BY <1>2, <1>3

LEMMA WithoutRangeFacts ==
    ASSUME NEW p, Sound(p), NEW r \in AnyRange
    PROVE  /\ Sound(WithoutRange(p, r))
           /\ Covered(WithoutRange(p, r).ranges) = Covered(p.ranges) \ Abstract!CoveredBy(r)
<1>1. /\ p.ranges \in RangeSeq /\ InOrder(p.ranges) /\ p.size \in Nat
      /\ Len(p.ranges) \in Nat /\ Len(p.ranges) <= p.size
  BY SoundFacts
<1>2. CASE Usable(r)
  <2> DEFINE t == Removed(p.ranges, r)
  <2>1. Loses(p.ranges, t, r)
    BY <1>1, <1>2, RemovedLoses
  <2>2. WithoutRange(p, r) = Stored(p, t)
    BY <1>2, CoveredByFacts DEF WithoutRange
  <2> HIDE DEF t
  <2>3. t \in RangeSeq /\ InOrder(t) /\ Len(t) <= Len(p.ranges) + 1 /\ Len(t) \in Nat
    BY <2>1, SeqFacts DEF Loses
  <2>4. Len(t) <= p.size + 1
    BY <1>1, <2>3
  <2>5. Sound(Stored(p, t)) /\ Stored(p, t).ranges = t
    BY <2>3, <2>4, StoredSound
  <2>6. Covered(t) = Covered(p.ranges) \ Abstract!CoveredBy(r)
    <3>1. \A x : x \in Covered(t) <=> x \in Covered(p.ranges) /\ ~ Holds(r, x)
      BY <2>1 DEF Loses
    <3>2. \A x : x \in Abstract!CoveredBy(r) <=> x \in Nat /\ Holds(r, x)
      BY <1>2, CoveredByFacts
    <3>3. \A x \in Covered(p.ranges) : x \in Nat
      BY <1>1, CoveredFacts
    <3> QED
      BY <3>1, <3>2, <3>3
  <2> QED
    BY <2>2, <2>5, <2>6
<1>3. CASE ~ Usable(r)
  <2>1. WithoutRange(p, r) = p
    BY <1>3, CoveredByFacts DEF WithoutRange
  <2>2. Abstract!CoveredBy(r) = {}
    BY <1>3, CoveredByFacts
  <2> QED
    BY <2>1, <2>2
<1> QED
  BY <1>2, <1>3

LEMMA WithRangesFacts ==
    ASSUME NEW p, Sound(p), NEW batch \in Seq(AnyRange)
    PROVE  /\ Sound(WithRanges(p, batch))
           /\ Covered(WithRanges(p, batch).ranges) =
                 Covered(p.ranges) \cup Abstract!CoveredByAll(batch)
<1> DEFINE n    == Len(batch)
           step == [q \in Sounds |-> [k \in Nat |->
                      IF k \in 1 .. n THEN WithRange(q, batch[k]) ELSE q]]
           S(k) == UNION {Abstract!CoveredBy(batch[i]) : i \in 1 .. k}
<1>1. n \in Nat /\ DOMAIN batch = 1 .. n /\ \A k \in 1 .. n : batch[k] \in AnyRange
  OBVIOUS
<1> HIDE DEF n
<1>2. p \in Sounds
  BY SoundFacts
<1>3. \A q : q \in Sounds <=> Sound(q)
  BY DEF Sounds, Sound
<1>4. step \in [Sounds -> [Nat -> Sounds]]
  <2>1. ASSUME NEW q \in Sounds, NEW k \in 1 .. n PROVE WithRange(q, batch[k]) \in Sounds
    BY <1>1, <1>3, WithRangeFacts
  <2> QED
    BY <2>1
<1>5. PICK f \in [0 .. n -> Sounds] : IsRun(f, n, p, step)
  BY <1>1, <1>2, <1>4, RunExists
<1>6. /\ f[0] = p
      /\ \A k \in 1 .. n : f[k - 1] \in Sounds /\ f[k] = WithRange(f[k - 1], batch[k])
  <2>1. ASSUME NEW k \in 1 .. n
        PROVE  f[k - 1] \in Sounds /\ f[k] = WithRange(f[k - 1], batch[k])
    <3>1. k - 1 \in 0 .. n /\ k \in Nat
      BY <1>1
    <3>2. f[k - 1] \in Sounds
      BY <3>1
    <3>3. f[k] = step[f[k - 1]][k]
      BY <1>5 DEF IsRun
    <3> QED
      BY <3>1, <3>2, <3>3
  <2> QED
    BY <1>5, <2>1 DEF IsRun
<1> HIDE DEF step
(* the function that the batch operation defines is the run               *)
<1> DEFINE Eq(g) == g = [k \in 0 .. n |->
                            IF k = 0 THEN p ELSE WithRange(g[k - 1], batch[k])]
           after == CHOOSE g : Eq(g)
<1>7. Eq(f)
  <2>1. ASSUME NEW k \in 0 .. n
        PROVE  f[k] = IF k = 0 THEN p ELSE WithRange(f[k - 1], batch[k])
    <3>1. k = 0 \/ k \in 1 .. n
      BY <1>1
    <3> QED
      BY <1>6, <3>1
  <2> QED
    BY <2>1
<1>8. Eq(after)
  BY <1>7
<1>9. WithRanges(p, batch) = after[n]
  BY DEF WithRanges, n
<1> HIDE DEF after
<1> DEFINE T == {k \in Nat : k <= n =>
                    /\ Sound(after[k])
                    /\ Covered(after[k].ranges) = Covered(p.ranges) \cup S(k)}
<1>10. 0 \in T
  <2>1. 0 \in 0 .. n
    BY <1>1
  <2>2. after[0] = p
    BY <1>8, <2>1
  <2>3. S(0) = {}
    OBVIOUS
  <2> HIDE DEF S
  <2> QED
    BY <2>2, <2>3
<1>11. ASSUME NEW k \in Nat, k \in T PROVE k + 1 \in T
  <2> SUFFICES ASSUME k + 1 <= n
               PROVE  /\ Sound(after[k + 1])
                      /\ Covered(after[k + 1].ranges) = Covered(p.ranges) \cup S(k + 1)
    OBVIOUS
  <2>1. k + 1 \in 0 .. n /\ k + 1 \in 1 .. n /\ (k + 1) - 1 = k /\ k <= n /\ k + 1 # 0
    BY <1>1
  <2>2. after[k + 1] = WithRange(after[k], batch[k + 1])
    BY <1>8, <2>1
  <2>3. Sound(after[k]) /\ Covered(after[k].ranges) = Covered(p.ranges) \cup S(k)
    BY <1>11, <2>1
  <2> HIDE DEF Eq
  <2>4. /\ Sound(after[k + 1])
        /\ Covered(after[k + 1].ranges) =
              Covered(after[k].ranges) \cup Abstract!CoveredBy(batch[k + 1])
    <3>1. PICK q : q = after[k]
      OBVIOUS
    <3>2. PICK r \in AnyRange : r = batch[k + 1]
      BY <1>1, <2>1
    <3>3. Sound(q)
      BY <2>3, <3>1
    <3>4. /\ Sound(WithRange(q, r))
          /\ Covered(WithRange(q, r).ranges) = Covered(q.ranges) \cup Abstract!CoveredBy(r)
      BY <3>3, WithRangeFacts
    <3> QED
      BY <2>2, <3>1, <3>2, <3>4
  <2>5. S(k + 1) = S(k) \cup Abstract!CoveredBy(batch[k + 1])
    <3>1. \A i : i \in 1 .. k + 1 <=> i \in 1 .. k \/ i = k + 1
      OBVIOUS
    <3> QED
      BY <3>1
  <2> HIDE DEF S
  <2> QED
    BY <2>3, <2>4, <2>5
<1>12. n \in T
  <2> HIDE DEF T
  <2>1. \A k \in Nat : k \in T
    BY <1>10, <1>11, Induction
  <2> QED
    BY <1>1, <2>1
<1>13. S(n) = Abstract!CoveredByAll(batch)
  BY <1>1 DEF Abstract!CoveredByAll
<1> HIDE DEF S
<1>14. n <= n
  BY <1>1
<1> QED
  BY <1>9, <1>12, <1>13, <1>14


LEMMA WithoutRangesFacts ==
    ASSUME NEW p, Sound(p), NEW batch \in Seq(AnyRange)
    PROVE  /\ Sound(WithoutRanges(p, batch))
           /\ Covered(WithoutRanges(p, batch).ranges) =
                 Covered(p.ranges) \ Abstract!CoveredByAll(batch)
<1> DEFINE n    == Len(batch)
           step == [q \in Sounds |-> [k \in Nat |->
                      IF k \in 1 .. n THEN WithoutRange(q, batch[k]) ELSE q]]
           S(k) == UNION {Abstract!CoveredBy(batch[i]) : i \in 1 .. k}
<1>1. n \in Nat /\ DOMAIN batch = 1 .. n /\ \A k \in 1 .. n : batch[k] \in AnyRange
  OBVIOUS
<1> HIDE DEF n
<1>2. p \in Sounds
  BY SoundFacts
<1>3. \A q : q \in Sounds <=> Sound(q)
  BY DEF Sounds, Sound
<1>4. step \in [Sounds -> [Nat -> Sounds]]
  <2>1. ASSUME NEW q \in Sounds, NEW k \in 1 .. n PROVE WithoutRange(q, batch[k]) \in Sounds
    BY <1>1, <1>3, WithoutRangeFacts
  <2> QED
    BY <2>1
<1>5. PICK f \in [0 .. n -> Sounds] : IsRun(f, n, p, step)
  BY <1>1, <1>2, <1>4, RunExists
<1>6. /\ f[0] = p
      /\ \A k \in 1 .. n : f[k - 1] \in Sounds /\ f[k] = WithoutRange(f[k - 1], batch[k])
  <2>1. ASSUME NEW k \in 1 .. n
        PROVE  f[k - 1] \in Sounds /\ f[k] = WithoutRange(f[k - 1], batch[k])
    <3>1. k - 1 \in 0 .. n /\ k \in Nat
      BY <1>1
    <3>2. f[k - 1] \in Sounds
      BY <3>1
    <3>3. f[k] = step[f[k - 1]][k]
      BY <1>5 DEF IsRun
    <3> QED
      BY <3>1, <3>2, <3>3
  <2> QED
    BY <1>5, <2>1 DEF IsRun
<1> HIDE DEF step
(* the function that the batch operation defines is the run               *)
<1> DEFINE Eq(g) == g = [k \in 0 .. n |->
                            IF k = 0 THEN p ELSE WithoutRange(g[k - 1], batch[k])]
           after == CHOOSE g : Eq(g)
<1>7. Eq(f)
  <2>1. ASSUME NEW k \in 0 .. n
        PROVE  f[k] = IF k = 0 THEN p ELSE WithoutRange(f[k - 1], batch[k])
    <3>1. k = 0 \/ k \in 1 .. n
      BY <1>1
    <3> QED
      BY <1>6, <3>1
  <2> QED
    BY <2>1
<1>8. Eq(after)
  BY <1>7
<1>9. WithoutRanges(p, batch) = after[n]
  BY DEF WithoutRanges, n
<1> HIDE DEF after
<1> DEFINE T == {k \in Nat : k <= n =>
                    /\ Sound(after[k])
                    /\ Covered(after[k].ranges) = Covered(p.ranges) \ S(k)}
<1>10. 0 \in T
  <2>1. 0 \in 0 .. n
    BY <1>1
  <2>2. after[0] = p
    BY <1>8, <2>1
  <2>3. S(0) = {}
    OBVIOUS
  <2> HIDE DEF S
  <2> QED
    BY <2>2, <2>3
<1>11. ASSUME NEW k \in Nat, k \in T PROVE k + 1 \in T
  <2> SUFFICES ASSUME k + 1 <= n
               PROVE  /\ Sound(after[k + 1])
                      /\ Covered(after[k + 1].ranges) = Covered(p.ranges) \ S(k + 1)
    OBVIOUS
  <2>1. k + 1 \in 0 .. n /\ k + 1 \in 1 .. n /\ (k + 1) - 1 = k /\ k <= n /\ k + 1 # 0
    BY <1>1
  <2>2. after[k + 1] = WithoutRange(after[k], batch[k + 1])
    BY <1>8, <2>1
  <2>3. Sound(after[k]) /\ Covered(after[k].ranges) = Covered(p.ranges) \ S(k)
    BY <1>11, <2>1
  <2> HIDE DEF Eq
  <2>4. /\ Sound(after[k + 1])
        /\ Covered(after[k + 1].ranges) =
              Covered(after[k].ranges) \ Abstract!CoveredBy(batch[k + 1])
    <3>1. PICK q : q = after[k]
      OBVIOUS
    <3>2. PICK r \in AnyRange : r = batch[k + 1]
      BY <1>1, <2>1
    <3>3. Sound(q)
      BY <2>3, <3>1
    <3>4. /\ Sound(WithoutRange(q, r))
          /\ Covered(WithoutRange(q, r).ranges) = Covered(q.ranges) \ Abstract!CoveredBy(r)
      BY <3>3, WithoutRangeFacts
    <3> QED
      BY <2>2, <3>1, <3>2, <3>4
  <2>5. S(k + 1) = S(k) \cup Abstract!CoveredBy(batch[k + 1])
    <3>1. \A i : i \in 1 .. k + 1 <=> i \in 1 .. k \/ i = k + 1
      OBVIOUS
    <3> QED
      BY <3>1
  <2> HIDE DEF S
  <2> QED
    BY <2>3, <2>4, <2>5
<1>12. n \in T
  <2> HIDE DEF T
  <2>1. \A k \in Nat : k \in T
    BY <1>10, <1>11, Induction
  <2> QED
    BY <1>1, <2>1
<1>13. S(n) = Abstract!CoveredByAll(batch)
  BY <1>1 DEF Abstract!CoveredByAll
<1> HIDE DEF S
<1>14. n <= n
  BY <1>1
<1> QED
  BY <1>9, <1>12, <1>13, <1>14

-----------------------------------------------------------------------------
(* Shift *)

LEMMA NearestInside ==
    ASSUME NEW s \in RangeSeq, InOrder(s), s # <<>>, NEW l \in Nat
    PROVE  NearestIndex(s, l) \in 1 .. Len(s)
<1> DEFINE h == HoleIndex(s, l)
           u == Min({h + 1, Len(s)})
<1>1. Len(s) \in Nat /\ DOMAIN s = 1 .. Len(s) /\ Len(s) # 0
  BY SeqFacts DEF RangeSeq
<1>2. h \in 0 .. Len(s)
  BY HoleFacts DEF RangeSeq
<1> HIDE DEF h
<1>3. h + 1 \in Nat /\ h + 1 >= 1
  BY <1>1, <1>2
<1>4. u \in {h + 1, Len(s)} /\ u <= h + 1 /\ u <= Len(s)
  BY <1>1, <1>3, PairMin
<1> HIDE DEF u
<1>5. u \in 1 .. Len(s)
  <2>1. PICK n \in Nat : n = Len(s)
    BY <1>1
  <2>2. n # 0
    BY <1>1, <2>1
  <2>3. n >= 1
    BY <2>2
  <2> QED
    BY <1>3, <1>4, <2>1, <2>3
<1>6. CASE \E i \in DOMAIN s : Holds(s[i], l)
  BY <1>1, <1>6 DEF NearestIndex
<1>7. CASE ~ \E i \in DOMAIN s : Holds(s[i], l)
  <2>1. NearestIndex(s, l) = IF u > 1 /\ Distance(s[u], l) > Distance(s[u - 1], l)
                             THEN u - 1 ELSE u
    BY <1>7 DEF NearestIndex, u, h
  <2>2. u > 1 => u - 1 \in 1 .. Len(s)
    BY <1>1, <1>5
  <2> QED
    BY <1>5, <2>1, <2>2
<1> QED
  BY <1>6, <1>7

(* Up, without leaving the domain.                                         *)
LEMMA MovedFacts ==
    ASSUME NEW r, Usable(r), NEW delta \in Nat, End(r) + delta <= LocationMax + 1
    PROVE  /\ Usable(MovedBy(r, delta))
           /\ MovedBy(r, delta).location = r.location + delta
           /\ End(MovedBy(r, delta)) = End(r) + delta
<1>1. /\ r.location \in Nat /\ End(r) \in Nat /\ r.location < End(r) /\ LocationMax \in Nat
  BY UsableNumbers
<1>2. r \in [location : Nat, length : Nat] /\ r.length > 0 /\ r.length \in Nat
      /\ End(r) = r.location + r.length
  BY RangeNumbers DEF Usable, AnyRange
<1>3. (r.location + delta) % Word = r.location + delta
  <2>1. PICK a \in Nat : a = r.location
    BY <1>1
  <2>2. a + delta < 2 * (LocationMax + 2) /\ a + delta \in Nat
    <3>1. PICK e \in Nat : e = End(r)
      BY <1>1
    <3>2. a < e /\ e + delta <= LocationMax + 1
      BY <1>1, <2>1, <3>1
    <3> QED
      BY <1>1, <3>2
  <2>3. \A x, w \in Nat : x < w => x % w = x
    OBVIOUS
  <2>4. 2 * (LocationMax + 2) \in Nat
    BY <1>1
  <2> QED
    BY <2>1, <2>2, <2>3, <2>4 DEF Word
<1>4. PICK a \in Nat : a = r.location
  BY <1>1
<1>5. PICK n \in Nat : n = r.length
  BY <1>2
<1>6. MovedBy(r, delta) = [r EXCEPT !.location = a + delta]
  BY <1>2, <1>3, <1>4 DEF MovedBy
<1> DEFINE m == MovedBy(r, delta)
<1>7. m.location = a + delta /\ m.length = n /\ m \in AnyRange
  BY <1>2, <1>5, <1>6 DEF AnyRange
<1> HIDE DEF m
<1>8. End(m) = a + delta + n
  BY <1>7 DEF End
<1>9. a + n + delta <= LocationMax + 1 /\ n > 0
  BY <1>2, <1>4, <1>5
<1>10. a + delta <= LocationMax
  BY <1>1, <1>9
<1>11. Usable(m)
  BY <1>1, <1>7, <1>8, <1>9, <1>10 DEF Usable, IsValid
<1>12. End(r) + delta = a + delta + n
  BY <1>2, <1>4, <1>5
<1> QED
  BY <1>4, <1>7, <1>8, <1>11, <1>12 DEF m

(* An array whose ranges are usable and lie behind each other is in order. *)
LEMMA OrderFromApart ==
    ASSUME NEW s \in RangeSeq, \A i \in 1 .. Len(s) : Usable(s[i]),
           \A i, j \in 1 .. Len(s) : i < j => End(s[i]) <= s[j].location
    PROVE  InOrder(s)
BY InOrderApart DEF RangeSeq, Proper, Apart, Usable

(* The ranges from f on can move by delta: the top of the domain is free.  *)
RoomAbove(s, f, delta) ==
    /\ s \in RangeSeq /\ InOrder(s) /\ f \in 1 .. Len(s) + 1 /\ delta \in Nat
    /\ \A i \in 1 .. Len(s) : End(s[i]) + delta <= LocationMax + 1

LEMMA DeltaShiftedFacts ==
    ASSUME NEW s, NEW f, NEW delta, RoomAbove(s, f, delta)
    PROVE  /\ DeltaShifted(s, f, delta) \in RangeSeq
           /\ Len(DeltaShifted(s, f, delta)) = Len(s)
           /\ InOrder(DeltaShifted(s, f, delta))
           /\ \A i \in 1 .. Len(s) :
                 /\ i < f => DeltaShifted(s, f, delta)[i] = s[i]
                 /\ i >= f => /\ DeltaShifted(s, f, delta)[i].location = s[i].location + delta
                              /\ End(DeltaShifted(s, f, delta)[i]) = End(s[i]) + delta
<1> DEFINE t == DeltaShifted(s, f, delta)
<1>0. /\ s \in RangeSeq /\ InOrder(s) /\ f \in 1 .. Len(s) + 1 /\ delta \in Nat
      /\ \A i \in 1 .. Len(s) : End(s[i]) + delta <= LocationMax + 1
  BY DEF RoomAbove
<1>1. /\ Len(s) \in Nat /\ DOMAIN s = 1 .. Len(s) /\ f \in Nat
  BY <1>0, SeqFacts
<1>2. /\ \A i \in 1 .. Len(s) :
            /\ Usable(s[i]) /\ s[i].location \in Nat /\ End(s[i]) \in Nat
            /\ s[i].location < End(s[i])
      /\ \A i, j \in 1 .. Len(s) : i < j => End(s[i]) <= s[j].location
  BY <1>0, MemberFacts
<1>3. ASSUME NEW i \in 1 .. Len(s), i >= f
      PROVE  /\ Usable(MovedBy(s[i], delta))
             /\ MovedBy(s[i], delta).location = s[i].location + delta
             /\ End(MovedBy(s[i], delta)) = End(s[i]) + delta
  BY <1>0, <1>2, <1>3, MovedFacts
<1>4. t = [i \in 1 .. Len(s) |-> IF i < f THEN s[i] ELSE MovedBy(s[i], delta)]
  BY <1>1 DEF DeltaShifted
<1> HIDE DEF t
<1>5. \A i \in 1 .. Len(s) : t[i] = IF i < f THEN s[i] ELSE MovedBy(s[i], delta)
  BY <1>4
<1>6. \A i \in 1 .. Len(s) : Usable(t[i])
  BY <1>1, <1>2, <1>3, <1>5
<1>7. t \in RangeSeq /\ Len(t) = Len(s)
  BY <1>1, <1>4, <1>5, <1>6 DEF RangeSeq, Usable
<1>8. ASSUME NEW i \in 1 .. Len(s)
      PROVE  /\ i < f => t[i] = s[i]
             /\ i >= f => t[i].location = s[i].location + delta /\ End(t[i]) = End(s[i]) + delta
  BY <1>1, <1>3, <1>5
<1>9. ASSUME NEW i \in 1 .. Len(s), NEW j \in 1 .. Len(s), i < j
      PROVE  End(t[i]) <= t[j].location
  <2>1. PICK e \in Nat : e = End(s[i])
    BY <1>2
  <2>2. PICK l \in Nat : l = s[j].location
    BY <1>2
  <2>3. e <= l
    BY <1>2, <1>9, <2>1, <2>2
  <2>4. e + delta <= l + delta /\ e <= l + delta
    BY <1>0, <2>3
  <2>5. CASE j < f
    BY <1>1, <1>8, <1>9, <2>1, <2>2, <2>3, <2>5
  <2>6. CASE i < f /\ j >= f
    BY <1>8, <2>1, <2>2, <2>4, <2>6
  <2>7. CASE i >= f
    <3>1. j >= f
      BY <1>1, <1>9, <2>7
    <3> QED
      BY <1>8, <2>1, <2>2, <2>4, <2>7, <3>1
  <2> QED
    BY <1>1, <2>5, <2>6, <2>7
<1>10. InOrder(t)
  BY <1>6, <1>7, <1>9, OrderFromApart
<1> QED
  BY <1>7, <1>8, <1>10 DEF t

LEMMA MovedSet ==
    ASSUME NEW S, S \subseteq Nat, NEW cut \in Nat, NEW delta \in Nat,
           \A x \in S : x + delta <= LocationMax
    PROVE  \A x : x \in Abstract!Moved(S, cut, delta) <=>
                     \/ x \in S /\ x < cut
                     \/ x \in Nat /\ x - delta \in S /\ x - delta >= cut
<1> TAKE x
<1>1. x \in Abstract!Moved(S, cut, delta) <=>
         \/ x \in S /\ x < cut
         \/ x \in 0 .. LocationMax /\ \E y \in S : y >= cut /\ x = y + delta
  BY DEF Abstract!Moved, Abstract!Location
<1>2. (x \in 0 .. LocationMax /\ \E y \in S : y >= cut /\ x = y + delta) <=>
         (x \in Nat /\ x - delta \in S /\ x - delta >= cut)
  <2>1. ASSUME NEW y \in S, y >= cut, x = y + delta
        PROVE  x \in Nat /\ x - delta = y
    BY <2>1
  <2>2. ASSUME x \in Nat, x - delta \in S
        PROVE  x = (x - delta) + delta
    BY <2>2
  <2>3. ASSUME x \in Nat, x - delta \in S
        PROVE  x \in 0 .. LocationMax
    <3>1. x <= LocationMax
      BY <2>2, <2>3
    <3> QED
      BY <2>3, <3>1, RangesAssumption
  <2> QED
    BY <2>1, <2>2, <2>3
<1> QED
  BY <1>1, <1>2

(* No range spans the cut: all from f on move.                             *)
LEMMA ShiftsWhole ==
    ASSUME NEW s, NEW f, NEW delta, RoomAbove(s, f, delta), f <= Len(s)
    PROVE  Covered(DeltaShifted(s, f, delta)) =
               Abstract!Moved(Covered(s), s[f].location, delta)
<1> DEFINE t   == DeltaShifted(s, f, delta)
           cut == s[f].location
<1>0. /\ s \in RangeSeq /\ InOrder(s) /\ f \in 1 .. Len(s) + 1 /\ delta \in Nat
      /\ \A i \in 1 .. Len(s) : End(s[i]) + delta <= LocationMax + 1
  BY DEF RoomAbove
<1>1. Len(s) \in Nat /\ f \in 1 .. Len(s) /\ f \in Nat
  BY <1>0, SeqFacts
<1>2. /\ \A i \in 1 .. Len(s) :
            /\ s[i].location \in Nat /\ End(s[i]) \in Nat /\ s[i].location < End(s[i])
      /\ \A i, j \in 1 .. Len(s) : i < j => End(s[i]) <= s[j].location
      /\ LocationMax \in Nat
  BY <1>0, MemberFacts
<1>3. /\ t \in RangeSeq /\ Len(t) = Len(s)
      /\ \A i \in 1 .. Len(s) :
            /\ i < f => t[i] = s[i]
            /\ i >= f => t[i].location = s[i].location + delta /\ End(t[i]) = End(s[i]) + delta
  BY DeltaShiftedFacts
<1> HIDE DEF t
<1>4. cut \in Nat
  BY <1>1, <1>2
<1>5. \A x : x \in Covered(s) <=> x \in Nat /\ \E i \in 1 .. Len(s) : Holds(s[i], x)
  BY <1>0, CoveredFacts
<1>6. \A x : x \in Covered(t) <=> x \in Nat /\ \E i \in 1 .. Len(s) : Holds(t[i], x)
  BY <1>3, CoveredFacts
<1>7. ASSUME NEW i \in 1 .. Len(s), NEW x \in Nat, Holds(s[i], x)
      PROVE  /\ i < f => x < cut
             /\ i >= f => x >= cut
  <2>1. s[i].location <= x /\ x < End(s[i])
    BY <1>7 DEF Holds
  <2>2. i >= f => cut <= s[i].location
    BY <1>0, <1>1, Monotone
  <2>3. i < f => End(s[i]) <= cut
    BY <1>1, <1>2
  <2>4. s[i].location \in Nat /\ End(s[i]) \in Nat
    BY <1>2
  <2> HIDE DEF cut
  <2> QED
    BY <1>4, <2>1, <2>2, <2>3, <2>4
<1>8. ASSUME NEW i \in 1 .. Len(s), NEW x \in Nat
      PROVE  /\ i < f => (Holds(t[i], x) <=> Holds(s[i], x))
             /\ i >= f => (Holds(t[i], x) <=> x - delta \in Nat /\ Holds(s[i], x - delta))
  <2>1. PICK a \in Nat : a = s[i].location
    BY <1>2
  <2>2. PICK e \in Nat : e = End(s[i])
    BY <1>2
  <2>3. i >= f => (Holds(t[i], x) <=> a + delta <= x /\ x < e + delta)
    BY <1>3, <2>1, <2>2 DEF Holds
  <2>4. a + delta <= x /\ x < e + delta <=>
           x - delta \in Nat /\ a <= x - delta /\ x - delta < e
    BY <1>0
  <2>5. Holds(s[i], x - delta) <=> a <= x - delta /\ x - delta < e
    BY <2>1, <2>2 DEF Holds
  <2> QED
    BY <1>3, <2>3, <2>4, <2>5
<1>9. ASSUME NEW x \in Covered(s) PROVE x + delta <= LocationMax
  <2>1. PICK i \in 1 .. Len(s) : Holds(s[i], x) /\ x \in Nat
    BY <1>5
  <2>2. End(s[i]) + delta <= LocationMax + 1 /\ x < End(s[i]) /\ End(s[i]) \in Nat
    BY <1>0, <1>2, <2>1 DEF Holds
  <2> QED
    BY <1>0, <1>2, <2>1, <2>2
<1>10. ASSUME NEW x
       PROVE  x \in Abstract!Moved(Covered(s), cut, delta) <=>
                     \/ x \in Covered(s) /\ x < cut
                     \/ x \in Nat /\ x - delta \in Covered(s) /\ x - delta >= cut
  <2>1. Covered(s) \subseteq Nat
    BY <1>5
  <2> HIDE DEF cut
  <2> QED
    BY <1>0, <1>4, <1>9, <2>1, MovedSet
<1> HIDE DEF cut
<1>11. ASSUME NEW x \in Nat
       PROVE  /\ x \in Covered(s) /\ x < cut <=>
                    \E i \in 1 .. Len(s) : i < f /\ Holds(t[i], x)
              /\ x - delta \in Covered(s) /\ x - delta >= cut <=>
                    \E i \in 1 .. Len(s) : i >= f /\ Holds(t[i], x)
  <2>1. \A i \in 1 .. Len(s) : i \in Nat /\ (i < f \/ i >= f) /\ ~ (i < f /\ i >= f)
    BY <1>1
  <2>2. \A i \in 1 .. Len(s) : i < f => (Holds(t[i], x) <=> Holds(s[i], x))
    BY <1>8
  <2>3. \A i \in 1 .. Len(s) : i >= f =>
           (Holds(t[i], x) <=> x - delta \in Nat /\ Holds(s[i], x - delta))
    BY <1>8
  <2>4. \A i \in 1 .. Len(s) : Holds(s[i], x) => (i < f <=> x < cut)
    BY <1>1, <1>4, <1>7
  <2>5. \A i \in 1 .. Len(s) : x - delta \in Nat /\ Holds(s[i], x - delta) =>
           (i >= f <=> x - delta >= cut)
    BY <1>1, <1>4, <1>7
  <2>6. x \in Covered(s) <=> \E i \in 1 .. Len(s) : Holds(s[i], x)
    BY <1>5
  <2>7. x - delta \in Covered(s) <=>
           x - delta \in Nat /\ \E i \in 1 .. Len(s) : Holds(s[i], x - delta)
    BY <1>5
  <2>8. x \in Covered(s) /\ x < cut <=> \E i \in 1 .. Len(s) : i < f /\ Holds(t[i], x)
    BY <2>2, <2>4, <2>6
  <2>9. x - delta \in Covered(s) /\ x - delta >= cut <=>
           \E i \in 1 .. Len(s) : i >= f /\ Holds(t[i], x)
    BY <2>3, <2>5, <2>7
  <2> QED
    BY <2>8, <2>9
<1>12. ASSUME NEW x
       PROVE  x \in Covered(t) <=> x \in Abstract!Moved(Covered(s), cut, delta)
  <2>1. \A i \in 1 .. Len(s) : i < f \/ i >= f
    BY <1>1
  <2>2. x \in Covered(s) => x \in Nat
    BY <1>5
  <2> QED
    BY <1>3, <1>6, <1>10, <1>11, <2>1, <2>2
<1> QED
  BY <1>12 DEF t, cut

(* A range spans the location l: what it holds below l stays, and what it  *)
(* holds from l on is inserted anew once the ranges behind have moved.     *)
Unsplit(s, f, l, delta) ==
    [DeltaShifted(s, f + 1, delta) EXCEPT ![f] = Span(s[f].location, l)]

LEMMA ShiftsSplit ==
    ASSUME NEW s, NEW f, NEW l \in Nat, NEW delta, RoomAbove(s, f, delta), f <= Len(s),
           s[f].location < l, l < End(s[f])
    PROVE  /\ Unsplit(s, f, l, delta) \in RangeSeq
           /\ InOrder(Unsplit(s, f, l, delta))
           /\ Len(Unsplit(s, f, l, delta)) = Len(s)
           /\ \A x : x \in Abstract!Moved(Covered(s), l, delta) <=>
                        \/ x \in Covered(Unsplit(s, f, l, delta))
                        \/ x \in Nat /\ l + delta <= x /\ x < End(s[f]) + delta
<1> DEFINE d == DeltaShifted(s, f + 1, delta)
           b == Span(s[f].location, l)
           u == Unsplit(s, f, l, delta)
<1>0. /\ s \in RangeSeq /\ InOrder(s) /\ f \in 1 .. Len(s) + 1 /\ delta \in Nat
      /\ \A i \in 1 .. Len(s) : End(s[i]) + delta <= LocationMax + 1
  BY DEF RoomAbove
<1>1. Len(s) \in Nat /\ f \in 1 .. Len(s) /\ f \in Nat
  BY <1>0, SeqFacts
<1>2. /\ \A i \in 1 .. Len(s) :
            /\ Usable(s[i])
            /\ s[i].location \in Nat /\ End(s[i]) \in Nat /\ s[i].location < End(s[i])
            /\ s[i].location <= LocationMax /\ End(s[i]) <= LocationMax + 1
      /\ \A i, j \in 1 .. Len(s) : i < j => End(s[i]) <= s[j].location
      /\ LocationMax \in Nat
  BY <1>0, MemberFacts
<1>3. RoomAbove(s, f + 1, delta)
  <2>1. f + 1 \in 1 .. Len(s) + 1
    BY <1>1
  <2> QED
    BY <1>0, <2>1 DEF RoomAbove
<1>4. /\ d \in RangeSeq /\ Len(d) = Len(s) /\ InOrder(d)
      /\ \A i \in 1 .. Len(s) :
            /\ i < f + 1 => d[i] = s[i]
            /\ i >= f + 1 => d[i].location = s[i].location + delta /\ End(d[i]) = End(s[i]) + delta
  BY <1>3, DeltaShiftedFacts
<1>5. /\ Usable(b) /\ b.location = s[f].location /\ End(b) = l
      /\ \A x : Holds(b, x) <=> s[f].location <= x /\ x < l
  <2>1. /\ s[f].location \in Nat /\ s[f].location <= LocationMax
        /\ End(s[f]) \in Nat /\ End(s[f]) <= LocationMax + 1
    BY <1>1, <1>2
  <2>2. l <= LocationMax + 1
    BY <1>2, <2>1
  <2> QED
    BY <2>1, <2>2, UsableSpan
<1>6. u = [d EXCEPT ![f] = b]
  BY DEF Unsplit
<1> HIDE DEF d, b, u
<1>7. u \in RangeSeq /\ Len(u) = Len(s) /\ u[f] = b
      /\ \A i \in 1 .. Len(s) : i # f => u[i] = d[i]
  BY <1>1, <1>4, <1>5, <1>6 DEF RangeSeq, Usable
<1>8. ASSUME NEW i \in 1 .. Len(s)
      PROVE  /\ Usable(u[i])
             /\ i < f => u[i] = s[i]
             /\ i = f => u[i].location = s[f].location /\ End(u[i]) = l
             /\ i > f => u[i].location = s[i].location + delta /\ End(u[i]) = End(s[i]) + delta
  <2>1. Usable(d[i])
    BY <1>4, MemberFacts
  <2>2. i \in Nat /\ (i < f => i < f + 1) /\ (i > f => i >= f + 1)
    BY <1>1
  <2> QED
    BY <1>4, <1>5, <1>7, <2>1, <2>2
<1>9. ASSUME NEW i \in 1 .. Len(s), NEW j \in 1 .. Len(s), i < j
      PROVE  End(u[i]) <= u[j].location
  <2>1. PICK e \in Nat : e = End(s[i])
    BY <1>2
  <2>2. PICK c \in Nat : c = s[j].location
    BY <1>2
  <2>3. e <= c
    BY <1>2, <1>9, <2>1, <2>2
  <2>4. e + delta <= c + delta /\ e <= c + delta
    BY <1>0, <2>3
  <2>5. CASE j < f
    BY <1>1, <1>8, <1>9, <2>1, <2>2, <2>3, <2>5
  <2>6. CASE j = f
    BY <1>1, <1>8, <1>9, <2>1, <2>2, <2>3, <2>6
  <2>7. CASE j > f
    <3>1. u[j].location = c + delta
      BY <1>8, <2>2, <2>7
    <3>2. CASE i < f
      BY <1>8, <2>1, <2>4, <3>1, <3>2
    <3>3. CASE i = f
      <4>1. End(u[i]) = l /\ l < e
        BY <1>8, <2>1, <3>3
      <4>2. l <= c + delta
        BY <2>1, <2>4, <4>1, <1>0
      <4> QED
        BY <3>1, <4>1, <4>2
    <3>4. CASE i > f
      BY <1>8, <2>1, <2>4, <3>1, <3>4
    <3> QED
      BY <1>1, <3>2, <3>3, <3>4
  <2> QED
    BY <1>1, <2>5, <2>6, <2>7
<1>10. InOrder(u)
  BY <1>7, <1>8, <1>9, OrderFromApart
<1>11. \A x : x \in Covered(s) <=> x \in Nat /\ \E i \in 1 .. Len(s) : Holds(s[i], x)
  BY <1>0, CoveredFacts
<1>12. \A x : x \in Covered(u) <=> x \in Nat /\ \E i \in 1 .. Len(s) : Holds(u[i], x)
  BY <1>7, CoveredFacts
<1>13. ASSUME NEW x \in Covered(s) PROVE x + delta <= LocationMax
  <2>1. PICK i \in 1 .. Len(s) : Holds(s[i], x) /\ x \in Nat
    BY <1>11
  <2>2. End(s[i]) + delta <= LocationMax + 1 /\ x < End(s[i]) /\ End(s[i]) \in Nat
    BY <1>0, <1>2, <2>1 DEF Holds
  <2> QED
    BY <1>0, <1>2, <2>1, <2>2
<1>14. ASSUME NEW x
       PROVE  x \in Abstract!Moved(Covered(s), l, delta) <=>
                     \/ x \in Covered(s) /\ x < l
                     \/ x \in Nat /\ x - delta \in Covered(s) /\ x - delta >= l
  <2>1. Covered(s) \subseteq Nat
    BY <1>11
  <2> QED
    BY <1>0, <1>13, <2>1, MovedSet
(* where a location of s lies relative to l                                *)
<1>15. ASSUME NEW x \in Nat, NEW i \in 1 .. Len(s), Holds(s[i], x)
       PROVE  /\ i < f => x < l
              /\ i > f => x >= l
  <2>1. s[i].location <= x /\ x < End(s[i]) /\ s[i].location \in Nat /\ End(s[i]) \in Nat
    BY <1>2, <1>15 DEF Holds
  <2>2. s[f].location \in Nat /\ End(s[f]) \in Nat
    BY <1>1, <1>2
  <2>3. /\ i < f => End(s[i]) <= s[f].location
        /\ i > f => End(s[f]) <= s[i].location
    BY <1>1, <1>2
  <2> QED
    BY <2>1, <2>2, <2>3
<1>16. ASSUME NEW x \in Nat, NEW i \in 1 .. Len(s)
       PROVE  /\ i < f => (Holds(u[i], x) <=> Holds(s[i], x))
              /\ i = f => (Holds(u[i], x) <=> Holds(s[i], x) /\ x < l)
              /\ i > f => (Holds(u[i], x) <=> x - delta \in Nat /\ Holds(s[i], x - delta))
  <2>1. PICK a \in Nat : a = s[i].location
    BY <1>2
  <2>2. PICK e \in Nat : e = End(s[i])
    BY <1>2
  <2>3. i > f => (Holds(u[i], x) <=> a + delta <= x /\ x < e + delta)
    BY <1>8, <2>1, <2>2 DEF Holds
  <2>4. a + delta <= x /\ x < e + delta <=>
           x - delta \in Nat /\ a <= x - delta /\ x - delta < e
    BY <1>0
  <2>5. Holds(s[i], x - delta) <=> a <= x - delta /\ x - delta < e
    BY <2>1, <2>2 DEF Holds
  <2>6. i = f => (Holds(u[i], x) <=> Holds(s[i], x) /\ x < l)
    <3>1. i = f => (Holds(u[i], x) <=> a <= x /\ x < l)
      BY <1>8, <2>1 DEF Holds
    <3>2. Holds(s[i], x) <=> a <= x /\ x < e
      BY <2>1, <2>2 DEF Holds
    <3>3. i = f => l < e
      BY <2>2
    <3>4. i = f => (x < l => x < e)
      BY <2>2, <3>3
    <3> QED
      BY <3>1, <3>2, <3>4
  <2>7. i < f => (Holds(u[i], x) <=> Holds(s[i], x))
    BY <1>8
  <2> QED
    BY <2>3, <2>4, <2>5, <2>6, <2>7
<1>17. ASSUME NEW x \in Nat
       PROVE  /\ x \in Covered(s) /\ x < l <=>
                    \E i \in 1 .. Len(s) : i <= f /\ Holds(u[i], x)
              /\ x - delta \in Covered(s) /\ x - delta >= l <=>
                    \/ \E i \in 1 .. Len(s) : i > f /\ Holds(u[i], x)
                    \/ l + delta <= x /\ x < End(s[f]) + delta
  <2>1. \A i \in 1 .. Len(s) : i \in Nat /\ (i < f \/ i = f \/ i > f) /\ (i <= f <=> i < f \/ i = f)
                               /\ ~ (i < f /\ i > f) /\ ~ (i = f /\ i > f) /\ ~ (i = f /\ i < f)
    BY <1>1
  <2>2. x \in Covered(s) <=> \E i \in 1 .. Len(s) : Holds(s[i], x)
    BY <1>11
  <2>3. x - delta \in Covered(s) <=>
           x - delta \in Nat /\ \E i \in 1 .. Len(s) : Holds(s[i], x - delta)
    BY <1>11
  <2>4. x < l <=> ~ (x >= l)
    OBVIOUS
  <2>5. \A i \in 1 .. Len(s) :
           /\ i < f => (Holds(u[i], x) <=> Holds(s[i], x))
           /\ i = f => (Holds(u[i], x) <=> Holds(s[i], x) /\ x < l)
           /\ i > f => (Holds(u[i], x) <=> x - delta \in Nat /\ Holds(s[i], x - delta))
    BY <1>16
  <2>6. \A i \in 1 .. Len(s) : Holds(s[i], x) => (i < f => x < l) /\ (i > f => x >= l)
    BY <1>15
  <2>7. x \in Covered(s) /\ x < l <=> \E i \in 1 .. Len(s) : i <= f /\ Holds(u[i], x)
    BY <2>1, <2>2, <2>4, <2>5, <2>6
  <2>8. x - delta \in Nat => \A i \in 1 .. Len(s) : Holds(s[i], x - delta) =>
           (i < f => x - delta < l) /\ (i > f => x - delta >= l)
    BY <1>15
  <2>9. x - delta \in Nat => (x - delta < l <=> ~ (x - delta >= l))
    OBVIOUS
  <2>10. x - delta \in Nat /\ Holds(s[f], x - delta) /\ x - delta >= l <=>
            l + delta <= x /\ x < End(s[f]) + delta
    <3>1. PICK a \in Nat : a = s[f].location
      BY <1>1, <1>2
    <3>2. PICK e \in Nat : e = End(s[f])
      BY <1>1, <1>2
    <3>3. Holds(s[f], x - delta) <=> a <= x - delta /\ x - delta < e
      BY <3>1, <3>2 DEF Holds
    <3>4. a < l /\ l < e
      BY <3>1, <3>2
    <3>5. x - delta \in Nat /\ a <= x - delta /\ x - delta < e /\ x - delta >= l <=>
             l + delta <= x /\ x < e + delta
      BY <1>0, <3>4
    <3> QED
      BY <3>2, <3>3, <3>5
  <2>11. x - delta \in Covered(s) /\ x - delta >= l <=>
            \/ \E i \in 1 .. Len(s) : i > f /\ x - delta \in Nat /\ Holds(s[i], x - delta)
            \/ x - delta \in Nat /\ Holds(s[f], x - delta) /\ x - delta >= l
    BY <1>1, <2>1, <2>3, <2>8, <2>9
  <2> QED
    BY <2>5, <2>7, <2>10, <2>11
<1>18. ASSUME NEW x
       PROVE  x \in Abstract!Moved(Covered(s), l, delta) <=>
                        \/ x \in Covered(u)
                        \/ x \in Nat /\ l + delta <= x /\ x < End(s[f]) + delta
  <2>1. \A i \in 1 .. Len(s) : i <= f \/ i > f
    BY <1>1
  <2>2. x \in Covered(s) => x \in Nat
    BY <1>11
  <2> QED
    BY <1>12, <1>14, <1>17, <2>1, <2>2
<1> QED
  BY <1>7, <1>10, <1>18 DEF u

(* Same memory, other ranges.                                              *)
LEMMA ReplacedSound ==
    ASSUME NEW p, Sound(p), NEW t \in RangeSeq, InOrder(t), Len(t) = Len(p.ranges)
    PROVE  Sound([p EXCEPT !.ranges = t]) /\ [p EXCEPT !.ranges = t].ranges = t
<1>1. Len(t) <= p.size
  BY SoundFacts
<1>2. Stored(p, t) = [p EXCEPT !.ranges = t]
  BY <1>1 DEF Stored
<1>3. Len(t) <= p.size + 1
  BY <1>1, SoundFacts, SeqFacts
<1> QED
  BY <1>2, <1>3, StoredSound

(* What a shift by delta > 0 removes from the top of the domain.           *)
LEMMA ClearedFacts ==
    ASSUME NEW p, Sound(p), NEW l \in Location, NEW delta \in 1 .. LocationMax + 1
    PROVE  LET c == ShiftClears(p, l, delta)
           IN  /\ Sound(c)
               /\ Covered(c.ranges) =
                     Covered(p.ranges) \ (LocationMax + 1 - delta .. LocationMax)
               /\ \A i \in 1 .. Len(c.ranges) : End(c.ranges[i]) + delta <= LocationMax + 1
<1> DEFINE r == Make(LocationMax + 1 - delta, delta)
           c == ShiftClears(p, l, delta)
           s == c.ranges
<1>1. LocationMax \in Nat /\ delta \in Nat /\ delta > 0
      /\ LocationMax + 1 - delta \in Nat /\ LocationMax + 1 - delta <= LocationMax
  BY RangesAssumption
<1>2. /\ r \in AnyRange /\ r.location = LocationMax + 1 - delta /\ r.length = delta
      /\ End(r) = LocationMax + 1
  <2>1. PICK a \in Nat : a = LocationMax + 1 - delta
    BY <1>1
  <2>2. /\ Make(a, delta) \in AnyRange /\ Make(a, delta).location = a
        /\ Make(a, delta).length = delta /\ End(Make(a, delta)) = a + delta
    BY <1>1, MakeFacts
  <2>3. a + delta = LocationMax + 1
    BY <1>1, <2>1
  <2> QED
    BY <2>1, <2>2, <2>3
<1>3. c = WithoutRange(p, r)
  BY <1>1 DEF ShiftClears
<1> HIDE DEF r
<1>4. Usable(r)
  BY <1>1, <1>2 DEF Usable, IsValid
<1>5. Sound(c) /\ Covered(s) = Covered(p.ranges) \ Abstract!CoveredBy(r)
  BY <1>2, <1>3, WithoutRangeFacts
<1>6. \A x : x \in Abstract!CoveredBy(r) <=> x \in LocationMax + 1 - delta .. LocationMax
  <2>1. \A x : x \in Abstract!CoveredBy(r) <=> x \in Nat /\ Holds(r, x)
    BY <1>2, <1>4, CoveredByFacts
  <2>2. \A x : x \in Nat /\ Holds(r, x) <=> x \in LocationMax + 1 - delta .. LocationMax
    BY <1>1, <1>2 DEF Holds
  <2> QED
    BY <2>1, <2>2
<1>7. Abstract!CoveredBy(r) = LocationMax + 1 - delta .. LocationMax
  BY <1>6
<1> HIDE DEF c
<1>8. ASSUME NEW i \in 1 .. Len(s) PROVE End(s[i]) + delta <= LocationMax + 1
  <2>1. /\ s \in RangeSeq /\ InOrder(s)
    BY <1>5, SoundFacts
  <2>2. /\ s[i].location \in Nat /\ End(s[i]) \in Nat /\ s[i].location < End(s[i])
        /\ End(s[i]) <= LocationMax + 1
    BY <2>1, MemberFacts
  <2>3. PICK e \in Nat : e = End(s[i])
    BY <2>2
  <2>4. e - 1 \in Nat /\ Holds(s[i], e - 1)
    BY <2>2, <2>3 DEF Holds
  <2>5. e - 1 \in Covered(s)
    BY <2>1, <2>4, CoveredFacts
  <2>6. e - 1 \notin LocationMax + 1 - delta .. LocationMax
    BY <1>5, <1>7, <2>5
  <2>7. e <= LocationMax + 1
    BY <2>2, <2>3
  <2>8. e + delta <= LocationMax + 1
    BY <1>1, <2>4, <2>6, <2>7
  <2> QED
    BY <2>3, <2>8
<1> QED
  BY <1>5, <1>7, <1>8 DEF c

ShiftsUp(S, T, delta) ==
    \E cut \in Location :
        T = Abstract!Moved(S \ (LocationMax + 1 - delta .. LocationMax), cut, delta)

(* Where a shift cuts: at the location if a range spans it, else where the *)
(* nearest range begins.                                                   *)
Cut(s, l) ==
    LET near == s[NearestIndex(s, l)]
    IN  IF Holds(near, l) /\ near.location < l THEN l ELSE near.location

LEMMA ShiftedFacts ==
    ASSUME NEW p, Sound(p), NEW l \in Location, NEW delta \in 1 .. LocationMax + 1
    PROVE  /\ Sound(Shifted(p, l, delta))
           /\ \/ Shifted(p, l, delta) = p
              \/ ShiftsUp(Covered(p.ranges), Covered(Shifted(p, l, delta).ranges), delta)
           /\ p.ranges # <<>> /\ ShiftClears(p, l, delta).ranges # <<>> =>
                 Covered(Shifted(p, l, delta).ranges) =
                     Abstract!Moved(Covered(p.ranges) \ (LocationMax + 1 - delta .. LocationMax),
                                    Cut(ShiftClears(p, l, delta).ranges, l), delta)
<1> DEFINE c == ShiftClears(p, l, delta)
           s == c.ranges
           f == NearestIndex(s, l)
           q == Shifted(p, l, delta)
           S == Covered(p.ranges) \ (LocationMax + 1 - delta .. LocationMax)
<1>1. LocationMax \in Nat /\ delta \in Nat /\ delta > 0 /\ ~ (delta < 0) /\ delta # 0
      /\ l \in Nat /\ l <= LocationMax
  BY RangesAssumption DEF Location
<1>2. /\ Sound(c) /\ Covered(s) = S
      /\ \A i \in 1 .. Len(s) : End(s[i]) + delta <= LocationMax + 1
  BY ClearedFacts
<1>3. s \in RangeSeq /\ InOrder(s)
  BY <1>2, SoundFacts
<1>4. q = IF p.ranges = <<>> THEN p
          ELSE IF s = <<>> THEN c
          ELSE IF Holds(s[f], l) /\ s[f].location < l
          THEN WithRange([c EXCEPT !.ranges = Unsplit(s, f, l, delta)],
                         Make((l + delta) % Word, End(s[f]) - l))
          ELSE [c EXCEPT !.ranges = DeltaShifted(s, f, delta)]
  BY <1>1 DEF Shifted, Unsplit
<1>10. Cut(s, l) = IF Holds(s[f], l) /\ s[f].location < l THEN l ELSE s[f].location
  BY DEF Cut
<1> HIDE DEF c, f, q, S
<1>5. CASE p.ranges = <<>>
  BY <1>4, <1>5 DEF q
<1>6. CASE p.ranges # <<>> /\ s = <<>>
  <2>1. q = c /\ Covered(s) = {}
    BY <1>4, <1>6, NoPiece
  <2>2. Abstract!Moved({}, 0, delta) = {}
    BY DEF Abstract!Moved
  <2>3. 0 \in Location
    BY <1>1 DEF Location
  <2>4. Covered(q.ranges) = Abstract!Moved(S, 0, delta)
    BY <1>2, <2>1, <2>2
  <2> QED
    BY <1>2, <1>6, <2>1, <2>3, <2>4 DEF c, q, S, ShiftsUp
<1>7. ASSUME p.ranges # <<>>, s # <<>>
      PROVE  f \in 1 .. Len(s) /\ RoomAbove(s, f, delta) /\ f <= Len(s)
  <2>1. f \in 1 .. Len(s)
    BY <1>1, <1>3, <1>7, NearestInside DEF f
  <2>2. Len(s) \in Nat
    BY <1>3, SeqFacts
  <2>3. f \in 1 .. Len(s) + 1 /\ f <= Len(s)
    BY <2>1, <2>2
  <2> QED
    BY <1>1, <1>2, <1>3, <2>1, <2>3 DEF RoomAbove
<1>8. CASE p.ranges # <<>> /\ s # <<>> /\ Holds(s[f], l) /\ s[f].location < l
  <2> DEFINE u == Unsplit(s, f, l, delta)
             w == [c EXCEPT !.ranges = u]
             r == Make((l + delta) % Word, End(s[f]) - l)
  <2>1. s[f].location < l /\ l < End(s[f])
    BY <1>8 DEF Holds
  <2>2. /\ u \in RangeSeq /\ InOrder(u) /\ Len(u) = Len(s)
        /\ \A x : x \in Abstract!Moved(Covered(s), l, delta) <=>
                        \/ x \in Covered(u)
                        \/ x \in Nat /\ l + delta <= x /\ x < End(s[f]) + delta
    BY <1>1, <1>7, <1>8, <2>1, ShiftsSplit
  <2> HIDE DEF u
  <2>3. Sound(w) /\ w.ranges = u
    BY <1>2, <2>2, ReplacedSound
  <2>4. q = WithRange(w, r)
    BY <1>4, <1>8 DEF u
  <2> HIDE DEF w
  <2>5. End(s[f]) \in Nat /\ End(s[f]) + delta <= LocationMax + 1
    BY <1>2, <1>3, <1>7, <1>8, MemberFacts
  <2>6. PICK e \in Nat : e = End(s[f])
    BY <2>5
  <2>7. /\ l + delta \in Nat /\ e - l \in Nat /\ e - l > 0
        /\ l + delta + (e - l) = e + delta
        /\ l + delta <= LocationMax /\ e + delta <= LocationMax + 1
        /\ l + delta < 2 * (LocationMax + 2) /\ 2 * (LocationMax + 2) \in Nat
    BY <1>1, <2>1, <2>5, <2>6
  <2>8. (l + delta) % Word = l + delta
    <3>1. \A x, y \in Nat : x < y => x % y = x
      OBVIOUS
    <3> QED
      BY <2>7, <3>1 DEF Word
  <2>9. r = Make(l + delta, e - l)
    BY <2>6, <2>8
  <2> HIDE DEF r
  <2>10. /\ r \in AnyRange /\ r.location = l + delta /\ r.length = e - l /\ End(r) = e + delta
    BY <2>7, <2>9, MakeFacts
  <2>11. Usable(r)
    BY <2>7, <2>10 DEF Usable, IsValid
  <2>12. Sound(q) /\ Covered(q.ranges) = Covered(u) \cup Abstract!CoveredBy(r)
    BY <2>3, <2>4, <2>10, WithRangeFacts
  <2>13. \A x : x \in Abstract!CoveredBy(r) <=>
                   x \in Nat /\ l + delta <= x /\ x < End(s[f]) + delta
    <3>1. \A x : x \in Abstract!CoveredBy(r) <=> x \in Nat /\ Holds(r, x)
      BY <2>10, <2>11, CoveredByFacts
    <3> QED
      BY <2>6, <2>10, <3>1 DEF Holds
  <2>14. Covered(q.ranges) = Abstract!Moved(S, l, delta)
    <3>1. \A x : x \in Covered(q.ranges) <=> x \in Abstract!Moved(Covered(s), l, delta)
      BY <2>2, <2>12, <2>13
    <3>2. Covered(q.ranges) = Abstract!Moved(Covered(s), l, delta)
      <4>1. ASSUME NEW A, NEW B, \A x : x \in A <=> x \in B PROVE A = B
        BY <4>1
      <4> QED
        BY <3>1, <4>1
    <3> QED
      BY <1>2, <3>2
  <2>15. Cut(s, l) = l
    BY <1>8, <1>10
  <2>16. Covered(q.ranges) = Abstract!Moved(S, Cut(s, l), delta)
    BY <2>14, <2>15
  <2>17. ShiftsUp(Covered(p.ranges), Covered(q.ranges), delta)
    BY <2>14 DEF S, ShiftsUp
  <2> QED
    BY <2>12, <2>16, <2>17 DEF c, q, S
<1>9. CASE p.ranges # <<>> /\ s # <<>> /\ ~ (Holds(s[f], l) /\ s[f].location < l)
  <2> DEFINE t == DeltaShifted(s, f, delta)
  <2>1. q = [c EXCEPT !.ranges = t]
    BY <1>4, <1>9
  <2>2. t \in RangeSeq /\ Len(t) = Len(s) /\ InOrder(t)
    BY <1>7, <1>9, DeltaShiftedFacts
  <2>3. Covered(t) = Abstract!Moved(Covered(s), s[f].location, delta)
    BY <1>7, <1>9, ShiftsWhole
  <2> HIDE DEF t
  <2>4. Sound(q) /\ q.ranges = t
    BY <1>2, <2>1, <2>2, ReplacedSound
  <2>5. s[f].location \in Location
    <3>1. s[f].location \in Nat /\ s[f].location <= LocationMax
      BY <1>3, <1>7, <1>9, MemberFacts
    <3> QED
      BY <1>1, <3>1 DEF Location
  <2>6. Cut(s, l) = s[f].location
    BY <1>9, <1>10
  <2>7. Covered(q.ranges) = Abstract!Moved(S, Cut(s, l), delta)
    BY <1>2, <2>3, <2>4, <2>6
  <2>8. ShiftsUp(Covered(p.ranges), Covered(q.ranges), delta)
    BY <2>5, <2>6, <2>7 DEF S, ShiftsUp
  <2> QED
    BY <2>4, <2>7, <2>8 DEF c, q, S
<1> QED
  BY <1>5, <1>6, <1>8, <1>9 DEF q, S

-----------------------------------------------------------------------------
(* The specification *)

(* The inductive invariant: there is no set, or it is a sound one.         *)
RangesetInv == set = None \/ Sound(set)

LEMMA CreatedSound ==
    /\ \A capacity \in Capacities : Sound(New(capacity, FALSE))
    /\ Sound(New(StaticSize, TRUE))
    /\ \A n, b : New(n, b).ranges = <<>>
<1>1. ASSUME NEW n \in Nat, NEW b \in BOOLEAN, b => n = StaticSize
      PROVE  Sound(New(n, b))
  <2> DEFINE p == New(n, b)
  <2>1. p \in State /\ p.ranges = <<>> /\ p.size = n /\ p.static = b
    BY NoPiece DEF New, State
  <2> HIDE DEF p
  <2>2. Len(p.ranges) <= p.size
    BY NoPiece, <2>1
  <2> QED
    BY <1>1, <2>1, <2>2, NoPiece DEF Sound, p
<1>2. \A n, b : New(n, b).ranges = <<>>
  BY DEF New
<1> QED
  BY <1>1, <1>2, RangesetAssumption

(* A shift goes up, or does nothing.                                       *)
LEMMA ShiftStep ==
    ASSUME Deltas \subseteq Nat, NEW p, Sound(p), NEW l \in Location, NEW delta \in Deltas
    PROVE  /\ Sound(Shifted(p, l, delta))
           /\ \/ Shifted(p, l, delta) = p
              \/ \E up \in 1 .. LocationMax + 1 :
                    ShiftsUp(Covered(p.ranges), Covered(Shifted(p, l, delta).ranges), up)
<1>1. delta \in Nat /\ delta <= LocationMax + 1 /\ LocationMax \in Nat
  BY RangesetAssumption, RangesAssumption
<1>2. CASE delta = 0
  BY <1>2 DEF Shifted
<1>3. CASE delta # 0
  <2>1. delta \in 1 .. LocationMax + 1
    BY <1>1, <1>3
  <2> QED
    BY <2>1, ShiftedFacts
<1> QED
  BY <1>2, <1>3

LEMMA InvInit == Init => RangesetInv
BY DEF Init, RangesetInv

LEMMA InvNext ==
    ASSUME Deltas \subseteq Nat, RangesetInv, [Next]_set
    PROVE  RangesetInv'
<1> USE DEF RangesetInv
<1>1. ASSUME NEW capacity \in Capacities, Create(capacity) PROVE RangesetInv'
  BY <1>1, CreatedSound DEF Create
<1>2. ASSUME CreateStatic PROVE RangesetInv'
  BY <1>2, CreatedSound DEF CreateStatic
<1>3. ASSUME Done PROVE RangesetInv'
  BY <1>3 DEF Done
<1>4. ASSUME NEW r \in Given, Insert(r) PROVE RangesetInv'
  BY <1>4, RangesetAssumption, WithRangeFacts DEF Insert
<1>5. ASSUME NEW r \in Given, Remove(r) PROVE RangesetInv'
  BY <1>5, RangesetAssumption, WithoutRangeFacts DEF Remove
<1>6. ASSUME NEW batch \in Batches, InsertRanges(batch) PROVE RangesetInv'
  BY <1>6, RangesetAssumption, WithRangesFacts DEF InsertRanges
<1>7. ASSUME NEW batch \in Batches, RemoveRanges(batch) PROVE RangesetInv'
  <2>1. Sound(WithoutRanges(set, batch))
    BY <1>7, RangesetAssumption, WithoutRangesFacts DEF RemoveRanges
  <2> QED
    BY <1>7, <2>1, ShrunkSound DEF RemoveRanges
<1>8. ASSUME Reset PROVE RangesetInv'
  <2>1. Sound([set EXCEPT !.ranges = <<>>])
    <3>1. Sound(set)
      BY <1>8 DEF Reset
    <3>2. Len(<<>>) <= set.size /\ Len(<<>>) <= set.size + 1
      BY <3>1, SoundFacts, NoPiece
    <3>3. Stored(set, <<>>) = [set EXCEPT !.ranges = <<>>]
      BY <3>2 DEF Stored
    <3> QED
      BY <3>1, <3>2, <3>3, NoPiece, StoredSound
  <2> QED
    BY <1>8, <2>1, ShrunkSound DEF Reset
<1>9. ASSUME ShrinkToFit PROVE RangesetInv'
  <2>1. Sound(set)
    BY <1>9 DEF ShrinkToFit
  <2>2. CASE Len(set.ranges) < set.size /\ ~ set.static
    <3> DEFINE n == Len(set.ranges)
               q == [set EXCEPT !.size = n]
    <3>1. /\ set \in State /\ InOrder(set.ranges) /\ n \in Nat /\ set.static \in BOOLEAN
      BY <2>1, SoundFacts DEF Sound
    <3>2. q \in State /\ q.ranges = set.ranges /\ q.size = n /\ q.static = set.static
      BY <3>1 DEF State
    <3>3. set' = q
      BY <1>9, <2>2 DEF ShrinkToFit
    <3> HIDE DEF q
    <3>4. Sound(q)
      BY <2>2, <3>1, <3>2 DEF Sound
    <3> QED
      BY <3>3, <3>4
  <2>3. CASE ~ (Len(set.ranges) < set.size /\ ~ set.static)
    BY <1>9, <2>1, <2>3 DEF ShrinkToFit
  <2> QED
    BY <2>2, <2>3
<1>10. ASSUME NEW l \in Location, NEW delta \in Deltas, Shift(l, delta) PROVE RangesetInv'
  BY <1>10, ShiftStep DEF Shift
<1>11. CASE UNCHANGED set
  BY <1>11
<1> QED
  BY <1>1, <1>2, <1>3, <1>4, <1>5, <1>6, <1>7, <1>8, <1>9, <1>10, <1>11 DEF Next

(* For every domain, every capacity and every sequence of insertions,      *)
(* removals and upward shifts, the array fits its memory and is sorted and *)
(* free of overlaps.                                                       *)
THEOREM RangesetInvariant ==
    ASSUME Deltas \subseteq Nat
    PROVE  Spec => []RangesetInv
<1>1. RangesetInv /\ [Next]_set => RangesetInv'
  BY InvNext
<1> QED
  BY <1>1, InvInit, PTL DEF Spec

LEMMA Retype ==
    ASSUME NEW S, NEW T, NEW s \in Seq(S), \A i \in 1 .. Len(s) : s[i] \in T
    PROVE  s \in Seq(T)
OBVIOUS

LEMMA InvWellFormed == RangesetInv => WellFormed
<1> SUFFICES ASSUME RangesetInv PROVE WellFormed
  OBVIOUS
<1>1. CASE set = None
  BY <1>1, NoPiece DEF WellFormed, Ranges
<1>2. CASE set # None
  <2>1. Sound(set)
    BY <1>2 DEF RangesetInv
  <2>2. /\ set.ranges \in RangeSeq /\ InOrder(set.ranges) /\ set.static \in BOOLEAN
        /\ Len(set.ranges) <= set.size
        /\ set.static => set.size = StaticSize
    BY <2>1, SoundFacts DEF Sound
  <2>3. set.ranges \in Seq([location : 0 .. Word - 1, length : Nat])
    <3>1. ASSUME NEW i \in 1 .. Len(set.ranges)
          PROVE  set.ranges[i] \in [location : 0 .. Word - 1, length : Nat]
      <4>1. Usable(set.ranges[i])
        BY <2>2, MemberFacts
      <4>2. PICK r : r = set.ranges[i]
        OBVIOUS
      <4>3. r \in [location : Nat, length : Nat] /\ r.location <= LocationMax
        BY <4>1, <4>2, UsableNumbers DEF Usable, AnyRange
      <4>4. r.location \in 0 .. Word - 1
        BY <4>3, RangesAssumption DEF Word
      <4> QED
        BY <4>2, <4>3, <4>4
    <3> QED
      BY <2>2, <3>1, Retype DEF RangeSeq
  <2> QED
    BY <1>2, <2>2, <2>3 DEF WellFormed, Ranges
<1> QED
  BY <1>1, <1>2

(* The array never holds more ranges than it has room for, is the caller's *)
(* storage exactly as long as that suffices, and stays sorted and free of  *)
(* overlaps whatever is merged, split, trimmed, punched or moved up.       *)
THEOREM AlwaysWellFormed ==
    ASSUME Deltas \subseteq Nat
    PROVE  Spec => []WellFormed
<1>1. RangesetInv => WellFormed
  BY InvWellFormed
<1> QED
  BY <1>1, RangesetInvariant, PTL

LEMMA InvExact == RangesetInv => InsertAndRemoveExact
<1> SUFFICES ASSUME RangesetInv, NEW r \in ValidRanges
             PROVE  /\ Covered(Inserted(Ranges, r)) = Covered(Ranges) \cup Abstract!CoveredBy(r)
                    /\ Covered(Removed(Ranges, r)) = Covered(Ranges) \ Abstract!CoveredBy(r)
  BY DEF InsertAndRemoveExact
<1>1. Ranges \in RangeSeq /\ InOrder(Ranges)
  BY NoPiece, SoundFacts DEF Ranges, RangesetInv
<1>2. r \in AnyRange /\ Usable(r)
  BY RangesAssumption DEF ValidRanges, Location, AnyRange, Usable
<1>3. Gains(Ranges, Inserted(Ranges, r), r) /\ Loses(Ranges, Removed(Ranges, r), r)
  BY <1>1, <1>2, InsertedGains, RemovedLoses
<1>4. \A x : x \in Abstract!CoveredBy(r) <=> x \in Nat /\ Holds(r, x)
  BY <1>2, CoveredByFacts
<1>5. \A x \in Covered(Ranges) : x \in Nat
  BY <1>1, CoveredFacts
<1>6. /\ \A x : x \in Covered(Inserted(Ranges, r)) <=>
                   x \in Covered(Ranges) \/ (x \in Nat /\ Holds(r, x))
      /\ \A x : x \in Covered(Removed(Ranges, r)) <=> x \in Covered(Ranges) /\ ~ Holds(r, x)
  BY <1>3 DEF Gains, Loses
<1> QED
  BY <1>4, <1>5, <1>6

(* Whatever set has come about, inserting a range adds its locations and   *)
(* no other, and removing it takes its locations and no other.             *)
THEOREM AlwaysExact ==
    ASSUME Deltas \subseteq Nat
    PROVE  Spec => []InsertAndRemoveExact
<1>1. RangesetInv => InsertAndRemoveExact
  BY InvExact
<1> QED
  BY <1>1, RangesetInvariant, PTL

-----------------------------------------------------------------------------
(* The refinement *)

Locations(p) == IF p = None THEN None ELSE Covered(p.ranges)

LEMMA HeldFacts ==
    ASSUME NEW p, Sound(p)
    PROVE  Covered(p.ranges) # None /\ Covered(p.ranges) \subseteq Location
<1>1. p.ranges \in RangeSeq /\ InOrder(p.ranges)
  BY SoundFacts
<1>2. ASSUME NEW x \in Covered(p.ranges) PROVE x \in Location
  <2>1. x \in Nat /\ \E i \in 1 .. Len(p.ranges) : Holds(p.ranges[i], x)
    BY <1>1, CoveredFacts
  <2>2. PICK i \in 1 .. Len(p.ranges) : Holds(p.ranges[i], x)
    BY <2>1
  <2>3. /\ End(p.ranges[i]) \in Nat /\ End(p.ranges[i]) <= LocationMax + 1
        /\ LocationMax \in Nat
    BY <1>1, MemberFacts
  <2> QED
    BY <2>1, <2>2, <2>3 DEF Holds, Location
<1>3. Covered(p.ranges) \in SUBSET Location
  BY <1>2
<1> QED
  BY <1>3, RangesetAssumption

(* A step of the program is a step of the set of locations, or keeps it.   *)
LEMMA AbstractStep ==
    ASSUME Deltas \subseteq Nat, RangesetInv, RangesetInv', [Next]_set
    PROVE  Abstract!Next \/ Locations(set)' = Locations(set)
<1> DEFINE L == Locations(set)
<1>1. set # None => Sound(set) /\ L = Covered(set.ranges) /\ L # None /\ L \subseteq Location
  BY HeldFacts DEF RangesetInv, Locations
<1>2. set' # None => Sound(set') /\ L' = Covered(set'.ranges)
  BY DEF RangesetInv, Locations
<1>3. set' = None => L' = None
  BY DEF Locations
(* a set that is there either remains, or is discarded                     *)
<1>4. ASSUME NEW S, set # None, set' # None => Covered(set'.ranges) = S
      PROVE  L' = S \/ Abstract!Discard
  BY <1>1, <1>2, <1>3, <1>4 DEF Abstract!Discard, Locations
<1>5. Abstract!Discard => Abstract!Next
  BY DEF Abstract!Next
<1>6. ASSUME NEW S, set # None, L' = S PROVE Abstract!Change(S) /\ Abstract!Held = L
  BY <1>1, <1>6 DEF Abstract!Change, Abstract!Held, Locations
<1>7. ASSUME NEW capacity \in Capacities, Create(capacity) PROVE Abstract!Next \/ L' = L
  <2>1. set = None /\ set'.ranges = <<>>
    BY <1>7, CreatedSound DEF Create
  <2>2. set' # None => L' = {}
    BY <1>2, <2>1, NoPiece
  <2> QED
    BY <1>3, <2>1, <2>2 DEF Abstract!Next, Abstract!Create, Locations
<1>8. ASSUME CreateStatic PROVE Abstract!Next \/ L' = L
  <2>1. set = None /\ set'.ranges = <<>>
    BY <1>8, CreatedSound DEF CreateStatic
  <2>2. set' # None => L' = {}
    BY <1>2, <2>1, NoPiece
  <2> QED
    BY <1>3, <2>1, <2>2 DEF Abstract!Next, Abstract!Create, Locations
<1>9. ASSUME Done PROVE Abstract!Next \/ L' = L
  BY <1>1, <1>3, <1>9 DEF Done, Abstract!Next, Abstract!Discard, Locations
(* the locations of a range that is not rejected                           *)
<1>10. ASSUME NEW r \in AnyRange
       PROVE  \/ Abstract!CoveredBy(r) = {}
              \/ \E a, b \in Location : Abstract!CoveredBy(r) = a .. b
  <2>1. CASE ~ Usable(r)
    BY <2>1, CoveredByFacts
  <2>2. CASE Usable(r)
    <3>1. /\ r.location \in Nat /\ End(r) \in Nat /\ r.location < End(r)
          /\ LocationMax \in Nat /\ r.location <= LocationMax /\ End(r) <= LocationMax + 1
      BY <2>2, UsableNumbers
    <3>2. \A x : x \in Abstract!CoveredBy(r) <=> x \in Nat /\ Holds(r, x)
      BY <2>2, CoveredByFacts
    <3>3. PICK a \in Nat : a = r.location
      BY <3>1
    <3>4. PICK e \in Nat : e = End(r)
      BY <3>1
    <3>5. a \in Location /\ e - 1 \in Location
      BY <3>1, <3>3, <3>4 DEF Location
    <3>6. \A x : x \in Nat /\ Holds(r, x) <=> x \in a .. e - 1
      BY <3>3, <3>4 DEF Holds
    <3>7. Abstract!CoveredBy(r) = a .. e - 1
      BY <3>2, <3>6
    <3> QED
      BY <3>5, <3>7
  <2> QED
    BY <2>1, <2>2
<1>11. ASSUME NEW r \in Given, Insert(r) PROVE Abstract!Next \/ L' = L
  <2>1. set # None /\ set' = WithRange(set, r) /\ r \in AnyRange
    BY <1>11, RangesetAssumption DEF Insert
  <2>2. Covered(set'.ranges) = Covered(set.ranges) \cup Abstract!CoveredBy(r)
    BY <1>1, <2>1, WithRangeFacts
  <2>3. L' = L \cup Abstract!CoveredBy(r) \/ Abstract!Discard
    BY <1>1, <1>4, <2>1, <2>2
  <2>4. ASSUME L' = L \cup Abstract!CoveredBy(r) PROVE Abstract!Next \/ L' = L
    <3>1. CASE Abstract!CoveredBy(r) = {}
      BY <2>4, <3>1
    <3>2. ASSUME NEW a \in Location, NEW b \in Location, Abstract!CoveredBy(r) = a .. b
          PROVE  Abstract!Next
      <4>1. Abstract!Change(Abstract!Held \cup (a .. b))
        BY <1>6, <2>1, <2>4, <3>2
      <4> QED
        BY <4>1 DEF Abstract!Next, Abstract!Add, Abstract!Location, Location
    <3> QED
      BY <1>10, <2>1, <3>1, <3>2
  <2> QED
    BY <1>5, <2>3, <2>4
<1>12. ASSUME NEW r \in Given, Remove(r) PROVE Abstract!Next \/ L' = L
  <2>1. set # None /\ set' = WithoutRange(set, r) /\ r \in AnyRange
    BY <1>12, RangesetAssumption DEF Remove
  <2>2. Covered(set'.ranges) = Covered(set.ranges) \ Abstract!CoveredBy(r)
    BY <1>1, <2>1, WithoutRangeFacts
  <2>3. L' = L \ Abstract!CoveredBy(r) \/ Abstract!Discard
    BY <1>1, <1>4, <2>1, <2>2
  <2>4. ASSUME L' = L \ Abstract!CoveredBy(r) PROVE Abstract!Next \/ L' = L
    <3>1. CASE Abstract!CoveredBy(r) = {}
      BY <2>4, <3>1
    <3>2. ASSUME NEW a \in Location, NEW b \in Location, Abstract!CoveredBy(r) = a .. b
          PROVE  Abstract!Next
      <4>1. Abstract!Change(Abstract!Held \ (a .. b))
        BY <1>6, <2>1, <2>4, <3>2
      <4> QED
        BY <4>1 DEF Abstract!Next, Abstract!Remove, Abstract!Location, Location
    <3> QED
      BY <1>10, <2>1, <3>1, <3>2
  <2> QED
    BY <1>5, <2>3, <2>4
<1>13. ASSUME NEW batch \in Batches, InsertRanges(batch) PROVE Abstract!Next \/ L' = L
  <2>1. set # None /\ set' = WithRanges(set, batch) /\ batch \in Seq(AnyRange)
    BY <1>13, RangesetAssumption DEF InsertRanges
  <2>2. Covered(set'.ranges) = Covered(set.ranges) \cup Abstract!CoveredByAll(batch)
    BY <1>1, <2>1, WithRangesFacts
  <2>3. L' = L \cup Abstract!CoveredByAll(batch) \/ Abstract!Discard
    BY <1>1, <1>4, <2>1, <2>2
  <2>4. ASSUME L' = L \cup Abstract!CoveredByAll(batch) PROVE Abstract!Next
    <3>1. Abstract!Change(Abstract!Held \cup Abstract!CoveredByAll(batch))
      BY <1>6, <2>1, <2>4
    <3> QED
      BY <3>1 DEF Abstract!Next, Abstract!AddAll
  <2> QED
    BY <1>5, <2>3, <2>4
<1>14. ASSUME NEW batch \in Batches, RemoveRanges(batch) PROVE Abstract!Next \/ L' = L
  <2>1. set # None /\ set' = Shrunk(WithoutRanges(set, batch)) /\ batch \in Seq(AnyRange)
    BY <1>14, RangesetAssumption DEF RemoveRanges
  <2>2. Covered(set'.ranges) = Covered(set.ranges) \ Abstract!CoveredByAll(batch)
    BY <1>1, <2>1, WithoutRangesFacts, ShrunkSound
  <2>3. L' = L \ Abstract!CoveredByAll(batch) \/ Abstract!Discard
    BY <1>1, <1>4, <2>1, <2>2
  <2>4. ASSUME L' = L \ Abstract!CoveredByAll(batch) PROVE Abstract!Next
    <3>1. Abstract!Change(Abstract!Held \ Abstract!CoveredByAll(batch))
      BY <1>6, <2>1, <2>4
    <3> QED
      BY <3>1 DEF Abstract!Next, Abstract!RemoveAll
  <2> QED
    BY <1>5, <2>3, <2>4
<1>15. ASSUME Reset PROVE Abstract!Next \/ L' = L
  <2>1. set # None /\ set' = Shrunk([set EXCEPT !.ranges = <<>>])
    BY <1>15 DEF Reset
  <2>2. Sound(set)
    BY <1>1, <2>1
  <2>3. Covered(set'.ranges) = {}
    <3>1. set \in State
      BY <2>2 DEF Sound
    <3>2. [set EXCEPT !.ranges = <<>>].ranges = <<>>
      BY <3>1 DEF State
    <3>3. \A p : Shrunk(p) = p \/ \E n : Shrunk(p) = [p EXCEPT !.size = n]
      BY DEF Shrunk
    <3>4. \A n : [[set EXCEPT !.ranges = <<>>] EXCEPT !.size = n].ranges = <<>>
      BY <3>1 DEF State
    <3>5. set'.ranges = <<>>
      BY <2>1, <3>2, <3>3, <3>4
    <3> QED
      BY <3>5, NoPiece
  <2>4. L' = {} \/ Abstract!Discard
    BY <1>4, <2>1, <2>3
  <2>5. ASSUME L' = {} PROVE Abstract!Next
    BY <1>6, <2>1, <2>5 DEF Abstract!Next, Abstract!Clear
  <2> QED
    BY <1>5, <2>4, <2>5
<1>16. ASSUME ShrinkToFit PROVE Abstract!Next \/ L' = L
  <2>1. set # None /\ set'.ranges = set.ranges
    <3>1. set # None /\ Sound(set)
      BY <1>1, <1>16 DEF ShrinkToFit
    <3>2. set \in State
      BY <3>1 DEF Sound
    <3>3. \A n : [set EXCEPT !.size = n].ranges = set.ranges
      BY <3>2 DEF State
    <3> QED
      BY <1>16, <3>1, <3>3 DEF ShrinkToFit
  <2>2. L' = L \/ Abstract!Discard
    BY <1>1, <1>4, <2>1
  <2> QED
    BY <1>5, <2>2
<1>17. ASSUME NEW l \in Location, NEW delta \in Deltas, Shift(l, delta)
       PROVE  Abstract!Next \/ L' = L
  <2>1. set # None /\ set' = Shifted(set, l, delta)
    BY <1>17 DEF Shift
  <2>2. \/ set' = set
        \/ \E up \in 1 .. LocationMax + 1 :
              ShiftsUp(Covered(set.ranges), Covered(set'.ranges), up)
    BY <1>1, <2>1, ShiftStep
  <2>3. CASE set' = set
    BY <2>3
  <2>4. ASSUME NEW up \in 1 .. LocationMax + 1,
               ShiftsUp(Covered(set.ranges), Covered(set'.ranges), up)
        PROVE  Abstract!Next
    <3>1. PICK cut \in Location :
              Covered(set'.ranges) =
                  Abstract!Moved(L \ (LocationMax + 1 - up .. LocationMax), cut, up)
      BY <1>1, <2>1, <2>4 DEF ShiftsUp
    <3> DEFINE S == Abstract!Moved(L \ (LocationMax + 1 - up .. LocationMax), cut, up)
    <3>2. L' = S \/ Abstract!Discard
      BY <1>4, <2>1, <3>1
    <3>3. ASSUME L' = S PROVE Abstract!Next
      <4>1. Abstract!Change(
               Abstract!Moved(Abstract!Held \ (LocationMax + 1 - up .. LocationMax), cut, up))
        BY <1>6, <2>1, <3>3
      <4> QED
        BY <4>1 DEF Abstract!Next, Abstract!ShiftUp, Abstract!Location, Location
    <3> QED
      BY <1>5, <3>2, <3>3
  <2> QED
    BY <2>2, <2>3, <2>4
<1>18. CASE UNCHANGED set
  BY <1>18 DEF Locations
<1> QED
  BY <1>7, <1>8, <1>9, <1>11, <1>12, <1>13, <1>14, <1>15, <1>16, <1>17, <1>18 DEF Next

(* A range set is a set of locations: whatever ranges are merged, split,   *)
(* trimmed or moved, and whatever memory they occupy, every step of the    *)
(* program is a step of LocationSet on the locations it holds.             *)
THEOREM ImplementsLocationSet ==
    ASSUME Deltas \subseteq Nat
    PROVE  Spec => RefinesLocationSet
<1>1. Init => Abstract!Init
  BY DEF Init, Abstract!Init
<1>2. RangesetInv /\ RangesetInv' /\ [Next]_set
         => [Abstract!Next]_(IF set = None THEN None ELSE Covered(set.ranges))
  BY AbstractStep DEF Locations
<1> QED
  BY <1>1, <1>2, RangesetInvariant, PTL DEF Spec, RefinesLocationSet, Abstract!Spec

-----------------------------------------------------------------------------
(* Searches *)

LEMMA ExtremeFacts ==
    ASSUME NEW S, S \subseteq Nat, NEW m \in S
    PROVE  /\ (\A x \in S : x <= m) => Max(S) = m
           /\ (\A x \in S : m <= x) => Min(S) = m
<1>1. ASSUME \A x \in S : x <= m PROVE Max(S) = m
  <2>1. \A x \in S : (\A y \in S : x >= y) => x = m
    BY <1>1
  <2>2. \A y \in S : m >= y
    BY <1>1
  <2> QED
    BY <2>1, <2>2 DEF Max
<1>2. ASSUME \A x \in S : m <= x PROVE Min(S) = m
  <2>1. \A x \in S : (\A y \in S : x <= y) => x = m
    BY <1>2
  <2> QED
    BY <1>2, <2>1 DEF Min
<1> QED
  BY <1>1, <1>2

LEMMA DistanceFacts ==
    ASSUME NEW r, Usable(r), NEW l \in Nat
    PROVE  /\ Distance(r, l) \in Nat
           /\ Holds(r, l) => Distance(r, l) = 0
           /\ End(r) <= l => Distance(r, l) = l - End(r) + 1
           /\ l < r.location => Distance(r, l) = r.location - l
<1>1. PICK a, e : a = r.location /\ e = End(r)
  OBVIOUS
<1>2. a \in Nat /\ e \in Nat /\ a < e
  BY <1>1, UsableNumbers
<1>3. Distance(r, l) = IF a <= l /\ l < e THEN 0
                       ELSE IF l < a THEN a - l ELSE l - e + 1
  BY <1>1 DEF Distance, Holds
<1> HIDE DEF Distance
<1> QED
  BY <1>1, <1>2, <1>3 DEF Holds

(* Where the search for the nearest range ends: in the range that holds    *)
(* the location, or on one side of the hole it is in.                      *)
LEMMA NearestFacts ==
    ASSUME NEW s \in RangeSeq, InOrder(s), s # <<>>, NEW l \in Nat,
           NEW f, f = NearestIndex(s, l), NEW h, h = HoleIndex(s, l)
    PROVE  /\ f \in 1 .. Len(s)
           /\ \/ Holds(s[f], l)
              \/ /\ \A i \in 1 .. Len(s) : ~ Holds(s[i], l)
                 /\ f = h \/ f = h + 1
           /\ \A i \in 1 .. Len(s) : Distance(s[f], l) <= Distance(s[i], l)
<1>1. PICK n : n = Len(s)
  OBVIOUS
<1>2. /\ n \in Nat /\ n # 0 /\ DOMAIN s = 1 .. n
      /\ \A i \in 1 .. n : /\ Usable(s[i]) /\ s[i].location \in Nat /\ End(s[i]) \in Nat
                           /\ s[i].location < End(s[i])
      /\ \A i, j \in 1 .. n : i < j => End(s[i]) <= s[j].location
  <2>1. Len(s) \in Nat /\ DOMAIN s = 1 .. Len(s) /\ Len(s) # 0
    BY SeqFacts DEF RangeSeq
  <2>2. /\ \A i \in 1 .. Len(s) : /\ Usable(s[i]) /\ s[i].location \in Nat
                                  /\ End(s[i]) \in Nat /\ s[i].location < End(s[i])
        /\ \A i, j \in 1 .. Len(s) : i < j => End(s[i]) <= s[j].location
    BY MemberFacts
  <2> QED
    BY <1>1, <2>1, <2>2
<1>3. /\ h \in 0 .. n
      /\ \A i \in 1 .. n : i <= h <=> s[i].location < l
  BY <1>1, HoleFacts DEF RangeSeq
<1>4. f \in 1 .. n
  BY <1>1, NearestInside
<1>5. \A i \in 1 .. n : Distance(s[i], l) \in Nat /\ (Holds(s[i], l) => Distance(s[i], l) = 0)
  BY <1>2, DistanceFacts
<1>6. CASE \E i \in DOMAIN s : Holds(s[i], l)
  <2>1. f = CHOOSE i \in DOMAIN s : Holds(s[i], l)
    BY <1>6 DEF NearestIndex
  <2>2. Holds(s[f], l)
    BY <1>6, <2>1
  <2> QED
    BY <1>1, <1>4, <1>5, <2>2
<1>7. CASE ~ \E i \in DOMAIN s : Holds(s[i], l)
  <2>1. \A i \in 1 .. n : ~ Holds(s[i], l)
    BY <1>2, <1>7
  <2>2. PICK u : u = Min({h + 1, n})
    OBVIOUS
  <2>3. f = IF u > 1 /\ Distance(s[u], l) > Distance(s[u - 1], l) THEN u - 1 ELSE u
    BY <1>1, <1>7, <2>2 DEF NearestIndex
  <2>4. u = IF h < n THEN h + 1 ELSE n
    <3>1. h + 1 \in Nat
      BY <1>3
    <3>2. u \in {h + 1, n} /\ u <= h + 1 /\ u <= n
      BY <1>2, <2>2, <3>1, PairMin
    <3> QED
      BY <1>2, <1>3, <3>2
  (* the distances of what is below and of what is above *)
  <2>5. \A i \in 1 .. n : /\ i <= h => /\ End(s[i]) <= l
                                       /\ Distance(s[i], l) = l - End(s[i]) + 1
                          /\ i > h => Distance(s[i], l) = s[i].location - l
    <3> SUFFICES ASSUME NEW i \in 1 .. n
                 PROVE  /\ i <= h => /\ End(s[i]) <= l
                                     /\ Distance(s[i], l) = l - End(s[i]) + 1
                        /\ i > h => Distance(s[i], l) = s[i].location - l
      OBVIOUS
    <3>1. Usable(s[i]) /\ s[i].location \in Nat /\ End(s[i]) \in Nat
      BY <1>2
    <3>2. End(s[i]) <= l \/ l < s[i].location
      BY <2>1, <3>1 DEF Holds
    <3>3. s[i].location < End(s[i])
      BY <1>2
    <3>4. i \in Nat /\ h \in Nat
      BY <1>2, <1>3
    <3>5. CASE i <= h
      <4>1. s[i].location < l
        BY <1>3, <3>5
      <4>2. End(s[i]) <= l
        BY <3>1, <3>2, <4>1
      <4> QED
        BY <3>1, <3>4, <3>5, <4>2, DistanceFacts
    <3>6. CASE i > h
      <4>1. ~ (s[i].location < l)
        BY <1>3, <3>4, <3>6
      <4>2. l < s[i].location
        BY <3>1, <3>2, <3>3, <4>1
      <4>3. Distance(s[i], l) = s[i].location - l
        BY <3>1, <4>2, DistanceFacts
      <4>4. ~ (i <= h)
        BY <3>4, <3>6
      <4> QED
        BY <4>3, <4>4
    <3> QED
      BY <3>4, <3>5, <3>6
  <2>6. \A i, j \in 1 .. n : /\ i <= j /\ j <= h => Distance(s[j], l) <= Distance(s[i], l)
                             /\ h < i /\ i <= j => Distance(s[i], l) <= Distance(s[j], l)
    <3> SUFFICES ASSUME NEW i \in 1 .. n, NEW j \in 1 .. n, i <= j
                 PROVE  /\ j <= h => Distance(s[j], l) <= Distance(s[i], l)
                        /\ h < i => Distance(s[i], l) <= Distance(s[j], l)
      OBVIOUS
    <3>1. s[i].location <= s[j].location /\ End(s[i]) <= End(s[j])
      BY <1>1, Monotone
    <3>2. /\ s[i].location \in Nat /\ End(s[i]) \in Nat
          /\ s[j].location \in Nat /\ End(s[j]) \in Nat
          /\ i \in Nat /\ j \in Nat /\ h \in Nat
      BY <1>2, <1>3
    <3>3. ASSUME j <= h PROVE Distance(s[j], l) <= Distance(s[i], l)
      <4>1. /\ Distance(s[j], l) = l - End(s[j]) + 1
            /\ Distance(s[i], l) = l - End(s[i]) + 1
        BY <2>5, <3>2, <3>3
      <4> QED
        BY <3>1, <3>2, <4>1
    <3>4. ASSUME h < i PROVE Distance(s[i], l) <= Distance(s[j], l)
      <4>1. /\ Distance(s[j], l) = s[j].location - l
            /\ Distance(s[i], l) = s[i].location - l
        BY <2>5, <3>2, <3>4
      <4> QED
        BY <3>1, <3>2, <4>1
    <3> QED
      BY <3>3, <3>4
  <2>7. CASE h = n
    <3>1. u = n /\ (u > 1 => u - 1 \in 1 .. n /\ u - 1 <= u /\ u <= h)
      BY <1>2, <2>4, <2>7
    <3>2. n \in 1 .. n
      BY <1>2
    <3>3. u > 1 => Distance(s[u], l) <= Distance(s[u - 1], l)
      BY <2>6, <3>1, <3>2
    <3>4. u > 1 => Distance(s[u], l) \in Nat /\ Distance(s[u - 1], l) \in Nat
      BY <1>5, <3>1, <3>2
    <3>5. f = n
      BY <2>3, <3>1, <3>3, <3>4
    <3>6. \A i \in 1 .. n : Distance(s[f], l) <= Distance(s[i], l)
      BY <2>6, <2>7, <3>2, <3>5
    <3> QED
      BY <1>1, <1>4, <2>1, <2>7, <3>5, <3>6
  <2>8. CASE h = 0
    <3>1. u = 1 /\ 1 \in 1 .. n
      BY <1>2, <2>4, <2>8
    <3>2. f = 1
      BY <2>3, <3>1
    <3>3. \A i \in 1 .. n : Distance(s[f], l) <= Distance(s[i], l)
      BY <2>6, <2>8, <3>1, <3>2
    <3> QED
      BY <1>1, <1>4, <2>1, <2>8, <3>2, <3>3
  <2>9. CASE h # 0 /\ h # n
    <3>1. /\ u = h + 1 /\ u > 1 /\ u - 1 = h /\ h \in 1 .. n /\ h + 1 \in 1 .. n /\ h \in Nat
      BY <1>2, <1>3, <2>4, <2>9
    <3>2. /\ f = IF Distance(s[h + 1], l) > Distance(s[h], l) THEN h ELSE h + 1
      BY <2>3, <3>1
    <3>3. PICK d, g : d = Distance(s[h], l) /\ g = Distance(s[h + 1], l)
      OBVIOUS
    <3>4. d \in Nat /\ g \in Nat
      BY <1>5, <3>1, <3>3
    <3>5. Distance(s[f], l) <= d /\ Distance(s[f], l) <= g
      BY <3>2, <3>3, <3>4
    <3>6. ASSUME NEW i \in 1 .. n PROVE Distance(s[f], l) <= Distance(s[i], l)
      <4>1. d <= Distance(s[i], l) \/ g <= Distance(s[i], l)
        <5>1. i <= h \/ h + 1 <= i
          BY <3>1
        <5>2. i <= h => d <= Distance(s[i], l)
          BY <2>6, <3>1, <3>3
        <5>3. h + 1 <= i => g <= Distance(s[i], l)
          <6>1. h < h + 1
            BY <3>1
          <6> QED
            BY <2>6, <3>1, <3>3, <6>1
        <5> QED
          BY <5>1, <5>2, <5>3
      <4>2. Distance(s[i], l) \in Nat /\ Distance(s[f], l) \in Nat
        BY <1>4, <1>5
      <4> QED
        BY <3>4, <3>5, <4>1, <4>2
    <3>7. f = h \/ f = h + 1
      BY <3>2
    <3> QED
      BY <1>1, <1>4, <2>1, <3>6, <3>7
  <2> QED
    BY <2>7, <2>8, <2>9
<1> QED
  BY <1>6, <1>7

(* The range below a location is the last that begins below it.            *)
LEMMA RangeBelow ==
    ASSUME NEW s \in RangeSeq, InOrder(s), s # <<>>, NEW l \in Nat
    PROVE  (IF s[NearestIndex(s, l)].location >= l
            THEN NearestIndex(s, l) - 1 ELSE NearestIndex(s, l)) = HoleIndex(s, l)
<1>1. PICK f, h, n : f = NearestIndex(s, l) /\ h = HoleIndex(s, l) /\ n = Len(s)
  OBVIOUS
<1>2. /\ n \in Nat
      /\ \A i \in 1 .. n : /\ s[i].location \in Nat /\ End(s[i]) \in Nat
                           /\ s[i].location < End(s[i])
      /\ \A i, j \in 1 .. n : i < j => End(s[i]) <= s[j].location
  BY <1>1, MemberFacts
<1>3. /\ h \in 0 .. n
      /\ \A i \in 1 .. n : i <= h <=> s[i].location < l
  BY <1>1, HoleFacts DEF RangeSeq
<1>4. f \in 1 .. n /\ (Holds(s[f], l) \/ f = h \/ f = h + 1)
  BY <1>1, NearestFacts
<1>5. f \in Nat /\ h \in Nat /\ s[f].location \in Nat /\ End(s[f]) \in Nat
  BY <1>2, <1>3, <1>4
<1>6. CASE s[f].location >= l
  <2>1. h < f
    BY <1>3, <1>4, <1>5, <1>6
  <2>2. f = h + 1
    <3> SUFFICES ASSUME h + 1 < f PROVE FALSE
      BY <1>5, <2>1
    <3>1. h + 1 \in 1 .. n /\ ~ (h + 1 <= h)
      <4>1. f <= n
        BY <1>4
      <4> QED
        BY <1>2, <1>5, <4>1
    <3>2. PICK a, e, b : a = s[h + 1].location /\ e = End(s[h + 1]) /\ b = s[f].location
      OBVIOUS
    <3>3. a \in Nat /\ e \in Nat /\ a < e /\ e <= b /\ ~ (a < l)
      BY <1>2, <1>3, <1>4, <3>1, <3>2
    <3>4. b <= l
      BY <1>1, <1>4, <1>5, <3>1, <3>2 DEF Holds
    <3> QED
      BY <1>5, <3>2, <3>3, <3>4
  <2> QED
    BY <1>1, <1>5, <1>6, <2>2
<1>7. CASE ~ (s[f].location >= l)
  <2>1. f <= h
    BY <1>3, <1>4, <1>5, <1>7
  <2>2. f = h
    <3> SUFFICES ASSUME f < h PROVE FALSE
      BY <1>5, <2>1
    <3>1. h \in 1 .. n /\ h <= h
      BY <1>3, <1>4, <1>5
    <3>2. s[h].location < l /\ End(s[f]) <= s[h].location /\ s[h].location \in Nat
      BY <1>2, <1>3, <1>4, <3>1
    <3>3. Holds(s[f], l)
      BY <1>4, <1>5
    <3>4. l < End(s[f])
      BY <3>3 DEF Holds
    <3> QED
      BY <1>5, <3>2, <3>4
  <2> QED
    BY <1>1, <1>7, <2>2
<1> QED
  BY <1>6, <1>7

(* The range above a location is the first that reaches beyond it.         *)
LEMMA RangeAbove ==
    ASSUME NEW s \in RangeSeq, InOrder(s), s # <<>>, NEW l \in Nat,
           NEW k, k = IF End(s[NearestIndex(s, l)]) - 1 <= l
                      THEN NearestIndex(s, l) + 1 ELSE NearestIndex(s, l)
    PROVE  /\ k \in 1 .. Len(s) + 1
           /\ \A i \in 1 .. Len(s) : k <= i <=> l + 1 < End(s[i])
<1>1. PICK f, h, n : f = NearestIndex(s, l) /\ h = HoleIndex(s, l) /\ n = Len(s)
  OBVIOUS
<1>2. /\ n \in Nat
      /\ \A i \in 1 .. n : /\ s[i].location \in Nat /\ End(s[i]) \in Nat
                           /\ s[i].location < End(s[i])
      /\ \A i, j \in 1 .. n : i < j => End(s[i]) <= s[j].location
  BY <1>1, MemberFacts
<1>3. /\ h \in 0 .. n
      /\ \A i \in 1 .. n : i <= h <=> s[i].location < l
  BY <1>1, HoleFacts DEF RangeSeq
<1>4. /\ f \in 1 .. n
      /\ \/ Holds(s[f], l)
         \/ (\A i \in 1 .. n : ~ Holds(s[i], l)) /\ (f = h \/ f = h + 1)
  BY <1>1, NearestFacts
<1>5. f \in Nat /\ h \in Nat /\ s[f].location \in Nat /\ End(s[f]) \in Nat
      /\ s[f].location < End(s[f])
  BY <1>2, <1>3, <1>4
<1>6. k = IF End(s[f]) - 1 <= l THEN f + 1 ELSE f
  BY <1>1
<1>7. k \in 1 .. n + 1 /\ k \in Nat
  BY <1>2, <1>4, <1>5, <1>6
<1>8. ASSUME NEW i \in 1 .. n
      PROVE  k <= i <=> l + 1 < End(s[i])
  <2>1. PICK a, e, b, g : a = s[i].location /\ e = End(s[i]) /\ b = s[f].location /\ g = End(s[f])
    OBVIOUS
  <2>2. a \in Nat /\ e \in Nat /\ a < e /\ b \in Nat /\ g \in Nat /\ b < g /\ i \in Nat
    BY <1>2, <1>5, <2>1
  <2>3. /\ i < f => e <= b
        /\ f < i => g <= a
        /\ i = f => a = b /\ e = g
    BY <1>2, <1>4, <2>1
  <2>4. k = IF g - 1 <= l THEN f + 1 ELSE f
    BY <1>6, <2>1
  <2>5. CASE Holds(s[f], l)
    <3>1. b <= l /\ l < g
      BY <2>1, <2>5 DEF Holds
    <3>2. k <= i <=> l + 1 < e
      BY <1>5, <2>2, <2>3, <2>4, <3>1
    <3> QED
      BY <2>1, <3>2
  <2>6. CASE (\A j \in 1 .. n : ~ Holds(s[j], l)) /\ (f = h \/ f = h + 1)
    <3>1. /\ ~ (a <= l /\ l < e)
          /\ ~ (b <= l /\ l < g)
      BY <1>4, <2>1, <2>6 DEF Holds
    <3>2. (i <= h <=> a < l) /\ (f <= h <=> b < l)
      BY <1>3, <1>4, <2>1
    <3>3. (i <= h => e <= l) /\ (~ (i <= h) => l < a)
      BY <2>2, <3>1, <3>2
    <3>4. k = h + 1
      <4>1. CASE f = h
        <5>1. f <= h
          BY <1>5, <4>1
        <5>2. g <= l
          BY <2>2, <3>1, <3>2, <5>1
        <5> QED
          BY <2>2, <2>4, <4>1, <5>2
      <4>2. CASE f = h + 1
        <5>1. ~ (f <= h)
          BY <1>5, <4>2
        <5>2. l < b
          BY <2>2, <3>1, <3>2, <5>1
        <5> QED
          BY <2>2, <2>4, <4>2, <5>2
      <4> QED
        BY <2>6, <4>1, <4>2
    <3>5. k <= i <=> ~ (i <= h)
      BY <1>5, <2>2, <3>4
    <3>6. ~ (i <= h) <=> l + 1 < e
      BY <2>2, <3>3
    <3> QED
      BY <2>1, <3>5, <3>6
  <2> QED
    BY <1>4, <2>5, <2>6
<1> QED
  BY <1>1, <1>7, <1>8

(* Whichever range the search settles on, the location it makes of it is   *)
(* the closest on its side.                                                *)
LEMMA ClosestBelow ==
    ASSUME NEW s \in RangeSeq, InOrder(s), NEW l \in Nat, l > 0,
           NEW h, h = HoleIndex(s, l)
    PROVE  /\ h = 0 => \A x \in Covered(s) : ~ (x < l)
           /\ h # 0 =>
                 /\ h \in 1 .. Len(s)
                 /\ \A m : m = (IF Holds(s[h], l - 1) THEN l - 1 ELSE End(s[h]) - 1)
                       => /\ m \in Covered(s) /\ m < l
                          /\ \A x \in Covered(s) : x < l => x <= m
<1>1. PICK n : n = Len(s)
  OBVIOUS
<1>2. /\ n \in Nat
      /\ \A i \in 1 .. n : /\ s[i].location \in Nat /\ End(s[i]) \in Nat
                           /\ s[i].location < End(s[i])
  BY <1>1, MemberFacts
<1>3. /\ h \in 0 .. n
      /\ \A i \in 1 .. n : i <= h <=> s[i].location < l
  BY <1>1, HoleFacts DEF RangeSeq
<1>4. \A x : x \in Covered(s) <=> x \in Nat /\ \E i \in 1 .. n : Holds(s[i], x)
  BY <1>1, CoveredFacts
<1>5. ASSUME NEW x \in Covered(s), x < l
      PROVE  x \in Nat /\ \E i \in 1 .. n : Holds(s[i], x) /\ i <= h
  <2>1. PICK i \in 1 .. n : Holds(s[i], x)
    BY <1>4
  <2>2. x \in Nat
    BY <1>4
  <2>3. s[i].location < l
    BY <1>2, <1>5, <2>1, <2>2 DEF Holds
  <2> QED
    BY <1>3, <2>1, <2>2, <2>3
<1>6. ASSUME h = 0, NEW x \in Covered(s) PROVE ~ (x < l)
  BY <1>2, <1>5, <1>6
<1>7. ASSUME h # 0 PROVE h \in 1 .. n
  BY <1>2, <1>3, <1>7
<1>8. ASSUME h # 0, NEW m, m = (IF Holds(s[h], l - 1) THEN l - 1 ELSE End(s[h]) - 1)
      PROVE  /\ m \in Covered(s) /\ m < l
             /\ \A x \in Covered(s) : x < l => x <= m
  <2>1. PICK a, e : a = s[h].location /\ e = End(s[h])
    OBVIOUS
  <2>2. h \in 1 .. n /\ h \in Nat
    BY <1>2, <1>7, <1>8
  <2>3. a \in Nat /\ e \in Nat /\ a < e /\ a < l
    BY <1>2, <1>3, <2>1, <2>2
  <2>4. m = IF a <= l - 1 /\ l - 1 < e THEN l - 1 ELSE e - 1
    BY <1>8, <2>1 DEF Holds
  <2>5. m \in Nat /\ a <= m /\ m < e /\ m < l
    BY <2>3, <2>4
  <2>6. m \in Covered(s)
    BY <1>4, <2>1, <2>2, <2>5 DEF Holds
  <2>7. ASSUME NEW x \in Covered(s), x < l PROVE x <= m
    <3>1. PICK i \in 1 .. n : Holds(s[i], x) /\ i <= h
      BY <1>5, <2>7
    <3>2. End(s[i]) <= e /\ End(s[i]) \in Nat
      BY <1>1, <1>2, <2>1, <2>2, <3>1, Monotone
    <3>3. x < End(s[i]) /\ x \in Nat
      BY <1>4, <3>1 DEF Holds
    <3> QED
      BY <2>3, <2>4, <2>7, <3>2, <3>3
  <2> QED
    BY <2>5, <2>6, <2>7
<1> QED
  BY <1>1, <1>6, <1>7, <1>8

LEMMA ClosestAbove ==
    ASSUME NEW s \in RangeSeq, InOrder(s), NEW l \in Nat, NEW k \in 1 .. Len(s) + 1,
           \A i \in 1 .. Len(s) : k <= i <=> l + 1 < End(s[i])
    PROVE  /\ k = Len(s) + 1 => \A x \in Covered(s) : ~ (x > l)
           /\ k # Len(s) + 1 =>
                 /\ k \in 1 .. Len(s)
                 /\ \A m : m = (IF Holds(s[k], l + 1) THEN l + 1 ELSE s[k].location)
                       => /\ m \in Covered(s) /\ m > l
                          /\ \A x \in Covered(s) : x > l => m <= x
<1>1. PICK n : n = Len(s)
  OBVIOUS
<1>2. /\ n \in Nat
      /\ \A i \in 1 .. n : /\ s[i].location \in Nat /\ End(s[i]) \in Nat
                           /\ s[i].location < End(s[i])
  BY <1>1, MemberFacts
<1>3. /\ k \in 1 .. n + 1 /\ k \in Nat
      /\ \A i \in 1 .. n : k <= i <=> l + 1 < End(s[i])
  BY <1>1, <1>2
<1>4. \A x : x \in Covered(s) <=> x \in Nat /\ \E i \in 1 .. n : Holds(s[i], x)
  BY <1>1, CoveredFacts
<1>5. ASSUME NEW x \in Covered(s), x > l
      PROVE  x \in Nat /\ \E i \in 1 .. n : Holds(s[i], x) /\ k <= i
  <2>1. PICK i \in 1 .. n : Holds(s[i], x)
    BY <1>4
  <2>2. x \in Nat
    BY <1>4
  <2>3. x < End(s[i]) /\ End(s[i]) \in Nat
    BY <1>2, <2>1 DEF Holds
  <2>4. l + 1 < End(s[i])
    BY <1>5, <2>2, <2>3
  <2> QED
    BY <1>3, <2>1, <2>2, <2>4
<1>6. ASSUME k = n + 1, NEW x \in Covered(s) PROVE ~ (x > l)
  BY <1>2, <1>5, <1>6
<1>7. ASSUME k # n + 1 PROVE k \in 1 .. n
  BY <1>2, <1>3, <1>7
<1>8. ASSUME k # n + 1, NEW m, m = (IF Holds(s[k], l + 1) THEN l + 1 ELSE s[k].location)
      PROVE  /\ m \in Covered(s) /\ m > l
             /\ \A x \in Covered(s) : x > l => m <= x
  <2>1. PICK a, e : a = s[k].location /\ e = End(s[k])
    OBVIOUS
  <2>2. k \in 1 .. n /\ k <= k
    BY <1>3, <1>7, <1>8
  <2>3. a \in Nat /\ e \in Nat /\ a < e /\ l + 1 < e
    BY <1>2, <1>3, <2>1, <2>2
  <2>4. m = IF a <= l + 1 /\ l + 1 < e THEN l + 1 ELSE a
    BY <1>8, <2>1 DEF Holds
  <2>5. m \in Nat /\ a <= m /\ m < e /\ m > l
    BY <2>3, <2>4
  <2>6. m \in Covered(s)
    BY <1>4, <2>1, <2>2, <2>5 DEF Holds
  <2>7. ASSUME NEW x \in Covered(s), x > l PROVE m <= x
    <3>1. PICK i \in 1 .. n : Holds(s[i], x) /\ k <= i
      BY <1>5, <2>7
    <3>2. a <= s[i].location /\ s[i].location \in Nat
      BY <1>1, <1>2, <2>1, <2>2, <3>1, Monotone
    <3>3. s[i].location <= x /\ x \in Nat
      BY <1>4, <3>1 DEF Holds
    <3> QED
      BY <2>3, <2>4, <2>7, <3>2, <3>3
  <2> QED
    BY <2>5, <2>6, <2>7
<1> QED
  BY <1>1, <1>6, <1>7, <1>8

(* What the search operation accepts, and that it answers with the closest *)
(* of it.                                                                  *)
Found(S, l, op) == {x \in S : \/ "equal" \in op /\ x = l
                              \/ "less" \in op /\ x < l
                              \/ "greater" \in op /\ x > l}

LEMMA ClosestFacts ==
    ASSUME NEW S, S \subseteq Nat, NEW l, NEW op \in Searches
    PROVE  /\ (\A x : x \notin Found(S, l, op)) => Closest(S, l, op) = LocationMax + 1
           /\ \A m : m \in Found(S, l, op) /\ "less" \in op
                        /\ (\A x \in Found(S, l, op) : x <= m) => Closest(S, l, op) = m
           /\ \A m : m \in Found(S, l, op) /\ ~ ("less" \in op)
                        /\ (\A x \in Found(S, l, op) : m <= x) => Closest(S, l, op) = m
<1>1. Closest(S, l, op) =
        IF Found(S, l, op) = {} THEN LocationMax + 1
        ELSE IF "less" \in op THEN Max(Found(S, l, op)) ELSE Min(Found(S, l, op))
  BY DEF Closest, Found
<1>2. Found(S, l, op) \subseteq Nat
  BY DEF Found
<1> QED
  BY <1>1, <1>2, ExtremeFacts

LEMMA OperationFacts ==
    ASSUME NEW op \in Searches
    PROVE  /\ "less" \in op => ~ ("greater" \in op)
           /\ ~ ("equal" \in op) /\ ~ ("less" \in op) => "greater" \in op
BY DEF Searches

LEMMA SearchFacts ==
    ASSUME NEW s \in RangeSeq, InOrder(s), s # <<>>, NEW l \in Location, NEW op \in Searches
    PROVE  SearchLocation(s, l, op) = Closest(Covered(s), l, op)
<1>1. PICK f, h, n, none : /\ f = NearestIndex(s, l) /\ h = HoleIndex(s, l) /\ n = Len(s)
                           /\ none = LocationMax + 1
  OBVIOUS
<1>2. PICK F : F = Found(Covered(s), l, op)
  OBVIOUS
<1>3. /\ n \in Nat /\ n # 0 /\ l \in Nat /\ LocationMax \in Nat /\ l <= LocationMax
      /\ h \in 0 .. n /\ h \in Nat
  BY <1>1, MemberFacts, SeqFacts, HoleFacts DEF RangeSeq, Location
<1>4. /\ f \in 1 .. n /\ f # 0
      /\ Holds(s[f], l) \/ \A i \in 1 .. n : ~ Holds(s[i], l)
  <2>1. /\ f \in 1 .. Len(s)
        /\ Holds(s[f], l) \/ \A i \in 1 .. Len(s) : ~ Holds(s[i], l)
    BY <1>1, <1>3, NearestFacts
  <2> QED
    BY <1>1, <1>3, <2>1
<1>5. Covered(s) \subseteq Nat
  BY CoveredFacts
<1>6. /\ \A x \in Covered(s) : x \in Nat /\ \E i \in 1 .. n : Holds(s[i], x)
      /\ \A i \in 1 .. n : Holds(s[i], l) => l \in Covered(s)
  BY <1>1, <1>3, CoveredFacts
<1>7. \A x : x \in F <=> /\ x \in Covered(s)
                         /\ \/ "equal" \in op /\ x = l
                            \/ "less" \in op /\ x < l
                            \/ "greater" \in op /\ x > l
  BY <1>2 DEF Found
<1>8. /\ (\A x : x \notin F) => Closest(Covered(s), l, op) = none
      /\ \A m : m \in F /\ "less" \in op /\ (\A x \in F : x <= m)
                   => Closest(Covered(s), l, op) = m
      /\ \A m : m \in F /\ ~ ("less" \in op) /\ (\A x \in F : m <= x)
                   => Closest(Covered(s), l, op) = m
  BY <1>1, <1>2, <1>5, ClosestFacts
<1>9. PICK c : c = Closest(Covered(s), l, op)
  OBVIOUS
<1>10. PICK k : k = IF End(s[f]) - 1 <= l THEN f + 1 ELSE f
  OBVIOUS
<1>11. /\ k \in 1 .. n + 1 /\ k # 0
       /\ \A i \in 1 .. n : k <= i <=> l + 1 < End(s[i])
  <2>1. k = IF End(s[NearestIndex(s, l)]) - 1 <= l
            THEN NearestIndex(s, l) + 1 ELSE NearestIndex(s, l)
    BY <1>1, <1>10
  <2>2. /\ k \in 1 .. Len(s) + 1
        /\ \A i \in 1 .. Len(s) : k <= i <=> l + 1 < End(s[i])
    BY <1>3, <2>1, RangeAbove
  <2> QED
    BY <1>1, <1>3, <2>2
<1>12. (IF s[f].location >= l THEN f - 1 ELSE f) = h
  BY <1>1, <1>3, RangeBelow
<1>13. PICK j : j = SearchRange(s, l, op)
  OBVIOUS
<1>14. j = IF "equal" \in op /\ Holds(s[f], l) THEN f
           ELSE IF "less" \in op /\ l > 0 THEN h
           ELSE IF "greater" \in op /\ l < LocationMax
           THEN IF End(s[f]) - 1 <= l THEN IF f = n THEN 0 ELSE f + 1 ELSE f
           ELSE 0
  BY <1>1, <1>12, <1>13 DEF SearchRange
<1>15. SearchLocation(s, l, op) =
          IF j = 0 THEN none
          ELSE IF "equal" \in op /\ Holds(s[j], l) THEN l
          ELSE IF "less" \in op THEN IF Holds(s[j], l - 1) THEN l - 1 ELSE End(s[j]) - 1
          ELSE IF Holds(s[j], l + 1) THEN l + 1 ELSE s[j].location
  BY <1>1, <1>13 DEF SearchLocation
<1> DEFINE e  == "equal" \in op
           lt == "less" \in op
           gt == "greater" \in op
<1>16. (lt => ~ gt) /\ (~ e /\ ~ lt => gt)
  BY OperationFacts
(* a range holds the location and that is asked for *)
<1>17. CASE e /\ Holds(s[f], l)
  <2>1. j = f /\ SearchLocation(s, l, op) = l
    BY <1>4, <1>14, <1>15, <1>17
  <2>2. l \in F
    BY <1>4, <1>6, <1>7, <1>17
  <2>3. \A x \in F : x \in Nat
    BY <1>6, <1>7
  <2>4. /\ lt => \A x \in F : x <= l
        /\ ~ lt => \A x \in F : l <= x
    <3>1. ASSUME lt, NEW x \in F PROVE x <= l
      <4>1. x = l \/ x < l
        BY <1>7, <1>16, <3>1
      <4> QED
        BY <1>3, <2>3, <4>1
    <3>2. ASSUME ~ lt, NEW x \in F PROVE l <= x
      <4>1. x = l \/ x > l
        BY <1>7, <3>2
      <4> QED
        BY <1>3, <2>3, <4>1
    <3> QED
      BY <3>1, <3>2
  <2>5. Closest(Covered(s), l, op) = l
    BY <1>8, <2>2, <2>4
  <2> QED
    BY <2>1, <2>5
<1>18. ASSUME ~ (e /\ Holds(s[f], l))
       PROVE  /\ \A x \in F : x # l \/ ~ e
              /\ \A x : x \in F <=> x \in Covered(s) /\ ((lt /\ x < l) \/ (gt /\ x > l))
              /\ \A i \in 1 .. n : ~ (e /\ Holds(s[i], l))
  <2>1. \A i \in 1 .. n : ~ (e /\ Holds(s[i], l))
    BY <1>4, <1>18
  <2>2. \A x \in F : x # l \/ ~ e
    BY <1>6, <1>7, <2>1
  <2> QED
    BY <1>7, <2>1, <2>2
(* the closest location below *)
<1>19. CASE ~ (e /\ Holds(s[f], l)) /\ lt /\ l > 0
  <2>1. j = h
    BY <1>14, <1>19
  <2>2. \A x : x \in F <=> x \in Covered(s) /\ x < l
    BY <1>16, <1>18, <1>19
  <2>3. /\ h = 0 => \A x \in Covered(s) : ~ (x < l)
        /\ h # 0 =>
              /\ h \in 1 .. n
              /\ \A m : m = (IF Holds(s[h], l - 1) THEN l - 1 ELSE End(s[h]) - 1)
                    => /\ m \in Covered(s) /\ m < l
                       /\ \A x \in Covered(s) : x < l => x <= m
    BY <1>1, <1>3, <1>19, ClosestBelow
  <2>4. CASE h = 0
    <3>1. SearchLocation(s, l, op) = none
      BY <1>15, <2>1, <2>4
    <3>2. \A x : x \notin F
      BY <2>2, <2>3, <2>4
    <3> QED
      BY <1>8, <3>1, <3>2
  <2>5. CASE h # 0
    <3>1. PICK m : m = (IF Holds(s[h], l - 1) THEN l - 1 ELSE End(s[h]) - 1)
      OBVIOUS
    <3>2. m \in F /\ \A x \in F : x <= m
      BY <2>2, <2>3, <2>5, <3>1
    <3>3. SearchLocation(s, l, op) = m
      BY <1>15, <1>18, <1>19, <2>1, <2>3, <2>5, <3>1
    <3> QED
      BY <1>8, <1>19, <3>2, <3>3
  <2> QED
    BY <2>4, <2>5
(* the closest location above *)
<1>20. CASE ~ (e /\ Holds(s[f], l)) /\ ~ lt /\ gt /\ l < LocationMax
  <2>1. j = IF k = n + 1 THEN 0 ELSE k
    <3>1. j = IF End(s[f]) - 1 <= l THEN IF f = n THEN 0 ELSE f + 1 ELSE f
      BY <1>14, <1>20

    <3>2. f \in Nat /\ f <= n
      BY <1>3, <1>4
    <3> QED
      BY <1>3, <1>10, <3>1, <3>2
  <2>2. \A x : x \in F <=> x \in Covered(s) /\ x > l
    BY <1>16, <1>18, <1>20
  <2>3. /\ k = n + 1 => \A x \in Covered(s) : ~ (x > l)
        /\ k # n + 1 =>
              /\ k \in 1 .. n
              /\ \A m : m = (IF Holds(s[k], l + 1) THEN l + 1 ELSE s[k].location)
                    => /\ m \in Covered(s) /\ m > l
                       /\ \A x \in Covered(s) : x > l => m <= x
    BY <1>1, <1>3, <1>11, ClosestAbove
  <2>4. CASE k = n + 1
    <3>1. SearchLocation(s, l, op) = none
      BY <1>15, <2>1, <2>4
    <3>2. \A x : x \notin F
      BY <2>2, <2>3, <2>4
    <3> QED
      BY <1>8, <3>1, <3>2
  <2>5. CASE k # n + 1
    <3>1. PICK m : m = (IF Holds(s[k], l + 1) THEN l + 1 ELSE s[k].location)
      OBVIOUS
    <3>2. m \in F /\ \A x \in F : m <= x
      BY <2>2, <2>3, <2>5, <3>1
    <3>3. SearchLocation(s, l, op) = m
      BY <1>11, <1>15, <1>18, <1>20, <2>1, <2>3, <2>5, <3>1
    <3> QED
      BY <1>8, <1>20, <3>2, <3>3
  <2> QED
    BY <2>4, <2>5
(* nothing is asked for, or nothing can be on that side *)
<1>21. CASE /\ ~ (e /\ Holds(s[f], l)) /\ ~ (lt /\ l > 0)
            /\ ~ (~ lt /\ gt /\ l < LocationMax)
  <2>1. j = 0 /\ SearchLocation(s, l, op) = none
    BY <1>14, <1>15, <1>16, <1>21
  <2>2. ASSUME NEW x \in F PROVE FALSE
    <3>1. x \in Nat /\ ((lt /\ x < l) \/ (gt /\ x > l))
      BY <1>6, <1>18, <1>21
    <3>2. PICK i \in 1 .. n : Holds(s[i], x)
      BY <1>6, <1>7, <2>2
    <3>3. x <= LocationMax
      <4>1. End(s[i]) \in Nat /\ End(s[i]) <= LocationMax + 1
        BY <1>1, MemberFacts
      <4>2. x < End(s[i])
        BY <3>2 DEF Holds
      <4> QED
        BY <1>3, <3>1, <4>1, <4>2
    <3> QED
      BY <1>3, <1>16, <1>21, <3>1, <3>3
  <2> QED
    BY <1>8, <2>1, <2>2
<1> QED
  BY <1>17, <1>19, <1>20, <1>21

LEMMA InvSearch == RangesetInv => SearchFindsClosest
<1> SUFFICES ASSUME RangesetInv PROVE SearchFindsClosest
  OBVIOUS
<1>1. Ranges \in RangeSeq /\ InOrder(Ranges)
  BY NoPiece, SoundFacts DEF Ranges, RangesetInv
<1>2. ASSUME NEW l \in Location, NEW op \in Searches
      PROVE  SearchLocation(Ranges, l, op) = Closest(Covered(Ranges), l, op)
  <2>1. CASE Ranges # <<>>
    BY <1>1, <2>1, SearchFacts
  <2>2. CASE Ranges = <<>>
    <3>1. SearchLocation(Ranges, l, op) = LocationMax + 1
      BY <2>2 DEF SearchLocation, SearchRange
    <3>2. Len(Ranges) = 0
      BY <2>2
    <3>3. \A x : x \notin Covered(Ranges)
      BY <1>1, <3>2, CoveredFacts
    <3>4. \A x : x \notin Found(Covered(Ranges), l, op)
      BY <3>3 DEF Found
    <3>5. Covered(Ranges) \subseteq Nat
      BY <3>3
    <3> QED
      BY <3>1, <3>4, <3>5, ClosestFacts
  <2> QED
    BY <2>1, <2>2
<1>3. ASSUME NEW l \in Location, Ranges # <<>>, NEW i \in DOMAIN Ranges
      PROVE  Distance(Ranges[NearestIndex(Ranges, l)], l) <= Distance(Ranges[i], l)
  <2>1. l \in Nat /\ i \in 1 .. Len(Ranges)
    BY <1>1, <1>3, SeqFacts DEF Location
  <2> QED
    BY <1>1, <1>3, <2>1, NearestFacts
<1> QED
  BY <1>2, <1>3 DEF SearchFindsClosest

(* In every set that can come about, each of the five searches answers     *)
(* with the closest location there is, from every location, and the        *)
(* nearest range is found although only the neighbours of a hole are       *)
(* compared.                                                               *)
THEOREM AlwaysFindsClosest ==
    ASSUME Deltas \subseteq Nat
    PROVE  Spec => []SearchFindsClosest
<1>1. RangesetInv => SearchFindsClosest
  BY InvSearch
<1> QED
  BY <1>1, RangesetInvariant, PTL

-----------------------------------------------------------------------------
(* Shifts that have room *)

(* A nearest range that is not below the location is the first that ends   *)
(* above it.                                                               *)
LEMMA NearestAbove ==
    ASSUME NEW s \in RangeSeq, InOrder(s), s # <<>>, NEW l \in Nat,
           NEW f, f = NearestIndex(s, l), l < End(s[f])
    PROVE  /\ f \in 1 .. Len(s)
           /\ \A i \in 1 .. Len(s) : /\ i < f => End(s[i]) <= l
                                     /\ i > f => l <= s[i].location
<1>1. PICK h, n : h = HoleIndex(s, l) /\ n = Len(s)
  OBVIOUS
<1>2. /\ n \in Nat
      /\ \A i \in 1 .. n : /\ s[i].location \in Nat /\ End(s[i]) \in Nat
                           /\ s[i].location < End(s[i])
      /\ \A i, j \in 1 .. n : i < j => End(s[i]) <= s[j].location
  BY <1>1, MemberFacts
<1>3. /\ h \in 0 .. n
      /\ \A i \in 1 .. n : i <= h <=> s[i].location < l
  BY <1>1, HoleFacts DEF RangeSeq
<1>4. /\ f \in 1 .. n
      /\ \/ Holds(s[f], l)
         \/ (\A i \in 1 .. n : ~ Holds(s[i], l)) /\ (f = h \/ f = h + 1)
  BY <1>1, NearestFacts
<1>5. f \in Nat /\ h \in Nat /\ s[f].location \in Nat /\ End(s[f]) \in Nat
  BY <1>2, <1>3, <1>4
<1>6. ASSUME NEW i \in 1 .. n, i > f PROVE l <= s[i].location
  <2>1. End(s[f]) <= s[i].location /\ s[i].location \in Nat
    BY <1>2, <1>4, <1>5, <1>6
  <2> QED
    BY <1>5, <2>1
<1>7. ASSUME NEW i \in 1 .. n, i < f PROVE End(s[i]) <= l
  <2>1. End(s[i]) <= s[f].location /\ End(s[i]) \in Nat /\ s[i].location \in Nat
    BY <1>2, <1>4, <1>7
  <2>2. CASE Holds(s[f], l)
    <3>1. s[f].location <= l
      BY <2>2 DEF Holds
    <3> QED
      BY <1>5, <2>1, <3>1
  <2>3. CASE (\A j \in 1 .. n : ~ Holds(s[j], l)) /\ (f = h \/ f = h + 1)
    <3>1. f # h
      <4> SUFFICES ASSUME f = h PROVE FALSE
        OBVIOUS
      <4>1. f <= h
        BY <1>5
      <4>2. s[f].location < l
        BY <1>3, <1>4, <4>1
      <4>3. Holds(s[f], l)
        BY <1>5, <4>2 DEF Holds
      <4> QED
        BY <1>4, <2>3, <4>3
    <3>2. i <= h
      BY <1>5, <1>7, <2>3, <3>1
    <3>3. s[i].location < l
      BY <1>3, <3>2
    <3> QED
      BY <2>1, <2>3, <3>3 DEF Holds
  <2> QED
    BY <1>4, <2>2, <2>3
<1> QED
  BY <1>1, <1>4, <1>6, <1>7

(* Down, without leaving the domain.                                       *)
LEMMA MovedDownFacts ==
    ASSUME NEW r, Usable(r), NEW d \in Nat, d <= r.location
    PROVE  /\ Usable(MovedBy(r, -d))
           /\ MovedBy(r, -d).location = r.location - d
           /\ End(MovedBy(r, -d)) = End(r) - d
<1>1. /\ r.location \in Nat /\ End(r) \in Nat /\ r.location < End(r) /\ LocationMax \in Nat
      /\ r.location <= LocationMax /\ End(r) <= LocationMax + 1
  BY UsableNumbers
<1>2. r \in [location : Nat, length : Nat] /\ r.length > 0 /\ r.length \in Nat
      /\ End(r) = r.location + r.length
  BY RangeNumbers DEF Usable, AnyRange
<1>3. PICK a, n : a = r.location /\ n = r.length
  OBVIOUS
<1>4. /\ a \in Nat /\ n \in Nat /\ n > 0 /\ d <= a /\ a <= LocationMax
      /\ a + n <= LocationMax + 1
  BY <1>1, <1>2, <1>3
<1>5. PICK b \in Nat : b = a - d
  BY <1>4
<1>6. a + (-d) = b /\ b <= a /\ b < 2 * (LocationMax + 2) /\ 2 * (LocationMax + 2) \in Nat
  BY <1>1, <1>4, <1>5
<1>7. (a + (-d)) % Word = b
  <2>1. \A x, w \in Nat : x < w => x % w = x
    OBVIOUS
  <2> QED
    BY <1>6, <2>1 DEF Word
<1>8. MovedBy(r, -d) = [r EXCEPT !.location = b]
  BY <1>2, <1>3, <1>7 DEF MovedBy
<1> DEFINE m == MovedBy(r, -d)
<1>9. m.location = b /\ m.length = n /\ m \in AnyRange
  BY <1>2, <1>3, <1>8 DEF AnyRange
<1> HIDE DEF m
<1>10. End(m) = b + n
  BY <1>9 DEF End
<1>11. Usable(m)
  BY <1>1, <1>4, <1>5, <1>6, <1>9, <1>10 DEF Usable, IsValid
<1>12. End(r) - d = b + n
  BY <1>2, <1>3, <1>4, <1>5
<1> QED
  BY <1>3, <1>5, <1>9, <1>10, <1>11, <1>12 DEF m

(* The ranges from f on are above the location l and can move down by d:   *)
(* what is below l ends below where they come to lie.                      *)
RoomBelow(s, f, l, d) ==
    /\ s \in RangeSeq /\ InOrder(s) /\ f \in 1 .. Len(s) /\ d \in Nat /\ l \in Nat
    /\ \A i \in 1 .. Len(s) :
          /\ i < f => End(s[i]) <= l /\ End(s[i]) + d <= s[f].location
          /\ i >= f => l <= s[i].location /\ d <= s[i].location

LEMMA ShiftedDownFacts ==
    ASSUME NEW s, NEW f, NEW l, NEW d, RoomBelow(s, f, l, d)
    PROVE  /\ DeltaShifted(s, f, -d) \in RangeSeq
           /\ Len(DeltaShifted(s, f, -d)) = Len(s)
           /\ InOrder(DeltaShifted(s, f, -d))
           /\ \A i \in 1 .. Len(s) :
                 /\ i < f => DeltaShifted(s, f, -d)[i] = s[i]
                 /\ i >= f => /\ DeltaShifted(s, f, -d)[i].location = s[i].location - d
                              /\ End(DeltaShifted(s, f, -d)[i]) = End(s[i]) - d
<1> DEFINE t == DeltaShifted(s, f, -d)
<1>0. /\ s \in RangeSeq /\ InOrder(s) /\ f \in 1 .. Len(s) /\ d \in Nat
      /\ \A i \in 1 .. Len(s) :
            /\ i < f => End(s[i]) + d <= s[f].location
            /\ i >= f => d <= s[i].location
  BY DEF RoomBelow
<1>1. /\ Len(s) \in Nat /\ DOMAIN s = 1 .. Len(s) /\ f \in Nat
  BY <1>0, SeqFacts
<1>2. /\ \A i \in 1 .. Len(s) :
            /\ Usable(s[i]) /\ s[i].location \in Nat /\ End(s[i]) \in Nat
            /\ s[i].location < End(s[i])
      /\ \A i, j \in 1 .. Len(s) : i < j => End(s[i]) <= s[j].location
  BY <1>0, MemberFacts
<1>3. ASSUME NEW i \in 1 .. Len(s), i >= f
      PROVE  /\ Usable(MovedBy(s[i], -d))
             /\ MovedBy(s[i], -d).location = s[i].location - d
             /\ End(MovedBy(s[i], -d)) = End(s[i]) - d
  BY <1>0, <1>2, <1>3, MovedDownFacts
<1>4. t = [i \in 1 .. Len(s) |-> IF i < f THEN s[i] ELSE MovedBy(s[i], -d)]
  BY <1>1 DEF DeltaShifted
<1> HIDE DEF t
<1>5. \A i \in 1 .. Len(s) : t[i] = IF i < f THEN s[i] ELSE MovedBy(s[i], -d)
  BY <1>4
<1>6. \A i \in 1 .. Len(s) : Usable(t[i])
  BY <1>1, <1>2, <1>3, <1>5
<1>7. t \in RangeSeq /\ Len(t) = Len(s)
  BY <1>1, <1>4, <1>5, <1>6 DEF RangeSeq, Usable
<1>8. ASSUME NEW i \in 1 .. Len(s)
      PROVE  /\ i < f => t[i] = s[i]
             /\ i >= f => t[i].location = s[i].location - d /\ End(t[i]) = End(s[i]) - d
  BY <1>1, <1>3, <1>5
<1>9. ASSUME NEW i \in 1 .. Len(s), NEW j \in 1 .. Len(s), i < j
      PROVE  End(t[i]) <= t[j].location
  <2>1. PICK e, l1 : e = End(s[i]) /\ l1 = s[j].location
    OBVIOUS
  <2>2. e \in Nat /\ l1 \in Nat /\ e <= l1
    BY <1>2, <1>9, <2>1
  <2>3. CASE j < f
    BY <1>1, <1>8, <1>9, <2>1, <2>2, <2>3
  <2>4. CASE i < f /\ j >= f
    <3>1. e + d <= s[f].location /\ s[f].location \in Nat
      BY <1>0, <1>2, <2>1, <2>4
    <3>2. s[f].location <= l1
      BY <1>0, <2>1, <2>4, Monotone
    <3>3. e <= l1 - d
      BY <1>0, <2>2, <3>1, <3>2
    <3> QED
      BY <1>8, <2>1, <2>4, <3>3
  <2>5. CASE i >= f
    <3>1. j >= f
      BY <1>1, <1>9, <2>5
    <3>2. e - d <= l1 - d
      BY <1>0, <2>2
    <3> QED
      BY <1>8, <2>1, <2>5, <3>1, <3>2
  <2> QED
    BY <1>1, <2>3, <2>4, <2>5
<1>10. InOrder(t)
  BY <1>6, <1>7, <1>9, OrderFromApart
<1> QED
  BY <1>7, <1>8, <1>10 DEF t

LEMMA ShiftedDownCovers ==
    ASSUME NEW s, NEW f, NEW l, NEW d, RoomBelow(s, f, l, d)
    PROVE  \A x : x \in Covered(DeltaShifted(s, f, -d)) <=>
                     \/ x \in Covered(s) /\ x < l
                     \/ x \in Nat /\ x + d \in Covered(s) /\ x + d >= l
<1> DEFINE t == DeltaShifted(s, f, -d)
<1>0. /\ s \in RangeSeq /\ InOrder(s) /\ f \in 1 .. Len(s) /\ d \in Nat /\ l \in Nat
      /\ \A i \in 1 .. Len(s) :
            /\ i < f => End(s[i]) <= l
            /\ i >= f => l <= s[i].location /\ d <= s[i].location
  BY DEF RoomBelow
<1>1. Len(s) \in Nat /\ f \in Nat
  BY <1>0, SeqFacts
<1>2. \A i \in 1 .. Len(s) :
         /\ s[i].location \in Nat /\ End(s[i]) \in Nat /\ s[i].location < End(s[i])
  BY <1>0, MemberFacts
<1>3. /\ t \in RangeSeq /\ Len(t) = Len(s)
      /\ \A i \in 1 .. Len(s) :
            /\ i < f => t[i] = s[i]
            /\ i >= f => t[i].location = s[i].location - d /\ End(t[i]) = End(s[i]) - d
  BY ShiftedDownFacts
<1> HIDE DEF t
<1>4. \A x : x \in Covered(s) <=> x \in Nat /\ \E i \in 1 .. Len(s) : Holds(s[i], x)
  BY <1>0, CoveredFacts
<1>5. \A x : x \in Covered(t) <=> x \in Nat /\ \E i \in 1 .. Len(s) : Holds(t[i], x)
  BY <1>3, CoveredFacts
<1>6. ASSUME NEW i \in 1 .. Len(s), NEW x \in Nat, Holds(s[i], x)
      PROVE  i < f <=> x < l
  <2>1. s[i].location <= x /\ x < End(s[i])
    BY <1>6 DEF Holds
  <2>2. s[i].location \in Nat /\ End(s[i]) \in Nat /\ (i < f \/ i >= f)
    BY <1>1, <1>2
  <2>3. CASE i < f
    <3>1. End(s[i]) <= l
      BY <1>0, <2>3
    <3> QED
      BY <1>0, <2>1, <2>2, <2>3, <3>1
  <2>4. CASE i >= f
    <3>1. l <= s[i].location
      BY <1>0, <2>4
    <3>2. ~ (x < l) /\ ~ (i < f)
      BY <1>0, <1>1, <2>1, <2>2, <2>4, <3>1
    <3> QED
      BY <3>2
  <2> QED
    BY <2>2, <2>3, <2>4
<1>7. ASSUME NEW i \in 1 .. Len(s), NEW x \in Nat
      PROVE  /\ i < f => (Holds(t[i], x) <=> Holds(s[i], x))
             /\ i >= f => (Holds(t[i], x) <=> Holds(s[i], x + d))
  <2>1. PICK a, e : a = s[i].location /\ e = End(s[i])
    OBVIOUS
  <2>2. a \in Nat /\ e \in Nat
    BY <1>2, <2>1
  <2>3. i >= f => (Holds(t[i], x) <=> a - d <= x /\ x < e - d)
    BY <1>3, <2>1 DEF Holds
  <2>4. a - d <= x /\ x < e - d <=> a <= x + d /\ x + d < e
    BY <1>0, <2>2
  <2>5. Holds(s[i], x + d) <=> a <= x + d /\ x + d < e
    BY <2>1 DEF Holds
  <2> QED
    BY <1>3, <2>3, <2>4, <2>5
<1>8. ASSUME NEW x \in Nat
      PROVE  x \in Covered(t) <=> \/ x \in Covered(s) /\ x < l
                                  \/ x + d \in Covered(s) /\ x + d >= l
  <2>1. \A i \in 1 .. Len(s) : (i < f \/ i >= f) /\ ~ (i < f /\ i >= f)
    BY <1>1
  <2>2. x + d \in Nat /\ (x + d >= l <=> ~ (x + d < l))
    BY <1>0
  <2>3. x \in Covered(s) /\ x < l <=> \E i \in 1 .. Len(s) : i < f /\ Holds(t[i], x)
    BY <1>4, <1>6, <1>7
  <2>4. x + d \in Covered(s) /\ x + d >= l
           <=> \E i \in 1 .. Len(s) : i >= f /\ Holds(t[i], x)
    <3>1. \A i \in 1 .. Len(s) : Holds(s[i], x + d) => (i >= f <=> x + d >= l)
      BY <1>6, <2>1, <2>2
    <3>2. x + d \in Covered(s) <=> \E i \in 1 .. Len(s) : Holds(s[i], x + d)
      BY <1>4, <2>2
    <3> QED
      BY <1>7, <3>1, <3>2
  <2> QED
    BY <1>5, <2>1, <2>3, <2>4
<1>9. \A x : x \in Covered(t) \/ x \in Covered(s) => x \in Nat
  BY <1>4, <1>5
<1> QED
  BY <1>8, <1>9 DEF t

LEMMA DownClears ==
    ASSUME NEW p, Sound(p), NEW l \in Location, NEW d \in 1 .. LocationMax
    PROVE  /\ Sound(ShiftClears(p, l, -d))
           /\ \A x \in Nat : x \in Covered(ShiftClears(p, l, -d).ranges) <=>
                                x \in Covered(p.ranges) /\ ~ (l <= x /\ x < d)
<1>1. /\ l \in Nat /\ l <= LocationMax /\ d \in Nat /\ d > 0 /\ d <= LocationMax
      /\ LocationMax \in Nat /\ ~ (-d > 0)
  BY RangesAssumption DEF Location
<1>2. CASE d <= l
  <2>1. ~ (l + (-d) < 0) /\ \A x \in Nat : ~ (l <= x /\ x < d)
    BY <1>1, <1>2
  <2> QED
    BY <1>1, <2>1 DEF ShiftClears
<1>3. CASE l < d
  <2>1. PICK n \in Nat : n = d - l
    BY <1>1, <1>3
  <2>2. l + (-d) < 0 /\ -(l + (-d)) = n /\ l + n = d /\ n > 0
    BY <1>1, <1>3, <2>1
  <2> DEFINE r == Make(l, n)
  <2>3. ShiftClears(p, l, -d) = WithoutRange(p, r)
    BY <1>1, <2>2 DEF ShiftClears
  <2>4. r \in AnyRange /\ r.location = l /\ r.length = n /\ End(r) = d
    BY <1>1, <2>2, MakeFacts
  <2> HIDE DEF r
  <2>5. Usable(r)
    BY <1>1, <2>2, <2>4 DEF Usable, IsValid
  <2>6. \A x : x \in Abstract!CoveredBy(r) <=> x \in Nat /\ l <= x /\ x < d
    BY <2>4, <2>5, CoveredByFacts DEF Holds
  <2> QED
    BY <2>3, <2>4, <2>6, WithoutRangeFacts
<1> QED
  BY <1>1, <1>2, <1>3

LEMMA MovedDownSet ==
    ASSUME NEW S, S \subseteq Location, NEW l \in Location, NEW d \in 1 .. LocationMax
    PROVE  \A x : x \in Abstract!Moved(S, l, -d) <=>
                     \/ x \in S /\ x < l
                     \/ x \in Nat /\ x + d \in S /\ x + d >= l
<1> TAKE x
<1>1. LocationMax \in Nat /\ d \in Nat /\ l \in Nat
  BY RangesAssumption DEF Location
<1>2. x \in Abstract!Moved(S, l, -d) <=>
         \/ x \in S /\ x < l
         \/ x \in 0 .. LocationMax /\ \E y \in S : y >= l /\ x = y + (-d)
  BY DEF Abstract!Moved, Abstract!Location
<1>3. ASSUME NEW y \in S, y >= l, x = y + (-d), x \in 0 .. LocationMax
      PROVE  x \in Nat /\ x + d = y
  <2>1. y \in Nat
    BY DEF Location
  <2> QED
    BY <1>1, <1>3, <2>1
<1>4. ASSUME x \in Nat, x + d \in S, x + d >= l
      PROVE  x \in 0 .. LocationMax /\ x = (x + d) + (-d)
  <2>1. x + d <= LocationMax
    BY <1>4 DEF Location
  <2> QED
    BY <1>1, <1>4, <2>1
<1> QED
  BY <1>2, <1>3, <1>4

(* The array joined where what has moved down meets what has not.          *)
Met(t, f, first) == Splice(t, f - 1, f, <<Span(first, End(t[f]))>>)

LEMMA MetFacts ==
    ASSUME NEW t \in RangeSeq, InOrder(t), NEW f \in 1 .. Len(t), f > 1,
           End(t[f - 1]) = t[f].location
    PROVE  /\ InOrder(Met(t, f, t[f - 1].location))
           /\ \A x : x \in Covered(Met(t, f, t[f - 1].location)) <=> x \in Covered(t)
<1>1. Len(t) \in Nat /\ f \in Nat /\ f <= Len(t) /\ f - 1 \in 1 .. Len(t) /\ f - 1 < f
      /\ LocationMax \in Nat
  BY MemberFacts
<1>2. PICK a, b, e : a = t[f - 1].location /\ b = t[f].location /\ e = End(t[f])
  OBVIOUS
<1>3. /\ a \in Nat /\ b \in Nat /\ e \in Nat /\ a < b /\ b < e
      /\ End(t[f - 1]) = b
      /\ a <= LocationMax /\ e <= LocationMax + 1
  BY <1>1, <1>2, MemberFacts
<1>4. \A i \in 1 .. Len(t) : /\ t[i].location \in Nat /\ End(t[i]) \in Nat
                             /\ t[i].location < End(t[i])
  BY MemberFacts
<1>5. ASSUME NEW i \in 1 .. Len(t)
      PROVE  /\ i < f - 1 => End(t[i]) <= a
             /\ i > f => e <= t[i].location
             /\ f - 1 <= i /\ i <= f <=> i = f - 1 \/ i = f
  BY <1>1, <1>2, MemberFacts
<1>6. ASSUME NEW x \in Nat
      PROVE  a <= x /\ x < e <=>
                \/ Holds(t[f], x)
                \/ \E i \in 1 .. Len(t) : f - 1 <= i /\ i <= f /\ Holds(t[i], x)
  <2>1. Holds(t[f], x) <=> b <= x /\ x < e
    BY <1>2 DEF Holds
  <2>2. Holds(t[f - 1], x) <=> a <= x /\ x < b
    BY <1>2, <1>3 DEF Holds
  <2>3. a <= x /\ x < e <=> (a <= x /\ x < b) \/ (b <= x /\ x < e)
    BY <1>3
  <2> QED
    BY <1>1, <1>5, <2>1, <2>2, <2>3
<1>7. f - 1 \in 1 .. Len(t) + 1 /\ f \in 0 .. Len(t) /\ f - 1 <= f + 1
  BY <1>1
<1>8. a < e
  BY <1>3
<1>9. Replaces(t, t[f], f - 1, f, a, e)
  BY <1>3, <1>5, <1>6, <1>7, <1>8 DEF Replaces
<1>10. Gains(t, Splice(t, f - 1, f, <<Span(a, e)>>), t[f])
  BY <1>9, Joins
<1>11. Met(t, f, t[f - 1].location) = Splice(t, f - 1, f, <<Span(a, e)>>)
  BY <1>2 DEF Met
<1>12. \A x : x \in Nat /\ Holds(t[f], x) => x \in Covered(t)
  BY CoveredFacts
<1> QED
  BY <1>10, <1>11, <1>12 DEF Gains

LEMMA DownFacts ==
    ASSUME NEW p, Sound(p), p.ranges # <<>>, NEW l \in Location, NEW d \in 1 .. LocationMax,
           NEW s, s = ShiftClears(p, l, -d).ranges, s # <<>>,
           l < End(s[NearestIndex(s, l)]),
           \A x \in Covered(p.ranges) : x < l - d \/ x >= l
    PROVE  /\ InOrder(Shifted(p, l, -d).ranges)
           /\ Covered(Shifted(p, l, -d).ranges) = Abstract!Moved(Covered(p.ranges), l, -d)
<1> DEFINE c == ShiftClears(p, l, -d)
           S == Covered(p.ranges)
<1>1. /\ l \in Nat /\ l <= LocationMax /\ d \in Nat /\ d > 0 /\ d <= LocationMax
      /\ LocationMax \in Nat /\ -d < 0 /\ -d # 0
  BY RangesAssumption DEF Location
<1>2. /\ Sound(c) /\ c.ranges = s
      /\ \A x \in Nat : x \in Covered(s) <=> x \in S /\ ~ (l <= x /\ x < d)
  BY DownClears
<1>3. s \in RangeSeq /\ InOrder(s)
  BY <1>2, SoundFacts
<1> HIDE DEF c
<1>4. PICK f : f = NearestIndex(s, l)
  OBVIOUS
<1>5. /\ f \in 1 .. Len(s) /\ Len(s) \in Nat /\ f \in Nat /\ l < End(s[f])
      /\ \A i \in 1 .. Len(s) : /\ i < f => End(s[i]) <= l
                                /\ i > f => l <= s[i].location
  BY <1>1, <1>3, <1>4, NearestAbove, SeqFacts
<1>6. \A i \in 1 .. Len(s) :
         /\ s[i].location \in Nat /\ End(s[i]) \in Nat /\ s[i].location < End(s[i])
  BY <1>3, MemberFacts
<1>7. \A x : x \in Covered(s) <=> x \in Nat /\ \E i \in 1 .. Len(s) : Holds(s[i], x)
  BY <1>3, CoveredFacts
<1>8. \A x \in Covered(s) : x \in Nat /\ (x < l - d \/ x >= l) /\ ~ (l <= x /\ x < d)
  BY <1>2, <1>7
<1>9. l <= s[f].location
  <2> SUFFICES ASSUME s[f].location < l PROVE FALSE
    BY <1>1, <1>5, <1>6
  <2>1. PICK a, e : a = s[f].location /\ e = End(s[f])
    OBVIOUS
  <2>2. a \in Nat /\ e \in Nat /\ a < l /\ l < e
    BY <1>5, <1>6, <2>1
  <2>3. l - 1 \in Nat /\ a <= l - 1 /\ l - 1 < e
    BY <1>1, <2>2
  <2>4. l - 1 \in Covered(s)
    BY <1>5, <1>7, <2>1, <2>3 DEF Holds
  <2>5. l - 1 < l - d \/ l - 1 >= l
    BY <1>8, <2>4
  <2> QED
    BY <1>1, <2>5
<1>10. ASSUME NEW i \in 1 .. Len(s)
       PROVE  /\ i < f => End(s[i]) <= l /\ End(s[i]) + d <= s[f].location
              /\ i >= f => l <= s[i].location /\ d <= s[i].location
  <2>1. PICK a, e, b : a = s[i].location /\ e = End(s[i]) /\ b = s[f].location
    OBVIOUS
  <2>2. a \in Nat /\ e \in Nat /\ a < e /\ b \in Nat /\ i \in Nat /\ l <= b
    BY <1>5, <1>6, <1>9, <2>1
  <2>3. ASSUME i < f PROVE e <= l /\ e + d <= b
    <3>1. e <= l
      BY <1>5, <2>1, <2>3
    <3>2. e - 1 \in Nat /\ a <= e - 1 /\ e - 1 < e
      BY <2>2
    <3>3. e - 1 \in Covered(s)
      BY <1>7, <2>1, <3>2 DEF Holds
    <3>4. e - 1 < l - d \/ e - 1 >= l
      BY <1>8, <3>3
    <3> QED
      BY <1>1, <2>2, <3>1, <3>4
  <2>4. ASSUME i >= f PROVE l <= a /\ d <= a
    <3>1. l <= a
      <4>1. i = f \/ i > f
        BY <1>5, <2>2, <2>4
      <4> QED
        BY <1>5, <1>9, <2>1, <4>1
    <3>2. a \in Covered(s)
      <4>1. a <= a
        BY <2>2
      <4> QED
        BY <1>7, <2>1, <2>2, <4>1 DEF Holds
    <3>3. ~ (l <= a /\ a < d)
      BY <1>8, <3>2
    <3> QED
      BY <1>1, <2>2, <3>1, <3>3
  <2> QED
    BY <2>1, <2>3, <2>4
<1>11. RoomBelow(s, f, l, d)
  BY <1>1, <1>3, <1>5, <1>10 DEF RoomBelow
<1> DEFINE t == DeltaShifted(s, f, -d)
           q == Shifted(p, l, -d)
<1>12. /\ t \in RangeSeq /\ Len(t) = Len(s) /\ InOrder(t)
       /\ \A i \in 1 .. Len(s) : i < f => t[i] = s[i]
  BY <1>11, ShiftedDownFacts
<1>13. \A x : x \in Covered(t) <=> \/ x \in Covered(s) /\ x < l
                                   \/ x \in Nat /\ x + d \in Covered(s) /\ x + d >= l
  BY <1>11, ShiftedDownCovers
<1>14. q = IF f > 1 /\ End(s[f - 1]) = t[f].location
           THEN [c EXCEPT !.ranges = Met(t, f, s[f - 1].location)]
           ELSE [c EXCEPT !.ranges = t]
  <2>1. ~ (s[f].location < l)
    BY <1>1, <1>5, <1>6, <1>9
  <2> HIDE DEF t
  <2>2. Shifted(p, l, -d) =
           IF -d < 0 /\ f > 1 /\ End(s[f - 1]) = DeltaShifted(s, f, -d)[f].location
           THEN [c EXCEPT !.ranges = Met(DeltaShifted(s, f, -d), f, s[f - 1].location)]
           ELSE [c EXCEPT !.ranges = DeltaShifted(s, f, -d)]
    BY <1>1, <1>2, <1>4, <2>1 DEF Shifted, Met, c
  <2> QED
    BY <1>1, <2>2 DEF t
<1> HIDE DEF t, q
<1>15. \A u : [c EXCEPT !.ranges = u].ranges = u
  BY <1>2 DEF Sound, State
<1>16. InOrder(q.ranges) /\ \A x : x \in Covered(q.ranges) <=> x \in Covered(t)
  <2>1. CASE f > 1 /\ End(s[f - 1]) = t[f].location
    <3>1. f - 1 \in 1 .. Len(s) /\ f - 1 < f
      BY <1>5, <2>1
    <3>2. t[f - 1] = s[f - 1]
      BY <1>12, <3>1
    <3>3. q.ranges = Met(t, f, t[f - 1].location)
      BY <1>14, <1>15, <2>1, <3>2
    <3>4. f \in 1 .. Len(t)
      BY <1>5, <1>12
    <3> QED
      BY <1>12, <2>1, <3>2, <3>3, <3>4, MetFacts
  <2>2. CASE ~ (f > 1 /\ End(s[f - 1]) = t[f].location)
    BY <1>12, <1>14, <1>15, <2>2
  <2> QED
    BY <2>1, <2>2
<1>17. S \subseteq Location
  BY HeldFacts
<1>18. \A x : x \in Abstract!Moved(S, l, -d) <=>
                 \/ x \in S /\ x < l
                 \/ x \in Nat /\ x + d \in S /\ x + d >= l
  BY <1>17, MovedDownSet
<1>19. ASSUME NEW x
       PROVE  x \in Covered(q.ranges) <=> x \in Abstract!Moved(S, l, -d)
  <2>1. x \in S \/ x \in Covered(s) => x \in Nat
    BY <1>7, <1>17 DEF Location
  <2>2. x \in Nat => (x < l => (x \in Covered(s) <=> x \in S))
    BY <1>1, <1>2
  <2>3. x \in Nat => (x + d \in Covered(s) <=> x + d \in S)
    <3>1. x \in Nat => x + d \in Nat /\ ~ (x + d < d)
      BY <1>1
    <3> QED
      BY <1>2, <3>1
  <2> QED
    BY <1>13, <1>16, <1>18, <2>1, <2>2, <2>3
<1> QED
  BY <1>16, <1>19 DEF q, S

LEMMA UpFacts ==
    ASSUME NEW p, Sound(p), p.ranges # <<>>, NEW l \in Location, NEW d \in 1 .. LocationMax,
           NEW s, s = ShiftClears(p, l, d).ranges, s # <<>>,
           l < End(s[NearestIndex(s, l)]),
           \A x \in Covered(p.ranges) : x <= LocationMax - d
    PROVE  /\ InOrder(Shifted(p, l, d).ranges)
           /\ Covered(Shifted(p, l, d).ranges) = Abstract!Moved(Covered(p.ranges), l, d)
<1> DEFINE S == Covered(p.ranges)
           q == Shifted(p, l, d)
<1>1. /\ l \in Nat /\ d \in Nat /\ d \in 1 .. LocationMax + 1 /\ LocationMax \in Nat
  BY RangesAssumption DEF Location
<1>2. S \subseteq Location
  BY HeldFacts
<1>3. S \ (LocationMax + 1 - d .. LocationMax) = S
  <2>1. ASSUME NEW x \in S PROVE x \notin LocationMax + 1 - d .. LocationMax
    <3>1. x \in Nat /\ x <= LocationMax - d
      BY <1>2 DEF Location
    <3> QED
      BY <1>1, <3>1
  <2> QED
    BY <2>1
<1>4. Sound(q) /\ Covered(q.ranges) = Abstract!Moved(S, Cut(s, l), d)
  BY <1>1, <1>3, ShiftedFacts
<1>5. Covered(s) = S /\ s \in RangeSeq /\ InOrder(s)
  BY <1>1, <1>3, ClearedFacts, SoundFacts
<1> HIDE DEF q
<1>6. PICK f : f = NearestIndex(s, l)
  OBVIOUS
<1>7. /\ f \in 1 .. Len(s) /\ Len(s) \in Nat /\ f \in Nat /\ l < End(s[f])
      /\ \A i \in 1 .. Len(s) : i < f => End(s[i]) <= l
  BY <1>1, <1>5, <1>6, NearestAbove, SeqFacts
<1>8. \A i \in 1 .. Len(s) : s[i].location \in Nat /\ End(s[i]) \in Nat
  BY <1>5, SeqFacts
<1>9. PICK a, e : a = s[f].location /\ e = End(s[f])
  OBVIOUS
<1>10. a \in Nat /\ e \in Nat /\ l < e
  BY <1>7, <1>8, <1>9
<1>11. Cut(s, l) = IF a < l THEN l ELSE a
  <2>1. Holds(s[f], l) <=> a <= l
    BY <1>9, <1>10 DEF Holds
  <2>2. a < l => a <= l
    BY <1>1, <1>10
  <2> QED
    BY <1>6, <1>9, <2>1, <2>2 DEF Cut
(* what the set holds is on the same side of the cut and of the location   *)
<1>12. ASSUME NEW x \in S PROVE x < Cut(s, l) <=> x < l
  <2>1. x \in Nat /\ \E i \in 1 .. Len(s) : Holds(s[i], x)
    BY <1>5, CoveredFacts
  <2>2. PICK i \in 1 .. Len(s) : Holds(s[i], x)
    BY <2>1
  <2>3. s[i].location <= x /\ x < End(s[i])
    BY <2>2 DEF Holds
  <2>4. CASE a < l
    BY <1>11, <2>4
  <2>5. CASE ~ (a < l)
    <3>1. Cut(s, l) = a /\ l <= a
      BY <1>1, <1>10, <1>11, <2>5
    <3>2. CASE i < f
      <4>1. End(s[i]) <= l /\ End(s[i]) \in Nat
        BY <1>7, <1>8, <3>2
      <4>2. x < l
        BY <1>1, <2>1, <2>3, <4>1
      <4> QED
        BY <1>1, <1>10, <2>1, <3>1, <4>2
    <3>3. CASE f <= i
      <4>1. a <= s[i].location /\ s[i].location \in Nat
        BY <1>5, <1>7, <1>8, <1>9, <3>3, Monotone
      <4>2. a <= x
        BY <1>10, <2>1, <2>3, <4>1
      <4> QED
        BY <1>1, <1>10, <2>1, <3>1, <4>2
    <3> QED
      BY <1>7, <3>2, <3>3
  <2> QED
    BY <2>4, <2>5
<1>13. Cut(s, l) \in Nat
  BY <1>1, <1>10, <1>11
<1> HIDE DEF S
<1>14. Abstract!Moved(S, Cut(s, l), d) = Abstract!Moved(S, l, d)
  <2>1. PICK cut \in Nat : cut = Cut(s, l)
    BY <1>13
  <2>2. \A x \in S : x \in Nat /\ (x < cut <=> x < l)
    BY <1>2, <1>12, <2>1 DEF Location
  <2>3. \A x \in S : x >= cut <=> x >= l
    BY <1>1, <2>2
  <2>4. {x \in S : x < cut} = {x \in S : x < l} /\ {x \in S : x >= cut} = {x \in S : x >= l}
    BY <2>2, <2>3
  <2> QED
    BY <2>1, <2>4 DEF Abstract!Moved
<1> QED
  BY <1>4, <1>14 DEF q, S, Sound

LEMMA StillFacts ==
    ASSUME NEW p, Sound(p), NEW l \in Location
    PROVE  /\ Shifted(p, l, 0) = p
           /\ Abstract!Moved(Covered(p.ranges), l, 0) = Covered(p.ranges)
<1>1. Shifted(p, l, 0) = p
  BY DEF Shifted
<1>2. PICK S : S = Covered(p.ranges)
  OBVIOUS
<1>3. S \subseteq Location /\ \A x \in S : x \in Nat /\ x + 0 = x
  BY <1>2, HeldFacts DEF Location
<1>4. l \in Nat
  BY DEF Location
<1>5. \A x \in S : x < l \/ x >= l
  BY <1>3, <1>4
<1>6. Abstract!Moved(S, l, 0) = S
  BY <1>3, <1>5 DEF Abstract!Moved, Abstract!Location, Location
<1> QED
  BY <1>1, <1>2, <1>6

LEMMA InvShift == RangesetInv => ShiftExact
<1> SUFFICES ASSUME RangesetInv PROVE ShiftExact
  OBVIOUS
<1> DEFINE p == [ranges |-> Ranges, size |-> Len(Ranges), static |-> FALSE]
<1>1. Ranges \in RangeSeq /\ InOrder(Ranges)
  BY NoPiece, SoundFacts DEF Ranges, RangesetInv
<1>2. Sound(p) /\ p.ranges = Ranges
  <2>1. Len(Ranges) \in Nat /\ Len(Ranges) <= Len(Ranges)
    BY <1>1, SeqFacts
  <2> QED
    BY <1>1, <2>1 DEF Sound, State
<1> HIDE DEF p
<1>3. ASSUME NEW l \in Location, NEW delta \in -LocationMax .. LocationMax,
             NEW s, s = ShiftClears(p, l, delta).ranges, s # <<>>, Ranges # <<>>,
             l < End(s[NearestIndex(s, l)]),
             \A x \in Covered(Ranges) : /\ delta > 0 => x <= LocationMax - delta
                                        /\ delta < 0 => x < l + delta \/ x >= l
      PROVE  /\ InOrder(Shifted(p, l, delta).ranges)
             /\ Covered(Shifted(p, l, delta).ranges) =
                    Abstract!Moved(Covered(Ranges), l, delta)
  <2>1. LocationMax \in Nat /\ delta \in Int /\ l \in Nat
        /\ -LocationMax <= delta /\ delta <= LocationMax
    BY RangesAssumption DEF Location
  <2>2. CASE delta > 0
    <3>1. delta \in 1 .. LocationMax
      BY <2>1, <2>2
    <3> QED
      BY <1>2, <1>3, <2>2, <3>1, UpFacts
  <2>3. CASE delta = 0
    BY <1>1, <1>2, <2>3, StillFacts
  <2>4. CASE delta < 0
    <3>1. PICK d \in 1 .. LocationMax : delta = -d
      <4>1. -delta \in 1 .. LocationMax /\ delta = -(-delta)
        BY <2>1, <2>4
      <4> QED
        BY <4>1
    <3>2. \A x \in Covered(Ranges) : x < l - d \/ x >= l
      <4>1. l + delta = l - d
        BY <2>1, <3>1
      <4> QED
        BY <1>3, <2>4, <4>1
    <3> QED
      BY <1>2, <1>3, <3>1, <3>2, DownFacts
  <2> QED
    BY <2>1, <2>2, <2>3, <2>4
<1>4. ASSUME NEW r, NEW l, r > l PROVE l < r
  BY <1>4
<1> QED
  BY <1>3, <1>4 DEF ShiftExact, p

(* In every set that can come about, whatever the distance, up or down: if *)
(* no lower range is nearest and what moves has room, a shift moves the    *)
(* locations from the given one on and no other, and keeps the order.      *)
THEOREM AlwaysShiftsExactly ==
    ASSUME Deltas \subseteq Nat
    PROVE  Spec => []ShiftExact
<1>1. RangesetInv => ShiftExact
  BY InvShift
<1> QED
  BY <1>1, RangesetInvariant, PTL
=============================================================================
