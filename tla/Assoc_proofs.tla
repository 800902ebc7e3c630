----------------------------- MODULE Assoc_proofs -----------------------------
(***************************************************************************)
(* Proofs about Assocs, for every set of assocs, of keys and of values and *)
(* for every set of compare functions: the order of sorted pairs, the      *)
(* ownership of keys and values, and the implementation of PairBag.        *)
(***************************************************************************)
EXTENDS Assocs, NumberFacts, SequenceTheorems, FiniteSetTheorems, TLAPS

Pairs == [key : Key, value : Value]

(* A record with the fields of an assoc.  Nothing is said of its size.     *)
IsAssoc(a) ==
    a \in [pairs : Seq(Pairs), size : {a.size}, sorted : BOOLEAN, compare : DOMAIN Order]

IsGood(a) == IsAssoc(a) /\ (a.sorted => InOrder(a.pairs, Order[a.compare]))

(* The inductive invariant                                                 *)
AInv ==
    /\ DOMAIN assocs = Id
    /\ \A i \in Live : IsGood(assocs[i])

-----------------------------------------------------------------------------
(* Ranges and what they take and leave *)

(* A range that is validated lies within the items.                        *)
LEMMA ValidatedWithin ==
    ASSUME NEW n \in Nat, NEW r, r.location \in Nat, r.length \in Nat \cup {All}
    PROVE  /\ Validated(r, n).location \in Nat
           /\ Validated(r, n).length \in Nat
           /\ Validated(r, n).location + Validated(r, n).length <= n
BY DEF Validated, Make, All

LEMMA SliceType ==
    ASSUME NEW S, NEW s \in Seq(S), NEW r, r.location \in Nat, r.length \in Nat,
           r.location + r.length <= Len(s)
    PROVE  Slice(s, r) \in Seq(S)
BY SubSeqProperties DEF Slice

(* What is left without a range: which item, of which former place         *)
LEMMA WithoutItems ==
    ASSUME NEW S, NEW s \in Seq(S), NEW r, r.location \in Nat, r.length \in Nat,
           r.location + r.length <= Len(s)
    PROVE  /\ Without(s, r) \in Seq(S)
           /\ Len(Without(s, r)) = Len(s) - r.length
           /\ \A i \in DOMAIN Without(s, r) :
                 Without(s, r)[i] = s[IF i <= r.location THEN i ELSE i + r.length]
<1> DEFINE head == SubSeq(s, 1, r.location)
           tail == SubSeq(s, r.location + r.length + 1, Len(s))
<1>1. /\ head \in Seq(S) /\ Len(head) = r.location
      /\ \A i \in 1 .. r.location : head[i] = s[i]
  BY SubSeqProperties
<1>2. /\ tail \in Seq(S) /\ Len(tail) = Len(s) - (r.location + r.length)
      /\ \A i \in 1 .. Len(tail) : tail[i] = s[r.location + r.length + i]
  <2> DEFINE from == r.location + r.length + 1
  <2>1. from \in Int /\ Len(s) \in Int /\ \A i \in from .. Len(s) : s[i] \in S
    OBVIOUS
  <2>2. /\ SubSeq(s, from, Len(s)) \in Seq(S)
        /\ Len(SubSeq(s, from, Len(s))) = IF from <= Len(s) THEN Len(s) - from + 1 ELSE 0
        /\ \A i \in 1 .. Len(s) - from + 1 : SubSeq(s, from, Len(s))[i] = s[from + i - 1]
    <3> HIDE DEF from
    <3> QED
      BY <2>1, SubSeqProperties
  <2> QED
    BY <2>2
<1> HIDE DEF head, tail
<1>3. /\ head \o tail \in Seq(S)
      /\ Len(head \o tail) = Len(head) + Len(tail)
      /\ \A i \in 1 .. Len(head) + Len(tail) :
            (head \o tail)[i] = IF i <= Len(head) THEN head[i] ELSE tail[i - Len(head)]
  BY <1>1, <1>2, ConcatProperties
<1>4. Without(s, r) = head \o tail
  BY DEF Without, head, tail
<1>5. DOMAIN (head \o tail) = 1 .. Len(head) + Len(tail)
  BY <1>3
<1>6. \A i \in DOMAIN (head \o tail) :
         (head \o tail)[i] = s[IF i <= r.location THEN i ELSE i + r.length]
  <2> SUFFICES ASSUME NEW i \in DOMAIN (head \o tail)
               PROVE  (head \o tail)[i] = s[IF i <= r.location THEN i ELSE i + r.length]
    OBVIOUS
  <2>1. CASE i <= r.location
    BY <2>1, <1>1, <1>2, <1>3, <1>5
  <2>2. CASE ~ (i <= r.location)
    <3>1. i - Len(head) \in 1 .. Len(tail) /\ r.location + r.length + (i - Len(head)) = i + r.length
      BY <2>2, <1>1, <1>2, <1>5
    <3> QED
      BY <2>2, <3>1, <1>1, <1>2, <1>3, <1>5
  <2> QED
    BY <2>1, <2>2
<1> QED
  BY <1>1, <1>2, <1>3, <1>4, <1>6

LEMMA WithoutInOrder ==
    ASSUME NEW S, NEW s \in Seq(S), NEW r, r.location \in Nat, r.length \in Nat,
           r.location + r.length <= Len(s), NEW rank, InOrder(s, rank)
    PROVE  InOrder(Without(s, r), rank)
<1> DEFINE w    == Without(s, r)
           g(i) == IF i <= r.location THEN i ELSE i + r.length
<1>0. /\ w \in Seq(S) /\ Len(w) = Len(s) - r.length
      /\ \A i \in DOMAIN w : w[i] = s[g(i)]
  BY WithoutItems
<1> HIDE DEF w
<1>1. DOMAIN w = 1 .. Len(s) - r.length
  BY <1>0
<1>2. \A i \in DOMAIN w : w[i] = s[g(i)] /\ g(i) \in DOMAIN s
  BY <1>0, <1>1
<1>3. \A i, j \in DOMAIN w : i < j => g(i) < g(j)
  BY <1>1
<1> HIDE DEF g
<1>4. InOrder(w, rank)
  BY <1>2, <1>3 DEF InOrder
<1> QED
  BY <1>4 DEF w
-----------------------------------------------------------------------------
(* What the operators on one assoc leave *)

LEMMA UnsortedGood ==
    ASSUME NEW a, IsAssoc(a)
    PROVE  IsGood(Unsorted(a)) /\ Unsorted(a).pairs = a.pairs
BY DEF IsGood, IsAssoc, Unsorted

LEMMA NewPairs ==
    ASSUME NEW a, IsAssoc(a), NEW s \in Seq(Pairs)
    PROVE  IsAssoc([a EXCEPT !.pairs = s])
BY DEF IsAssoc

LEMMA ReallocKeeps ==
    ASSUME NEW a, IsAssoc(a), NEW n
    PROVE  IsAssoc(ReallocPairs(a, n)) /\ ReallocPairs(a, n).pairs = a.pairs
BY DEF IsAssoc, ReallocPairs

LEMMA GuaranteeKeeps ==
    ASSUME NEW a, IsAssoc(a), NEW n
    PROVE  IsAssoc(GuaranteePairs(a, n)) /\ GuaranteePairs(a, n).pairs = a.pairs
BY ReallocKeeps DEF GuaranteePairs

LEMMA AddPairKeeps ==
    ASSUME NEW a, IsAssoc(a), NEW p \in Pairs
    PROVE  IsAssoc(AddPair(a, p)) /\ IsAssoc(AddGuaranteedPair(a, p))
<1> DEFINE roomy == IF IsFull(a) THEN GrowPairs(a) ELSE a
<1>1. IsAssoc(roomy)
  BY ReallocKeeps DEF GrowPairs
<1> HIDE DEF roomy
<1>2. \A b : IsAssoc(b) => Append(b.pairs, p) \in Seq(Pairs)
  BY DEF IsAssoc
<1>3. \A b : IsAssoc(b) => IsAssoc(AddGuaranteedPair(b, p))
  BY <1>2, NewPairs DEF AddGuaranteedPair
<1>4. AddPair(a, p) = AddGuaranteedPair(roomy, p)
  BY DEF AddPair, roomy
<1> QED
  BY <1>1, <1>3, <1>4

LEMMA AddPairsKeeps ==
    ASSUME NEW a, IsAssoc(a), NEW ps \in Seq(Pairs)
    PROVE  IsAssoc(AddPairs(a, ps))
<1> DEFINE needed == PairCount(a) + Len(ps)
           roomy  == IF needed > a.size THEN ReallocPairs(a, Max2(needed, 2 * a.size)) ELSE a
<1>1. IsAssoc(roomy)
  BY ReallocKeeps
<1>2. AddPairs(a, ps) = [roomy EXCEPT !.pairs = @ \o ps]
  BY DEF AddPairs
<1> HIDE DEF roomy
<1>3. roomy.pairs \o ps \in Seq(Pairs)
  <2>1. roomy.pairs \in Seq(Pairs)
    BY <1>1 DEF IsAssoc
  <2> QED
    BY <2>1, ConcatProperties
<1> QED
  BY <1>1, <1>2, <1>3, NewPairs

LEMMA SetPairKeeps ==
    ASSUME NEW a, IsAssoc(a), NEW i, NEW p \in Pairs
    PROVE  IsAssoc(SetPair(a, i, p))
<1>1. [a.pairs EXCEPT ![i + 1] = p] \in Seq(Pairs)
  <2>1. a.pairs \in Seq(Pairs)
    BY DEF IsAssoc
  <2>2. a.pairs \in [1 .. Len(a.pairs) -> Pairs] /\ Len(a.pairs) \in Nat
    BY <2>1
  <2>3. [a.pairs EXCEPT ![i + 1] = p] \in [1 .. Len(a.pairs) -> Pairs]
    BY <2>2
  <2> QED
    BY <2>2, <2>3
<1> QED
  BY <1>1, NewPairs DEF SetPair

LEMMA ResetGood ==
    ASSUME NEW a, IsAssoc(a)
    PROVE  IsGood(ResetPairs(a))
<1>1. IsAssoc(ResetPairs(a))
  <2>1. <<>> \in Seq(Pairs)
    OBVIOUS
  <2> QED
    BY <2>1, NewPairs DEF ResetPairs
<1>2. ResetPairs(a).pairs = <<>>
  BY DEF IsAssoc, ResetPairs
<1>3. \A rank : InOrder(<<>>, rank)
  BY DEF InOrder
<1> QED
  BY <1>1, <1>2, <1>3 DEF IsGood

LEMMA PopPairKeeps ==
    ASSUME NEW a, IsAssoc(a)
    PROVE  IsAssoc(PopPair(a)) /\ (IsGood(a) => IsGood(PopPair(a)))
<1> DEFINE s == SubSeq(a.pairs, 1, PairCount(a) - 1)
<1>1. a.pairs \in Seq(Pairs)
  BY DEF IsAssoc
<1>2. CASE a.pairs = <<>>
  BY <1>2 DEF PopPair
<1>3. CASE a.pairs # <<>>
  <2>1. Len(a.pairs) \in Nat \ {0}
    BY <1>1, <1>3
  <2>2. /\ s \in Seq(Pairs)
        /\ Len(s) = Len(a.pairs) - 1
        /\ \A i \in 1 .. Len(s) : s[i] = a.pairs[i]
    BY <1>1, <2>1, SubSeqProperties DEF PairCount
  <2> HIDE DEF s
  <2>3. ASSUME NEW rank, InOrder(a.pairs, rank)
        PROVE  InOrder(s, rank)
    <3>1. \A i \in DOMAIN s : i \in DOMAIN a.pairs /\ s[i] = a.pairs[i]
      BY <1>1, <2>1, <2>2
    <3> QED
      BY <2>3, <3>1 DEF InOrder
  <2>4. PopPair(a) = [a EXCEPT !.pairs = s]
    BY <1>3 DEF PopPair, s
  <2>5. IsAssoc(PopPair(a))
    BY <2>2, <2>4, NewPairs
  <2>6. /\ PopPair(a).pairs = s /\ PopPair(a).sorted = a.sorted
        /\ PopPair(a).compare = a.compare
    BY <2>4 DEF IsAssoc
  <2> QED
    BY <2>3, <2>5, <2>6 DEF IsGood
<1> QED
  BY <1>2, <1>3

(* A range of a good assoc goes: what is left is good.                     *)
LEMMA RemoveRangeGood ==
    ASSUME NEW a, IsGood(a), NEW r, r.location \in Nat, r.length \in Nat \cup {All}
    PROVE  IsGood(RemovePairsInRange(a, r))
<1> DEFINE v == Validated(r, Len(a.pairs))
           s == Without(a.pairs, v)
<1>1. a.pairs \in Seq(Pairs) /\ Len(a.pairs) \in Nat
  BY DEF IsGood, IsAssoc
<1>2. v.location \in Nat /\ v.length \in Nat /\ v.location + v.length <= Len(a.pairs)
  BY <1>1, ValidatedWithin
<1> HIDE DEF v
<1>3. s \in Seq(Pairs)
  BY <1>1, <1>2, WithoutItems
<1>4. \A rank : InOrder(a.pairs, rank) => InOrder(s, rank)
  BY <1>1, <1>2, WithoutInOrder
<1>5. RemovePairsInRange(a, r) = [a EXCEPT !.pairs = s]
  BY DEF RemovePairsInRange, PairCount, v
<1> HIDE DEF s
<1>6. IsAssoc(RemovePairsInRange(a, r))
  BY <1>3, <1>5, NewPairs DEF IsGood
<1>7. /\ RemovePairsInRange(a, r).pairs = s
      /\ RemovePairsInRange(a, r).sorted = a.sorted
      /\ RemovePairsInRange(a, r).compare = a.compare
  BY <1>5 DEF IsGood, IsAssoc
<1> QED
  BY <1>4, <1>6, <1>7 DEF IsGood

LEMMA SliceOfPairs ==
    ASSUME NEW a, IsAssoc(a), NEW r, r.location \in Nat, r.length \in Nat \cup {All}
    PROVE  GetPairsInRange(a, r) \in Seq(Pairs)
<1> DEFINE v == Validated(r, Len(a.pairs))
<1>1. a.pairs \in Seq(Pairs) /\ Len(a.pairs) \in Nat
  BY DEF IsAssoc
<1>2. v.location \in Nat /\ v.length \in Nat /\ v.location + v.length <= Len(a.pairs)
  BY <1>1, ValidatedWithin
<1> HIDE DEF v
<1>3. Slice(a.pairs, v) \in Seq(Pairs)
  BY <1>1, <1>2, SliceType
<1> QED
  BY <1>3 DEF GetPairsInRange, PairCount, v

(* qsort leaves the pairs in order and any assoc of them good.             *)
LEMMA QsortByGood ==
    ASSUME NEW a, IsAssoc(a), NEW b \in QsortBy(a, Order[a.compare])
    PROVE  IsGood(b) /\ b.sorted = TRUE /\ b.compare = a.compare
<1>1. PICK s \in PairSortings(a.pairs, Order[a.compare]) :
         b = [a EXCEPT !.pairs = s, !.sorted = TRUE]
  BY DEF QsortBy
<1>2. InOrder(s, Order[a.compare])
  BY <1>1 DEF PairSortings
<1>3. a.pairs \in Seq(Pairs)
  BY DEF IsAssoc
<1>4. PICK f \in [DOMAIN a.pairs -> DOMAIN a.pairs] : s = [i \in DOMAIN a.pairs |-> a.pairs[f[i]]]
  BY <1>1 DEF PairSortings
<1>5. s \in Seq(Pairs)
  <2>1. Len(a.pairs) \in Nat /\ DOMAIN a.pairs = 1 .. Len(a.pairs)
    BY <1>3
  <2>2. \A i \in DOMAIN a.pairs : a.pairs[f[i]] \in Pairs
    BY <1>3, <1>4
  <2>3. s \in [1 .. Len(a.pairs) -> Pairs]
    BY <1>4, <2>1, <2>2
  <2> QED
    BY <2>1, <2>3
<1>6. b.pairs = s /\ b.sorted = TRUE /\ b.compare = a.compare /\ IsAssoc(b)
  BY <1>1, <1>5 DEF IsAssoc
<1> QED
  BY <1>2, <1>6 DEF IsGood

(* Whoever needs the order has it afterwards.                              *)
LEMMA SortedIfNeeded ==
    ASSUME AInv, NEW id \in Live, NEW a \in QsortIfNeeded(id)
    PROVE  IsGood(a) /\ a.sorted = TRUE
<1>1. IsGood(assocs[id])
  BY DEF AInv
<1>2. CASE IsSorted(id)
  BY <1>1, <1>2 DEF QsortIfNeeded, IsSorted, IsGood, IsAssoc
<1>3. CASE ~ IsSorted(id)
  BY <1>1, <1>3, QsortByGood DEF QsortIfNeeded, Rank, IsGood
<1> QED
  BY <1>2, <1>3

-----------------------------------------------------------------------------
(* Every action keeps the invariant. *)

LEMMA PutInv ==
    ASSUME AInv, NEW id \in Id, NEW a, a = None \/ IsGood(a), Put(id, a), UNCHANGED kind
    PROVE  AInv'
<1>1. Pairs' = Pairs
  BY DEF Pairs, Key
<1>2. /\ DOMAIN assocs' = Id
      /\ assocs'[id] = a
      /\ \A i \in Id : i # id => assocs'[i] = assocs[i]
  BY DEF AInv, Put
<1>3. \A i \in Id : assocs'[i] # None => IsGood(assocs'[i])
  BY <1>2 DEF AInv, Live
<1>4. (\A i \in Live : IsGood(assocs[i]))'
  BY <1>1, <1>3 DEF IsGood, IsAssoc, Live
<1> QED
  BY <1>2, <1>4 DEF AInv

LEMMA ChangeInv ==
    ASSUME AInv, NEW id \in Id, NEW a, a = None \/ IsGood(a), NEW rs, Change(id, a, rs)
    PROVE  AInv'
BY PutInv DEF Change

LEMMA AnswerInv ==
    ASSUME AInv, NEW id \in Id, NEW a, IsGood(a), NEW result, Answer(id, a, result)
    PROVE  AInv'
BY PutInv DEF Answer

LEMMA InitAssocInv ==
    ASSUME AInv, NEW id \in Id, NEW n, NEW c \in DOMAIN Order, InitAssoc(id, n, c)
    PROVE  AInv'
<1> DEFINE a == [pairs |-> <<>>, size |-> n, sorted |-> FALSE, compare |-> c]
<1>1. IsGood(a)
  BY DEF IsGood, IsAssoc
<1>2. Put(id, a) /\ UNCHANGED kind
  BY DEF InitAssoc
<1> QED
  BY <1>1, <1>2, PutInv

LEMMA CopyAssocInv ==
    ASSUME AInv, NEW id \in Id, NEW other \in Live, CopyAssoc(id, other)
    PROVE  AInv'
<1> DEFINE src == assocs[other]
           dst == [src EXCEPT !.pairs = <<>>, !.size = PairCount(src), !.sorted = FALSE]
           big == GuaranteePairs(dst, PairCount(src))
<1>1. IsGood(src) /\ src.pairs \in Seq(Pairs)
  BY DEF AInv, IsGood, IsAssoc
<1>2. Put(id, CopyItems(dst, src)) /\ UNCHANGED kind
  BY DEF CopyAssoc
<1> HIDE DEF src
<1>3. IsGood(dst)
  <2>1. <<>> \in Seq(Pairs)
    OBVIOUS
  <2> QED
    BY <1>1, <2>1 DEF IsGood, IsAssoc
<1> HIDE DEF dst
<1>4. IsAssoc(big) /\ big.pairs \in Seq(Pairs)
  BY <1>3, GuaranteeKeeps DEF IsGood, IsAssoc
<1> HIDE DEF big
<1>5. IsGood(Unsorted([big EXCEPT !.pairs = @ \o src.pairs]))
  <2>1. big.pairs \o src.pairs \in Seq(Pairs)
    BY <1>1, <1>4, ConcatProperties
  <2> QED
    BY <1>4, <2>1, NewPairs, UnsortedGood
<1>6. IsGood(CopyItems(dst, src))
  BY <1>3, <1>5 DEF CopyItems, big
<1> QED
  BY <1>2, <1>6, PutInv

LEMMA ResetAssocInv ==
    ASSUME AInv, NEW id \in Live, ResetAssoc(id)
    PROVE  AInv'
<1>1. IsGood(assocs[id])
  BY DEF AInv
<1>2. IsGood(ResetPairs(assocs[id]))
  BY <1>1, ResetGood DEF IsGood
<1> QED
  BY <1>2, ChangeInv DEF ResetAssoc, Live

LEMMA SetCompareInv ==
    ASSUME AInv, NEW id \in Live, NEW c \in DOMAIN Order, SetCompare(id, c)
    PROVE  AInv'
<1>1. IsGood(assocs[id])
  BY DEF AInv
<1>2. IsAssoc([assocs[id] EXCEPT !.compare = c])
  BY <1>1 DEF IsGood, IsAssoc
<1> QED
  BY <1>2, UnsortedGood, ChangeInv DEF SetCompare, Live

LEMMA AddKeyInv ==
    ASSUME AInv, NEW id \in Live, NEW k \in Key, NEW v \in Value,
           AddKey(id, k, v) \/ AddKeyGuaranteed(id, k, v)
    PROVE  AInv'
<1>1. IsAssoc(assocs[id])
  BY DEF AInv, IsGood
<1>2. Pair(k, v) \in Pairs
  BY DEF Pair, Pairs
<1>3. /\ IsGood(Unsorted(AddPair(assocs[id], Pair(k, v))))
      /\ IsGood(Unsorted(AddGuaranteedPair(assocs[id], Pair(k, v))))
  BY <1>1, <1>2, AddPairKeeps, UnsortedGood
<1> QED
  BY <1>3, ChangeInv DEF AddKey, AddKeyGuaranteed, Live

LEMMA SetKeyInv ==
    ASSUME AInv, NEW id \in Live, NEW k \in Key, NEW v \in Value, SetKey(id, k, v)
    PROVE  AInv'
<1> DEFINE new       == Pair(k, v)
           set(a, i) == Unsorted(IF i = NotFound THEN AddPair(a, new) ELSE SetPair(a, i, new))
<1>1. PICK a \in QsortIfNeeded(id) : \E rs : \E i : Change(id, set(a, i), rs)
  BY DEF SetKey
<1>2. new \in Pairs
  BY DEF Pair, Pairs
<1>3. \A i : IsGood(set(a, i))
  BY <1>2, SortedIfNeeded, AddPairKeeps, SetPairKeeps, UnsortedGood DEF IsGood
<1> HIDE DEF set
<1> QED
  BY <1>1, <1>3, ChangeInv DEF Live

LEMMA SetAtIndexInv ==
    ASSUME AInv, NEW id \in Live, NEW i, NEW k \in Key, NEW v \in Value, SetAtIndex(id, i, k, v)
    PROVE  AInv'
<1>1. PICK a \in QsortIfNeeded(id) :
         \E rs : Change(id, Unsorted(SetPair(a, i, Pair(k, v))), rs)
  BY DEF SetAtIndex
<1>2. IsAssoc(a)
  BY SortedIfNeeded DEF IsGood
<1>3. Pair(k, v) \in Pairs
  BY DEF Pair, Pairs
<1>4. IsGood(Unsorted(SetPair(a, i, Pair(k, v))))
  BY <1>2, <1>3, SetPairKeeps, UnsortedGood
<1> QED
  BY <1>1, <1>4, ChangeInv DEF Live

LEMMA AddAssocRangeInv ==
    ASSUME AInv, NEW id \in Live, NEW other \in Live, NEW r \in Ranges(other),
           AddAssocRange(id, other, r)
    PROVE  AInv'
<1> DEFINE q    == GetPairsInRange(assocs[other], r)
           news == {n \in DOMAIN q : /\ ~ MemberKey(id, q[n].key)
                                     /\ \A m \in 1 .. n - 1 : Class[q[m].key] # Class[q[n].key]}
           new(f) == [i \in DOMAIN f |-> q[f[i]]]
<1>1. PICK f \in [1 .. Cardinality(news) -> news] :
         \E rs : Change(id, IF q = <<>> THEN assocs[id] ELSE Unsorted(AddPairs(assocs[id], new(f))), rs)
  BY DEF AddAssocRange
<1>2. IsGood(assocs[id]) /\ IsAssoc(assocs[other])
  BY DEF AInv, IsGood
<1>3. r.location \in Nat /\ r.length \in Nat \cup {All}
  <2>1. Count(other) \in Nat
    BY <1>2 DEF Count, PairCount, IsAssoc
  <2> QED
    BY <2>1 DEF Ranges, All
<1>4. q \in Seq(Pairs)
  BY <1>2, <1>3, SliceOfPairs
<1> HIDE DEF q
<1>5. Cardinality(news) \in Nat /\ news \subseteq DOMAIN q
  <2>1. IsFiniteSet(1 .. Len(q)) /\ DOMAIN q = 1 .. Len(q)
    BY <1>4, FS_Interval
  <2>2. news \subseteq 1 .. Len(q)
    BY <2>1
  <2> HIDE DEF news
  <2> QED
    BY <2>1, <2>2, FS_Subset, FS_CardinalityType
<1> HIDE DEF news
<1>6. new(f) \in Seq(Pairs)
  <2>1. DOMAIN f = 1 .. Cardinality(news) /\ \A i \in DOMAIN f : q[f[i]] \in Pairs
    BY <1>4, <1>5
  <2>2. new(f) \in [1 .. Cardinality(news) -> Pairs]
    BY <2>1
  <2> QED
    BY <1>5, <2>2
<1> HIDE DEF new
<1>7. IsGood(Unsorted(AddPairs(assocs[id], new(f))))
  BY <1>2, <1>6, AddPairsKeeps, UnsortedGood DEF IsGood
<1> QED
  BY <1>1, <1>2, <1>7, ChangeInv DEF Live

LEMMA RemoveRangeInv ==
    ASSUME AInv, NEW id \in Live, NEW a, IsGood(a), NEW r,
           r.location \in Nat, r.length \in Nat \cup {All}, RemoveRange(id, a, r)
    PROVE  AInv'
BY RemoveRangeGood, ChangeInv DEF RemoveRange, Live

LEMMA RemoveInRangeInv ==
    ASSUME AInv, NEW id \in Live, NEW r \in Ranges(id), RemoveInRange(id, r)
    PROVE  AInv'
<1>1. IsGood(assocs[id])
  BY DEF AInv
<1>2. r.location \in Nat /\ r.length \in Nat \cup {All}
  <2>1. Count(id) \in Nat
    BY <1>1 DEF Count, PairCount, IsGood, IsAssoc
  <2> QED
    BY <2>1 DEF Ranges, All
<1> QED
  BY <1>1, <1>2, RemoveRangeInv DEF RemoveInRange

LEMMA RemoveKeyInv ==
    ASSUME AInv, NEW id \in Live, NEW k, RemoveKey(id, k)
    PROVE  AInv'
<1>1. PICK a \in QsortIfNeeded(id) :
         LET hit == Bsearch(a.pairs, k, Rank(id))
             end == PairCount(a) - 1
         IN  \/ Answer(id, a, None)
             \/ \E first, last \in 0 .. end :
                   hit \in first .. last /\ RemoveRange(id, a, Make(first, last + 1 - first))
  BY DEF RemoveKey
<1>2. IsGood(a)
  BY SortedIfNeeded
<1>3. CASE Answer(id, a, None)
  BY <1>2, <1>3, AnswerInv DEF Live
<1>4. CASE ~ Answer(id, a, None)
  <2>1. PairCount(a) - 1 \in Int
    BY <1>2 DEF PairCount, IsGood, IsAssoc
  <2>2. PICK first, last \in 0 .. PairCount(a) - 1 :
           first <= last /\ RemoveRange(id, a, Make(first, last + 1 - first))
    BY <1>1, <1>4, <2>1
  <2> DEFINE r == Make(first, last + 1 - first)
  <2>3. r.location \in Nat /\ r.length \in Nat \cup {All}
    BY <2>1, <2>2 DEF Make
  <2> HIDE DEF r
  <2>4. RemoveRange(id, a, r)
    BY <2>2 DEF r
  <2> QED
    BY <1>2, <2>3, <2>4, RemoveRangeInv
<1> QED
  BY <1>3, <1>4

LEMMA RemoveLastInv ==
    ASSUME AInv, NEW id \in Live, RemoveLast(id)
    PROVE  AInv'
<1>1. IsGood(assocs[id])
  BY DEF AInv
<1> QED
  BY <1>1, PopPairKeeps, ChangeInv DEF RemoveLast, Live, IsGood

(* A search at most sorts.                                                 *)
LEMMA SearchInv ==
    ASSUME AInv, NEW id \in Live,
           \/ \E k : \/ GetKey(id, k) \/ FindKey(id, k) \/ FindKeyByCompare(id, k)
                     \/ Member(id, k)
           \/ \E k, r : FindInRange(id, k, r)
           \/ \E i : GetAtIndex(id, i)
           \/ GetLast(id)
           \/ \E r : GetInRange(id, r)
    PROVE  AInv'
<1>1. \/ \E result : Answer(id, assocs[id], result)
      \/ \E a \in QsortIfNeeded(id) : \E result : Answer(id, a, result)
  BY DEF GetKey, FindKey, FindKeyByCompare, Member, FindInRange, GetAtIndex, GetLast, GetInRange
<1>2. PICK a : IsGood(a) /\ \E result : Answer(id, a, result)
  BY <1>1, SortedIfNeeded DEF AInv
<1> QED
  BY <1>2, AnswerInv DEF Live

LEMMA IsEqualInv ==
    ASSUME AInv, NEW id \in Live, NEW other \in Live, IsEqual(id, other)
    PROVE  AInv'
<1>1. CASE UNCHANGED assocs
  <2>1. UNCHANGED kind
    BY DEF IsEqual
  <2> QED
    BY <1>1, <2>1 DEF AInv, Live, IsGood, IsAssoc, Pairs, Key, InOrder
<1>2. CASE ~ UNCHANGED assocs
  <2>1. /\ id # other /\ UNCHANGED kind
        /\ \E a \in QsortIfNeeded(id), b \in QsortIfNeeded(other) :
              assocs' = [assocs EXCEPT ![id] = a, ![other] = b]
    BY <1>2 DEF IsEqual
  <2>2. PICK a, b : /\ IsGood(a) /\ IsGood(b)
                    /\ assocs' = [assocs EXCEPT ![id] = a, ![other] = b]
    BY <2>1, SortedIfNeeded
  <2>3. DOMAIN assocs' = Id
    BY <2>2 DEF AInv
  <2>4. \A i \in Id : assocs'[i] # None => IsGood(assocs'[i])
    BY <2>1, <2>2 DEF AInv, Live
  <2>5. Pairs' = Pairs
    BY <2>1 DEF Pairs, Key
  <2>6. (\A i \in Live : IsGood(assocs[i]))'
    BY <2>4, <2>5 DEF IsGood, IsAssoc, Live
  <2> QED
    BY <2>3, <2>6 DEF AInv
<1> QED
  BY <1>1, <1>2

(* A loop over the keys leaves pairs of integers.                          *)
LEMMA RekeyedGood ==
    ASSUME NEW a, IsAssoc(a), kind = "intptr", NEW b, InBounds(b),
           NEW s, b = [a EXCEPT !.pairs = s], s = [i \in DOMAIN a.pairs |-> s[i]],
           \A i \in DOMAIN a.pairs : s[i] = a.pairs[i] \/ \E k : s[i] = Pair(k, a.pairs[i].value)
    PROVE  IsGood(Unsorted(b))
<1>1. a.pairs \in Seq(Pairs)
  BY DEF IsAssoc
<1>2. b.pairs = s
  BY DEF IsAssoc
<1>3. \A i \in DOMAIN a.pairs : s[i].key \in Intptr
  BY <1>2 DEF InBounds
<1>4. \A i \in DOMAIN a.pairs : s[i] \in Pairs
  <2> SUFFICES ASSUME NEW i \in DOMAIN a.pairs
               PROVE  s[i] \in Pairs
    OBVIOUS
  <2>1. a.pairs[i] \in Pairs
    BY <1>1
  <2>2. CASE \E k : s[i] = Pair(k, a.pairs[i].value)
    <3>1. PICK k : s[i] = [key |-> k, value |-> a.pairs[i].value]
      BY <2>2 DEF Pair
    <3>2. k \in Key
      BY <1>3, <3>1 DEF Key
    <3> QED
      BY <2>1, <3>1, <3>2 DEF Pairs
  <2> QED
    BY <2>1, <2>2
<1>5. s \in Seq(Pairs)
  <2>1. Len(a.pairs) \in Nat /\ DOMAIN a.pairs = 1 .. Len(a.pairs)
    BY <1>1
  <2>2. s \in [1 .. Len(a.pairs) -> Pairs]
    BY <2>1, <1>4
  <2> QED
    BY <2>1, <2>2
<1> QED
  BY <1>5, NewPairs, UnsortedGood

LEMMA RemapInv ==
    ASSUME AInv, kind = "intptr", NEW id \in Live, NEW range, NEW offset,
           Remap(id, range, offset)
    PROVE  AInv'
<1> DEFINE r        == Validated(range, Count(id))
           start(a) == FindCallback(a.pairs, r.location, Whole(id), Class)
           moved(a) == Rekeyed(a, start(a), LAMBDA k : k < 0 \/ k >= r.location + r.length,
                               LAMBDA k : k + offset)
<1>1. CASE Answer(id, assocs[id], None)
  BY <1>1, AnswerInv DEF AInv, Live
<1>2. CASE \E a \in QsortIfNeeded(id) : Answer(id, a, None)
  BY <1>2, SortedIfNeeded, AnswerInv DEF Live
<1>3. CASE \E a \in QsortIfNeeded(id) :
              InBounds(moved(a)) /\ Change(id, Unsorted(moved(a)), refs)
  <2>1. PICK a \in QsortIfNeeded(id) :
           InBounds(moved(a)) /\ Change(id, Unsorted(moved(a)), refs)
    BY <1>3
  <2>2. IsAssoc(a)
    BY SortedIfNeeded DEF IsGood
  <2> DEFINE s == moved(a).pairs
  <2>3. /\ moved(a) = [a EXCEPT !.pairs = s]
        /\ s = [i \in DOMAIN a.pairs |-> s[i]]
        /\ \A i \in DOMAIN a.pairs :
              s[i] = a.pairs[i] \/ \E k : s[i] = Pair(k, a.pairs[i].value)
    BY <2>2 DEF Rekeyed, IsAssoc
  <2> HIDE DEF moved, s
  <2>4. IsGood(Unsorted(moved(a)))
    BY <2>1, <2>2, <2>3, RekeyedGood
  <2> QED
    BY <2>1, <2>4, ChangeInv DEF Live
<1> QED
  BY <1>1, <1>2, <1>3 DEF Remap

LEMMA MoveToInv ==
    ASSUME AInv, kind = "intptr", NEW id \in Live, NEW range, NEW index,
           MoveTo(id, range, index)
    PROVE  AInv'
<1> DEFINE r        == Validated(range, Count(id))
           offset   == index - r.location
           down     == offset < 0
           away     == IF down THEN Make(index, r.location - index)
                       ELSE Make(r.location + r.length, index + 1 - (r.location + r.length))
           by       == IF down THEN r.length ELSE - r.length
           end      == IF down THEN r.location + r.length - 1 ELSE index + 1
           first    == IF down THEN index ELSE r.location
           start(a) == FindCallback(a.pairs, first, Whole(id), Class)
           moved(a) == Rekeyed(a, start(a), LAMBDA k : k < 0 \/ k > end,
                               LAMBDA k : IF Contains(away, k) THEN k + by ELSE k + offset)
<1>1. CASE Answer(id, assocs[id], None)
  BY <1>1, AnswerInv DEF AInv, Live
<1>2. CASE \E a \in QsortIfNeeded(id) : Answer(id, a, None)
  BY <1>2, SortedIfNeeded, AnswerInv DEF Live
<1>3. CASE \E a \in QsortIfNeeded(id) :
              InBounds(moved(a)) /\ Change(id, Unsorted(moved(a)), refs)
  <2>1. PICK a \in QsortIfNeeded(id) :
           InBounds(moved(a)) /\ Change(id, Unsorted(moved(a)), refs)
    BY <1>3
  <2>2. IsAssoc(a)
    BY SortedIfNeeded DEF IsGood
  <2> DEFINE s == moved(a).pairs
  <2> HIDE DEF r, offset, down, away, by, end, start
  <2>3. /\ moved(a) = [a EXCEPT !.pairs = s]
        /\ s = [i \in DOMAIN a.pairs |-> s[i]]
        /\ \A i \in DOMAIN a.pairs :
              s[i] = a.pairs[i] \/ \E k : s[i] = Pair(k, a.pairs[i].value)
    BY <2>2 DEF Rekeyed, IsAssoc
  <2> HIDE DEF moved, s
  <2>4. IsGood(Unsorted(moved(a)))
    BY <2>1, <2>2, <2>3, RekeyedGood
  <2> QED
    BY <2>1, <2>4, ChangeInv DEF Live
<1> QED
  BY <1>1, <1>2, <1>3 DEF MoveTo

LEMMA EnumerateInv ==
    ASSUME AInv, NEW id \in Live, Enumerate(id)
    PROVE  AInv'
<1>1. PICK a \in QsortIfNeeded(id) : Put(id, a) /\ UNCHANGED kind
  BY DEF Enumerate
<1> QED
  BY <1>1, SortedIfNeeded, PutInv DEF Live

LEMMA SameInv ==
    ASSUME AInv, UNCHANGED <<kind, assocs>>
    PROVE  AInv'
BY DEF AInv, Live, IsGood, IsAssoc, Pairs, Key, InOrder

-----------------------------------------------------------------------------

LEMMA InitInv == Init => AInv
BY DEF Init, AInv, Live

LEMMA NextInv == AInv /\ [Next]_vars => AInv'
<1> SUFFICES ASSUME AInv, [Next]_vars
             PROVE  AInv'
  OBVIOUS
<1>1. ASSUME NEW id \in Id, NEW n \in Capacities, NEW c \in DOMAIN Order, InitAssoc(id, n, c)
      PROVE  AInv'
  BY <1>1, InitAssocInv
<1>2. ASSUME NEW id \in Id, NEW other \in Live, CopyAssoc(id, other)
      PROVE  AInv'
  BY <1>2, CopyAssocInv
<1>3. ASSUME NEW id \in Live, DoneAssoc(id)
      PROVE  AInv'
  BY <1>3, ChangeInv DEF DoneAssoc, Live
<1>4. ASSUME NEW id \in Live, ResetAssoc(id)
      PROVE  AInv'
  BY <1>4, ResetAssocInv
<1>5. ASSUME NEW id \in Live, NEW c \in DOMAIN Order, SetCompare(id, c)
      PROVE  AInv'
  BY <1>5, SetCompareInv
<1>6. ASSUME NEW id \in Live, NEW k \in Key, NEW v \in Value,
             AddKey(id, k, v) \/ AddKeyGuaranteed(id, k, v)
      PROVE  AInv'
  BY <1>6, AddKeyInv
<1>7. ASSUME NEW id \in Live, NEW k \in Key, NEW v \in Value, SetKey(id, k, v)
      PROVE  AInv'
  BY <1>7, SetKeyInv
<1>8. ASSUME NEW id \in Live, NEW k \in Key, NEW v \in Value,
             NEW i \in Indices(id), SetAtIndex(id, i, k, v)
      PROVE  AInv'
  BY <1>8, SetAtIndexInv
<1>9. ASSUME NEW id \in Live, NEW other \in Live, NEW r \in Ranges(other),
             AddAssocRange(id, other, r)
      PROVE  AInv'
  BY <1>9, AddAssocRangeInv
<1>10. ASSUME NEW id \in Live, NEW r \in Ranges(id), RemoveInRange(id, r)
       PROVE  AInv'
  BY <1>10, RemoveInRangeInv
<1>11. ASSUME NEW id \in Live, NEW k \in Key, RemoveKey(id, k)
       PROVE  AInv'
  BY <1>11, RemoveKeyInv
<1>12. ASSUME NEW id \in Live, RemoveLast(id)
       PROVE  AInv'
  BY <1>12, RemoveLastInv
<1>13. ASSUME NEW id \in Live,
              \/ \E k : \/ GetKey(id, k) \/ FindKey(id, k) \/ FindKeyByCompare(id, k)
                        \/ Member(id, k)
              \/ \E k, r : FindInRange(id, k, r)
              \/ \E i : GetAtIndex(id, i)
              \/ GetLast(id)
              \/ \E r : GetInRange(id, r)
       PROVE  AInv'
  BY <1>13, SearchInv
<1>14. ASSUME NEW id \in Live, NEW other \in Live, IsEqual(id, other)
       PROVE  AInv'
  BY <1>14, IsEqualInv
<1>15. ASSUME kind = "intptr", NEW id \in Live,
              \/ \E range, offset : Remap(id, range, offset)
              \/ \E range, index : MoveTo(id, range, index)
       PROVE  AInv'
  BY <1>15, RemapInv, MoveToInv
<1>16. ASSUME NEW id \in Live, Enumerate(id)
       PROVE  AInv'
  BY <1>16, EnumerateInv
<1>17. ASSUME EnumeratorNext \/ UNCHANGED vars
       PROVE  AInv'
  BY <1>17, SameInv DEF EnumeratorNext, vars
<1> QED
  BY <1>1, <1>2, <1>3, <1>4, <1>5, <1>6, <1>7, <1>8, <1>9, <1>10, <1>11, <1>12, <1>13,
     <1>14, <1>15, <1>16, <1>17 DEF Next

(* Whatever is done with assocs, one that calls itself sorted is in the    *)
(* order of its compare function: mulle_assoc_set and the others that      *)
(* bsearch without another look at the pairs find what is there.           *)
THEOREM AssocSortedWhenSearched == Spec => []SortedWhenSearched
<1>1. AInv => SortedWhenSearched
  BY DEF AInv, IsGood, SortedWhenSearched, IsSorted, Rank
<1> QED
  BY <1>1, InitInv, NextInv, PTL DEF Spec

-----------------------------------------------------------------------------
(* bsearch *)

Windows(n) == (0 .. n) \X (-1 .. n - 1)
Middle(w)  == (w[1] + w[2]) \div 2

Probes(s, k, rank) ==
    {w \in Windows(Len(s)) : w[1] > w[2] \/ rank[s[Middle(w) + 1].key] = rank[k]}
Probed(s) ==
    [w \in Windows(Len(s)) |-> IF w[1] > w[2] THEN NotFound ELSE Middle(w)]
Narrowed(s, k, rank) ==
    [w \in Windows(Len(s)) |-> IF rank[s[Middle(w) + 1].key] < rank[k]
                               THEN <<Middle(w) + 1, w[2]>> ELSE <<w[1], Middle(w) - 1>>]
Width(n) == [w \in Windows(n) |-> IF w[1] > w[2] THEN 0 ELSE w[2] - w[1] + 1]

LEMMA WindowFacts ==
    ASSUME NEW n \in Nat, NEW w \in Windows(n)
    PROVE  /\ w = <<w[1], w[2]>> /\ w[1] \in Nat /\ w[2] \in Int
           /\ w[1] <= n /\ -1 <= w[2] /\ w[2] <= n - 1
           /\ w[1] <= w[2] => /\ Middle(w) \in Nat /\ w[1] <= Middle(w) /\ Middle(w) <= w[2]
                              /\ Middle(w) \in 0 .. n - 1
                              /\ <<Middle(w) + 1, w[2]>> \in Windows(n)
                              /\ <<w[1], Middle(w) - 1>> \in Windows(n)
<1>1. PICK a \in 0 .. n, b \in -1 .. n - 1 : w = <<a, b>>
  BY DEF Windows
<1>2. PICK c : c = (a + b) \div 2
  OBVIOUS
<1>3. a <= b => c \in Nat /\ a <= c /\ c <= b
  BY <1>2
<1>4. Middle(w) = c
  BY <1>1, <1>2 DEF Middle
<1>5. a <= b => /\ c \in 0 .. n - 1 /\ c + 1 \in 0 .. n /\ c - 1 \in -1 .. n - 1
  BY <1>3
<1> QED
  BY <1>1, <1>3, <1>4, <1>5 DEF Windows

LEMMA WindowsNarrow ==
    ASSUME NEW S, NEW s \in Seq(S), NEW k, NEW rank
    PROVE  Loops(Windows(Len(s)), Probes(s, k, rank), Narrowed(s, k, rank), Width(Len(s)))
<1>1. PICK n \in Nat : n = Len(s)
  <2>1. Len(s) \in Nat
    OBVIOUS
  <2> QED
    BY <2>1
<1>2. \A w \in Windows(n) : /\ Width(n)[w] \in Nat
                             /\ Width(n)[w] = IF w[1] > w[2] THEN 0 ELSE w[2] - w[1] + 1
  <2> SUFFICES ASSUME NEW w \in Windows(n)
               PROVE  /\ Width(n)[w] \in Nat
                      /\ Width(n)[w] = IF w[1] > w[2] THEN 0 ELSE w[2] - w[1] + 1
    OBVIOUS
  <2>1. w[1] \in Nat /\ w[2] \in Int
    BY WindowFacts
  <2>2. Width(n)[w] = IF w[1] > w[2] THEN 0 ELSE w[2] - w[1] + 1
    BY DEF Width
  <2> QED
    BY <2>1, <2>2
<1>3. ASSUME NEW w \in Windows(n), w \notin Probes(s, k, rank)
      PROVE  /\ Narrowed(s, k, rank)[w] \in Windows(n)
             /\ Width(n)[Narrowed(s, k, rank)[w]] < Width(n)[w]
  <2>1. PICK a, b, c : a = w[1] /\ b = w[2] /\ c = Middle(w)
    OBVIOUS
  <2>2. a <= b
    <3>1. ~ (w[1] > w[2]) /\ w[1] \in Nat /\ w[2] \in Int
      BY <1>1, <1>3, WindowFacts DEF Probes
    <3> QED
      BY <2>1, <3>1
  <2>3. /\ a \in Nat /\ b \in Int /\ c \in Nat /\ a <= c /\ c <= b
        /\ <<c + 1, b>> \in Windows(n) /\ <<a, c - 1>> \in Windows(n)
    BY <2>1, <2>2, WindowFacts
  <2>4. Width(n)[w] = b - a + 1
    BY <1>2, <2>1, <2>2, <2>3
  <2>5. /\ Width(n)[<<c + 1, b>>] = IF c + 1 > b THEN 0 ELSE b - (c + 1) + 1
        /\ Width(n)[<<a, c - 1>>] = IF a > c - 1 THEN 0 ELSE (c - 1) - a + 1
    BY <1>2, <2>3
  <2>6. Narrowed(s, k, rank)[w] = <<c + 1, b>> \/ Narrowed(s, k, rank)[w] = <<a, c - 1>>
    BY <1>1, <2>1 DEF Narrowed
  <2>7. Width(n)[<<c + 1, b>>] < b - a + 1 /\ Width(n)[<<a, c - 1>>] < b - a + 1
    BY <2>3, <2>5
  <2> QED
    BY <2>3, <2>4, <2>6, <2>7
<1>4. Width(n) \in [Windows(n) -> Nat]
  BY <1>2 DEF Width
<1> QED
  BY <1>1, <1>3, <1>4 DEF Loops

LEMMA BsearchReturns ==
    ASSUME NEW S, NEW s \in Seq(S), NEW k, NEW rank
    PROVE  \E f : /\ Returns(f, Windows(Len(s)), Probes(s, k, rank), Probed(s), Narrowed(s, k, rank))
                  /\ Bsearch(s, k, rank) = f[<<0, Len(s) - 1>>]
<1> DEFINE Is(f) == f = [w \in Windows(Len(s)) |->
                LET middle == (w[1] + w[2]) \div 2
                    at     == rank[s[middle + 1].key]
                IN  IF w[1] > w[2] THEN NotFound
                    ELSE IF at = rank[k] THEN middle
                    ELSE IF at < rank[k] THEN f[<<middle + 1, w[2]>>]
                    ELSE f[<<w[1], middle - 1>>]]
           R(f) == Returns(f, Windows(Len(s)), Probes(s, k, rank), Probed(s), Narrowed(s, k, rank))
<1>1. \E f : R(f)
  BY WindowsNarrow, LoopReturns
<1>2. ASSUME NEW f, R(f) PROVE Is(f)
  <2>1. ASSUME NEW w \in Windows(Len(s))
        PROVE  f[w] = IF w[1] > w[2] THEN NotFound
                      ELSE IF rank[s[Middle(w) + 1].key] = rank[k] THEN Middle(w)
                      ELSE IF rank[s[Middle(w) + 1].key] < rank[k] THEN f[<<Middle(w) + 1, w[2]>>]
                      ELSE f[<<w[1], Middle(w) - 1>>]
    <3>1. f[w] = IF w \in Probes(s, k, rank) THEN Probed(s)[w] ELSE f[Narrowed(s, k, rank)[w]]
      BY <1>2 DEF Returns
    <3> QED
      BY <3>1 DEF Probes, Probed, Narrowed
  <2>2. f = [w \in Windows(Len(s)) |-> f[w]]
    BY <1>2 DEF Returns
  <2> QED
    BY <2>1, <2>2 DEF Middle
<1>3. ASSUME NEW f, Is(f) PROVE R(f)
  <2>1. ASSUME NEW w \in Windows(Len(s))
        PROVE  f[w] = IF w \in Probes(s, k, rank) THEN Probed(s)[w] ELSE f[Narrowed(s, k, rank)[w]]
    <3>1. f[w] = IF w[1] > w[2] THEN NotFound
                 ELSE IF rank[s[Middle(w) + 1].key] = rank[k] THEN Middle(w)
                 ELSE IF rank[s[Middle(w) + 1].key] < rank[k] THEN f[<<Middle(w) + 1, w[2]>>]
                 ELSE f[<<w[1], Middle(w) - 1>>]
      BY <1>3 DEF Middle
    <3> QED
      BY <3>1 DEF Probes, Probed, Narrowed
  <2>2. f = [w \in Windows(Len(s)) |-> f[w]]
    BY <1>3
  <2> HIDE DEF Is
  <2> QED
    BY <2>1, <2>2 DEF Returns
<1> DEFINE g == CHOOSE f : Is(f)
<1>4. Bsearch(s, k, rank) = g[<<0, Len(s) - 1>>]
  BY DEF Bsearch, Windows
<1> HIDE DEF R, Is
<1>5. Is(g)
  BY <1>1, <1>2
<1> HIDE DEF g
<1>6. R(g)
  BY <1>3, <1>5
<1> QED
  BY <1>4, <1>6 DEF R

LEMMA BsearchFinds ==
    ASSUME NEW S, NEW s \in Seq(S), NEW k, NEW rank, NEW i, i = Bsearch(s, k, rank)
    PROVE  \/ i = NotFound
           \/ i \in 0 .. Len(s) - 1 /\ rank[s[i + 1].key] = rank[k]
<1>1. PICK f : /\ Returns(f, Windows(Len(s)), Probes(s, k, rank), Probed(s), Narrowed(s, k, rank))
               /\ i = f[<<0, Len(s) - 1>>]
  BY BsearchReturns
<1> DEFINE Good == {v \in {NotFound} \cup 0 .. Len(s) - 1 :
                        v # NotFound => rank[s[v + 1].key] = rank[k]}
           R == Windows(Len(s)) \X Good
<1>2. \A w \in Windows(Len(s)) : w \in Probes(s, k, rank) => <<w, Probed(s)[w]>> \in R
  <2> SUFFICES ASSUME NEW w \in Windows(Len(s)), w \in Probes(s, k, rank)
               PROVE  Probed(s)[w] \in Good
    OBVIOUS
  <2>1. Probed(s)[w] = IF w[1] > w[2] THEN NotFound ELSE Middle(w)
    BY DEF Probed
  <2>2. w[1] > w[2] \/ (Middle(w) \in 0 .. Len(s) - 1 /\ rank[s[Middle(w) + 1].key] = rank[k])
    <3>1. w[1] \in Nat /\ w[2] \in Int /\ (w[1] <= w[2] => Middle(w) \in 0 .. Len(s) - 1)
      <4>1. Len(s) \in Nat
        OBVIOUS
      <4> QED
        BY <4>1, WindowFacts
    <3>2. w[1] > w[2] \/ rank[s[Middle(w) + 1].key] = rank[k]
      BY DEF Probes
    <3> QED
      BY <3>1, <3>2
  <2> QED
    BY <2>1, <2>2
<1> HIDE DEF Good
<1>3. \A w \in Windows(Len(s)) : \A v :
         w \notin Probes(s, k, rank) /\ <<Narrowed(s, k, rank)[w], v>> \in R => <<w, v>> \in R
  OBVIOUS
<1> HIDE DEF R
<1>4. \A w \in Windows(Len(s)) : <<w, f[w]>> \in R
  BY <1>1, <1>2, <1>3, WindowsNarrow, LoopResults
<1>5. <<0, Len(s) - 1>> \in Windows(Len(s))
  BY DEF Windows
<1>6. i \in Good
  BY <1>1, <1>4, <1>5 DEF R
<1> QED
  BY <1>6 DEF Good

(* mulle_assoc's bsearch: in pairs that are in order it finds one of the   *)
(* given rank whenever there is one, and says so if there is none.         *)
THEOREM AssocBsearchExact ==
    ASSUME NEW S, NEW s \in Seq(S), NEW rank, InOrder(s, rank), NEW k, rank[k] \in Int,
           \A n \in DOMAIN s : rank[s[n].key] \in Int
    PROVE  IF \E n \in DOMAIN s : rank[s[n].key] = rank[k]
           THEN /\ Bsearch(s, k, rank) \in 0 .. Len(s) - 1
                /\ rank[s[Bsearch(s, k, rank) + 1].key] = rank[k]
           ELSE Bsearch(s, k, rank) = NotFound
<1>1. PICK i : i = Bsearch(s, k, rank)
  OBVIOUS
<1>2. i = NotFound \/ (i \in 0 .. Len(s) - 1 /\ rank[s[i + 1].key] = rank[k])
  BY <1>1, BsearchFinds
<1>3. Len(s) \in Nat /\ DOMAIN s = 1 .. Len(s)
  OBVIOUS
<1>4. ASSUME i # NotFound PROVE \E n \in DOMAIN s : rank[s[n].key] = rank[k]
  <2>1. i \in 0 .. Len(s) - 1 /\ rank[s[i + 1].key] = rank[k]
    BY <1>2, <1>4
  <2>2. i + 1 \in DOMAIN s
    BY <1>3, <2>1
  <2> QED
    BY <2>1, <2>2
<1>5. ASSUME i = NotFound, NEW n \in DOMAIN s PROVE rank[s[n].key] # rank[k]
  <2>1. PICK f : /\ Returns(f, Windows(Len(s)), Probes(s, k, rank), Probed(s), Narrowed(s, k, rank))
                 /\ i = f[<<0, Len(s) - 1>>]
    BY <1>1, BsearchReturns
  <2> DEFINE W == Windows(Len(s))
             V == {NotFound} \cup 0 .. Len(s) - 1
             Misses(w) == \A m \in w[1] + 1 .. w[2] + 1 : rank[s[m].key] # rank[k]
             R == {x \in W \X V : x[2] = NotFound => Misses(x[1])}
  <2>2. \A w \in W : w \in Probes(s, k, rank) => <<w, Probed(s)[w]>> \in R
    <3> SUFFICES ASSUME NEW w \in W, w \in Probes(s, k, rank)
                 PROVE  /\ Probed(s)[w] \in V
                        /\ Probed(s)[w] = NotFound => Misses(w)
      BY DEF Windows
    <3>1. Probed(s)[w] = IF w[1] > w[2] THEN NotFound ELSE Middle(w)
      BY DEF Probed
    <3>2. w[1] \in Nat /\ w[2] \in Int /\ (w[1] <= w[2] => Middle(w) \in 0 .. Len(s) - 1)
      BY <1>3, WindowFacts
    <3>3. CASE w[1] > w[2]
      BY <3>1, <3>2, <3>3
    <3>4. CASE w[1] <= w[2]
      <4>1. Probed(s)[w] = Middle(w) /\ Middle(w) \in 0 .. Len(s) - 1
        BY <3>1, <3>2, <3>4
      <4>2. Middle(w) # NotFound
        BY <4>1, PairArrayAssumption
      <4> QED
        BY <4>1, <4>2
    <3> QED
      BY <3>2, <3>3, <3>4
  <2>3. \A w \in W : \A v :
           w \notin Probes(s, k, rank) /\ <<Narrowed(s, k, rank)[w], v>> \in R => <<w, v>> \in R
    <3> SUFFICES ASSUME NEW w \in W, NEW v, w \notin Probes(s, k, rank),
                        <<Narrowed(s, k, rank)[w], v>> \in R
                 PROVE  <<w, v>> \in R
      OBVIOUS
    <3>1. PICK a, b, m : a = w[1] /\ b = w[2] /\ m = Middle(w)
      OBVIOUS
    <3>2. a <= b /\ rank[s[m + 1].key] # rank[k]
      <4>1. a \in Nat /\ b \in Int
        BY <1>3, <3>1, WindowFacts
      <4>2. ~ (a > b) /\ rank[s[m + 1].key] # rank[k]
        BY <3>1 DEF Probes
      <4> QED
        BY <4>1, <4>2
    <3>3. /\ a \in Nat /\ b \in Int /\ m \in Nat /\ a <= m /\ m <= b
          /\ b <= Len(s) - 1
      BY <1>3, <3>1, <3>2, WindowFacts
    <3>4. Narrowed(s, k, rank)[w] = IF rank[s[m + 1].key] < rank[k] THEN <<m + 1, b>> ELSE <<a, m - 1>>
      BY <3>1 DEF Narrowed
    <3>5. v \in V /\ (v = NotFound => Misses(Narrowed(s, k, rank)[w]))
      OBVIOUS
    <3>6. ASSUME v = NotFound, NEW j \in a + 1 .. b + 1
          PROVE  rank[s[j].key] # rank[k]
      <4>1. j \in DOMAIN s /\ m + 1 \in DOMAIN s
        BY <1>3, <3>3
      <4>2. /\ j < m + 1 => rank[s[j].key] <= rank[s[m + 1].key]
            /\ m + 1 < j => rank[s[m + 1].key] <= rank[s[j].key]
        BY <4>1 DEF InOrder
      <4>3. /\ rank[s[j].key] \in Int /\ rank[s[m + 1].key] \in Int
        BY <4>1
      <4>4. CASE rank[s[m + 1].key] < rank[k]
        <5>1. \A x \in m + 2 .. b + 1 : rank[s[x].key] # rank[k]
          <6>1. Misses(<<m + 1, b>>)
            BY <3>4, <3>5, <3>6, <4>4
          <6>2. (m + 1) + 1 = m + 2
            BY <3>3
          <6> QED
            BY <6>1, <6>2
        <5>2. j \in m + 2 .. b + 1 \/ j <= m + 1
          BY <3>3
        <5>3. j <= m + 1 => rank[s[j].key] <= rank[s[m + 1].key]
          <6>1. j = m + 1 => rank[s[j].key] = rank[s[m + 1].key]
            OBVIOUS
          <6>2. j <= m + 1 => j < m + 1 \/ j = m + 1
            BY <3>3
          <6> QED
            BY <4>2, <4>3, <6>1, <6>2
        <5> QED
          BY <4>3, <4>4, <5>1, <5>2, <5>3
      <4>5. CASE ~ (rank[s[m + 1].key] < rank[k])
        <5>1. \A x \in a + 1 .. m : rank[s[x].key] # rank[k]
          <6>1. Misses(<<a, m - 1>>)
            BY <3>4, <3>5, <3>6, <4>5
          <6>2. (m - 1) + 1 = m
            BY <3>3
          <6> QED
            BY <6>1, <6>2
        <5>2. j \in a + 1 .. m \/ m + 1 <= j
          BY <3>3
        <5>3. rank[k] < rank[s[m + 1].key]
          BY <3>2, <4>3, <4>5
        <5>4. m + 1 <= j => rank[s[m + 1].key] <= rank[s[j].key]
          <6>1. j = m + 1 => rank[s[j].key] = rank[s[m + 1].key]
            OBVIOUS
          <6>2. m + 1 <= j => m + 1 < j \/ j = m + 1
            BY <3>3
          <6> QED
            BY <4>2, <4>3, <6>1, <6>2
        <5> QED
          BY <4>3, <5>1, <5>2, <5>3, <5>4
      <4> QED
        BY <4>4, <4>5
    <3> QED
      BY <3>1, <3>5, <3>6
  <2> HIDE DEF R, Misses
  <2>4. \A w \in W : <<w, f[w]>> \in R
    BY <2>1, <2>2, <2>3, WindowsNarrow, LoopResults
  <2>5. <<0, Len(s) - 1>> \in W
    BY <1>3 DEF Windows
  <2>6. Misses(<<0, Len(s) - 1>>)
    BY <1>5, <2>1, <2>4, <2>5 DEF R
  <2>7. n \in 0 + 1 .. (Len(s) - 1) + 1
    BY <1>3
  <2> QED
    BY <2>6, <2>7 DEF Misses
<1> QED
  BY <1>1, <1>2, <1>4, <1>5

-----------------------------------------------------------------------------
(* How often a sequence of pairs holds a key or value *)

AllPairs    == [key : Intptr \cup String, value : Value]
KeyIs(o)    == {p \in AllPairs : p.key = o}
ValueIs(o)  == {p \in AllPairs : p.value = o}
Hold(s, o)  == HitCount(s, KeyIs(o)) + HitCount(s, ValueIs(o))

LEMMA PairsAll == Pairs \subseteq AllPairs /\ Seq(Pairs) \subseteq Seq(AllPairs)
<1>1. Pairs \subseteq AllPairs
  BY DEF Pairs, AllPairs, Key
<1> QED
  BY <1>1, SeqMonotonic

LEMMA HeldHold ==
    ASSUME NEW s \in Seq(AllPairs), NEW o
    PROVE  Held(s, o) = Hold(s, o) /\ Hold(s, o) \in Nat
<1>1. \A i \in DOMAIN s : s[i] \in AllPairs
  OBVIOUS
<1>2. /\ {i \in DOMAIN s : s[i].key = o} = Hits(s, KeyIs(o))
      /\ {i \in DOMAIN s : s[i].value = o} = Hits(s, ValueIs(o))
  BY <1>1 DEF Hits, KeyIs, ValueIs
<1>3. HitCount(s, KeyIs(o)) \in Nat /\ HitCount(s, ValueIs(o)) \in Nat
  BY HitsFinite
<1>4. Held(s, o) = HitCount(s, KeyIs(o)) + HitCount(s, ValueIs(o))
  BY <1>2 DEF Held, HitCount
<1> QED
  BY <1>3, <1>4 DEF Hold

LEMMA HeldEmpty == \A o : Hold(<<>>, o) = 0
<1> SUFFICES ASSUME NEW o PROVE Hold(<<>>, o) = 0
  OBVIOUS
<1>1. \A A : Hits(<<>>, A) = {}
  BY DEF Hits
<1>2. \A A : HitCount(<<>>, A) = 0
  BY <1>1, FS_EmptySet DEF HitCount
<1> QED
  BY <1>2 DEF Hold

LEMMA HeldConcat ==
    ASSUME NEW s \in Seq(AllPairs), NEW t \in Seq(AllPairs), NEW o
    PROVE  Hold(s \o t, o) = Hold(s, o) + Hold(t, o)
<1>1. \A A : /\ HitCount(s \o t, A) = HitCount(s, A) + HitCount(t, A)
             /\ HitCount(s, A) \in Nat /\ HitCount(t, A) \in Nat
  BY HitsConcat, HitsFinite
<1> QED
  BY <1>1 DEF Hold

LEMMA HeldAppend ==
    ASSUME NEW s \in Seq(AllPairs), NEW p \in AllPairs, NEW o
    PROVE  Hold(Append(s, p), o) = Hold(s, o) + Hold(<<p>>, o)
<1>1. <<p>> \in Seq(AllPairs) /\ Append(s, p) = s \o <<p>>
  BY AppendIsConcat
<1> QED
  BY <1>1, HeldConcat

LEMMA HeldSorted ==
    ASSUME NEW s \in Seq(AllPairs), NEW rank, NEW t \in PairSortings(s, rank), NEW o
    PROVE  Hold(t, o) = Hold(s, o) /\ Len(t) = Len(s) /\ t \in Seq(AllPairs)
<1>1. PICK f \in [DOMAIN s -> DOMAIN s] :
         /\ \A i, j \in DOMAIN s : f[i] = f[j] => i = j
         /\ t = [i \in DOMAIN s |-> s[f[i]]]
  BY DEF PairSortings
<1>2. \A A : HitCount(t, A) = HitCount(s, A)
  BY <1>1, HitsPermuted
<1>3. Len(s) \in Nat /\ DOMAIN s = 1 .. Len(s) /\ \A i \in DOMAIN s : s[i] \in AllPairs
  OBVIOUS
<1>4. t \in [1 .. Len(s) -> AllPairs]
  BY <1>1, <1>3
<1> QED
  BY <1>2, <1>3, <1>4 DEF Hold

LEMMA HeldReplaced ==
    ASSUME NEW s \in Seq(AllPairs), NEW i \in 1 .. Len(s), NEW p \in AllPairs, NEW o
    PROVE  Hold([s EXCEPT ![i] = p], o) = Hold(s, o) + Hold(<<p>>, o) - Hold(<<s[i]>>, o)
<1> DEFINE t == [s EXCEPT ![i] = p]
<1>1. /\ t \in Seq(AllPairs) /\ <<p>> \in Seq(AllPairs) /\ <<s[i]>> \in Seq(AllPairs)
  BY ExceptSeq
<1> HIDE DEF t
<1>2. \A A : HitCount(t, A) + HitCount(<<s[i]>>, A) = HitCount(s, A) + HitCount(<<p>>, A)
  BY HitsReplaced DEF t
<1>3. \A A : /\ HitCount(t, A) \in Nat /\ HitCount(<<s[i]>>, A) \in Nat
             /\ HitCount(s, A) \in Nat /\ HitCount(<<p>>, A) \in Nat
  BY <1>1, HitsFinite
<1>4. Hold(t, o) = Hold(s, o) + Hold(<<p>>, o) - Hold(<<s[i]>>, o)
  <2>1. PICK a, b, c, d : /\ a = HitCount(t, KeyIs(o)) /\ b = HitCount(<<s[i]>>, KeyIs(o))
                          /\ c = HitCount(s, KeyIs(o)) /\ d = HitCount(<<p>>, KeyIs(o))
    OBVIOUS
  <2>2. PICK e, f, g, h : /\ e = HitCount(t, ValueIs(o)) /\ f = HitCount(<<s[i]>>, ValueIs(o))
                          /\ g = HitCount(s, ValueIs(o)) /\ h = HitCount(<<p>>, ValueIs(o))
    OBVIOUS
  <2>3. a \in Nat /\ b \in Nat /\ c \in Nat /\ d \in Nat /\ a + b = c + d
    BY <1>2, <1>3, <2>1
  <2>4. e \in Nat /\ f \in Nat /\ g \in Nat /\ h \in Nat /\ e + f = g + h
    BY <1>2, <1>3, <2>2
  <2>5. a + e = (c + g) + (d + h) - (b + f)
    BY <2>3, <2>4
  <2> QED
    BY <2>1, <2>2, <2>5 DEF Hold
<1> QED
  BY <1>4 DEF t

(* A range and what is left without it                                     *)
LEMMA HeldWithout ==
    ASSUME NEW s \in Seq(AllPairs), NEW r, r.location \in Nat, r.length \in Nat,
           r.location + r.length <= Len(s), NEW o
    PROVE  Hold(Without(s, r), o) = Hold(s, o) - Hold(Slice(s, r), o)
<1>1. PICK l, e, n : l = r.location /\ e = r.location + r.length /\ n = Len(s)
  OBVIOUS
<1>2. l \in Nat /\ e \in Nat /\ n \in Nat /\ l <= e /\ e <= n
  <2>1. Len(s) \in Nat
    OBVIOUS
  <2> QED
    BY <1>1, <2>1
<1> DEFINE a == SubSeq(s, 1, l)
           b == SubSeq(s, l + 1, e)
           c == SubSeq(s, e + 1, n)
<1>3. Slice(s, r) = b /\ Without(s, r) = a \o c
  BY <1>1 DEF Slice, Without
<1>4. \A i \in 1 .. n : s[i] \in AllPairs
  BY <1>1
<1>5. a \in Seq(AllPairs) /\ b \in Seq(AllPairs) /\ c \in Seq(AllPairs)
  <2>1. ASSUME NEW i \in Int, NEW j \in Int, i >= 1, j <= n
        PROVE  SubSeq(s, i, j) \in Seq(AllPairs)
    <3>1. \A k \in i .. j : k \in 1 .. n
      BY <1>2, <2>1
    <3>2. \A k \in i .. j : s[k] \in AllPairs
      BY <1>4, <3>1
    <3> QED
      BY <3>2, SubSeqProperties
  <2>2. l + 1 \in Int /\ e + 1 \in Int /\ l + 1 >= 1 /\ e + 1 >= 1 /\ l <= n
    BY <1>2
  <2> QED
    BY <1>2, <2>1, <2>2
<1>6. s = a \o SubSeq(s, l + 1, n)
  <2>1. /\ 1 \in 1 .. Len(s) + 1 /\ l \in 1 - 1 .. Len(s) /\ n \in l .. Len(s)
    BY <1>1, <1>2
  <2>2. SubSeq(s, 1, l) \o SubSeq(s, l + 1, n) = SubSeq(s, 1, n)
    BY <2>1, ConcatAdjacentSubSeq
  <2> QED
    BY <1>1, <2>2, SubSeqFull
<1>7. SubSeq(s, l + 1, n) = b \o c
  <2>1. l + 1 \in 1 .. Len(s) + 1 /\ e \in (l + 1) - 1 .. Len(s) /\ n \in e .. Len(s)
    BY <1>1, <1>2
  <2> QED
    BY <2>1, ConcatAdjacentSubSeq
<1> HIDE DEF a, b, c
<1>8. b \o c \in Seq(AllPairs)
  BY <1>5, ConcatProperties
<1>9. /\ Hold(s, o) = Hold(a, o) + (Hold(b, o) + Hold(c, o))
      /\ Hold(a \o c, o) = Hold(a, o) + Hold(c, o)
  <2>1. Hold(b \o c, o) = Hold(b, o) + Hold(c, o)
    BY <1>5, HeldConcat
  <2>2. Hold(a \o (b \o c), o) = Hold(a, o) + Hold(b \o c, o)
    <3>1. \A d \in Seq(AllPairs) : Hold(a \o d, o) = Hold(a, o) + Hold(d, o)
      BY <1>5, HeldConcat
    <3> QED
      BY <1>8, <3>1
  <2>3. Hold(a \o c, o) = Hold(a, o) + Hold(c, o)
    BY <1>5, HeldConcat
  <2>4. s = a \o (b \o c)
    BY <1>6, <1>7
  <2> QED
    BY <2>1, <2>2, <2>3, <2>4
<1>10. Hold(a, o) \in Nat /\ Hold(b, o) \in Nat /\ Hold(c, o) \in Nat
  BY <1>5, HeldHold
<1>11. Hold(a \o c, o) = Hold(s, o) - Hold(b, o)
  BY <1>9, <1>10
<1> QED
  BY <1>3, <1>11

LEMMA HeldButLast ==
    ASSUME NEW s \in Seq(AllPairs), s # <<>>, NEW o
    PROVE  /\ Hold(SubSeq(s, 1, Len(s) - 1), o) = Hold(s, o) - Hold(<<s[Len(s)]>>, o)
           /\ Len(SubSeq(s, 1, Len(s) - 1)) = Len(s) - 1
<1>1. PICK n : n = Len(s) /\ n \in Nat \ {0}
  <2>1. Len(s) \in Nat \ {0}
    OBVIOUS
  <2> QED
    BY <2>1
<1>2. 1 \in 1 .. Len(s) /\ n \in 1 .. Len(s)
  BY <1>1
<1>3. s = SubSeq(s, 1, n - 1) \o <<s[n]>>
  <2>1. SubSeq(s, 1, n) = SubSeq(s, 1, n - 1) \o <<s[n]>>
    BY <1>2, SubSeqRecursiveSecond
  <2> QED
    BY <1>1, <2>1, SubSeqFull
<1>4. /\ SubSeq(s, 1, n - 1) \in Seq(AllPairs) /\ <<s[n]>> \in Seq(AllPairs)
      /\ Len(SubSeq(s, 1, n - 1)) = n - 1
  <2>1. s[n] \in AllPairs
    BY <1>2
  <2>2. n - 1 \in Int /\ \A i \in 1 .. n - 1 : s[i] \in AllPairs
    BY <1>1
  <2>3. /\ SubSeq(s, 1, n - 1) \in Seq(AllPairs)
        /\ Len(SubSeq(s, 1, n - 1)) = IF 1 <= n - 1 THEN (n - 1) - 1 + 1 ELSE 0
    BY <2>2, SubSeqProperties
  <2> QED
    BY <1>1, <2>1, <2>3
<1>5. PICK t, u : t = SubSeq(s, 1, n - 1) /\ u = <<s[n]>>
  OBVIOUS
<1>6. Hold(s, o) = Hold(t, o) + Hold(u, o) /\ Hold(t, o) \in Nat /\ Hold(u, o) \in Nat
  <2>1. Hold(t \o u, o) = Hold(t, o) + Hold(u, o)
    BY <1>4, <1>5, HeldConcat
  <2> QED
    BY <1>3, <1>4, <1>5, <2>1, HeldHold
<1>7. Hold(t, o) = Hold(s, o) - Hold(u, o)
  BY <1>6
<1> QED
  BY <1>1, <1>4, <1>5, <1>7

-----------------------------------------------------------------------------
(* In how many places the assocs hold a key or value *)

PlacesOf(f)     == UNION {{i} \X DOMAIN f[i].pairs : i \in {i \in Id : f[i] # None}}
HitPlaces(f, A) == {w \in PlacesOf(f) : f[w[1]].pairs[w[2]] \in A}
HoldIn(a, o)    == IF a = None THEN 0 ELSE Hold(a.pairs, o)

PairsOf(f)      == [i \in {i \in Id : f[i] # None} |-> f[i].pairs]

LEMMA PairPlaces ==
    ASSUME NEW f
    PROVE  /\ PlacesOf(f) = PlacesIn(PairsOf(f))
           /\ \A w : w \in PlacesOf(f) <=> \E i \in Id : \E n : /\ w = <<i, n>> /\ f[i] # None
                                                              /\ n \in DOMAIN f[i].pairs
           /\ \A A : HitPlaces(f, A) = HitPlacesIn(PairsOf(f), A)
<1>1. \A w : w \in PlacesOf(f) <=> \E i \in Id : \E n : /\ w = <<i, n>> /\ f[i] # None
                                                       /\ n \in DOMAIN f[i].pairs
  BY DEF PlacesOf
<1>2. PlacesOf(f) = PlacesIn(PairsOf(f))
  BY <1>1, PlacesInFacts DEF PairsOf
<1>3. ASSUME NEW w \in PlacesOf(f) PROVE PairsOf(f)[w[1]] = f[w[1]].pairs
  <2>1. \A i, n : w = <<i, n>> => w[1] = i
    OBVIOUS
  <2> QED
    BY <1>1, <1>3, <2>1 DEF PairsOf
<1> QED
  BY <1>1, <1>2, <1>3 DEF HitPlaces, HitPlacesIn

PlaceCount(f, o) == Cardinality(HitPlaces(f, KeyIs(o))) + Cardinality(HitPlaces(f, ValueIs(o)))

(* One assoc changes, the others keep their places.                        *)
LEMMA PairsChange ==
    ASSUME NEW f, NEW g, NEW id \in Id, \A i \in Id : i # id => g[i] = f[i],
           f[id] # None => f[id].pairs \in Seq(AllPairs),
           g[id] # None => g[id].pairs \in Seq(AllPairs),
           IsFiniteSet(PlacesOf(f)), NEW o
    PROVE  /\ IsFiniteSet(PlacesOf(g))
           /\ PlaceCount(g, o) = PlaceCount(f, o) + HoldIn(g[id], o) - HoldIn(f[id], o)
<1> DEFINE F == PairsOf(f)
           G == PairsOf(g)
<1>1. DOMAIN F \ {id} = DOMAIN G \ {id} /\ \A i \in DOMAIN F \ {id} : G[i] = F[i]
  BY DEF PairsOf
<1>2. /\ ItemsOf(F, id) = IF f[id] = None THEN <<>> ELSE f[id].pairs
      /\ ItemsOf(G, id) = IF g[id] = None THEN <<>> ELSE g[id].pairs
  BY DEF PairsOf, ItemsOf
<1>3. ItemsOf(F, id) \in Seq(AllPairs) /\ ItemsOf(G, id) \in Seq(AllPairs)
  <2>1. <<>> \in Seq(AllPairs)
    OBVIOUS
  <2> QED
    BY <1>2, <2>1
<1>4. IsFiniteSet(PlacesIn(F))
  BY PairPlaces
<1>5. HoldIn(f[id], o) = Hold(ItemsOf(F, id), o) /\ HoldIn(g[id], o) = Hold(ItemsOf(G, id), o)
  <2>1. \A A : HitCount(<<>>, A) = 0
    <3>1. \A A : Hits(<<>>, A) = {}
      BY DEF Hits
    <3> QED
      BY <3>1, FS_EmptySet DEF HitCount
  <2>2. Hold(<<>>, o) = 0
    BY <2>1 DEF Hold
  <2> QED
    BY <1>2, <2>2 DEF HoldIn
<1> HIDE DEF F, G
<1>6. \A A : /\ IsFiniteSet(PlacesIn(G))
             /\ Cardinality(HitPlacesIn(G, A)) - HitCount(ItemsOf(G, id), A)
                    = Cardinality(HitPlacesIn(F, A)) - HitCount(ItemsOf(F, id), A)
             /\ Cardinality(HitPlacesIn(F, A)) \in Nat /\ Cardinality(HitPlacesIn(G, A)) \in Nat
             /\ HitCount(ItemsOf(F, id), A) \in Nat /\ HitCount(ItemsOf(G, id), A) \in Nat
  BY <1>1, <1>3, <1>4, PlacesChange, HitsFinite
<1>7. PICK a, b, c, d : /\ a = Cardinality(HitPlacesIn(F, KeyIs(o)))
                        /\ b = Cardinality(HitPlacesIn(G, KeyIs(o)))
                        /\ c = Cardinality(HitPlacesIn(F, ValueIs(o)))
                        /\ d = Cardinality(HitPlacesIn(G, ValueIs(o)))
  OBVIOUS
<1>8. PICK e, h, k, l : /\ e = HitCount(ItemsOf(F, id), KeyIs(o))
                        /\ h = HitCount(ItemsOf(G, id), KeyIs(o))
                        /\ k = HitCount(ItemsOf(F, id), ValueIs(o))
                        /\ l = HitCount(ItemsOf(G, id), ValueIs(o))
  OBVIOUS
<1>9. /\ b - h = a - e /\ d - l = c - k /\ a \in Nat /\ b \in Nat /\ c \in Nat /\ d \in Nat
      /\ e \in Nat /\ h \in Nat /\ k \in Nat /\ l \in Nat
  BY <1>6, <1>7, <1>8
<1>10. PlaceCount(f, o) = a + c /\ PlaceCount(g, o) = b + d
  BY <1>7, PairPlaces DEF PlaceCount, F, G
<1>11. HoldIn(f[id], o) = e + k /\ HoldIn(g[id], o) = h + l
  BY <1>5, <1>8 DEF Hold
<1>12. b + d = (a + c) + (h + l) - (e + k)
  BY <1>9
<1>13. IsFiniteSet(PlacesOf(g))
  BY <1>6, PairPlaces DEF G
<1> QED
  BY <1>10, <1>11, <1>12, <1>13

-----------------------------------------------------------------------------
(* The inductive invariant of capacities, references and the enumerator *)

Fit(a) == IsGood(a) /\ a.size \in Nat /\ Len(a.pairs) <= a.size

RefsOK ==
    /\ refs \in [Owned -> Int]
    /\ \A o \in Owned : refs[o] = IF kind = "string" THEN PlaceCount(assocs, o) ELSE 0

RoverOK ==
    rover # None => /\ rover \in [assoc : Live, at : Nat, end : Nat]
                    /\ IsSorted(rover.assoc)

OInv ==
    /\ AInv
    /\ kind \in {"intptr", "string"}
    /\ \A i \in Live : Fit(assocs[i])
    /\ IsFiniteSet(PlacesOf(assocs))
    /\ RefsOK
    /\ RoverOK

(* rs are the references when b has taken the place of a.                  *)
Settles(a, b, rs) ==
    /\ kind = "intptr" => rs = refs
    /\ kind # "intptr" => /\ rs \in [Owned -> Int]
                          /\ \A o \in Owned : rs[o] = refs[o] + HoldIn(b, o) - HoldIn(a, o)

(* An enumerator of id can go on only if it is sorted.                     *)
RoverMoves(id, a) ==
    \/ rover' = None
    \/ rover' = rover /\ (rover # None /\ rover.assoc = id => a.sorted = TRUE /\ a # None)
    \/ rover' \in [assoc : {id}, at : Nat, end : Nat] /\ a.sorted = TRUE /\ a # None

LEMMA FitFacts ==
    ASSUME NEW a, Fit(a)
    PROVE  /\ a.pairs \in Seq(Pairs) /\ a.pairs \in Seq(AllPairs) /\ Len(a.pairs) \in Nat
           /\ a.size \in Nat /\ Len(a.pairs) <= a.size
           /\ a # None /\ IsAssoc(a)
           /\ \A o : HoldIn(a, o) = Hold(a.pairs, o)
<1>1. a \in [pairs : Seq(Pairs), size : {a.size}, sorted : BOOLEAN, compare : DOMAIN Order]
  BY DEF Fit, IsGood, IsAssoc
<1>2. a.size \in Nat /\ Len(a.pairs) <= a.size
  BY DEF Fit
<1>3. a.pairs \in Seq(Pairs) /\ a.pairs \in Seq(AllPairs)
  BY <1>1, PairsAll
<1>4. a \in [pairs : Seq(AllPairs), size : Nat, sorted : BOOLEAN, compare : DOMAIN Order]
  BY <1>1, <1>2, <1>3
<1>5. a # None
  BY <1>4, AssocAssumption DEF AllPairs
<1>6. \A o : HoldIn(a, o) = Hold(a.pairs, o)
  BY <1>5 DEF HoldIn
<1>7. Len(a.pairs) \in Nat
  BY <1>3
<1> QED
  BY <1>1, <1>2, <1>3, <1>5, <1>6, <1>7 DEF IsAssoc

LEMMA OInvStep ==
    ASSUME OInv, NEW id \in Id, NEW a, a = None \/ Fit(a), Put(id, a), UNCHANGED kind,
           Settles(assocs[id], a, refs'), RoverMoves(id, a)
    PROVE  OInv'
<1>1. AInv'
  BY PutInv DEF OInv, Fit
<1>2. /\ DOMAIN assocs = Id
      /\ assocs'[id] = a
      /\ \A i \in Id : i # id => assocs'[i] = assocs[i]
  BY DEF OInv, AInv, Put
<1>3. \A i \in Id : (assocs[i] # None => Fit(assocs[i])) /\ (assocs'[i] # None => Fit(assocs'[i]))
  BY <1>2 DEF OInv, Live
<1>4. (\A i \in Live : Fit(assocs[i]))'
  <2>1. Pairs' = Pairs
    BY DEF Pairs, Key
  <2> QED
    BY <1>3, <2>1 DEF Live, Fit, IsGood, IsAssoc
<1>5. \A o : /\ IsFiniteSet(PlacesOf(assocs'))
             /\ PlaceCount(assocs', o)
                    = PlaceCount(assocs, o) + HoldIn(a, o) - HoldIn(assocs[id], o)
  <2>1. /\ assocs[id] # None => assocs[id].pairs \in Seq(AllPairs)
        /\ assocs'[id] # None => assocs'[id].pairs \in Seq(AllPairs)
    BY <1>3, FitFacts
  <2>2. PICK f, g : f = assocs /\ g = assocs'
    OBVIOUS
  <2>3. IsFiniteSet(PlacesOf(f))
    BY <2>2 DEF OInv
  <2>4. \A o : /\ IsFiniteSet(PlacesOf(g))
               /\ PlaceCount(g, o) = PlaceCount(f, o) + HoldIn(g[id], o) - HoldIn(f[id], o)
    <3>1. /\ \A i \in Id : i # id => g[i] = f[i]
          /\ f[id] # None => f[id].pairs \in Seq(AllPairs)
          /\ g[id] # None => g[id].pairs \in Seq(AllPairs)
      BY <1>2, <2>1, <2>2
    <3> QED
      BY <2>3, <3>1, PairsChange
  <2> QED
    BY <1>2, <2>2, <2>4
<1>6. RefsOK'
  <2>1. CASE kind = "intptr"
    BY <2>1 DEF RefsOK, OInv, Settles
  <2>2. CASE kind # "intptr"
    <3>1. kind = "string" /\ kind' = "string"
      BY <2>2 DEF OInv
    <3>2. /\ refs' \in [Owned -> Int]
          /\ \A o \in Owned : refs'[o] = refs[o] + HoldIn(a, o) - HoldIn(assocs[id], o)
      BY <2>2 DEF Settles
    <3>3. \A o \in Owned : refs[o] = PlaceCount(assocs, o)
      BY <3>1 DEF OInv, RefsOK
    <3>4. \A o \in Owned : refs'[o] = PlaceCount(assocs', o)
      BY <1>5, <3>2, <3>3
    <3> QED
      BY <3>1, <3>2, <3>4 DEF RefsOK, Owned
  <2> QED
    BY <2>1, <2>2
<1>7. RoverOK'
  <2> SUFFICES ASSUME rover' # None
               PROVE  /\ rover' \in [assoc : Live', at : Nat, end : Nat]
                      /\ assocs'[rover'.assoc].sorted
    BY DEF RoverOK, IsSorted
  <2>1. CASE rover' = rover /\ (rover # None /\ rover.assoc = id => a.sorted = TRUE /\ a # None)
    <3>1. rover \in [assoc : Live, at : Nat, end : Nat] /\ assocs[rover.assoc].sorted
      BY <2>1 DEF OInv, RoverOK, IsSorted
    <3>2. rover.assoc \in Id /\ assocs[rover.assoc] # None
      BY <3>1 DEF Live
    <3>3. rover.assoc \in Live' /\ assocs'[rover.assoc].sorted
      BY <1>2, <2>1, <3>1, <3>2 DEF Live
    <3> QED
      BY <2>1, <3>1, <3>3
  <2>2. CASE rover' \in [assoc : {id}, at : Nat, end : Nat] /\ a.sorted = TRUE /\ a # None
    <3>1. id \in Live'
      BY <1>2, <2>2 DEF Live
    <3> QED
      BY <1>2, <2>2, <3>1
  <2> QED
    BY <2>1, <2>2 DEF RoverMoves
<1> QED
  BY <1>1, <1>4, <1>5, <1>6, <1>7 DEF OInv

LEMMA OInvChange ==
    ASSUME OInv, NEW id \in Id, NEW a, a = None \/ Fit(a), NEW rs, Change(id, a, rs),
           Settles(assocs[id], a, rs)
    PROVE  OInv'
<1>1. RoverMoves(id, a)
  BY DEF Change, Invalidate, RoverMoves
<1>2. refs' = rs /\ Put(id, a) /\ UNCHANGED kind
  BY DEF Change
<1> QED
  BY <1>1, <1>2, OInvStep

(* Sorting changes neither what an assoc holds nor its size.               *)
Resorted(a, b) ==
    /\ Fit(a) /\ a.size = b.size /\ Len(a.pairs) = Len(b.pairs)
    /\ \A o : Hold(a.pairs, o) = Hold(b.pairs, o)

LEMMA SortedFit ==
    ASSUME OInv, NEW id \in Live, NEW a \in QsortIfNeeded(id)
    PROVE  Resorted(a, assocs[id]) /\ a.sorted = TRUE
<1>1. IsGood(a) /\ a.sorted = TRUE
  BY SortedIfNeeded DEF OInv
<1>2. Fit(assocs[id])
  BY DEF OInv
<1>3. CASE IsSorted(id)
  BY <1>1, <1>2, <1>3 DEF QsortIfNeeded, Resorted
<1>4. CASE ~ IsSorted(id)
  <2>1. PICK s \in PairSortings(assocs[id].pairs, Rank(id)) :
           a = [assocs[id] EXCEPT !.pairs = s, !.sorted = TRUE]
    BY <1>4 DEF QsortIfNeeded, QsortBy
  <2>2. a.pairs = s /\ a.size = assocs[id].size
    BY <1>2, <2>1 DEF Fit, IsGood, IsAssoc
  <2>3. assocs[id].pairs \in Seq(AllPairs)
    BY <1>2, FitFacts
  <2>4. Len(s) = Len(assocs[id].pairs) /\ \A o : Hold(s, o) = Hold(assocs[id].pairs, o)
    BY <2>3, HeldSorted
  <2> QED
    BY <1>1, <1>2, <2>2, <2>4 DEF Resorted, Fit
<1> QED
  BY <1>3, <1>4

LEMMA OInvAnswer ==
    ASSUME OInv, NEW id \in Live, NEW a, Resorted(a, assocs[id]),
           a.sorted = TRUE \/ a = assocs[id], NEW result, Answer(id, a, result)
    PROVE  OInv'
<1>1. Put(id, a) /\ UNCHANGED <<kind, refs, rover>>
  BY DEF Answer
<1>2. Fit(a) /\ Fit(assocs[id])
  BY DEF OInv, Resorted
<1>3. \A o : HoldIn(a, o) = HoldIn(assocs[id], o) /\ HoldIn(a, o) \in Nat
  BY <1>2, FitFacts, HeldHold DEF Resorted
<1>4. Settles(assocs[id], a, refs')
  <2>1. refs \in [Owned -> Int]
    BY DEF OInv, RefsOK
  <2> QED
    BY <1>1, <1>3, <2>1 DEF Settles
<1>5. RoverMoves(id, a)
  <2>1. a # None
    BY <1>2, FitFacts
  <2>2. rover # None /\ rover.assoc = id => assocs[id].sorted = TRUE
    <3>1. assocs[id].sorted \in BOOLEAN
      BY <1>2 DEF Fit, IsGood, IsAssoc
    <3> QED
      BY <3>1 DEF OInv, RoverOK, IsSorted
  <2> QED
    BY <1>1, <2>1, <2>2 DEF RoverMoves
<1> QED
  BY <1>1, <1>2, <1>4, <1>5, OInvStep DEF Live

-----------------------------------------------------------------------------
(* What fits still fits *)

FitsIn(a) == IsAssoc(a) /\ a.size \in Nat /\ Len(a.pairs) <= a.size

LEMMA FitIsFit == \A a : Fit(a) => FitsIn(a)
BY DEF Fit, FitsIn, IsGood

LEMMA UnsortedFits ==
    ASSUME NEW a, FitsIn(a)
    PROVE  Fit(Unsorted(a)) /\ Unsorted(a).pairs = a.pairs
<1>1. IsGood(Unsorted(a)) /\ Unsorted(a).pairs = a.pairs
  BY UnsortedGood DEF FitsIn
<1>2. Unsorted(a).size = a.size
  BY DEF FitsIn, IsAssoc, Unsorted
<1> QED
  BY <1>1, <1>2 DEF Fit, FitsIn

LEMMA NewPairsFit ==
    ASSUME NEW a, IsAssoc(a), a.size \in Nat, NEW s \in Seq(Pairs), Len(s) <= a.size,
           NEW b, b = [a EXCEPT !.pairs = s]
    PROVE  FitsIn(b) /\ b.pairs = s /\ b.size = a.size
<1>1. IsAssoc(b)
  BY NewPairs
<1>2. b.pairs = s /\ b.size = a.size
  BY DEF IsAssoc
<1> QED
  BY <1>1, <1>2 DEF FitsIn

LEMMA ReallocFits ==
    ASSUME NEW a, FitsIn(a), NEW n \in Nat, n >= Len(a.pairs)
    PROVE  /\ FitsIn(ReallocPairs(a, n)) /\ ReallocPairs(a, n).pairs = a.pairs
           /\ ReallocPairs(a, n).size >= n
           /\ ReallocPairs(a, n).size >= 1
<1>1. PICK m : m = Pow2Round(n)
  OBVIOUS
<1>2. m \in Nat /\ m >= n /\ m >= 1
  BY <1>1, RoundFacts
<1>3. IsAssoc(ReallocPairs(a, n)) /\ ReallocPairs(a, n).pairs = a.pairs
  BY ReallocKeeps DEF FitsIn
<1>4. ReallocPairs(a, n).size = m
  BY <1>1 DEF FitsIn, IsAssoc, ReallocPairs
<1>5. Len(a.pairs) \in Nat
  BY DEF FitsIn, IsAssoc
<1>6. Len(a.pairs) <= m
  <2>1. PICK l : l = Len(a.pairs)
    OBVIOUS
  <2> QED
    BY <1>2, <1>5, <2>1
<1> QED
  BY <1>2, <1>3, <1>4, <1>6 DEF FitsIn

LEMMA AddGuaranteedFits ==
    ASSUME NEW a, FitsIn(a), ~ IsFull(a), NEW p \in Pairs, NEW b, b = AddGuaranteedPair(a, p)
    PROVE  FitsIn(b) /\ b.pairs = Append(a.pairs, p)
<1>1. IsAssoc(a) /\ a.size \in Nat /\ a.pairs \in Seq(Pairs)
  BY DEF FitsIn, IsAssoc
<1>2. PICK l : l = Len(a.pairs) /\ l \in Nat
  <2>1. Len(a.pairs) \in Nat
    BY <1>1
  <2> QED
    BY <2>1
<1>3. Append(a.pairs, p) \in Seq(Pairs) /\ Len(Append(a.pairs, p)) = l + 1
  BY <1>1, <1>2
<1>4. l + 1 <= a.size
  <2>1. l <= a.size /\ l # a.size
    BY <1>2 DEF FitsIn, IsFull, PairCount
  <2> QED
    BY <1>1, <1>2, <2>1
<1>5. PICK s : s = Append(a.pairs, p)
  OBVIOUS
<1>6. s \in Seq(Pairs) /\ Len(s) <= a.size /\ b = [a EXCEPT !.pairs = s]
  BY <1>3, <1>4, <1>5 DEF AddGuaranteedPair
<1>7. FitsIn(b) /\ b.pairs = s
  BY <1>1, <1>6, NewPairsFit
<1> QED
  BY <1>5, <1>7

LEMMA AddPairFits ==
    ASSUME NEW a, FitsIn(a), NEW p \in Pairs, NEW b, b = AddPair(a, p)
    PROVE  FitsIn(b) /\ b.pairs = Append(a.pairs, p)
<1> DEFINE roomy == IF IsFull(a) THEN GrowPairs(a) ELSE a
<1>1. FitsIn(roomy) /\ roomy.pairs = a.pairs /\ ~ IsFull(roomy)
  <2>1. CASE IsFull(a)
    <3>1. PICK l : l = Len(a.pairs) /\ l \in Nat
      <4>1. Len(a.pairs) \in Nat
        BY DEF FitsIn, IsAssoc
      <4> QED
        BY <4>1
    <3>2. a.size = l
      BY <2>1, <3>1 DEF IsFull, PairCount
    <3>3. 2 * l \in Nat /\ 2 * l >= l
      BY <3>1
    <3>4. PICK c : c = ReallocPairs(a, 2 * l)
      OBVIOUS
    <3>5. FitsIn(c) /\ c.pairs = a.pairs /\ c.size >= 2 * l /\ c.size >= 1
      BY <3>1, <3>3, <3>4, ReallocFits
    <3>6. c.size \in Nat
      BY <3>5 DEF FitsIn
    <3>7. c.size # l
      BY <3>1, <3>5, <3>6
    <3>8. ~ IsFull(c)
      BY <3>1, <3>5, <3>7 DEF IsFull, PairCount
    <3>9. roomy = c
      BY <2>1, <3>2, <3>4 DEF GrowPairs
    <3> QED
      BY <3>5, <3>8, <3>9
  <2>2. CASE ~ IsFull(a)
    BY <2>2
  <2> QED
    BY <2>1, <2>2
<1>2. b = AddGuaranteedPair(roomy, p)
  BY DEF AddPair
<1> HIDE DEF roomy
<1> QED
  BY <1>1, <1>2, AddGuaranteedFits

LEMMA AddPairsFit ==
    ASSUME NEW a, FitsIn(a), NEW ps \in Seq(Pairs), NEW b, b = AddPairs(a, ps)
    PROVE  FitsIn(b) /\ b.pairs = a.pairs \o ps
<1>1. a.pairs \in Seq(Pairs) /\ a.size \in Nat /\ IsAssoc(a) /\ Len(a.pairs) <= a.size
  BY DEF FitsIn, IsAssoc
<1>2. PICK l, m, z : /\ l = Len(a.pairs) /\ m = Len(ps) /\ z = a.size
                     /\ l \in Nat /\ m \in Nat /\ z \in Nat
  <2>1. Len(a.pairs) \in Nat /\ Len(ps) \in Nat
    BY <1>1
  <2> QED
    BY <1>1, <2>1
<1> DEFINE roomy == IF l + m > z THEN ReallocPairs(a, Max2(l + m, 2 * z)) ELSE a
<1>3. b = [roomy EXCEPT !.pairs = @ \o ps]
  BY <1>2 DEF AddPairs, PairCount
<1>4. FitsIn(roomy) /\ roomy.pairs = a.pairs /\ roomy.size >= l + m
  <2>1. CASE l + m > z
    <3>1. PICK n : n = Max2(l + m, 2 * z)
      OBVIOUS
    <3>2. n \in Nat /\ n >= l + m /\ n >= l
      BY <1>2, <3>1 DEF Max2
    <3>3. PICK c : c = ReallocPairs(a, n)
      OBVIOUS
    <3>4. FitsIn(c) /\ c.pairs = a.pairs /\ c.size >= n
      BY <1>2, <3>2, <3>3, ReallocFits
    <3>5. c.size \in Nat
      BY <3>4 DEF FitsIn
    <3>6. c.size >= l + m
      BY <1>2, <3>2, <3>4, <3>5
    <3>7. roomy = c
      BY <2>1, <3>1, <3>3
    <3> QED
      BY <3>4, <3>6, <3>7
  <2>2. CASE ~ (l + m > z)
    BY <1>2, <2>2
  <2> QED
    BY <2>1, <2>2
<1> HIDE DEF roomy
<1>5. a.pairs \o ps \in Seq(Pairs) /\ Len(a.pairs \o ps) = l + m
  BY <1>1, <1>2, ConcatProperties
<1>6. IsAssoc(roomy) /\ roomy.size \in Nat
  BY <1>4 DEF FitsIn
<1>7. Len(a.pairs \o ps) <= roomy.size
  BY <1>2, <1>4, <1>5, <1>6
<1>8. PICK c, s : c = roomy /\ s = a.pairs \o ps
  OBVIOUS
<1>9. s \in Seq(Pairs) /\ Len(s) <= c.size /\ b = [c EXCEPT !.pairs = s]
  BY <1>3, <1>4, <1>5, <1>7, <1>8
<1>10. IsAssoc(c) /\ c.size \in Nat
  BY <1>6, <1>8
<1>11. FitsIn(b) /\ b.pairs = s
  BY <1>9, <1>10, NewPairsFit
<1> QED
  BY <1>8, <1>11

LEMMA SetPairFits ==
    ASSUME NEW a, FitsIn(a), NEW i \in 0 .. Len(a.pairs) - 1, NEW p \in Pairs,
           NEW b, b = SetPair(a, i, p)
    PROVE  /\ FitsIn(b) /\ b.pairs = [a.pairs EXCEPT ![i + 1] = p]
           /\ i + 1 \in 1 .. Len(a.pairs) /\ GetPair(a, i) \in Pairs
<1>1. a.pairs \in Seq(Pairs) /\ IsAssoc(a) /\ Len(a.pairs) \in Nat
  BY DEF FitsIn, IsAssoc
<1>2. PICK s : s = [a.pairs EXCEPT ![i + 1] = p]
  OBVIOUS
<1>3. s \in Seq(Pairs) /\ Len(s) = Len(a.pairs)
  BY <1>1, <1>2
<1>4. i + 1 \in 1 .. Len(a.pairs)
  BY <1>1
<1>5. b = [a EXCEPT !.pairs = s]
  BY <1>1, <1>2 DEF SetPair, IsAssoc
<1>6. FitsIn(b) /\ b.pairs = s
  BY <1>1, <1>3, <1>5, NewPairsFit DEF FitsIn
<1> QED
  BY <1>1, <1>2, <1>4, <1>6 DEF GetPair

LEMMA RemovePairsFit ==
    ASSUME NEW a, Fit(a), NEW r, r.location \in Nat, r.length \in Nat \cup {All}
    PROVE  /\ Fit(RemovePairsInRange(a, r))
           /\ GetPairsInRange(a, r) \in Seq(Pairs)
           /\ \A o : Hold(RemovePairsInRange(a, r).pairs, o)
                       = Hold(a.pairs, o) - Hold(GetPairsInRange(a, r), o)
<1>1. /\ a.pairs \in Seq(Pairs) /\ a.pairs \in Seq(AllPairs) /\ Len(a.pairs) \in Nat
      /\ IsAssoc(a) /\ a.size \in Nat /\ Len(a.pairs) <= a.size
  BY FitFacts
<1>2. PICK v : v = Validated(r, Len(a.pairs))
  OBVIOUS
<1>3. v.location \in Nat /\ v.length \in Nat /\ v.location + v.length <= Len(a.pairs)
  BY <1>1, <1>2, ValidatedWithin
<1>4. PICK b : b = RemovePairsInRange(a, r)
  OBVIOUS
<1>5. b = [a EXCEPT !.pairs = Without(a.pairs, v)] /\ GetPairsInRange(a, r) = Slice(a.pairs, v)
  BY <1>2, <1>4 DEF RemovePairsInRange, GetPairsInRange, PairCount
<1>6. /\ Without(a.pairs, v) \in Seq(Pairs)
      /\ Len(Without(a.pairs, v)) = Len(a.pairs) - v.length
  BY <1>1, <1>3, WithoutItems
<1>7. Len(Without(a.pairs, v)) <= a.size
  BY <1>1, <1>3, <1>6
<1>8. FitsIn(b) /\ b.pairs = Without(a.pairs, v)
  BY <1>1, <1>5, <1>6, <1>7, NewPairsFit
<1>9. IsGood(b)
  BY <1>4, RemoveRangeGood DEF Fit
<1>10. \A o : Hold(Without(a.pairs, v), o) = Hold(a.pairs, o) - Hold(Slice(a.pairs, v), o)
  BY <1>1, <1>3, HeldWithout
<1>11. GetPairsInRange(a, r) \in Seq(Pairs)
  BY <1>1, SliceOfPairs
<1> QED
  BY <1>4, <1>5, <1>8, <1>9, <1>10, <1>11 DEF Fit, FitsIn
-----------------------------------------------------------------------------
(* References keep pace *)

LEMMA ReferencesType ==
    ASSUME OInv
    PROVE  refs \in [Owned -> Int] /\ kind \in {"intptr", "string"}
BY DEF OInv, RefsOK

LEMMA RetainedHold ==
    ASSUME NEW rs \in [Owned -> Int], NEW s \in Seq(AllPairs)
    PROVE  /\ kind = "intptr" => Retained(rs, s) = rs
           /\ Retained(rs, s) \in [Owned -> Int]
           /\ kind # "intptr" => \A o \in Owned : Retained(rs, s)[o] = rs[o] + Hold(s, o)
<1>1. \A o \in Owned : Held(s, o) = Hold(s, o) /\ Held(s, o) \in Int
  BY HeldHold
<1> QED
  BY <1>1 DEF Retained

LEMMA ReleasedHold ==
    ASSUME NEW rs \in [Owned -> Int], NEW s \in Seq(AllPairs)
    PROVE  /\ kind = "intptr" => Released(rs, s) = rs
           /\ Released(rs, s) \in [Owned -> Int]
           /\ kind # "intptr" => \A o \in Owned : Released(rs, s)[o] = rs[o] - Hold(s, o)
<1>1. \A o \in Owned : Held(s, o) = Hold(s, o) /\ Held(s, o) \in Int
  BY HeldHold
<1> QED
  BY <1>1 DEF Released

LEMMA RetainedSettles ==
    ASSUME OInv, NEW a, NEW b, NEW s \in Seq(AllPairs),
           \A o : HoldIn(a, o) \in Nat /\ HoldIn(b, o) = HoldIn(a, o) + Hold(s, o)
    PROVE  Settles(a, b, Retained(refs, s))
<1>1. refs \in [Owned -> Int]
  BY ReferencesType
<1>2. PICK rs : rs = Retained(refs, s)
  OBVIOUS
<1>3. /\ kind = "intptr" => rs = refs
      /\ rs \in [Owned -> Int]
      /\ kind # "intptr" => \A o \in Owned : rs[o] = refs[o] + Hold(s, o)
  BY <1>1, <1>2, RetainedHold
<1>4. \A o : Hold(s, o) \in Nat
  BY HeldHold
<1>5. ASSUME kind # "intptr", NEW o \in Owned
      PROVE  rs[o] = refs[o] + HoldIn(b, o) - HoldIn(a, o)
  <2>1. PICK x, y, z : x = HoldIn(a, o) /\ y = HoldIn(b, o) /\ z = Hold(s, o)
    OBVIOUS
  <2>2. x \in Nat /\ z \in Nat /\ y = x + z
    BY <1>4, <2>1
  <2>3. rs[o] = refs[o] + z /\ refs[o] \in Int
    BY <1>1, <1>3, <1>5, <2>1
  <2>4. rs[o] = refs[o] + y - x
    BY <2>2, <2>3
  <2> QED
    BY <2>1, <2>4
<1> QED
  BY <1>2, <1>3, <1>5 DEF Settles

LEMMA ReleasedSettles ==
    ASSUME OInv, NEW a, NEW b, NEW s \in Seq(AllPairs),
           \A o : HoldIn(a, o) \in Nat /\ HoldIn(b, o) = HoldIn(a, o) - Hold(s, o)
    PROVE  Settles(a, b, Released(refs, s))
<1>1. refs \in [Owned -> Int]
  BY ReferencesType
<1>2. PICK rs : rs = Released(refs, s)
  OBVIOUS
<1>3. /\ kind = "intptr" => rs = refs
      /\ rs \in [Owned -> Int]
      /\ kind # "intptr" => \A o \in Owned : rs[o] = refs[o] - Hold(s, o)
  BY <1>1, <1>2, ReleasedHold
<1>4. \A o : Hold(s, o) \in Nat
  BY HeldHold
<1>5. ASSUME kind # "intptr", NEW o \in Owned
      PROVE  rs[o] = refs[o] + HoldIn(b, o) - HoldIn(a, o)
  <2>1. PICK x, y, z : x = HoldIn(a, o) /\ y = HoldIn(b, o) /\ z = Hold(s, o)
    OBVIOUS
  <2>2. x \in Nat /\ z \in Nat /\ y = x - z
    BY <1>4, <2>1
  <2>3. rs[o] = refs[o] - z /\ refs[o] \in Int
    BY <1>1, <1>3, <1>5, <2>1
  <2>4. rs[o] = refs[o] + y - x
    BY <2>2, <2>3
  <2> QED
    BY <2>1, <2>4
<1> QED
  BY <1>2, <1>3, <1>5 DEF Settles

(* One pair comes, then another goes.                                      *)
LEMMA ReplacedSettles ==
    ASSUME OInv, NEW a, NEW b, NEW s \in Seq(AllPairs), NEW t \in Seq(AllPairs),
           \A o : HoldIn(a, o) \in Nat /\ HoldIn(b, o) = HoldIn(a, o) + Hold(s, o) - Hold(t, o)
    PROVE  Settles(a, b, Released(Retained(refs, s), t))
<1>1. refs \in [Owned -> Int]
  BY ReferencesType
<1>2. PICK qs : qs = Retained(refs, s)
  OBVIOUS
<1>3. /\ kind = "intptr" => qs = refs
      /\ qs \in [Owned -> Int]
      /\ kind # "intptr" => \A o \in Owned : qs[o] = refs[o] + Hold(s, o)
  BY <1>1, <1>2, RetainedHold
<1>4. PICK rs : rs = Released(qs, t)
  OBVIOUS
<1>5. /\ kind = "intptr" => rs = qs
      /\ rs \in [Owned -> Int]
      /\ kind # "intptr" => \A o \in Owned : rs[o] = qs[o] - Hold(t, o)
  BY <1>3, <1>4, ReleasedHold
<1>6. \A o : Hold(s, o) \in Nat /\ Hold(t, o) \in Nat
  BY HeldHold
<1>7. ASSUME kind # "intptr", NEW o \in Owned
      PROVE  rs[o] = refs[o] + HoldIn(b, o) - HoldIn(a, o)
  <2>1. PICK x, y, z, w : /\ x = HoldIn(a, o) /\ y = HoldIn(b, o)
                          /\ z = Hold(s, o) /\ w = Hold(t, o)
    OBVIOUS
  <2>2. x \in Nat /\ z \in Nat /\ w \in Nat /\ y = x + z - w
    BY <1>6, <2>1
  <2>3. rs[o] = qs[o] - w /\ qs[o] = refs[o] + z /\ refs[o] \in Int
    BY <1>1, <1>3, <1>5, <1>7, <2>1
  <2>4. rs[o] = refs[o] + y - x
    BY <2>2, <2>3
  <2> QED
    BY <2>1, <2>4
<1> QED
  BY <1>2, <1>3, <1>4, <1>5, <1>7 DEF Settles

LEMMA SameSettles ==
    ASSUME OInv, NEW a, NEW b, \A o : HoldIn(a, o) \in Nat /\ HoldIn(b, o) = HoldIn(a, o)
    PROVE  Settles(a, b, refs)
<1>1. refs \in [Owned -> Int]
  BY ReferencesType
<1> QED
  BY <1>1 DEF Settles

LEMMA IntegersSettle ==
    ASSUME kind = "intptr", NEW a, NEW b
    PROVE  Settles(a, b, refs)
BY DEF Settles

-----------------------------------------------------------------------------
(* Every action keeps the invariant *)

(* An assoc that comes to be: no enumerator goes through it.               *)
LEMMA OInvNew ==
    ASSUME OInv, NEW id \in Id, assocs[id] = None, NEW a, Fit(a), Put(id, a),
           UNCHANGED <<kind, rover>>, Settles(None, a, refs')
    PROVE  OInv'
<1>1. rover # None => rover.assoc # id
  BY DEF OInv, RoverOK, Live
<1>2. RoverMoves(id, a)
  BY <1>1 DEF RoverMoves
<1> QED
  BY <1>2, OInvStep

LEMMA InitAssocOInv ==
    ASSUME OInv, NEW id \in Id, NEW n \in Capacities, NEW c \in DOMAIN Order, InitAssoc(id, n, c)
    PROVE  OInv'
<1>1. PICK a : a = [pairs |-> <<>>, size |-> n, sorted |-> FALSE, compare |-> c]
  OBVIOUS
<1>2. IsGood(a) /\ a.pairs = <<>> /\ a.size = n
  BY <1>1 DEF IsGood, IsAssoc
<1>3. n \in Nat /\ Len(<<>>) <= n
  <2>1. n \in Nat
    BY AssocAssumption
  <2>2. Len(<<>>) = 0
    OBVIOUS
  <2> QED
    BY <2>1, <2>2
<1>4. Fit(a)
  BY <1>2, <1>3 DEF Fit
<1>5. \A o : HoldIn(None, o) \in Nat /\ HoldIn(a, o) = HoldIn(None, o)
  BY <1>2, <1>4, FitFacts, HeldEmpty DEF HoldIn
<1>6. /\ assocs[id] = None /\ Put(id, a)
      /\ UNCHANGED <<kind, rover>> /\ refs' = refs
  BY <1>1 DEF InitAssoc
<1>7. Settles(None, a, refs')
  BY <1>5, <1>6, SameSettles
<1> QED
  BY <1>4, <1>6, <1>7, OInvNew

LEMMA CopyAssocOInv ==
    ASSUME OInv, NEW id \in Id, NEW other \in Live, CopyAssoc(id, other)
    PROVE  OInv'
<1>1. PICK src : src = assocs[other]
  OBVIOUS
<1> DEFINE dst == [src EXCEPT !.pairs = <<>>, !.size = PairCount(src), !.sorted = FALSE]
           new == CopyItems(dst, src)
<1>2. /\ assocs[id] = None /\ Put(id, new)
      /\ refs' = Retained(refs, src.pairs)
      /\ UNCHANGED <<kind, rover>>
  BY <1>1 DEF CopyAssoc
<1>3. /\ Fit(src) /\ src.pairs \in Seq(Pairs) /\ src.pairs \in Seq(AllPairs)
      /\ Len(src.pairs) \in Nat /\ IsAssoc(src)
  BY <1>1, FitFacts DEF OInv
<1>4. PICK d : d = dst
  OBVIOUS
<1>5. /\ IsAssoc(d) /\ IsGood(d) /\ d.pairs = <<>> /\ d.size = Len(src.pairs) /\ d.sorted = FALSE
  <2>1. <<>> \in Seq(Pairs)
    OBVIOUS
  <2> QED
    BY <1>3, <1>4, <2>1 DEF IsGood, IsAssoc, PairCount
<1>6. GuaranteePairs(d, Len(src.pairs)) = d
  <2>1. Len(d.pairs) = 0
    BY <1>5
  <2>2. PICK l : l = Len(src.pairs)
    OBVIOUS
  <2>3. d.size - PairCount(d) = l /\ ~ (l < l)
    BY <1>3, <1>5, <2>1, <2>2 DEF PairCount
  <2> QED
    BY <2>2, <2>3 DEF GuaranteePairs
<1>7. PICK a : a = new
  OBVIOUS
<1>8. Fit(a) /\ a.pairs = src.pairs
  <2>1. CASE src.pairs = <<>>
    <3>1. a = d
      BY <1>4, <1>7, <2>1 DEF CopyItems
    <3>2. Len(d.pairs) <= d.size
      BY <1>3, <1>5, <2>1
    <3> QED
      BY <1>3, <1>5, <2>1, <3>1, <3>2 DEF Fit
  <2>2. CASE src.pairs # <<>>
    <3>1. PICK e : e = [d EXCEPT !.pairs = <<>> \o src.pairs]
      OBVIOUS
    <3>2. a = Unsorted(e)
      BY <1>4, <1>5, <1>6, <1>7, <2>2, <3>1 DEF CopyItems, PairCount
    <3>3. <<>> \o src.pairs = src.pairs
      BY <1>3, ConcatEmptySeq
    <3>4. FitsIn(e) /\ e.pairs = src.pairs
      <4>1. e = [d EXCEPT !.pairs = src.pairs] /\ d.size \in Nat /\ Len(src.pairs) <= d.size
        BY <1>3, <1>5, <3>1, <3>3
      <4> QED
        BY <1>3, <1>5, <4>1, NewPairsFit
    <3> QED
      BY <3>2, <3>4, UnsortedFits
  <2> QED
    BY <2>1, <2>2
<1>9. \A o : HoldIn(None, o) \in Nat /\ HoldIn(a, o) = HoldIn(None, o) + Hold(src.pairs, o)
  <2>1. \A o : Hold(src.pairs, o) \in Nat
    BY <1>3, HeldHold
  <2>2. \A o : HoldIn(a, o) = Hold(src.pairs, o)
    BY <1>8, FitFacts
  <2> QED
    BY <2>1, <2>2 DEF HoldIn
<1>10. Settles(None, a, refs')
  BY <1>2, <1>3, <1>9, RetainedSettles
<1> QED
  BY <1>2, <1>7, <1>8, <1>10, OInvNew

(* What a live assoc and what it is sorted to are like                     *)
LEMMA LiveFit ==
    ASSUME OInv, NEW id \in Live
    PROVE  /\ id \in Id /\ Fit(assocs[id])
           /\ assocs[id].pairs \in Seq(AllPairs) /\ Len(assocs[id].pairs) \in Nat
           /\ \A o : /\ HoldIn(assocs[id], o) = Hold(assocs[id].pairs, o)
                     /\ HoldIn(assocs[id], o) \in Nat
<1>1. id \in Id /\ Fit(assocs[id])
  BY DEF OInv, Live
<1> QED
  BY <1>1, FitFacts, HeldHold

LEMMA SortedHolds ==
    ASSUME OInv, NEW id \in Live, NEW a \in QsortIfNeeded(id)
    PROVE  /\ Fit(a) /\ a.pairs \in Seq(AllPairs) /\ Len(a.pairs) \in Nat
           /\ Len(a.pairs) = Len(assocs[id].pairs)
           /\ \A o : /\ HoldIn(assocs[id], o) = Hold(a.pairs, o)
                     /\ HoldIn(assocs[id], o) \in Nat
<1>1. Resorted(a, assocs[id])
  BY SortedFit
<1> QED
  BY <1>1, LiveFit, FitFacts DEF Resorted

LEMMA DoneAssocOInv ==
    ASSUME OInv, NEW id \in Live, DoneAssoc(id)
    PROVE  OInv'
<1>1. \A o : /\ HoldIn(assocs[id], o) \in Nat
             /\ HoldIn(None, o) = HoldIn(assocs[id], o) - Hold(assocs[id].pairs, o)
  BY LiveFit DEF HoldIn
<1>2. Settles(assocs[id], None, Released(refs, assocs[id].pairs))
  BY <1>1, LiveFit, ReleasedSettles
<1> QED
  BY <1>2, LiveFit, OInvChange DEF DoneAssoc

LEMMA ResetAssocOInv ==
    ASSUME OInv, NEW id \in Live, ResetAssoc(id)
    PROVE  OInv'
<1>1. PICK a : a = ResetPairs(assocs[id])
  OBVIOUS
<1>2. IsGood(a)
  BY <1>1, LiveFit, ResetGood DEF Fit, IsGood
<1>3. Fit(a) /\ a.pairs = <<>>
  <2>1. IsAssoc(assocs[id]) /\ assocs[id].size \in Nat
    BY LiveFit DEF Fit, IsGood
  <2>2. <<>> \in Seq(Pairs) /\ Len(<<>>) = 0
    OBVIOUS
  <2>3. Len(<<>>) <= assocs[id].size
    BY <2>1, <2>2
  <2>4. PICK b, s : b = assocs[id] /\ s = <<>>
    OBVIOUS
  <2>5. /\ IsAssoc(b) /\ b.size \in Nat /\ s \in Seq(Pairs) /\ Len(s) <= b.size
        /\ a = [b EXCEPT !.pairs = s]
    BY <1>1, <2>1, <2>2, <2>3, <2>4 DEF ResetPairs
  <2>6. FitsIn(a) /\ a.pairs = s
    BY <2>5, NewPairsFit
  <2> QED
    BY <1>2, <2>4, <2>6 DEF Fit, FitsIn
<1>4. \A o : /\ HoldIn(assocs[id], o) \in Nat
             /\ HoldIn(a, o) = HoldIn(assocs[id], o) - Hold(assocs[id].pairs, o)
  <2> TAKE o
  <2>1. HoldIn(a, o) = 0
    BY <1>3, FitFacts, HeldEmpty
  <2>2. HoldIn(assocs[id], o) = Hold(assocs[id].pairs, o) /\ HoldIn(assocs[id], o) \in Nat
    BY LiveFit
  <2> QED
    BY <2>1, <2>2
<1>5. Settles(assocs[id], a, Released(refs, assocs[id].pairs))
  BY <1>4, LiveFit, ReleasedSettles
<1> QED
  BY <1>1, <1>3, <1>5, LiveFit, OInvChange DEF ResetAssoc

LEMMA SetCompareOInv ==
    ASSUME OInv, NEW id \in Live, NEW c \in DOMAIN Order, SetCompare(id, c)
    PROVE  OInv'
<1>1. PICK b : b = [assocs[id] EXCEPT !.compare = c]
  OBVIOUS
<1>2. FitsIn(b) /\ b.pairs = assocs[id].pairs
  BY <1>1, LiveFit DEF Fit, FitsIn, IsGood, IsAssoc
<1>3. PICK a : a = Unsorted(b)
  OBVIOUS
<1>4. Fit(a) /\ a.pairs = assocs[id].pairs
  BY <1>2, <1>3, UnsortedFits
<1>5. \A o : HoldIn(assocs[id], o) \in Nat /\ HoldIn(a, o) = HoldIn(assocs[id], o)
  BY <1>4, LiveFit, FitFacts
<1>6. Settles(assocs[id], a, refs)
  BY <1>5, SameSettles
<1>7. Change(id, a, refs)
  BY <1>1, <1>3 DEF SetCompare
<1> QED
  BY <1>4, <1>6, <1>7, LiveFit, OInvChange

LEMMA PairFacts ==
    ASSUME NEW k \in Key, NEW v \in Value
    PROVE  Pair(k, v) \in Pairs /\ Pair(k, v) \in AllPairs /\ <<Pair(k, v)>> \in Seq(AllPairs)
<1>1. Pair(k, v) \in Pairs
  BY DEF Pair, Pairs
<1> QED
  BY <1>1, PairsAll

LEMMA AddKeyOInv ==
    ASSUME OInv, NEW id \in Live, NEW k \in Key, NEW v \in Value,
           AddKey(id, k, v) \/ AddKeyGuaranteed(id, k, v)
    PROVE  OInv'
<1>1. PICK p : p = Pair(k, v) /\ p \in Pairs /\ p \in AllPairs /\ <<p>> \in Seq(AllPairs)
  BY PairFacts
<1>2. FitsIn(assocs[id])
  BY LiveFit, FitIsFit
<1>3. PICK b : /\ FitsIn(b) /\ b.pairs = Append(assocs[id].pairs, p)
               /\ Change(id, Unsorted(b), Retained(refs, <<p>>))
  <2>1. CASE AddKey(id, k, v)
    BY <1>1, <1>2, <2>1, AddPairFits DEF AddKey
  <2>2. CASE AddKeyGuaranteed(id, k, v)
    BY <1>1, <1>2, <2>2, AddGuaranteedFits DEF AddKeyGuaranteed
  <2> QED
    BY <2>1, <2>2
<1>4. PICK a : a = Unsorted(b)
  OBVIOUS
<1>5. Fit(a) /\ a.pairs = Append(assocs[id].pairs, p)
  BY <1>3, <1>4, UnsortedFits
<1>6. \A o : /\ HoldIn(assocs[id], o) \in Nat
             /\ HoldIn(a, o) = HoldIn(assocs[id], o) + Hold(<<p>>, o)
  <2> TAKE o
  <2>1. /\ HoldIn(assocs[id], o) = Hold(assocs[id].pairs, o)
        /\ HoldIn(assocs[id], o) \in Nat /\ assocs[id].pairs \in Seq(AllPairs)
    BY LiveFit
  <2>2. HoldIn(a, o) = Hold(Append(assocs[id].pairs, p), o)
    BY <1>5, FitFacts
  <2>3. Hold(Append(assocs[id].pairs, p), o) = Hold(assocs[id].pairs, o) + Hold(<<p>>, o)
    BY <1>1, <2>1, HeldAppend
  <2> QED
    BY <2>1, <2>2, <2>3
<1>7. Settles(assocs[id], a, Retained(refs, <<p>>))
  BY <1>1, <1>6, RetainedSettles
<1> QED
  BY <1>3, <1>4, <1>5, <1>7, LiveFit, OInvChange

(* A pair that is put in the place of another                              *)
LEMMA PlacedOInv ==
    ASSUME OInv, NEW id \in Live, NEW a \in QsortIfNeeded(id), NEW i \in 0 .. Len(a.pairs) - 1,
           NEW p \in Pairs,
           Change(id, Unsorted(SetPair(a, i, p)), Released(Retained(refs, <<p>>), <<GetPair(a, i)>>))
    PROVE  OInv'
<1>1. PICK b : b = SetPair(a, i, p)
  OBVIOUS
<1>2. FitsIn(a)
  BY SortedHolds, FitIsFit
<1>3. PICK s, q, n : s = a.pairs /\ q = GetPair(a, i) /\ n = i + 1
  OBVIOUS
<1>4. /\ FitsIn(b) /\ b.pairs = [s EXCEPT ![n] = p]
      /\ n \in 1 .. Len(s) /\ q \in Pairs /\ q = s[n]
  BY <1>1, <1>2, <1>3, SetPairFits DEF GetPair
<1>5. s \in Seq(AllPairs) /\ p \in AllPairs /\ <<p>> \in Seq(AllPairs) /\ <<q>> \in Seq(AllPairs)
  <2>1. s \in Seq(AllPairs)
    BY <1>3, SortedHolds
  <2>2. p \in AllPairs /\ q \in AllPairs
    BY <1>4, PairsAll
  <2> QED
    BY <2>1, <2>2
<1>6. PICK c : c = Unsorted(b)
  OBVIOUS
<1>7. Fit(c) /\ c.pairs = [s EXCEPT ![n] = p]
  BY <1>4, <1>6, UnsortedFits
<1>8. \A o : /\ HoldIn(assocs[id], o) \in Nat
             /\ HoldIn(c, o) = HoldIn(assocs[id], o) + Hold(<<p>>, o) - Hold(<<q>>, o)
  <2> TAKE o
  <2>1. HoldIn(assocs[id], o) = Hold(s, o) /\ HoldIn(assocs[id], o) \in Nat
    BY <1>3, SortedHolds
  <2>2. HoldIn(c, o) = Hold([s EXCEPT ![n] = p], o)
    BY <1>7, FitFacts
  <2>3. Hold([s EXCEPT ![n] = p], o) = Hold(s, o) + Hold(<<p>>, o) - Hold(<<s[n]>>, o)
    BY <1>4, <1>5, HeldReplaced
  <2> QED
    BY <1>4, <2>1, <2>2, <2>3
<1>9. Settles(assocs[id], c, Released(Retained(refs, <<p>>), <<q>>))
  BY <1>5, <1>8, ReplacedSettles
<1> QED
  BY <1>1, <1>3, <1>6, <1>7, <1>9, LiveFit, OInvChange

LEMMA SetKeyOInv ==
    ASSUME OInv, NEW id \in Live, NEW k \in Key, NEW v \in Value, SetKey(id, k, v)
    PROVE  OInv'
<1>1. PICK p : p = Pair(k, v) /\ p \in Pairs /\ p \in AllPairs /\ <<p>> \in Seq(AllPairs)
  BY PairFacts
<1> DEFINE set(a, i) == IF i = NotFound THEN AddPair(a, p) ELSE SetPair(a, i, p)
           old(a, i) == IF i = NotFound THEN <<>> ELSE <<GetPair(a, i)>>
           Replaces(a, i) ==
               Change(id, Unsorted(set(a, i)), Released(Retained(refs, <<p>>), old(a, i)))
<1>2. PICK a \in QsortIfNeeded(id) : Replaces(a, Bsearch(a.pairs, k, Rank(id)))
  BY <1>1 DEF SetKey
<1>3. PICK i : i = Bsearch(a.pairs, k, Rank(id))
  OBVIOUS
<1>4. Fit(a) /\ a.pairs \in Seq(AllPairs)
  BY SortedHolds
<1>5. CASE i # NotFound
  <2>1. i \in 0 .. Len(a.pairs) - 1
    BY <1>3, <1>4, <1>5, BsearchFinds
  <2>2. Change(id, Unsorted(SetPair(a, i, p)), Released(Retained(refs, <<p>>), <<GetPair(a, i)>>))
    BY <1>2, <1>3, <1>5
  <2> QED
    BY <1>1, <2>1, <2>2, PlacedOInv
<1>6. CASE i = NotFound
  <2>1. PICK b : b = AddPair(a, p)
    OBVIOUS
  <2>2. FitsIn(b) /\ b.pairs = Append(a.pairs, p)
    BY <1>1, <1>4, <2>1, FitIsFit, AddPairFits
  <2>3. PICK c : c = Unsorted(b)
    OBVIOUS
  <2>4. Fit(c) /\ c.pairs = Append(a.pairs, p)
    BY <2>2, <2>3, UnsortedFits
  <2>5. <<>> \in Seq(AllPairs)
    OBVIOUS
  <2>6. PICK t : t = <<>>
    OBVIOUS
  <2>7. \A o : /\ HoldIn(assocs[id], o) \in Nat
               /\ HoldIn(c, o) = HoldIn(assocs[id], o) + Hold(<<p>>, o) - Hold(t, o)
    <3> TAKE o
    <3>1. HoldIn(assocs[id], o) = Hold(a.pairs, o) /\ HoldIn(assocs[id], o) \in Nat
      BY SortedHolds
    <3>2. HoldIn(c, o) = Hold(Append(a.pairs, p), o)
      BY <2>4, FitFacts
    <3>3. Hold(Append(a.pairs, p), o) = Hold(a.pairs, o) + Hold(<<p>>, o)
      BY <1>1, <1>4, HeldAppend
    <3>4. Hold(t, o) = 0 /\ Hold(<<p>>, o) \in Nat
      BY <1>1, <2>6, HeldEmpty, HeldHold
    <3> QED
      BY <3>1, <3>2, <3>3, <3>4
  <2>8. Settles(assocs[id], c, Released(Retained(refs, <<p>>), t))
    BY <1>1, <2>5, <2>6, <2>7, ReplacedSettles
  <2>9. Change(id, c, Released(Retained(refs, <<p>>), t))
    BY <1>2, <1>3, <1>6, <2>1, <2>3, <2>6
  <2> QED
    BY <2>4, <2>8, <2>9, LiveFit, OInvChange
<1> QED
  BY <1>5, <1>6

LEMMA SetAtIndexOInv ==
    ASSUME OInv, NEW id \in Live, NEW i \in Indices(id), NEW k \in Key, NEW v \in Value,
           SetAtIndex(id, i, k, v)
    PROVE  OInv'
<1>1. PICK p : p = Pair(k, v) /\ p \in Pairs
  BY PairFacts
<1>2. PICK a \in QsortIfNeeded(id) :
         Change(id, Unsorted(SetPair(a, i, p)), Released(Retained(refs, <<p>>), <<GetPair(a, i)>>))
  BY <1>1 DEF SetAtIndex
<1>3. i \in 0 .. Len(a.pairs) - 1
  BY SortedHolds DEF Indices, Count, PairCount
<1> QED
  BY <1>1, <1>2, <1>3, PlacedOInv

LEMMA RangesFacts ==
    ASSUME OInv, NEW id \in Live, NEW r \in Ranges(id)
    PROVE  r.location \in Nat /\ r.length \in Nat \cup {All}
<1>1. Count(id) \in Nat
  BY LiveFit DEF Count, PairCount
<1> QED
  BY <1>1 DEF Ranges, All

LEMMA AddAssocRangeOInv ==
    ASSUME OInv, NEW id \in Live, NEW other \in Live, NEW r \in Ranges(other),
           AddAssocRange(id, other, r)
    PROVE  OInv'
<1> DEFINE q    == GetPairsInRange(assocs[other], r)
           news == {n \in DOMAIN q : /\ ~ MemberKey(id, q[n].key)
                                     /\ \A m \in 1 .. n - 1 : Class[q[m].key] # Class[q[n].key]}
           items(f) == [i \in DOMAIN f |-> q[f[i]]]
<1>1. PICK f \in [1 .. Cardinality(news) -> news] :
         Change(id, IF q = <<>> THEN assocs[id] ELSE Unsorted(AddPairs(assocs[id], items(f))),
                Retained(refs, items(f)))
  BY DEF AddAssocRange
<1>2. q \in Seq(Pairs)
  BY LiveFit, RangesFacts, SliceOfPairs DEF Fit, IsGood
<1> HIDE DEF q
<1>3. Cardinality(news) \in Nat /\ news \subseteq DOMAIN q
  <2>1. IsFiniteSet(1 .. Len(q)) /\ DOMAIN q = 1 .. Len(q)
    BY <1>2, FS_Interval
  <2>2. news \subseteq 1 .. Len(q)
    BY <2>1
  <2> HIDE DEF news
  <2> QED
    BY <2>1, <2>2, FS_Subset, FS_CardinalityType
<1>4. q = <<>> => Cardinality(news) = 0
  <2>1. q = <<>> => news = {}
    BY <1>3
  <2> QED
    BY <2>1, FS_EmptySet
<1> HIDE DEF news
<1>5. PICK s : s = items(f)
  OBVIOUS
<1>6. s \in Seq(Pairs) /\ (q = <<>> => s = <<>>)
  <2>1. DOMAIN f = 1 .. Cardinality(news) /\ \A i \in DOMAIN f : q[f[i]] \in Pairs
    BY <1>2, <1>3
  <2>2. s \in [1 .. Cardinality(news) -> Pairs]
    BY <1>5, <2>1
  <2>3. s \in Seq(Pairs)
    BY <1>3, <2>2
  <2>4. ASSUME q = <<>> PROVE s = <<>>
    <3>1. s \in [1 .. 0 -> Pairs]
      BY <1>4, <2>2, <2>4
    <3>2. Len(s) = 0
      BY <2>3, <3>1
    <3> QED
      BY <2>3, <3>2
  <2> QED
    BY <2>3, <2>4
<1>7. s \in Seq(AllPairs)
  BY <1>6, PairsAll
<1>8. PICK a : a = IF q = <<>> THEN assocs[id] ELSE Unsorted(AddPairs(assocs[id], s))
  OBVIOUS
<1>9. Fit(a) /\ \A o : Hold(a.pairs, o) = Hold(assocs[id].pairs, o) + Hold(s, o)
  <2>1. CASE q = <<>>
    <3>1. a = assocs[id] /\ s = <<>>
      BY <1>6, <1>8, <2>1
    <3>2. \A o : Hold(s, o) = 0
      BY <3>1, HeldEmpty
    <3>3. \A o : Hold(assocs[id].pairs, o) \in Nat
      BY LiveFit, HeldHold
    <3>4. \A o : Hold(assocs[id].pairs, o) = Hold(assocs[id].pairs, o) + Hold(s, o)
      BY <3>2, <3>3
    <3> QED
      BY <3>1, <3>4, LiveFit
  <2>2. CASE q # <<>>
    <3>1. PICK b : b = AddPairs(assocs[id], s)
      OBVIOUS
    <3>2. FitsIn(b) /\ b.pairs = assocs[id].pairs \o s
      BY <1>6, <3>1, LiveFit, FitIsFit, AddPairsFit
    <3>3. a = Unsorted(b)
      BY <1>8, <2>2, <3>1
    <3>4. Fit(a) /\ a.pairs = assocs[id].pairs \o s
      BY <3>2, <3>3, UnsortedFits
    <3>5. assocs[id].pairs \in Seq(AllPairs)
      BY LiveFit
    <3> QED
      BY <1>7, <3>4, <3>5, HeldConcat
  <2> QED
    BY <2>1, <2>2
<1>10. \A o : HoldIn(assocs[id], o) \in Nat /\ HoldIn(a, o) = HoldIn(assocs[id], o) + Hold(s, o)
  BY <1>9, LiveFit, FitFacts
<1>11. Settles(assocs[id], a, Retained(refs, s))
  BY <1>7, <1>10, RetainedSettles
<1>12. Change(id, a, Retained(refs, s))
  BY <1>1, <1>5, <1>8
<1> QED
  BY <1>9, <1>11, <1>12, LiveFit, OInvChange

LEMMA RemoveRangeOInv ==
    ASSUME OInv, NEW id \in Live, NEW a, a = assocs[id] \/ a \in QsortIfNeeded(id), NEW r,
           r.location \in Nat, r.length \in Nat \cup {All}, RemoveRange(id, a, r)
    PROVE  OInv'
<1>1. Fit(a) /\ \A o : HoldIn(assocs[id], o) = Hold(a.pairs, o) /\ HoldIn(assocs[id], o) \in Nat
  BY LiveFit, SortedHolds
<1>2. PICK b, s : b = RemovePairsInRange(a, r) /\ s = GetPairsInRange(a, r)
  OBVIOUS
<1>3. Fit(b) /\ s \in Seq(Pairs) /\ \A o : Hold(b.pairs, o) = Hold(a.pairs, o) - Hold(s, o)
  BY <1>1, <1>2, RemovePairsFit
<1>4. s \in Seq(AllPairs)
  BY <1>3, PairsAll
<1>5. \A o : HoldIn(assocs[id], o) \in Nat /\ HoldIn(b, o) = HoldIn(assocs[id], o) - Hold(s, o)
  BY <1>1, <1>3, FitFacts
<1>6. Settles(assocs[id], b, Released(refs, s))
  BY <1>4, <1>5, ReleasedSettles
<1>7. Change(id, b, Released(refs, s))
  BY <1>2 DEF RemoveRange
<1> QED
  BY <1>3, <1>6, <1>7, LiveFit, OInvChange

LEMMA RemoveInRangeOInv ==
    ASSUME OInv, NEW id \in Live, NEW r \in Ranges(id), RemoveInRange(id, r)
    PROVE  OInv'
BY RangesFacts, RemoveRangeOInv DEF RemoveInRange

LEMMA RemoveKeyOInv ==
    ASSUME OInv, NEW id \in Live, NEW k, RemoveKey(id, k)
    PROVE  OInv'
<1>1. PICK a \in QsortIfNeeded(id) :
         LET hit == Bsearch(a.pairs, k, Rank(id))
             end == PairCount(a) - 1
         IN  \/ Answer(id, a, None)
             \/ \E first, last \in 0 .. end :
                   hit \in first .. last /\ RemoveRange(id, a, Make(first, last + 1 - first))
  BY DEF RemoveKey
<1>2. CASE Answer(id, a, None)
  BY <1>2, SortedFit, OInvAnswer
<1>3. CASE ~ Answer(id, a, None)
  <2>1. PairCount(a) - 1 \in Int
    BY SortedHolds DEF PairCount
  <2>2. PICK first, last \in 0 .. PairCount(a) - 1 :
           first <= last /\ RemoveRange(id, a, Make(first, last + 1 - first))
    BY <1>1, <1>3, <2>1
  <2> DEFINE r == Make(first, last + 1 - first)
  <2>3. r.location \in Nat /\ r.length \in Nat \cup {All}
    BY <2>1, <2>2 DEF Make
  <2> HIDE DEF r
  <2>4. RemoveRange(id, a, r)
    BY <2>2 DEF r
  <2> QED
    BY <2>3, <2>4, RemoveRangeOInv
<1> QED
  BY <1>2, <1>3

LEMMA RemoveLastOInv ==
    ASSUME OInv, NEW id \in Live, RemoveLast(id)
    PROVE  OInv'
<1>1. PICK a : a = assocs[id]
  OBVIOUS
<1>2. /\ Fit(a) /\ a.pairs \in Seq(AllPairs) /\ a.pairs \in Seq(Pairs)
      /\ Len(a.pairs) \in Nat /\ IsAssoc(a) /\ a.size \in Nat /\ Len(a.pairs) <= a.size
  BY <1>1, LiveFit, FitFacts
<1>3. a.pairs # <<>> /\ Len(a.pairs) # 0
  <2>1. Len(a.pairs) > 0
    BY <1>1 DEF RemoveLast, Count, PairCount
  <2> QED
    BY <2>1
<1>4. PICK b, s, p : /\ b = PopPair(a) /\ p = LastPair(a)
                     /\ s = SubSeq(a.pairs, 1, Len(a.pairs) - 1)
  OBVIOUS
<1>5. p = a.pairs[Len(a.pairs)] /\ p \in AllPairs /\ <<p>> \in Seq(AllPairs)
  <2>1. p = a.pairs[Len(a.pairs)]
    BY <1>3, <1>4 DEF LastPair, PairCount
  <2>2. Len(a.pairs) \in 1 .. Len(a.pairs)
    BY <1>2, <1>3
  <2>3. p \in AllPairs
    BY <1>2, <2>1, <2>2
  <2> QED
    BY <2>1, <2>3
<1>6. (\A o : Hold(s, o) = Hold(a.pairs, o) - Hold(<<p>>, o)) /\ Len(s) = Len(a.pairs) - 1
  BY <1>2, <1>3, <1>4, <1>5, HeldButLast
<1>7. s \in Seq(Pairs)
  <2>1. \A i \in 1 .. Len(a.pairs) - 1 : a.pairs[i] \in Pairs
    BY <1>2
  <2>2. Len(a.pairs) - 1 \in Int
    BY <1>2
  <2> QED
    BY <1>4, <2>1, <2>2, SubSeqProperties
<1>8. Fit(b) /\ b.pairs = s
  <2>1. b = [a EXCEPT !.pairs = s]
    BY <1>3, <1>4 DEF PopPair, PairCount
  <2>2. Len(s) <= a.size
    BY <1>2, <1>6
  <2>3. FitsIn(b) /\ b.pairs = s
    BY <1>2, <1>7, <2>1, <2>2, NewPairsFit
  <2>4. IsGood(b)
    BY <1>2, <1>4, PopPairKeeps DEF Fit
  <2> QED
    BY <2>3, <2>4 DEF Fit, FitsIn
<1>9. \A o : HoldIn(a, o) \in Nat /\ HoldIn(b, o) = HoldIn(a, o) - Hold(<<p>>, o)
  <2> TAKE o
  <2>1. HoldIn(a, o) = Hold(a.pairs, o) /\ HoldIn(a, o) \in Nat
    BY <1>1, LiveFit
  <2>2. HoldIn(b, o) = Hold(s, o)
    BY <1>8, FitFacts
  <2> QED
    BY <1>6, <2>1, <2>2
<1>10. Settles(a, b, Released(refs, <<p>>))
  BY <1>5, <1>9, ReleasedSettles
<1>11. Change(id, b, Released(refs, <<p>>))
  BY <1>1, <1>4 DEF RemoveLast
<1> QED
  BY <1>1, <1>8, <1>10, <1>11, LiveFit, OInvChange

LEMMA SearchOInv ==
    ASSUME OInv, NEW id \in Live,
           \/ \E k : \/ GetKey(id, k) \/ FindKey(id, k) \/ FindKeyByCompare(id, k)
                     \/ Member(id, k)
           \/ \E k, r : FindInRange(id, k, r)
           \/ \E i : GetAtIndex(id, i)
           \/ GetLast(id)
           \/ \E r : GetInRange(id, r)
    PROVE  OInv'
<1>1. \/ \E result : Answer(id, assocs[id], result)
      \/ \E a \in QsortIfNeeded(id) : \E result : Answer(id, a, result)
  BY DEF GetKey, FindKey, FindKeyByCompare, Member, FindInRange, GetAtIndex, GetLast, GetInRange
<1>2. Resorted(assocs[id], assocs[id])
  BY LiveFit DEF Resorted
<1> QED
  BY <1>1, <1>2, SortedFit, OInvAnswer

(* Nothing changes but the result and the rover.                           *)
LEMMA SameOInv ==
    ASSUME OInv, UNCHANGED <<kind, assocs, refs>>, RoverOK'
    PROVE  OInv'
<1>1. AInv'
  BY SameInv DEF OInv
<1>2. (\A i \in Live : Fit(assocs[i]))'
  BY DEF OInv, Live, Fit, IsGood, IsAssoc, Pairs, Key, InOrder
<1>3. IsFiniteSet(PlacesOf(assocs)) /\ \A o : PlaceCount(assocs', o) = PlaceCount(assocs, o)
  BY DEF OInv
<1>4. RefsOK'
  BY <1>3 DEF OInv, RefsOK, Owned
<1> QED
  BY <1>1, <1>2, <1>3, <1>4 DEF OInv

LEMMA StutterOInv ==
    ASSUME OInv, UNCHANGED <<kind, assocs, refs, rover>>
    PROVE  OInv'
<1>1. RoverOK'
  BY DEF OInv, RoverOK, Live, IsSorted
<1> QED
  BY <1>1, SameOInv

LEMMA EnumeratorNextOInv ==
    ASSUME OInv, EnumeratorNext
    PROVE  OInv'
<1>1. RoverOK'
  <2>1. CASE rover.at < rover.end
    <3>1. rover \in [assoc : Live, at : Nat, end : Nat] /\ IsSorted(rover.assoc)
      BY DEF EnumeratorNext, OInv, RoverOK
    <3>2. rover' = [rover EXCEPT !.at = @ + 1] /\ assocs' = assocs
      BY <2>1 DEF EnumeratorNext
    <3>3. rover' \in [assoc : Live, at : Nat, end : Nat] /\ rover'.assoc = rover.assoc
      BY <3>1, <3>2
    <3>4. Live' = Live /\ IsSorted(rover.assoc)' = IsSorted(rover.assoc)
      BY <3>2 DEF Live, IsSorted
    <3> QED
      BY <3>1, <3>2, <3>3 DEF RoverOK, Live, IsSorted
  <2>2. CASE ~ (rover.at < rover.end)
    BY <2>2 DEF EnumeratorNext, RoverOK
  <2> QED
    BY <2>1, <2>2
<1> QED
  BY <1>1, SameOInv DEF EnumeratorNext

LEMMA EnumerateOInv ==
    ASSUME OInv, NEW id \in Live, Enumerate(id)
    PROVE  OInv'
<1>1. PICK a \in QsortIfNeeded(id) :
         /\ Put(id, a) /\ rover' = [assoc |-> id, at |-> 0, end |-> PairCount(a)]
         /\ UNCHANGED <<kind, refs>>
  BY DEF Enumerate
<1>2. Fit(a) /\ a.sorted = TRUE /\ a # None /\ Len(a.pairs) \in Nat
  BY SortedFit, SortedHolds, FitFacts
<1>3. RoverMoves(id, a)
  BY <1>1, <1>2 DEF RoverMoves, PairCount
<1>4. \A o : HoldIn(assocs[id], o) \in Nat /\ HoldIn(a, o) = HoldIn(assocs[id], o)
  BY <1>2, SortedHolds, FitFacts
<1>5. Settles(assocs[id], a, refs')
  BY <1>1, <1>4, SameSettles
<1> QED
  BY <1>1, <1>2, <1>3, <1>5, LiveFit, OInvStep

(* Both of the assocs that are compared may get sorted.                    *)
LEMMA IsEqualOInv ==
    ASSUME OInv, NEW id \in Live, NEW other \in Live, IsEqual(id, other)
    PROVE  OInv'
<1>1. id # other /\ UNCHANGED <<kind, refs, rover>>
  BY DEF IsEqual
<1>2. CASE UNCHANGED assocs
  BY <1>1, <1>2, StutterOInv
<1>3. CASE ~ UNCHANGED assocs
  <2>1. PICK a \in QsortIfNeeded(id), b \in QsortIfNeeded(other) :
           assocs' = [assocs EXCEPT ![id] = a, ![other] = b]
    BY <1>3 DEF IsEqual
  <2>2. /\ Fit(a) /\ Fit(b) /\ a.sorted = TRUE /\ b.sorted = TRUE
        /\ a # None /\ b # None
        /\ a.pairs \in Seq(AllPairs) /\ b.pairs \in Seq(AllPairs)
    BY SortedFit, SortedHolds, FitFacts
  <2>3. /\ \A o : HoldIn(a, o) = HoldIn(assocs[id], o) /\ HoldIn(a, o) \in Nat
        /\ \A o : HoldIn(b, o) = HoldIn(assocs[other], o) /\ HoldIn(b, o) \in Nat
    <3>1. \A o : HoldIn(a, o) = HoldIn(assocs[id], o) /\ HoldIn(a, o) \in Nat
      BY <2>2, SortedHolds, FitFacts
    <3>2. \A o : HoldIn(b, o) = HoldIn(assocs[other], o) /\ HoldIn(b, o) \in Nat
      BY <2>2, SortedHolds, FitFacts
    <3> QED
      BY <3>1, <3>2
  <2>4. DOMAIN assocs = Id /\ id \in Id /\ other \in Id
    BY LiveFit DEF OInv, AInv
  <2>5. PICK f, h, g : f = assocs /\ h = [assocs EXCEPT ![id] = a] /\ g = assocs'
    OBVIOUS
  <2>6. /\ \A i \in Id : i # id => h[i] = f[i]
        /\ \A i \in Id : i # other => g[i] = h[i]
        /\ h[id] = a /\ g[other] = b /\ g[id] = a
        /\ h[other] = f[other]
    BY <1>1, <2>1, <2>4, <2>5
  <2>7. /\ f[id].pairs \in Seq(AllPairs) /\ f[other].pairs \in Seq(AllPairs)
        /\ h[id].pairs \in Seq(AllPairs) /\ h[other].pairs \in Seq(AllPairs)
        /\ g[other].pairs \in Seq(AllPairs)
    BY <2>2, <2>5, <2>6, LiveFit
  <2>8. IsFiniteSet(PlacesOf(f))
    BY <2>5 DEF OInv
  <2>9. \A o : /\ IsFiniteSet(PlacesOf(h))
               /\ PlaceCount(h, o) = PlaceCount(f, o) + HoldIn(h[id], o) - HoldIn(f[id], o)
    <3>1. /\ id \in Id /\ \A i \in Id : i # id => h[i] = f[i]
          /\ f[id] # None => f[id].pairs \in Seq(AllPairs)
          /\ h[id] # None => h[id].pairs \in Seq(AllPairs)
      BY <2>4, <2>6, <2>7
    <3> QED
      BY <2>8, <3>1, PairsChange
  <2>10. \A o : /\ IsFiniteSet(PlacesOf(g))
                /\ PlaceCount(g, o) = PlaceCount(h, o) + HoldIn(g[other], o) - HoldIn(h[other], o)
    <3>1. /\ other \in Id /\ \A i \in Id : i # other => g[i] = h[i]
          /\ h[other] # None => h[other].pairs \in Seq(AllPairs)
          /\ g[other] # None => g[other].pairs \in Seq(AllPairs)
      BY <2>4, <2>6, <2>7
    <3>2. IsFiniteSet(PlacesOf(h))
      BY <2>9
    <3> QED
      BY <3>1, <3>2, PairsChange
  <2>11. kind = "string" => \A o \in Owned : PlaceCount(g, o) = PlaceCount(f, o)
    <3> SUFFICES ASSUME kind = "string", NEW o \in Owned PROVE PlaceCount(g, o) = PlaceCount(f, o)
      OBVIOUS
    <3>1. PICK x, y : x = HoldIn(a, o) /\ y = HoldIn(b, o)
      OBVIOUS
    <3>2. x \in Nat /\ y \in Nat
      BY <2>3, <3>1
    <3>3. PlaceCount(f, o) \in Int
      BY <2>5 DEF OInv, RefsOK
    <3>4. PlaceCount(h, o) = PlaceCount(f, o) + x - x
      BY <2>3, <2>5, <2>6, <2>9, <3>1
    <3>5. PlaceCount(h, o) = PlaceCount(f, o)
      BY <3>2, <3>3, <3>4
    <3>6. PlaceCount(g, o) = PlaceCount(h, o) + y - y
      BY <2>3, <2>5, <2>6, <2>10, <3>1
    <3> QED
      BY <3>2, <3>3, <3>5, <3>6
  <2>12. RefsOK'
    BY <1>1, <2>5, <2>11 DEF OInv, RefsOK, Owned
  <2>13. AInv'
    BY IsEqualInv DEF OInv
  <2>14. \A i \in Id : g[i] # None => Fit(g[i])
    <3>1. \A i \in Id : f[i] # None => Fit(f[i])
      BY <2>5 DEF OInv, Live
    <3>2. \A i \in Id : i # id /\ i # other => g[i] = f[i]
      BY <2>6
    <3> QED
      BY <2>2, <2>6, <3>1, <3>2
  <2>15. (\A i \in Live : Fit(assocs[i]))'
    <3>1. Pairs' = Pairs
      BY <1>1 DEF Pairs, Key
    <3> QED
      BY <2>5, <2>14, <3>1 DEF Live, Fit, IsGood, IsAssoc
  <2>16. RoverOK'
    <3>1. \A i \in Live : assocs'[i] # None /\ (assocs[i].sorted => assocs'[i].sorted)
      <4>1. \A i \in Live : i # id /\ i # other => assocs'[i] = assocs[i]
        BY <2>5, <2>6 DEF Live
      <4> QED
        BY <2>2, <2>5, <2>6, <4>1 DEF Live
    <3>2. Live \subseteq Live'
      BY <3>1 DEF Live
    <3> QED
      BY <1>1, <3>1, <3>2 DEF OInv, RoverOK, IsSorted
  <2> QED
    BY <1>1, <2>5, <2>10, <2>12, <2>13, <2>15, <2>16 DEF OInv
<1> QED
  BY <1>2, <1>3

(* A loop over the keys leaves as many pairs; integers are not counted.    *)
LEMMA RekeyedFit ==
    ASSUME NEW a, Fit(a), NEW b, IsGood(Unsorted(b)),
           NEW s, b = [a EXCEPT !.pairs = s], DOMAIN s = DOMAIN a.pairs
    PROVE  Fit(Unsorted(b))
<1>1. /\ IsAssoc(a) /\ a.pairs \in Seq(Pairs) /\ Len(a.pairs) \in Nat
      /\ a.size \in Nat /\ Len(a.pairs) <= a.size
  BY FitFacts
<1>2. Unsorted(b).pairs = s /\ Unsorted(b).size = a.size
  BY <1>1 DEF IsAssoc, Unsorted
<1>3. Len(s) = Len(a.pairs)
  <2>1. s \in Seq(Pairs)
    BY <1>2 DEF IsGood, IsAssoc
  <2>2. DOMAIN s = 1 .. Len(s) /\ DOMAIN a.pairs = 1 .. Len(a.pairs) /\ Len(s) \in Nat
    BY <1>1, <2>1
  <2>3. PICK l, m : l = Len(s) /\ m = Len(a.pairs)
    OBVIOUS
  <2>4. l \in Nat /\ m \in Nat /\ 1 .. l = 1 .. m
    BY <1>1, <2>2, <2>3
  <2>5. (l = 0 \/ l \in 1 .. m) /\ (m = 0 \/ m \in 1 .. l)
    BY <2>4
  <2> QED
    BY <2>3, <2>4, <2>5
<1> QED
  BY <1>1, <1>2, <1>3 DEF Fit

LEMMA RekeyedOInv ==
    ASSUME OInv, kind = "intptr", NEW id \in Live, NEW b, Fit(b), Change(id, b, refs)
    PROVE  OInv'
BY LiveFit, IntegersSettle, OInvChange

LEMMA RemapOInv ==
    ASSUME OInv, kind = "intptr", NEW id \in Live, NEW range, NEW offset,
           Remap(id, range, offset)
    PROVE  OInv'
<1> DEFINE r        == Validated(range, Count(id))
           start(a) == FindCallback(a.pairs, r.location, Whole(id), Class)
           moved(a) == Rekeyed(a, start(a), LAMBDA k : k < 0 \/ k >= r.location + r.length,
                               LAMBDA k : k + offset)
<1>1. CASE Answer(id, assocs[id], None)
  <2>1. Resorted(assocs[id], assocs[id])
    BY LiveFit DEF Resorted
  <2> QED
    BY <1>1, <2>1, OInvAnswer
<1>2. CASE \E a \in QsortIfNeeded(id) : Answer(id, a, None)
  BY <1>2, SortedFit, OInvAnswer
<1>3. CASE \E a \in QsortIfNeeded(id) :
              InBounds(moved(a)) /\ Change(id, Unsorted(moved(a)), refs)
  <2>1. PICK a \in QsortIfNeeded(id) :
           InBounds(moved(a)) /\ Change(id, Unsorted(moved(a)), refs)
    BY <1>3
  <2>2. Fit(a) /\ IsAssoc(a)
    BY SortedHolds, FitFacts
  <2> DEFINE s == moved(a).pairs
  <2>3. /\ moved(a) = [a EXCEPT !.pairs = s]
        /\ s = [i \in DOMAIN a.pairs |-> s[i]]
        /\ \A i \in DOMAIN a.pairs :
              s[i] = a.pairs[i] \/ \E k : s[i] = Pair(k, a.pairs[i].value)
    BY <2>2 DEF Rekeyed, IsAssoc
  <2> HIDE DEF moved, s
  <2>4. IsGood(Unsorted(moved(a)))
    BY <2>1, <2>2, <2>3, RekeyedGood
  <2>5. PICK b, t : b = moved(a) /\ t = s
    OBVIOUS
  <2>6. b = [a EXCEPT !.pairs = t] /\ DOMAIN t = DOMAIN a.pairs
    BY <2>3, <2>5
  <2>7. Fit(Unsorted(b))
    BY <2>2, <2>4, <2>5, <2>6, RekeyedFit
  <2> QED
    BY <2>1, <2>5, <2>7, RekeyedOInv
<1> QED
  BY <1>1, <1>2, <1>3 DEF Remap

LEMMA MoveToOInv ==
    ASSUME OInv, kind = "intptr", NEW id \in Live, NEW range, NEW index,
           MoveTo(id, range, index)
    PROVE  OInv'
<1> DEFINE r        == Validated(range, Count(id))
           offset   == index - r.location
           down     == offset < 0
           away     == IF down THEN Make(index, r.location - index)
                       ELSE Make(r.location + r.length, index + 1 - (r.location + r.length))
           by       == IF down THEN r.length ELSE - r.length
           end      == IF down THEN r.location + r.length - 1 ELSE index + 1
           first    == IF down THEN index ELSE r.location
           start(a) == FindCallback(a.pairs, first, Whole(id), Class)
           moved(a) == Rekeyed(a, start(a), LAMBDA k : k < 0 \/ k > end,
                               LAMBDA k : IF Contains(away, k) THEN k + by ELSE k + offset)
<1>1. CASE Answer(id, assocs[id], None)
  <2>1. Resorted(assocs[id], assocs[id])
    BY LiveFit DEF Resorted
  <2> QED
    BY <1>1, <2>1, OInvAnswer
<1>2. CASE \E a \in QsortIfNeeded(id) : Answer(id, a, None)
  BY <1>2, SortedFit, OInvAnswer
<1>3. CASE \E a \in QsortIfNeeded(id) :
              InBounds(moved(a)) /\ Change(id, Unsorted(moved(a)), refs)
  <2>1. PICK a \in QsortIfNeeded(id) :
           InBounds(moved(a)) /\ Change(id, Unsorted(moved(a)), refs)
    BY <1>3
  <2>2. Fit(a) /\ IsAssoc(a)
    BY SortedHolds, FitFacts
  <2> DEFINE s == moved(a).pairs
  <2> HIDE DEF r, offset, down, away, by, end, start
  <2>3. /\ moved(a) = [a EXCEPT !.pairs = s]
        /\ s = [i \in DOMAIN a.pairs |-> s[i]]
        /\ \A i \in DOMAIN a.pairs :
              s[i] = a.pairs[i] \/ \E k : s[i] = Pair(k, a.pairs[i].value)
    BY <2>2 DEF Rekeyed, IsAssoc
  <2> HIDE DEF moved, s
  <2>4. IsGood(Unsorted(moved(a)))
    BY <2>1, <2>2, <2>3, RekeyedGood
  <2>5. PICK b, t : b = moved(a) /\ t = s
    OBVIOUS
  <2>6. b = [a EXCEPT !.pairs = t] /\ DOMAIN t = DOMAIN a.pairs
    BY <2>3, <2>5
  <2>7. Fit(Unsorted(b))
    BY <2>2, <2>4, <2>5, <2>6, RekeyedFit
  <2> QED
    BY <2>1, <2>5, <2>7, RekeyedOInv
<1> QED
  BY <1>1, <1>2, <1>3 DEF MoveTo

-----------------------------------------------------------------------------

LEMMA OInitInv == Init => OInv
<1> SUFFICES ASSUME Init PROVE OInv
  OBVIOUS
<1>1. Live = {} /\ kind \in {"intptr", "string"} /\ rover = None
  BY DEF Init, Live
<1>2. PlacesOf(assocs) = {} /\ \A A : HitPlaces(assocs, A) = {}
  BY DEF Init, PlacesOf, HitPlaces
<1>3. IsFiniteSet(PlacesOf(assocs)) /\ \A o : PlaceCount(assocs, o) = 0
  BY <1>2, FS_EmptySet DEF PlaceCount
<1>4. RefsOK
  BY <1>3 DEF Init, RefsOK
<1> QED
  BY <1>1, <1>3, <1>4, InitInv DEF OInv, RoverOK

LEMMA ONextInv == OInv /\ [Next]_vars => OInv'
<1> SUFFICES ASSUME OInv, [Next]_vars
             PROVE  OInv'
  OBVIOUS
<1>1. ASSUME NEW id \in Id, NEW n \in Capacities, NEW c \in DOMAIN Order, InitAssoc(id, n, c)
      PROVE  OInv'
  BY <1>1, InitAssocOInv
<1>2. ASSUME NEW id \in Id, NEW other \in Live, CopyAssoc(id, other)
      PROVE  OInv'
  BY <1>2, CopyAssocOInv
<1>3. ASSUME NEW id \in Live, DoneAssoc(id)
      PROVE  OInv'
  BY <1>3, DoneAssocOInv
<1>4. ASSUME NEW id \in Live, ResetAssoc(id)
      PROVE  OInv'
  BY <1>4, ResetAssocOInv
<1>5. ASSUME NEW id \in Live, NEW c \in DOMAIN Order, SetCompare(id, c)
      PROVE  OInv'
  BY <1>5, SetCompareOInv
<1>6. ASSUME NEW id \in Live, NEW k \in Key, NEW v \in Value,
             AddKey(id, k, v) \/ AddKeyGuaranteed(id, k, v)
      PROVE  OInv'
  BY <1>6, AddKeyOInv
<1>7. ASSUME NEW id \in Live, NEW k \in Key, NEW v \in Value, SetKey(id, k, v)
      PROVE  OInv'
  BY <1>7, SetKeyOInv
<1>8. ASSUME NEW id \in Live, NEW k \in Key, NEW v \in Value,
             NEW i \in Indices(id), SetAtIndex(id, i, k, v)
      PROVE  OInv'
  BY <1>8, SetAtIndexOInv
<1>9. ASSUME NEW id \in Live, NEW other \in Live, NEW r \in Ranges(other),
             AddAssocRange(id, other, r)
      PROVE  OInv'
  BY <1>9, AddAssocRangeOInv
<1>10. ASSUME NEW id \in Live, NEW r \in Ranges(id), RemoveInRange(id, r)
       PROVE  OInv'
  BY <1>10, RemoveInRangeOInv
<1>11. ASSUME NEW id \in Live, NEW k \in Key, RemoveKey(id, k)
       PROVE  OInv'
  BY <1>11, RemoveKeyOInv
<1>12. ASSUME NEW id \in Live, RemoveLast(id)
       PROVE  OInv'
  BY <1>12, RemoveLastOInv
<1>13. ASSUME NEW id \in Live,
              \/ \E k : \/ GetKey(id, k) \/ FindKey(id, k) \/ FindKeyByCompare(id, k)
                        \/ Member(id, k)
              \/ \E k, r : FindInRange(id, k, r)
              \/ \E i : GetAtIndex(id, i)
              \/ GetLast(id)
              \/ \E r : GetInRange(id, r)
       PROVE  OInv'
  BY <1>13, SearchOInv
<1>14. ASSUME NEW id \in Live, NEW other \in Live, IsEqual(id, other)
       PROVE  OInv'
  BY <1>14, IsEqualOInv
<1>15. ASSUME kind = "intptr", NEW id \in Live,
              \/ \E range, offset : Remap(id, range, offset)
              \/ \E range, index : MoveTo(id, range, index)
       PROVE  OInv'
  BY <1>15, RemapOInv, MoveToOInv
<1>16. ASSUME NEW id \in Live, Enumerate(id)
       PROVE  OInv'
  BY <1>16, EnumerateOInv
<1>17. ASSUME EnumeratorNext
       PROVE  OInv'
  BY <1>17, EnumeratorNextOInv
<1>18. ASSUME UNCHANGED vars
       PROVE  OInv'
  BY <1>18, StutterOInv DEF vars
<1> QED
  BY <1>1, <1>2, <1>3, <1>4, <1>5, <1>6, <1>7, <1>8, <1>9, <1>10, <1>11, <1>12, <1>13,
     <1>14, <1>15, <1>16, <1>17, <1>18 DEF Next

LEMMA OInvExact == OInv => OwnershipExact
<1> SUFFICES ASSUME OInv PROVE OwnershipExact
  OBVIOUS
<1>1. TypeOK
  <2>1. \A i \in Live : /\ assocs[i].pairs \in Seq([key : Key, value : Value])
                        /\ assocs[i].size \in Nat
                        /\ assocs[i].sorted \in BOOLEAN /\ assocs[i].compare \in DOMAIN Order
    BY DEF OInv, Fit, IsGood, IsAssoc, Pairs
  <2>2. rover # None => rover.assoc \in Live /\ IsSorted(rover.assoc)
    BY DEF OInv, RoverOK
  <2> QED
    BY <2>1, <2>2, ReferencesType DEF TypeOK
<1>2. \A i \in Live : Count(i) <= assocs[i].size
  BY DEF OInv, Fit, Count, PairCount
<1>3. Places = PlacesOf(assocs)
  BY DEF Places, PlacesOf, Live
<1>4. \A w \in Places : PairAt(w) \in AllPairs
  <2> SUFFICES ASSUME NEW w \in Places PROVE PairAt(w) \in AllPairs
    OBVIOUS
  <2>1. PICK i, n : i \in Id /\ w = <<i, n>> /\ assocs[i] # None /\ n \in DOMAIN assocs[i].pairs
    BY <1>3, PairPlaces
  <2>2. i \in Live
    BY <2>1 DEF Live
  <2>3. assocs[i].pairs \in Seq(AllPairs)
    BY <2>2, LiveFit
  <2> QED
    BY <2>1, <2>3 DEF PairAt
<1>5. \A o : /\ {w \in Places : PairAt(w).key = o} = HitPlaces(assocs, KeyIs(o))
             /\ {w \in Places : PairAt(w).value = o} = HitPlaces(assocs, ValueIs(o))
  BY <1>3, <1>4 DEF HitPlaces, KeyIs, ValueIs, PairAt
<1>6. \A o : PlaceCount(assocs, o) = Cardinality({w \in Places : PairAt(w).key = o})
                                         + Cardinality({w \in Places : PairAt(w).value = o})
  BY <1>5 DEF PlaceCount
<1> QED
  BY <1>1, <1>2, <1>6 DEF OInv, RefsOK, OwnershipExact

(* Whatever is done with assocs, their pairs fit into their storage and    *)
(* the kind that owns has retained a key or value exactly once per place:  *)
(* set releases what it overwrites, and every function that removes,       *)
(* copies or merges settles what it took or gave.                          *)
THEOREM AssocOwnershipExact == Spec => []OwnershipExact
<1> QED
  BY OInitInv, ONextInv, OInvExact, PTL DEF Spec

-----------------------------------------------------------------------------
(* Bags, by how often they hold each pair *)

(* The bag b holds each p of U c[p] times.                                 *)
Counts(b, c, U) ==
    /\ c \in [U -> Nat]
    /\ DOMAIN b = {p \in U : c[p] > 0}
    /\ b = [p \in DOMAIN b |-> c[p]]

LEMMA SameCounts ==
    ASSUME NEW b, NEW d, NEW c, NEW U, Counts(b, c, U), Counts(d, c, U)
    PROVE  b = d
BY DEF Counts

(* how often s holds each pair                                             *)
Tally(s) == [p \in AllPairs |-> HitCount(s, {p})]

LEMMA TallyType ==
    ASSUME NEW s \in Seq(AllPairs)
    PROVE  /\ Tally(s) \in [AllPairs -> Nat]
           /\ \A p \in AllPairs : Tally(s)[p] = HitCount(s, {p})
           /\ \A p \in AllPairs : Tally(s)[p] > 0 <=> \E i \in DOMAIN s : s[i] = p
<1>1. \A p : HitCount(s, {p}) \in Nat /\ IsFiniteSet(Hits(s, {p}))
  BY HitsFinite
<1>2. ASSUME NEW p \in AllPairs
      PROVE  HitCount(s, {p}) > 0 <=> \E i \in DOMAIN s : s[i] = p
  <2>1. HitCount(s, {p}) = 0 <=> Hits(s, {p}) = {}
    BY <1>1, FS_EmptySet DEF HitCount
  <2>2. HitCount(s, {p}) > 0 <=> HitCount(s, {p}) # 0
    <3>1. PICK n : n = HitCount(s, {p})
      OBVIOUS
    <3>2. n \in Nat
      BY <1>1, <3>1
    <3> QED
      BY <3>1, <3>2
  <2>3. Hits(s, {p}) # {} <=> \E i \in DOMAIN s : s[i] = p
    BY DEF Hits
  <2> QED
    BY <2>1, <2>2, <2>3
<1> QED
  BY <1>1, <1>2 DEF Tally

LEMMA BagOfCounts ==
    ASSUME NEW s \in Seq(AllPairs)
    PROVE  Counts(BagOf(s), Tally(s), AllPairs)
<1>1. \A i \in DOMAIN s : s[i] \in AllPairs
  OBVIOUS
<1>2. DOMAIN BagOf(s) = {s[i] : i \in DOMAIN s}
  BY DEF BagOf
<1>3. DOMAIN BagOf(s) = {p \in AllPairs : Tally(s)[p] > 0}
  BY <1>1, <1>2, TallyType
<1>4. ASSUME NEW p \in DOMAIN BagOf(s) PROVE BagOf(s)[p] = Tally(s)[p]
  <2>1. p \in AllPairs
    BY <1>3, <1>4
  <2>2. {i \in DOMAIN s : s[i] = p} = Hits(s, {p})
    BY DEF Hits
  <2>3. BagOf(s)[p] = Cardinality({i \in DOMAIN s : s[i] = p})
    BY <1>2, <1>4 DEF BagOf
  <2>4. Tally(s)[p] = HitCount(s, {p})
    BY <2>1 DEF Tally
  <2> QED
    BY <2>2, <2>3, <2>4 DEF HitCount
<1>5. BagOf(s) = [p \in DOMAIN BagOf(s) |-> BagOf(s)[p]]
  BY DEF BagOf
<1>6. BagOf(s) = [p \in DOMAIN BagOf(s) |-> Tally(s)[p]]
  BY <1>4, <1>5
<1> QED
  BY <1>3, <1>6, TallyType DEF Counts

LEMMA BagOfEqual ==
    ASSUME NEW s \in Seq(AllPairs), NEW b, Counts(b, Tally(s), AllPairs)
    PROVE  b = BagOf(s)
BY BagOfCounts, SameCounts

(* The same pairs as often make the same bag.                              *)
LEMMA BagsAlike ==
    ASSUME NEW s \in Seq(AllPairs), NEW t \in Seq(AllPairs),
           \A p \in AllPairs : HitCount(s, {p}) = HitCount(t, {p})
    PROVE  BagOf(s) = BagOf(t)
<1>1. Tally(s) = Tally(t)
  BY DEF Tally
<1> QED
  BY <1>1, BagOfCounts, BagOfEqual

LEMMA BagEmpty ==
    ASSUME NEW b, b = BagOf(<<>>) PROVE b = Abstract!EmptyBag
<1>1. DOMAIN b = {} /\ b = [p \in DOMAIN b |-> b[p]]
  BY DEF BagOf
<1>2. Abstract!EmptyBag = [p \in {} |-> 1]
  BY DEF Abstract!EmptyBag, Abstract!SetToBag
<1> QED
  BY <1>1, <1>2

Raised(c, N)  == [p \in DOMAIN c |-> IF p \in N THEN c[p] + 1 ELSE c[p]]
Lowered(c, N) == [p \in DOMAIN c |-> IF p \in N THEN c[p] - 1 ELSE c[p]]

LEMMA BagPlus ==
    ASSUME NEW b, NEW c, NEW U, Counts(b, c, U), NEW N, N \subseteq U
    PROVE  Counts(Abstract!(+)(b, Abstract!SetToBag(N)), Raised(c, N), U)
<1> DEFINE d == Abstract!(+)(b, Abstract!SetToBag(N))
           e == Raised(c, N)
<1>1. c \in [U -> Nat] /\ DOMAIN b = {p \in U : c[p] > 0} /\ \A p \in DOMAIN b : b[p] = c[p]
  BY DEF Counts
<1>2. d = [p \in DOMAIN b \cup N |-> (IF p \in DOMAIN b THEN b[p] ELSE 0)
                                        + (IF p \in N THEN 1 ELSE 0)]
  BY DEF Abstract!(+), Abstract!SetToBag
<1>3. \A p \in U : e[p] = (IF p \in N THEN c[p] + 1 ELSE c[p])
  BY <1>1 DEF Raised
<1>4. e \in [U -> Nat]
  BY <1>1 DEF Raised
<1>5. ASSUME NEW p \in U PROVE e[p] > 0 <=> p \in DOMAIN b \cup N
  <2>1. c[p] \in Nat /\ (p \in DOMAIN b <=> c[p] > 0)
    BY <1>1
  <2> QED
    BY <1>3, <2>1
<1>6. ASSUME NEW p \in DOMAIN b \cup N
      PROVE  (IF p \in DOMAIN b THEN b[p] ELSE 0) + (IF p \in N THEN 1 ELSE 0) = e[p]
  <2>1. p \in U /\ c[p] \in Nat /\ (p \in DOMAIN b <=> c[p] > 0) /\ (p \in DOMAIN b => b[p] = c[p])
    BY <1>1, <1>6
  <2>2. e[p] = IF p \in N THEN c[p] + 1 ELSE c[p]
    BY <1>3, <2>1
  <2>3. CASE p \in DOMAIN b
    BY <2>1, <2>2, <2>3
  <2>4. CASE p \notin DOMAIN b
    BY <2>1, <2>2, <2>4
  <2> QED
    BY <2>3, <2>4
<1> HIDE DEF d, e
<1>7. d = [p \in DOMAIN b \cup N |-> e[p]]
  BY <1>2, <1>6
<1>8. DOMAIN b \cup N = {p \in U : e[p] > 0}
  BY <1>1, <1>5
<1> QED
  BY <1>4, <1>7, <1>8 DEF Counts, d, e

LEMMA BagMinus ==
    ASSUME NEW b, NEW c, NEW U, Counts(b, c, U), NEW N, N \subseteq DOMAIN b
    PROVE  Counts(Abstract!(-)(b, Abstract!SetToBag(N)), Lowered(c, N), U)
<1> DEFINE d == Abstract!(-)(b, Abstract!SetToBag(N))
           e == Lowered(c, N)
<1>1. c \in [U -> Nat] /\ DOMAIN b = {p \in U : c[p] > 0} /\ \A p \in DOMAIN b : b[p] = c[p]
  BY DEF Counts
<1>2. PICK x : x = [p \in DOMAIN b |-> IF p \in N THEN b[p] - 1 ELSE b[p]]
  OBVIOUS
<1>3. d = [p \in {q \in DOMAIN x : x[q] > 0} |-> x[p]]
  <2>1. x = [p \in DOMAIN b |-> IF p \in DOMAIN Abstract!SetToBag(N)
                                THEN b[p] - Abstract!SetToBag(N)[p] ELSE b[p]]
    BY <1>2 DEF Abstract!SetToBag
  <2> QED
    BY <2>1 DEF Abstract!(-)
<1>4. \A p \in U : e[p] = (IF p \in N THEN c[p] - 1 ELSE c[p])
  BY <1>1 DEF Lowered
<1>5. \A p \in N : p \in U /\ c[p] \in Nat /\ c[p] > 0
  BY <1>1
<1>6. e \in [U -> Nat]
  <2>1. \A p \in U : (IF p \in N THEN c[p] - 1 ELSE c[p]) \in Nat
    BY <1>1, <1>5
  <2> QED
    BY <1>1, <2>1 DEF Lowered
<1> HIDE DEF d, e
<1>7. \A p \in DOMAIN b : x[p] = e[p]
  BY <1>1, <1>2, <1>4
<1>8. \A p \in U : e[p] > 0 => p \in DOMAIN b
  <2> SUFFICES ASSUME NEW p \in U, e[p] > 0, ~ (c[p] > 0) PROVE FALSE
    BY <1>1
  <2>1. p \notin N /\ e[p] = c[p]
    BY <1>4, <1>5
  <2> QED
    BY <2>1
<1>9. {q \in DOMAIN x : x[q] > 0} = {p \in U : e[p] > 0}
  BY <1>1, <1>2, <1>7, <1>8
<1>10. d = [p \in {q \in U : e[q] > 0} |-> e[p]]
  <2>1. \A p \in {q \in U : e[q] > 0} : x[p] = e[p]
    BY <1>7, <1>8
  <2> QED
    BY <1>3, <1>9, <2>1
<1> QED
  BY <1>6, <1>10 DEF Counts, d, e

Only(c, S) == [p \in DOMAIN c |-> IF p \in S THEN c[p] ELSE 0]

LEMMA BagOnly ==
    ASSUME NEW b, NEW c, NEW U, Counts(b, c, U), NEW S, S \subseteq DOMAIN b
    PROVE  Counts([p \in S |-> b[p]], Only(c, S), U)
<1>1. c \in [U -> Nat] /\ DOMAIN b = {p \in U : c[p] > 0} /\ \A p \in DOMAIN b : b[p] = c[p]
  BY DEF Counts
<1>2. PICK e : e = Only(c, S)
  OBVIOUS
<1>3. \A p \in U : e[p] = (IF p \in S THEN c[p] ELSE 0)
  BY <1>1, <1>2 DEF Only
<1>4. e \in [U -> Nat]
  BY <1>1, <1>2 DEF Only
<1>5. S = {p \in U : e[p] > 0}
  BY <1>1, <1>3
<1>6. \A p \in S : b[p] = e[p]
  BY <1>1, <1>3
<1> QED
  BY <1>2, <1>4, <1>5, <1>6 DEF Counts

-----------------------------------------------------------------------------
(* Counting in a bag is counting in a sequence. *)

LEMMA SameCardinality == \A S : Abstract!Cardinality(S) = Cardinality(S)
  BY DEF Abstract!Cardinality, Cardinality, Abstract!IsFiniteSet, IsFiniteSet

(* for each pair, a numbering of the places it has in s                    *)
Numbering(s, A) ==
    [p \in A |-> CHOOSE f : f \in Bijection(Hits(s, {p}), 1 .. HitCount(s, {p}))]

LEMMA Numbered ==
    ASSUME NEW s \in Seq(AllPairs), NEW p
    PROVE  \E f : f \in Bijection(Hits(s, {p}), 1 .. HitCount(s, {p}))
<1>1. IsFiniteSet(Hits(s, {p})) /\ HitCount(s, {p}) \in Nat
  BY HitsFinite
<1>2. PICK n : n = HitCount(s, {p})
  OBVIOUS
<1>3. n \in Nat /\ n = Cardinality(Hits(s, {p}))
  BY <1>1, <1>2 DEF HitCount
<1>4. IsFiniteSet(1 .. n) /\ Cardinality(1 .. n) = n
  BY <1>3, FS_Interval
<1>5. ExistsBijection(Hits(s, {p}), 1 .. n)
  BY <1>1, <1>3, <1>4, FS_SameCardinalityBij
<1> QED
  BY <1>2, <1>5 DEF ExistsBijection

LEMMA BijectionFacts ==
    ASSUME NEW S, NEW T, NEW f \in Bijection(S, T)
    PROVE  /\ \A x \in S : f[x] \in T
           /\ \A x, y \in S : f[x] = f[y] => x = y
           /\ \A y \in T : \E x \in S : f[x] = y
BY DEF Bijection, Injection, Surjection, IsInjective

LEMMA BijectionIs ==
    ASSUME NEW S, NEW T, NEW f, f \in [S -> T],
           \A x, y \in S : f[x] = f[y] => x = y,
           \A y \in T : \E x \in S : f[x] = y
    PROVE  f \in Bijection(S, T)
BY DEF Bijection, Injection, Surjection, IsInjective

LEMMA TotalIsHits ==
    ASSUME NEW s \in Seq(AllPairs), NEW A, A \subseteq DOMAIN BagOf(s)
    PROVE  Abstract!Total(BagOf(s), A) = HitCount(s, A)
<1> DEFINE T == UNION {{p} \X (1 .. BagOf(s)[p]) : p \in A}
           F == Numbering(s, A)
           g == [i \in Hits(s, A) |-> <<s[i], F[s[i]][i]>>]
<1>1. \A p \in A : p \in AllPairs /\ BagOf(s)[p] = HitCount(s, {p})
  <2>1. /\ DOMAIN BagOf(s) = {p \in AllPairs : Tally(s)[p] > 0}
        /\ BagOf(s) = [p \in DOMAIN BagOf(s) |-> Tally(s)[p]]
    BY BagOfCounts DEF Counts
  <2> SUFFICES ASSUME NEW p \in A PROVE p \in AllPairs /\ BagOf(s)[p] = HitCount(s, {p})
    OBVIOUS
  <2>2. p \in AllPairs /\ p \in DOMAIN BagOf(s)
    BY <2>1
  <2>3. BagOf(s)[p] = Tally(s)[p]
    BY <2>1, <2>2
  <2> QED
    BY <2>2, <2>3, TallyType
<1>2. \A p \in A : F[p] \in Bijection(Hits(s, {p}), 1 .. HitCount(s, {p}))
  BY Numbered DEF Numbering
<1> HIDE DEF F
<1>3. \A x : x \in T <=> \E p \in A : \E n \in 1 .. HitCount(s, {p}) : x = <<p, n>>
  <2> SUFFICES ASSUME NEW x
               PROVE  x \in T <=> \E p \in A : \E n \in 1 .. HitCount(s, {p}) : x = <<p, n>>
    OBVIOUS
  <2>1. x \in T <=> \E p \in A : x \in {p} \X (1 .. BagOf(s)[p])
    OBVIOUS
  <2>2. \A p \in A : x \in {p} \X (1 .. BagOf(s)[p]) <=> \E n \in 1 .. BagOf(s)[p] : x = <<p, n>>
    OBVIOUS
  <2>3. \A p \in A : x \in {p} \X (1 .. BagOf(s)[p]) <=> \E n \in 1 .. HitCount(s, {p}) : x = <<p, n>>
    <3> SUFFICES ASSUME NEW p \in A
                 PROVE  x \in {p} \X (1 .. BagOf(s)[p])
                            <=> \E n \in 1 .. HitCount(s, {p}) : x = <<p, n>>
      OBVIOUS
    <3>1. 1 .. BagOf(s)[p] = 1 .. HitCount(s, {p})
      BY <1>1
    <3> HIDE DEF T
    <3> QED
      BY <2>2, <3>1, Zenon
  <2> HIDE DEF T
  <2> QED
    BY <2>1, <2>3, Zenon
<1>4. \A p \in A : /\ \A i \in Hits(s, {p}) : F[p][i] \in 1 .. HitCount(s, {p})
                   /\ \A i, j \in Hits(s, {p}) : F[p][i] = F[p][j] => i = j
                   /\ \A n \in 1 .. HitCount(s, {p}) : \E i \in Hits(s, {p}) : F[p][i] = n
  <2> SUFFICES ASSUME NEW p \in A
               PROVE  /\ \A i \in Hits(s, {p}) : F[p][i] \in 1 .. HitCount(s, {p})
                      /\ \A i, j \in Hits(s, {p}) : F[p][i] = F[p][j] => i = j
                      /\ \A n \in 1 .. HitCount(s, {p}) : \E i \in Hits(s, {p}) : F[p][i] = n
    OBVIOUS
  <2>1. F[p] \in Bijection(Hits(s, {p}), 1 .. HitCount(s, {p}))
    BY <1>2
  <2>2. PICK f, S, U : f = F[p] /\ S = Hits(s, {p}) /\ U = 1 .. HitCount(s, {p})
    OBVIOUS
  <2>3. f \in Bijection(S, U)
    BY <2>1, <2>2
  <2>4. /\ \A x \in S : f[x] \in U
        /\ \A x, y \in S : f[x] = f[y] => x = y
        /\ \A y \in U : \E x \in S : f[x] = y
    BY <2>3, BijectionFacts
  <2> QED
    BY <2>2, <2>4
<1>5. \A i \in Hits(s, A) : i \in DOMAIN s /\ s[i] \in A /\ i \in Hits(s, {s[i]})
  BY DEF Hits
<1>6. g \in [Hits(s, A) -> T]
  <2> SUFFICES ASSUME NEW i \in Hits(s, A) PROVE <<s[i], F[s[i]][i]>> \in T
    OBVIOUS
  <2>1. s[i] \in A /\ F[s[i]][i] \in 1 .. HitCount(s, {s[i]})
    BY <1>4, <1>5
  <2> QED
    BY <1>3, <2>1
<1>7. \A i, j \in Hits(s, A) : g[i] = g[j] => i = j
  <2> SUFFICES ASSUME NEW i \in Hits(s, A), NEW j \in Hits(s, A), g[i] = g[j] PROVE i = j
    OBVIOUS
  <2>1. s[i] = s[j] /\ F[s[i]][i] = F[s[j]][j]
    OBVIOUS
  <2>2. s[i] \in A /\ i \in Hits(s, {s[i]}) /\ j \in Hits(s, {s[i]})
    BY <1>5, <2>1
  <2> QED
    BY <1>4, <2>1, <2>2
<1>8. \A y \in T : \E i \in Hits(s, A) : g[i] = y
  <2> SUFFICES ASSUME NEW y \in T PROVE \E i \in Hits(s, A) : g[i] = y
    OBVIOUS
  <2>1. PICK p \in A : \E n \in 1 .. HitCount(s, {p}) : y = <<p, n>>
    BY <1>3
  <2>0. PICK n \in 1 .. HitCount(s, {p}) : y = <<p, n>>
    BY <2>1
  <2>2. PICK i \in Hits(s, {p}) : F[p][i] = n
    BY <1>4
  <2>3. i \in Hits(s, A) /\ s[i] = p
    BY <2>2 DEF Hits
  <2> QED
    BY <2>0, <2>2, <2>3
<1> HIDE DEF g, T
<1>9. g \in Bijection(Hits(s, A), T)
  BY <1>6, <1>7, <1>8, BijectionIs
<1>10. IsFiniteSet(Hits(s, A))
  BY HitsFinite
<1>11. Cardinality(T) = Cardinality(Hits(s, A))
  BY <1>9, <1>10, FS_Bijection DEF ExistsBijection
<1> QED
  BY <1>11, SameCardinality DEF T, HitCount, Abstract!Total

(* a part of the bag that is given by what its pairs are like              *)
LEMMA TotalWhere ==
    ASSUME NEW s \in Seq(AllPairs), NEW A,
           NEW P, P = {p \in DOMAIN BagOf(s) : p \in A}
    PROVE  Abstract!Total(BagOf(s), P) = Cardinality({i \in DOMAIN s : s[i] \in A})
<1>1. Abstract!Total(BagOf(s), P) = HitCount(s, P)
  BY TotalIsHits
<1>2. DOMAIN BagOf(s) = {s[i] : i \in DOMAIN s}
  BY DEF BagOf
<1>3. Hits(s, P) = {i \in DOMAIN s : s[i] \in A}
  BY <1>2 DEF Hits
<1> QED
  BY <1>1, <1>3 DEF HitCount

LEMMA TotalOfAll ==
    ASSUME NEW s \in Seq(AllPairs)
    PROVE  Abstract!Total(BagOf(s), DOMAIN BagOf(s)) = Len(s) /\ Len(s) \in Nat
<1>1. Abstract!Total(BagOf(s), DOMAIN BagOf(s)) = HitCount(s, DOMAIN BagOf(s))
  BY TotalIsHits
<1>2. DOMAIN BagOf(s) = {s[i] : i \in DOMAIN s}
  BY DEF BagOf
<1>3. Hits(s, DOMAIN BagOf(s)) = 1 .. Len(s) /\ Len(s) \in Nat
  BY <1>2 DEF Hits
<1>4. PICK n \in Nat : n = Len(s)
  BY <1>3
<1>5. Cardinality(1 .. n) = n
  BY FS_Interval
<1> QED
  BY <1>1, <1>3, <1>4, <1>5 DEF HitCount

-----------------------------------------------------------------------------
(* Where a key is in pairs that are in order *)

BelowIn(s, rank, k) == {j \in DOMAIN s : rank[s[j].key] < rank[k]}
UpToIn(s, rank, k)  == {j \in DOMAIN s : rank[s[j].key] <= rank[k]}

Ranked(s, rank) == \A i \in DOMAIN s : rank[s[i].key] \in Int

LEMMA InOrderMonotone ==
    ASSUME NEW s, NEW rank, InOrder(s, rank), Ranked(s, rank),
           NEW i \in DOMAIN s, NEW j \in DOMAIN s, i <= j, i \in Int, j \in Int
    PROVE  rank[s[i].key] <= rank[s[j].key]
<1>1. CASE i = j
  BY <1>1 DEF Ranked
<1>2. CASE i < j
  BY <1>2 DEF InOrder
<1> QED
  BY <1>1, <1>2

LEMMA BelowIsStart ==
    ASSUME NEW S, NEW s \in Seq(S), NEW rank, InOrder(s, rank), Ranked(s, rank), NEW k, rank[k] \in Int
    PROVE  /\ Cardinality(BelowIn(s, rank, k)) \in 0 .. Len(s)
           /\ BelowIn(s, rank, k) = 1 .. Cardinality(BelowIn(s, rank, k))
           /\ Cardinality(UpToIn(s, rank, k)) \in 0 .. Len(s)
           /\ UpToIn(s, rank, k) = 1 .. Cardinality(UpToIn(s, rank, k))
<1>1. PICK n \in Nat : n = Len(s) /\ DOMAIN s = 1 .. n
  <2>1. Len(s) \in Nat /\ DOMAIN s = 1 .. Len(s)
    OBVIOUS
  <2> QED
    BY <2>1
<1>2. PICK T, U : T = BelowIn(s, rank, k) /\ U = UpToIn(s, rank, k)
  OBVIOUS
<1>3. T \subseteq 1 .. n /\ U \subseteq 1 .. n
  BY <1>1, <1>2 DEF BelowIn, UpToIn
<1>4. ASSUME NEW i \in 1 .. n, NEW j \in 1 .. n, i < j
      PROVE  (j \in T => i \in T) /\ (j \in U => i \in U)
  <2>1. rank[s[i].key] \in Int /\ rank[s[j].key] \in Int /\ rank[s[i].key] <= rank[s[j].key]
    BY <1>1, <1>4 DEF Ranked, InOrder
  <2> QED
    BY <1>1, <1>2, <2>1 DEF BelowIn, UpToIn
<1>5. Cardinality(T) \in 0 .. n /\ T = 1 .. Cardinality(T)
  BY <1>3, <1>4, Initial
<1>6. Cardinality(U) \in 0 .. n /\ U = 1 .. Cardinality(U)
  BY <1>3, <1>4, Initial
<1> QED
  BY <1>1, <1>2, <1>5, <1>6

(* The places between those of lower and those of higher rank are those of *)
(* the rank.                                                               *)
LEMMA PlaceOfRank ==
    ASSUME NEW S, NEW s \in Seq(S), NEW rank, InOrder(s, rank), Ranked(s, rank), NEW k, rank[k] \in Int,
           NEW i \in 0 .. Len(s) - 1
    PROVE  Cardinality(BelowIn(s, rank, k)) <= i /\ i < Cardinality(UpToIn(s, rank, k))
               <=> rank[s[i + 1].key] = rank[k]
<1>1. PICK l, u : /\ l = Cardinality(BelowIn(s, rank, k))
                  /\ u = Cardinality(UpToIn(s, rank, k))
  OBVIOUS
<1>2. /\ l \in Nat /\ BelowIn(s, rank, k) = 1 .. l
      /\ u \in Nat /\ UpToIn(s, rank, k) = 1 .. u
  BY <1>1, BelowIsStart
<1>3. i \in Nat /\ i + 1 \in DOMAIN s
  OBVIOUS
<1>4. PICK x : x = rank[s[i + 1].key]
  OBVIOUS
<1>5. x \in Int
  BY <1>3, <1>4 DEF Ranked
<1>6. i + 1 \in 1 .. l <=> x < rank[k]
  BY <1>2, <1>3, <1>4 DEF BelowIn
<1>7. i + 1 \in 1 .. u <=> x <= rank[k]
  BY <1>2, <1>3, <1>4 DEF UpToIn
<1>8. (i + 1 \in 1 .. l <=> ~ (l <= i)) /\ (i + 1 \in 1 .. u <=> i < u)
  BY <1>2, <1>3
<1> QED
  BY <1>1, <1>4, <1>5, <1>6, <1>7, <1>8

Shows(id, s) ==
    /\ s \in Seq(AllPairs)
    /\ Abstract!Self = id /\ Contents[id] = BagOf(s)
    /\ InOrder(s, Order[Compares[id]]) /\ Ranked(s, Order[Compares[id]])

LEMMA AtPlace ==
    ASSUME NEW id, NEW s, Shows(id, s), NEW p, p \in DOMAIN BagOf(s), NEW i \in 0 .. Len(s) - 1
    PROVE  Abstract!At(p, i) <=> Order[Compares[id]][s[i + 1].key] = Order[Compares[id]][p.key]
<1>1. PICK rank : rank = Order[Compares[id]]
  OBVIOUS
<1>2. s \in Seq(AllPairs) /\ InOrder(s, rank) /\ Ranked(s, rank)
  BY <1>1 DEF Shows
<1>3. Abstract!Bag = BagOf(s) /\ Abstract!Pairs = DOMAIN BagOf(s)
  BY DEF Shows, Abstract!Bag, Abstract!Pairs, Abstract!BagToSet
<1>4. \A k : Abstract!Place(k) = rank[k]
  BY <1>1 DEF Shows, Abstract!Place
<1>5. DOMAIN BagOf(s) = {s[j] : j \in DOMAIN s}
  BY DEF BagOf
<1>6. rank[p.key] \in Int
  <2>1. PICK j \in DOMAIN s : p = s[j]
    BY <1>5
  <2> QED
    BY <1>2, <2>1 DEF Ranked
<1>7. PICK A, B : /\ A = {q \in DOMAIN BagOf(s) : rank[q.key] < rank[p.key]}
                  /\ B = {q \in DOMAIN BagOf(s) : rank[q.key] <= rank[p.key]}
  OBVIOUS
<1>8. {j \in DOMAIN s : s[j] \in A} = BelowIn(s, rank, p.key)
      /\ {j \in DOMAIN s : s[j] \in B} = UpToIn(s, rank, p.key)
  BY <1>5, <1>7 DEF BelowIn, UpToIn
<1>9. /\ Abstract!Total(BagOf(s), A) = Cardinality(BelowIn(s, rank, p.key))
      /\ Abstract!Total(BagOf(s), B) = Cardinality(UpToIn(s, rank, p.key))
  <2>1. A \subseteq DOMAIN BagOf(s) /\ B \subseteq DOMAIN BagOf(s)
    BY <1>7
  <2>2. /\ Abstract!Total(BagOf(s), A) = HitCount(s, A)
        /\ Abstract!Total(BagOf(s), B) = HitCount(s, B)
    BY <1>2, <2>1, TotalIsHits
  <2> QED
    BY <1>8, <2>2 DEF HitCount, Hits
<1>10. Abstract!Below(p.key) = Cardinality(BelowIn(s, rank, p.key))
  BY <1>3, <1>4, <1>7, <1>9 DEF Abstract!Below
<1>11. Abstract!UpTo(p.key) = Cardinality(UpToIn(s, rank, p.key))
  BY <1>3, <1>4, <1>7, <1>9 DEF Abstract!UpTo
<1>12. Cardinality(BelowIn(s, rank, p.key)) <= i /\ i < Cardinality(UpToIn(s, rank, p.key))
               <=> rank[s[i + 1].key] = rank[p.key]
  <2>1. PICK k : k = p.key
    OBVIOUS
  <2>2. Cardinality(BelowIn(s, rank, k)) <= i /\ i < Cardinality(UpToIn(s, rank, k))
               <=> rank[s[i + 1].key] = rank[k]
    BY <1>2, <1>6, <2>1, PlaceOfRank
  <2> QED
    BY <2>1, <2>2
<1> QED
  BY <1>1, <1>10, <1>11, <1>12 DEF Abstract!At

-----------------------------------------------------------------------------
(* What a step does to the bags and to the enumeration *)

LEMMA LiveAt ==
    ASSUME OInv, NEW id \in Live
    PROVE  /\ id \in Id /\ Contents[id] = BagOf(assocs[id].pairs)
           /\ Compares[id] = assocs[id].compare /\ assocs[id].compare \in DOMAIN Order
           /\ assocs[id] # None /\ DOMAIN assocs = Id
           /\ Fit(assocs[id]) /\ assocs[id].pairs \in Seq(Pairs)
           /\ assocs[id].pairs \in Seq(AllPairs)
<1>1. id \in Id /\ assocs[id] # None /\ Fit(assocs[id])
  BY LiveFit DEF Live
<1>2. assocs[id].compare \in DOMAIN Order
  BY <1>1 DEF Fit, IsGood, IsAssoc
<1> QED
  BY <1>1, <1>2, FitFacts DEF Contents, Compares, OInv, AInv

(* Whatever compares two keys of the kind, the same are equal.             *)
LEMMA EqualRanks ==
    ASSUME kind \in {"intptr", "string"}, NEW c \in DOMAIN Order, NEW k \in Key, NEW l \in Key
    PROVE  /\ Order[c][k] \in Int
           /\ Order[c][k] = Order[c][l] <=> Class[k] = Class[l]
           /\ kind = "intptr" => (Class[k] = Class[l] <=> k = l) /\ k \in Int
<1>1. CASE kind = "intptr"
  <2>1. k \in Intptr /\ l \in Intptr
    BY <1>1 DEF Key
  <2>2. Order[c][k] \in Int /\ k \in Int
    BY <2>1, AssocAssumption
  <2>3. Order[c][k] = Order[c][l] <=> k = l
    BY <2>1, AssocAssumption
  <2>4. Class[k] = Class[l] <=> k = l
    BY <2>1, AssocAssumption
  <2> QED
    BY <2>2, <2>3, <2>4
<1>2. CASE kind # "intptr"
  <2>1. k \in String /\ l \in String
    BY <1>2 DEF Key
  <2>2. Order[c][k] \in Int
    BY <2>1, AssocAssumption
  <2>3. Order[c][k] = Order[c][l] <=> Class[k] = Class[l]
    BY <2>1, AssocAssumption
  <2> QED
    BY <1>2, <2>2, <2>3
<1> QED
  BY <1>1, <1>2

LEMMA PairsRanked ==
    ASSUME kind \in {"intptr", "string"}, NEW c \in DOMAIN Order, NEW s \in Seq(Pairs)
    PROVE  Ranked(s, Order[c]) /\ \A i \in DOMAIN s : s[i] \in Pairs /\ s[i].key \in Key
<1>1. \A i \in DOMAIN s : s[i] \in Pairs /\ s[i].key \in Key
  <2>1. \A i \in DOMAIN s : s[i] \in Pairs
    OBVIOUS
  <2>2. \A p \in Pairs : p.key \in Key
    BY DEF Pairs
  <2> QED
    BY <2>1, <2>2
<1> QED
  BY <1>1, EqualRanks DEF Ranked

(* a is what id is once it is sorted.                                      *)
Sorts(id, a) ==
    /\ a.pairs \in Seq(Pairs) /\ a.pairs \in Seq(AllPairs)
    /\ Fit(a) /\ a.compare = assocs[id].compare
    /\ Len(a.pairs) = Len(assocs[id].pairs)
    /\ BagOf(a.pairs) = BagOf(assocs[id].pairs)
    /\ \A A : HitCount(a.pairs, A) = HitCount(assocs[id].pairs, A)
    /\ InOrder(a.pairs, Order[Compares[id]])
    /\ Ranked(a.pairs, Order[Compares[id]])
    /\ assocs[id].sorted = TRUE => a = assocs[id]

LEMMA SortsIt ==
    ASSUME OInv, NEW id \in Live, NEW a \in QsortIfNeeded(id)
    PROVE  Sorts(id, a)
<1>1. Fit(a) /\ Len(a.pairs) = Len(assocs[id].pairs) /\ a.sorted = TRUE
  BY SortedHolds, SortedFit
<1>2. a.pairs \in Seq(Pairs) /\ a.pairs \in Seq(AllPairs)
  BY <1>1, FitFacts
<1>3. assocs[id].pairs \in Seq(AllPairs) /\ Fit(assocs[id]) /\ Compares[id] = assocs[id].compare
      /\ assocs[id].compare \in DOMAIN Order /\ IsAssoc(assocs[id])
  BY LiveAt DEF Fit, IsGood
<1>4. /\ a.compare = assocs[id].compare
      /\ \A A : HitCount(a.pairs, A) = HitCount(assocs[id].pairs, A)
  <2>1. CASE IsSorted(id)
    BY <2>1 DEF QsortIfNeeded
  <2>2. CASE ~ IsSorted(id)
    <3>1. PICK s \in PairSortings(assocs[id].pairs, Rank(id)) :
             a = [assocs[id] EXCEPT !.pairs = s, !.sorted = TRUE]
      BY <2>2 DEF QsortIfNeeded, QsortBy
    <3>2. a.pairs = s /\ a.compare = assocs[id].compare
      BY <1>3, <3>1 DEF IsAssoc
    <3>3. PICK x \in Seq(AllPairs) : x = assocs[id].pairs
      BY <1>3
    <3>4. PICK f \in [DOMAIN x -> DOMAIN x] :
             /\ \A i, j \in DOMAIN x : f[i] = f[j] => i = j
             /\ s = [i \in DOMAIN x |-> x[f[i]]]
      BY <3>1, <3>3 DEF PairSortings
    <3>5. \A A : HitCount([i \in DOMAIN x |-> x[f[i]]], A) = HitCount(x, A)
      BY <3>4, HitsPermuted
    <3> QED
      BY <3>2, <3>3, <3>4, <3>5
  <2> QED
    BY <2>1, <2>2
<1>5. BagOf(a.pairs) = BagOf(assocs[id].pairs)
  BY <1>2, <1>3, <1>4, BagsAlike
<1>6. InOrder(a.pairs, Order[Compares[id]])
  BY <1>1, <1>3, <1>4 DEF Fit, IsGood
<1>7. Ranked(a.pairs, Order[Compares[id]])
  BY <1>2, <1>3, PairsRanked DEF OInv
<1>8. assocs[id].sorted = TRUE => a = assocs[id]
  BY DEF QsortIfNeeded, IsSorted
<1> QED
  BY <1>1, <1>2, <1>4, <1>5, <1>6, <1>7, <1>8 DEF Sorts

LEMMA SortsShows ==
    ASSUME OInv, NEW id \in Live, NEW a, Sorts(id, a), call'[2] = id
    PROVE  Shows(id, a.pairs)
BY LiveAt DEF Sorts, Shows, Abstract!Self

(* The bag of id becomes b.                                                *)
Turns(id, b) ==
    /\ Contents' = [Contents EXCEPT ![id] = b] /\ Contents'[id] = b
    /\ Compares' = Compares
    /\ Rest' \in {Rest, None} /\ ret' = None /\ kind' = kind

(* The call returns the result, and at most sorts.                         *)
Replies(result) ==
    /\ Contents' = Contents /\ Compares' = Compares /\ Rest' = Rest
    /\ ret' = result /\ kind' = kind

LEMMA ContentsChange ==
    ASSUME OInv, NEW id \in Id, NEW a, Put(id, a),
           NEW b, b = (IF a = None THEN None ELSE BagOf(a.pairs)),
           NEW c, c = (IF a = None THEN None ELSE a.compare)
    PROVE  /\ Contents' = [Contents EXCEPT ![id] = b] /\ Contents'[id] = b
           /\ Compares' = [Compares EXCEPT ![id] = c]
           /\ Contents[id] = b => Contents' = Contents
           /\ Compares[id] = c => Compares' = Compares
<1>1. assocs'[id] = a /\ \A i \in Id : i # id => assocs'[i] = assocs[i]
  BY DEF Put, OInv, AInv
<1>2. \A i \in Id : /\ Contents[i] = IF assocs[i] = None THEN None ELSE BagOf(assocs[i].pairs)
                    /\ Contents'[i] = IF assocs'[i] = None THEN None ELSE BagOf(assocs'[i].pairs)
                    /\ Compares[i] = IF assocs[i] = None THEN None ELSE assocs[i].compare
                    /\ Compares'[i] = IF assocs'[i] = None THEN None ELSE assocs'[i].compare
  BY DEF Contents, Compares
<1>3. \A i \in Id : /\ Contents'[i] = IF i = id THEN b ELSE Contents[i]
                    /\ Compares'[i] = IF i = id THEN c ELSE Compares[i]
  BY <1>1, <1>2
<1>4. /\ Contents = [i \in Id |-> Contents[i]] /\ Contents' = [i \in Id |-> Contents'[i]]
      /\ Compares = [i \in Id |-> Compares[i]] /\ Compares' = [i \in Id |-> Compares'[i]]
  BY DEF Contents, Compares
<1>5. PICK x, y, u, v : x = Contents /\ y = Contents' /\ u = Compares /\ v = Compares'
  OBVIOUS
<1>6. /\ x = [i \in Id |-> x[i]] /\ y = [i \in Id |-> y[i]] /\ u = [i \in Id |-> u[i]]
      /\ v = [i \in Id |-> v[i]]
      /\ \A i \in Id : y[i] = (IF i = id THEN b ELSE x[i]) /\ v[i] = (IF i = id THEN c ELSE u[i])
  BY <1>3, <1>4, <1>5
<1>7. y = [x EXCEPT ![id] = b] /\ y[id] = b /\ v = [u EXCEPT ![id] = c]
  BY <1>6
<1>8. (x[id] = b => y = x) /\ (u[id] = c => v = u)
  BY <1>6
<1> QED
  BY <1>5, <1>7, <1>8

LEMMA RestElsewhere ==
    ASSUME rover' = rover, rover # None => assocs'[rover.assoc].pairs = assocs[rover.assoc].pairs
    PROVE  Rest' = Rest
BY DEF Rest

LEMMA ChangeRest ==
    ASSUME OInv, NEW id \in Id, NEW a, Put(id, a), Invalidate(id)
    PROVE  Rest' \in {Rest, None}
<1>1. \A i \in Id : i # id => assocs'[i] = assocs[i]
  BY DEF Put, OInv, AInv
<1>2. CASE rover' = None
  BY <1>2 DEF Rest
<1>3. CASE rover' # None
  <2>1. rover' = rover /\ rover # None /\ rover.assoc # id
    BY <1>3 DEF Invalidate
  <2>2. rover.assoc \in Id
    BY <2>1 DEF OInv, RoverOK, Live
  <2> QED
    BY <1>1, <2>1, <2>2, RestElsewhere
<1> QED
  BY <1>2, <1>3

LEMMA ChangeTurns ==
    ASSUME OInv, NEW id \in Live, NEW a, Fit(a), a.compare = assocs[id].compare, NEW rs,
           Change(id, a, rs), NEW b, b = BagOf(a.pairs)
    PROVE  Turns(id, b)
<1>1. Put(id, a) /\ Invalidate(id) /\ ret' = None /\ kind' = kind
  BY DEF Change
<1>2. a # None
  BY FitFacts
<1>3. id \in Id /\ Compares[id] = a.compare
  BY LiveAt
<1>4. /\ Contents' = [Contents EXCEPT ![id] = b] /\ Contents'[id] = b
      /\ Compares' = Compares
  <2>1. PICK c : c = a.compare
    OBVIOUS
  <2>2. b = (IF a = None THEN None ELSE BagOf(a.pairs)) /\ c = (IF a = None THEN None ELSE a.compare)
    BY <1>2, <2>1
  <2> QED
    BY <1>1, <1>3, <2>1, <2>2, ContentsChange
<1>5. Rest' \in {Rest, None}
  BY <1>1, <1>3, ChangeRest
<1> QED
  BY <1>1, <1>4, <1>5 DEF Turns

LEMMA PutSorted ==
    ASSUME OInv, NEW id \in Live, NEW a, Sorts(id, a) \/ a = assocs[id], Put(id, a)
    PROVE  /\ Contents' = Contents /\ Compares' = Compares
           /\ rover' = rover => Rest' = Rest
<1>1. id \in Id /\ Contents[id] = BagOf(a.pairs) /\ Compares[id] = a.compare /\ a # None
  BY LiveAt, FitFacts DEF Sorts
<1>2. Contents' = Contents /\ Compares' = Compares
  <2>1. PICK b, c : b = BagOf(a.pairs) /\ c = a.compare
    OBVIOUS
  <2>2. b = (IF a = None THEN None ELSE BagOf(a.pairs)) /\ c = (IF a = None THEN None ELSE a.compare)
    BY <1>1, <2>1
  <2> QED
    BY <1>1, <2>1, <2>2, ContentsChange
<1>3. assocs'[id] = a /\ \A i \in Id : i # id => assocs'[i] = assocs[i]
  BY <1>1 DEF Put, OInv, AInv
<1>4. ASSUME rover # None PROVE assocs'[rover.assoc] = assocs[rover.assoc]
  <2>1. rover.assoc \in Id /\ assocs[rover.assoc].sorted
    BY <1>4 DEF OInv, RoverOK, Live, IsSorted
  <2>2. CASE rover.assoc = id
    <3>1. assocs[id].sorted \in BOOLEAN
      BY LiveAt DEF Fit, IsGood, IsAssoc
    <3>2. assocs[id].sorted = TRUE
      BY <2>1, <2>2, <3>1
    <3> QED
      BY <1>3, <2>2, <3>2 DEF Sorts
  <2>3. CASE rover.assoc # id
    BY <1>3, <2>1, <2>3
  <2> QED
    BY <2>2, <2>3
<1> QED
  BY <1>2, <1>4, RestElsewhere

LEMMA AnswerReplies ==
    ASSUME OInv, NEW id \in Live, NEW a, Sorts(id, a) \/ a = assocs[id], NEW result,
           Answer(id, a, result)
    PROVE  Replies(result)
<1>1. Put(id, a) /\ ret' = result /\ kind' = kind /\ rover' = rover
  BY DEF Answer
<1> QED
  BY <1>1, PutSorted DEF Replies

-----------------------------------------------------------------------------
(* From steps to abstract steps *)

LEMMA TurnsBecomes ==
    ASSUME NEW id, NEW b, Turns(id, b), call'[2] = id
    PROVE  Abstract!Becomes(b) /\ Abstract!Self = id /\ kind' = kind
BY DEF Turns, Abstract!Becomes, Abstract!Self, Abstract!Enumeration

LEMMA RepliesAnswers ==
    ASSUME NEW r, Replies(r), NEW R, r \in R
    PROVE  Abstract!Answers(R) /\ kind' = kind
BY DEF Replies, Abstract!Answers

LEMMA BagNow ==
    ASSUME OInv, NEW id \in Live, call'[2] = id, NEW s, s = assocs[id].pairs
    PROVE  /\ Abstract!Self = id /\ Abstract!Bag = BagOf(s)
           /\ Abstract!Pairs = DOMAIN BagOf(s) /\ Abstract!Pairs = {s[i] : i \in DOMAIN s}
           /\ Abstract!Size = Len(s) /\ Len(s) \in Nat
           /\ s \in Seq(Pairs) /\ s \in Seq(AllPairs)
           /\ Counts(Abstract!Bag, Tally(s), AllPairs)
<1>1. Abstract!Self = id /\ Abstract!Bag = BagOf(s) /\ s \in Seq(AllPairs) /\ s \in Seq(Pairs)
  BY LiveAt DEF Abstract!Self, Abstract!Bag
<1>2. Abstract!Pairs = DOMAIN BagOf(s)
  BY <1>1 DEF Abstract!Pairs, Abstract!BagToSet
<1>3. Abstract!Size = Len(s) /\ Len(s) \in Nat
  BY <1>1, <1>2, TotalOfAll DEF Abstract!Size
<1>4. DOMAIN BagOf(s) = {s[i] : i \in DOMAIN s}
  BY DEF BagOf
<1> QED
  BY <1>1, <1>2, <1>3, <1>4, BagOfCounts

LEMMA FreshRest ==
    ASSUME OInv, NEW id \in Id, assocs[id] = None, NEW a, Put(id, a), rover' = rover
    PROVE  Rest' = Rest
<1>1. \A i \in Id : i # id => assocs'[i] = assocs[i]
  BY DEF Put, OInv, AInv
<1>2. rover # None => rover.assoc \in Id /\ rover.assoc # id
  BY DEF OInv, RoverOK, Live
<1> QED
  BY <1>1, <1>2, RestElsewhere

LEMMA InitRefines ==
    ASSUME OInv, NEW id \in Id, NEW n \in Capacities, NEW c \in DOMAIN Order,
           InitAssoc(id, n, c), call' = <<"init", id, c>>
    PROVE  Abstract!Next
<1>1. call'[1] = "init" /\ call'[2] = id /\ call'[3] = c
  OBVIOUS
<1>2. PICK a : a = [pairs |-> <<>>, size |-> n, sorted |-> FALSE, compare |-> c]
  OBVIOUS
<1>3. Put(id, a) /\ assocs[id] = None /\ ret' = None /\ kind' = kind /\ rover' = rover
  BY <1>2 DEF InitAssoc
<1>4. a # None
  <2>1. <<>> \in Seq([key : Intptr \cup String, value : Value]) /\ n \in Nat
    BY AssocAssumption
  <2>2. a \in [pairs : Seq([key : Intptr \cup String, value : Value]), size : Nat,
               sorted : BOOLEAN, compare : DOMAIN Order]
    BY <1>2, <2>1
  <2> QED
    BY <2>2, AssocAssumption
<1>5. /\ Contents' = [Contents EXCEPT ![id] = BagOf(<<>>)]
      /\ Compares' = [Compares EXCEPT ![id] = c]
  <2>1. PICK b : b = BagOf(<<>>)
    OBVIOUS
  <2>2. a.pairs = <<>> /\ a.compare = c
    BY <1>2
  <2>3. b = (IF a = None THEN None ELSE BagOf(a.pairs)) /\ c = (IF a = None THEN None ELSE a.compare)
    BY <1>4, <2>1, <2>2
  <2> QED
    BY <1>3, <2>1, <2>3, ContentsChange
<1>6. BagOf(<<>>) = Abstract!EmptyBag
  BY BagEmpty
<1>7. Rest' = Rest
  BY <1>3, FreshRest
<1>8. Contents[id] = None
  BY <1>3 DEF Contents
<1>9. Abstract!Create
  BY <1>1, <1>3, <1>5, <1>6, <1>7, <1>8
     DEF Abstract!Create, Abstract!Calls, Abstract!Self, Abstract!Arg, Abstract!Bag, Abstract!Enumeration
<1> QED
  BY <1>3, <1>9 DEF Abstract!Next, Abstract!Call

LEMMA CopiedPairs ==
    ASSUME NEW src, Fit(src),
           NEW a, a = CopyItems([src EXCEPT !.pairs = <<>>, !.size = PairCount(src), !.sorted = FALSE], src)
    PROVE  a.pairs = src.pairs /\ a.compare = src.compare /\ Fit(a)
<1>1. PICK d : d = [src EXCEPT !.pairs = <<>>, !.size = PairCount(src), !.sorted = FALSE]
  OBVIOUS
<1>2. /\ src.pairs \in Seq(Pairs) /\ IsAssoc(src) /\ Len(src.pairs) \in Nat /\ src.size \in Nat
      /\ Len(src.pairs) <= src.size
  BY FitFacts
<1>3. /\ IsAssoc(d) /\ IsGood(d) /\ d.pairs = <<>> /\ d.size = Len(src.pairs) /\ d.sorted = FALSE
      /\ d.compare = src.compare
  <2>1. <<>> \in Seq(Pairs)
    OBVIOUS
  <2> QED
    BY <1>1, <1>2, <2>1 DEF IsGood, IsAssoc, PairCount
<1>4. GuaranteePairs(d, Len(src.pairs)) = d
  <2>1. Len(d.pairs) = 0
    BY <1>3
  <2>2. PICK l : l = Len(src.pairs)
    OBVIOUS
  <2>3. d.size - PairCount(d) = l /\ ~ (l < l)
    BY <1>2, <1>3, <2>1, <2>2 DEF PairCount
  <2> QED
    BY <2>2, <2>3 DEF GuaranteePairs
<1>5. CASE src.pairs = <<>>
  <2>1. a = d
    BY <1>1, <1>5 DEF CopyItems
  <2>2. Len(d.pairs) <= d.size
    BY <1>2, <1>3, <1>5
  <2> QED
    BY <1>2, <1>3, <1>5, <2>1, <2>2 DEF Fit
<1>6. CASE src.pairs # <<>>
  <2>1. PICK e : e = [d EXCEPT !.pairs = <<>> \o src.pairs]
    OBVIOUS
  <2>2. a = Unsorted(e)
    BY <1>1, <1>3, <1>4, <1>6, <2>1 DEF CopyItems, PairCount
  <2>3. <<>> \o src.pairs = src.pairs
    BY <1>2, ConcatEmptySeq
  <2>4. FitsIn(e) /\ e.pairs = src.pairs
    <3>1. e = [d EXCEPT !.pairs = src.pairs] /\ d.size \in Nat /\ Len(src.pairs) <= d.size
      BY <1>2, <1>3, <2>1, <2>3
    <3> QED
      BY <1>2, <1>3, <3>1, NewPairsFit
  <2>5. e.compare = d.compare
    BY <1>3, <2>1 DEF IsAssoc
  <2>6. Fit(a) /\ a.pairs = e.pairs
    BY <2>2, <2>4, UnsortedFits
  <2>7. a.compare = e.compare
    BY <2>2, <2>4 DEF Unsorted, FitsIn, IsAssoc
  <2> QED
    BY <1>3, <2>4, <2>5, <2>6, <2>7
<1> QED
  BY <1>5, <1>6

LEMMA CopyRefines ==
    ASSUME OInv, NEW id \in Id, NEW other \in Live, CopyAssoc(id, other),
           call' = <<"copy", id, other>>
    PROVE  Abstract!Next
<1>1. call'[1] = "copy" /\ call'[2] = id /\ call'[3] = other
  OBVIOUS
<1>2. PICK src : src = assocs[other]
  OBVIOUS
<1>3. PICK a : a = CopyItems([src EXCEPT !.pairs = <<>>, !.size = PairCount(src), !.sorted = FALSE], src)
  OBVIOUS
<1>4. Put(id, a) /\ assocs[id] = None /\ ret' = None /\ kind' = kind /\ rover' = rover
  BY <1>2, <1>3 DEF CopyAssoc
<1>5. Fit(src) /\ Contents[other] = BagOf(src.pairs) /\ Compares[other] = src.compare
  BY <1>2, LiveAt
<1>6. a.pairs = src.pairs /\ a.compare = src.compare /\ Fit(a)
  BY <1>3, <1>5, CopiedPairs
<1>7. a # None
  BY <1>6, FitFacts
<1>8. /\ Contents' = [Contents EXCEPT ![id] = Contents[other]]
      /\ Compares' = [Compares EXCEPT ![id] = Compares[other]]
  <2>1. PICK b, c : b = Contents[other] /\ c = Compares[other]
    OBVIOUS
  <2>2. b = (IF a = None THEN None ELSE BagOf(a.pairs)) /\ c = (IF a = None THEN None ELSE a.compare)
    BY <1>5, <1>6, <1>7, <2>1
  <2> QED
    BY <1>4, <2>1, <2>2, ContentsChange
<1>9. Rest' = Rest
  BY <1>4, FreshRest
<1>10. Contents[id] = None
  BY <1>4 DEF Contents
<1>11. Abstract!Copy
  BY <1>1, <1>4, <1>8, <1>9, <1>10
     DEF Abstract!Copy, Abstract!Calls, Abstract!Self, Abstract!Arg, Abstract!Bag, Abstract!Enumeration
<1> QED
  BY <1>4, <1>11 DEF Abstract!Next, Abstract!Call

LEMMA NoBagIsNone == ASSUME NEW s \in Seq(AllPairs) PROVE BagOf(s) # None
<1>1. Counts(BagOf(s), Tally(s), AllPairs)
  BY BagOfCounts
<1>2. DOMAIN BagOf(s) \in SUBSET AllPairs /\ BagOf(s) \in [DOMAIN BagOf(s) -> Nat]
  BY <1>1 DEF Counts
<1> QED
  BY <1>2, AssocAssumption DEF AllPairs

LEMMA DoneRefines ==
    ASSUME OInv, NEW id \in Live, DoneAssoc(id), call' = <<"done", id>>
    PROVE  Abstract!Next
<1>1. call'[1] = "done" /\ call'[2] = id
  OBVIOUS
<1>2. Put(id, None) /\ Invalidate(id) /\ ret' = None /\ kind' = kind /\ id \in Id
  BY LiveAt DEF DoneAssoc, Change
<1>3. /\ Contents' = [Contents EXCEPT ![id] = None]
      /\ Compares' = [Compares EXCEPT ![id] = None]
  <2>1. PICK a, b, c : a = None /\ b = None /\ c = None
    OBVIOUS
  <2>2. /\ Put(id, a) /\ b = (IF a = None THEN None ELSE BagOf(a.pairs))
        /\ c = (IF a = None THEN None ELSE a.compare)
    BY <1>2, <2>1
  <2> QED
    BY <1>2, <2>1, <2>2, ContentsChange
<1>4. Rest' \in {Rest, None}
  BY <1>2, ChangeRest
<1>5. Contents[id] # None
  BY LiveAt, NoBagIsNone
<1>6. Abstract!Done
  BY <1>1, <1>2, <1>3, <1>4, <1>5
     DEF Abstract!Done, Abstract!Calls, Abstract!Self, Abstract!Bag, Abstract!Enumeration
<1> QED
  BY <1>2, <1>6 DEF Abstract!Next, Abstract!Call

LEMMA ResetRefines ==
    ASSUME OInv, NEW id \in Live, ResetAssoc(id), call' = <<"reset", id>>
    PROVE  Abstract!Next
<1>1. call'[1] = "reset" /\ call'[2] = id
  OBVIOUS
<1>2. PICK a, b : a = ResetPairs(assocs[id]) /\ b = BagOf(<<>>)
  OBVIOUS
<1>3. Fit(assocs[id]) /\ IsAssoc(assocs[id]) /\ assocs[id].size \in Nat
  BY LiveAt, FitFacts
<1>4. /\ a.pairs = <<>> /\ a.compare = assocs[id].compare /\ a.size = assocs[id].size
      /\ IsGood(a)
  BY <1>2, <1>3, ResetGood DEF ResetPairs, IsAssoc
<1>5. Fit(a)
  <2>1. Len(a.pairs) = 0
    BY <1>4
  <2> QED
    BY <1>3, <1>4, <2>1 DEF Fit
<1>6. Turns(id, b)
  BY <1>2, <1>4, <1>5, ChangeTurns DEF ResetAssoc
<1>7. Abstract!Becomes(b) /\ kind' = kind
  BY <1>1, <1>6, TurnsBecomes
<1>8. b = Abstract!EmptyBag
  BY <1>2, BagEmpty
<1> QED
  BY <1>1, <1>7, <1>8 DEF Abstract!Next, Abstract!Call, Abstract!Clear, Abstract!Calls

LEMMA SetCompareRefines ==
    ASSUME OInv, NEW id \in Live, NEW c \in DOMAIN Order, SetCompare(id, c),
           call' = <<"set_compare", id, c>>
    PROVE  Abstract!Next
<1>1. call'[1] = "set_compare" /\ call'[2] = id /\ call'[3] = c
  OBVIOUS
<1>2. PICK a : a = Unsorted([assocs[id] EXCEPT !.compare = c])
  OBVIOUS
<1>3. Fit(assocs[id]) /\ IsAssoc(assocs[id]) /\ id \in Id /\ Contents[id] = BagOf(assocs[id].pairs)
  BY LiveAt, FitFacts
<1>4. Put(id, a) /\ Invalidate(id) /\ ret' = None /\ kind' = kind
  BY <1>2 DEF SetCompare, Change
<1>5. a.pairs = assocs[id].pairs /\ a.compare = c /\ a.size = assocs[id].size
      /\ IsGood(a)
  BY <1>2, <1>3 DEF Unsorted, IsAssoc, IsGood
<1>6. a # None
  BY <1>3, <1>5, FitFacts DEF Fit
<1>7. Contents' = Contents /\ Compares' = [Compares EXCEPT ![id] = c]
  <2>1. PICK b : b = Contents[id]
    OBVIOUS
  <2>2. b = (IF a = None THEN None ELSE BagOf(a.pairs)) /\ c = (IF a = None THEN None ELSE a.compare)
    BY <1>3, <1>5, <1>6, <2>1
  <2> QED
    BY <1>3, <1>4, <2>1, <2>2, ContentsChange
<1>8. Rest' \in {Rest, None}
  BY <1>3, <1>4, ChangeRest
<1>9. Abstract!Reorder
  BY <1>1, <1>4, <1>7, <1>8
     DEF Abstract!Reorder, Abstract!Calls, Abstract!Self, Abstract!Arg, Abstract!Enumeration
<1> QED
  BY <1>4, <1>9 DEF Abstract!Next, Abstract!Call

-----------------------------------------------------------------------------
(* Pairs that come and go *)

LEMMA BagAdds ==
    ASSUME NEW s \in Seq(AllPairs), NEW t \in Seq(AllPairs), NEW N, N \subseteq AllPairs,
           Tally(t) = Raised(Tally(s), N)
    PROVE  BagOf(t) = Abstract!(+)(BagOf(s), Abstract!SetToBag(N))
<1>1. Counts(BagOf(s), Tally(s), AllPairs)
  BY BagOfCounts
<1>2. PICK b, c : b = BagOf(s) /\ c = Tally(s)
  OBVIOUS
<1>3. Counts(Abstract!(+)(b, Abstract!SetToBag(N)), Raised(c, N), AllPairs)
  BY <1>1, <1>2, BagPlus
<1>4. PICK d : d = Abstract!(+)(b, Abstract!SetToBag(N))
  OBVIOUS
<1>5. Counts(d, Tally(t), AllPairs)
  BY <1>2, <1>3, <1>4
<1>6. d = BagOf(t)
  BY <1>5, BagOfEqual
<1> QED
  BY <1>2, <1>4, <1>6

(* one pair gives way to another                                           *)
LEMMA BagReplaces ==
    ASSUME NEW s \in Seq(AllPairs), NEW t \in Seq(AllPairs), NEW old \in DOMAIN BagOf(s), NEW new \in AllPairs,
           Tally(t) = Raised(Lowered(Tally(s), {old}), {new})
    PROVE  BagOf(t) = Abstract!(+)(Abstract!(-)(BagOf(s), Abstract!SetToBag({old})),
                                   Abstract!SetToBag({new}))
<1>1. Counts(BagOf(s), Tally(s), AllPairs)
  BY BagOfCounts
<1>2. PICK b, c, M, N : b = BagOf(s) /\ c = Tally(s) /\ M = {old} /\ N = {new}
  OBVIOUS
<1>3. Counts(Abstract!(-)(b, Abstract!SetToBag(M)), Lowered(c, M), AllPairs)
  BY <1>1, <1>2, BagMinus
<1>4. PICK d, e : d = Abstract!(-)(b, Abstract!SetToBag(M)) /\ e = Lowered(c, M)
  OBVIOUS
<1>5. Counts(Abstract!(+)(d, Abstract!SetToBag(N)), Raised(e, N), AllPairs)
  BY <1>2, <1>3, <1>4, BagPlus
<1>6. PICK f : f = Abstract!(+)(d, Abstract!SetToBag(N))
  OBVIOUS
<1>7. Counts(f, Tally(t), AllPairs)
  BY <1>2, <1>4, <1>5, <1>6
<1>8. f = BagOf(t)
  BY <1>7, BagOfEqual
<1> QED
  BY <1>2, <1>4, <1>6, <1>8

LEMMA BagTakes ==
    ASSUME NEW s \in Seq(AllPairs), NEW t \in Seq(AllPairs), NEW N, N \subseteq DOMAIN BagOf(s),
           Tally(t) = Lowered(Tally(s), N)
    PROVE  BagOf(t) = Abstract!(-)(BagOf(s), Abstract!SetToBag(N))
<1>1. Counts(BagOf(s), Tally(s), AllPairs)
  BY BagOfCounts
<1>2. PICK b, c : b = BagOf(s) /\ c = Tally(s)
  OBVIOUS
<1>3. Counts(Abstract!(-)(b, Abstract!SetToBag(N)), Lowered(c, N), AllPairs)
  BY <1>1, <1>2, BagMinus
<1>4. PICK d : d = Abstract!(-)(b, Abstract!SetToBag(N))
  OBVIOUS
<1>5. Counts(d, Tally(t), AllPairs)
  BY <1>2, <1>3, <1>4
<1>6. d = BagOf(t)
  BY <1>5, BagOfEqual
<1> QED
  BY <1>2, <1>4, <1>6

One(p, q) == IF p = q THEN 1 ELSE 0

LEMMA TallyOne ==
    ASSUME NEW q
    PROVE  \A p : HitCount(<<q>>, {p}) = One(p, q) /\ One(p, q) \in Nat
<1> TAKE p
<1>1. HitCount(<<q>>, {p}) = IF q \in {p} THEN 1 ELSE 0
  BY HitsOne
<1> QED
  BY <1>1 DEF One

(* from s to t: what is in M comes less often, what is in N more often     *)
Turnover(s, t, M, N) ==
    \A p \in AllPairs : Tally(t)[p] = Tally(s)[p] - (IF p \in M THEN 1 ELSE 0)
                                                 + (IF p \in N THEN 1 ELSE 0)

LEMMA TallyIs ==
    ASSUME NEW s \in Seq(AllPairs), NEW t \in Seq(AllPairs), NEW M, NEW N, Turnover(s, t, M, N),
           NEW h, h = Lowered(Tally(s), M)
    PROVE  /\ Tally(t) = Raised(h, N)
           /\ M = {} => Tally(t) = Raised(Tally(s), N)
           /\ N = {} => Tally(t) = h
<1>1. PICK c, d : c = Tally(s) /\ d = Tally(t)
  OBVIOUS
<1>2. c \in [AllPairs -> Nat] /\ d \in [AllPairs -> Nat]
  BY <1>1, TallyType
<1>3. \A p \in AllPairs : d[p] = c[p] - (IF p \in M THEN 1 ELSE 0) + (IF p \in N THEN 1 ELSE 0)
  BY <1>1 DEF Turnover
<1>4. h = [p \in AllPairs |-> IF p \in M THEN c[p] - 1 ELSE c[p]]
  BY <1>1, <1>2 DEF Lowered
<1>5. Raised(c, N) = [p \in AllPairs |-> IF p \in N THEN c[p] + 1 ELSE c[p]]
  BY <1>2 DEF Raised
<1>6. Raised(h, N) = [p \in AllPairs |-> IF p \in N THEN h[p] + 1 ELSE h[p]]
  BY <1>4 DEF Raised
<1>7. d = [p \in AllPairs |-> d[p]] /\ \A p \in AllPairs : d[p] \in Int /\ c[p] \in Int
  BY <1>2
<1>8. M = {} => d = Raised(c, N)
  <2>1. ASSUME NEW p \in AllPairs, M = {} PROVE d[p] = IF p \in N THEN c[p] + 1 ELSE c[p]
    BY <1>3, <1>7, <2>1
  <2> QED
    BY <1>5, <1>7, <2>1
<1>9. N = {} => d = h
  <2>1. ASSUME NEW p \in AllPairs, N = {} PROVE d[p] = IF p \in M THEN c[p] - 1 ELSE c[p]
    BY <1>3, <1>7, <2>1
  <2> QED
    BY <1>4, <1>7, <2>1
<1>10. d = Raised(h, N)
  <2>1. ASSUME NEW p \in AllPairs PROVE d[p] = IF p \in N THEN h[p] + 1 ELSE h[p]
    BY <1>3, <1>4, <1>7
  <2> QED
    BY <1>6, <1>7, <2>1
<1> QED
  BY <1>1, <1>8, <1>9, <1>10

LEMMA BagAppend ==
    ASSUME NEW s \in Seq(AllPairs), NEW p \in AllPairs
    PROVE  BagOf(Append(s, p)) = Abstract!(+)(BagOf(s), Abstract!SetToBag({p}))
<1>0. PICK t : t = Append(s, p)
  OBVIOUS
<1>1. PICK N, u : N = {p} /\ u = <<p>>
  OBVIOUS
<1>2. t \in Seq(AllPairs) /\ u \in Seq(AllPairs) /\ t = s \o u
  BY <1>0, <1>1
<1>3. ASSUME NEW q \in AllPairs PROVE Tally(t)[q] = Tally(s)[q] + (IF q \in N THEN 1 ELSE 0)
  <2>1. PICK A : A = {q}
    OBVIOUS
  <2>2. HitCount(t, A) = HitCount(s, A) + HitCount(u, A)
    BY <1>2, HitsConcat
  <2>3. HitCount(u, A) = IF q \in N THEN 1 ELSE 0
    BY <1>1, <2>1, TallyOne DEF One
  <2>4. Tally(t)[q] = HitCount(t, A) /\ Tally(s)[q] = HitCount(s, A)
    BY <2>1 DEF Tally
  <2> QED
    BY <2>2, <2>3, <2>4
<1>4. N \subseteq AllPairs
  BY <1>1
<1>5. Tally(t) = Raised(Tally(s), N)
  <2>1. PICK M, h : M = {} /\ h = Lowered(Tally(s), M)
    OBVIOUS
  <2>2. Turnover(s, t, M, N)
    <3>1. \A q \in AllPairs : Tally(s)[q] \in Nat
      BY TallyType
    <3> QED
      BY <1>3, <2>1, <3>1 DEF Turnover
  <2>3. t \in Seq(AllPairs)
    BY <1>2
  <2> QED
    BY <2>1, <2>2, <2>3, TallyIs
<1>6. BagOf(t) = Abstract!(+)(BagOf(s), Abstract!SetToBag(N))
  BY <1>2, <1>4, <1>5, BagAdds
<1> QED
  BY <1>0, <1>1, <1>6

LEMMA BagExcept ==
    ASSUME NEW s \in Seq(AllPairs), NEW i \in 1 .. Len(s), NEW p \in AllPairs
    PROVE  /\ BagOf([s EXCEPT ![i] = p])
                 = Abstract!(+)(Abstract!(-)(BagOf(s), Abstract!SetToBag({s[i]})),
                                Abstract!SetToBag({p}))
           /\ s[i] \in DOMAIN BagOf(s)
<1>0. PICK t, old : t = [s EXCEPT ![i] = p] /\ old = s[i]
  OBVIOUS
<1>1. t \in Seq(AllPairs)
  BY <1>0
<1>2. old \in DOMAIN BagOf(s) /\ i \in DOMAIN s
  BY <1>0 DEF BagOf
<1>3. PICK M, N : M = {old} /\ N = {p}
  OBVIOUS
<1>4. ASSUME NEW q \in AllPairs
      PROVE  Tally(t)[q] = Tally(s)[q] - (IF q \in M THEN 1 ELSE 0) + (IF q \in N THEN 1 ELSE 0)
  <2>1. PICK A : A = {q}
    OBVIOUS
  <2>2. HitCount(t, A) + HitCount(<<old>>, A) = HitCount(s, A) + HitCount(<<p>>, A)
    <3>1. HitCount([s EXCEPT ![i] = p], A) + HitCount(<<s[i]>>, A) = HitCount(s, A) + HitCount(<<p>>, A)
      BY HitsReplaced
    <3> QED
      BY <1>0, <3>1
  <2>3. HitCount(<<old>>, A) = (IF q \in M THEN 1 ELSE 0) /\ HitCount(<<p>>, A) = IF q \in N THEN 1 ELSE 0
    BY <1>3, <2>1, TallyOne DEF One
  <2>4. Tally(t)[q] = HitCount(t, A) /\ Tally(s)[q] = HitCount(s, A)
    BY <2>1 DEF Tally
  <2>5. HitCount(t, A) \in Nat /\ HitCount(s, A) \in Nat
    BY <1>1, HitsFinite
  <2> QED
    BY <2>2, <2>3, <2>4, <2>5
<1>5. PICK h : h = Lowered(Tally(s), M)
  OBVIOUS
<1>6. Tally(t) = Raised(h, N)
  <2>1. Turnover(s, t, M, N)
    BY <1>4 DEF Turnover
  <2> QED
    BY <1>1, <1>5, <2>1, TallyIs
<1>7. BagOf(t) = Abstract!(+)(Abstract!(-)(BagOf(s), Abstract!SetToBag({old})),
                              Abstract!SetToBag({p}))
  BY <1>1, <1>2, <1>3, <1>5, <1>6, BagReplaces
<1> QED
  BY <1>0, <1>2, <1>7

-----------------------------------------------------------------------------
(* Adding and setting *)

LEMMA AddedRefines ==
    ASSUME OInv, NEW id \in Live, NEW k \in Key, NEW v \in Value,
           AddKey(id, k, v) \/ AddKeyGuaranteed(id, k, v), call' = <<"add", id, k, v>>
    PROVE  Abstract!Next
<1>1. call'[1] = "add" /\ call'[2] = id /\ call'[3] = k /\ call'[4] = v
  OBVIOUS
<1>2. PICK p : p = Pair(k, v) /\ p \in Pairs /\ p \in AllPairs /\ <<p>> \in Seq(AllPairs)
  BY PairFacts
<1>3. FitsIn(assocs[id]) /\ Contents[id] = BagOf(assocs[id].pairs) /\ assocs[id].pairs \in Seq(AllPairs)
  BY LiveAt, FitIsFit
<1>4. PICK b : /\ FitsIn(b) /\ b.pairs = Append(assocs[id].pairs, p) /\ b.compare = assocs[id].compare
               /\ Change(id, Unsorted(b), Retained(refs, <<p>>))
  <2>1. CASE AddKey(id, k, v)
    <3>1. PICK b : b = AddPair(assocs[id], p)
      OBVIOUS
    <3>2. b.compare = assocs[id].compare
      BY <1>3, <3>1 DEF AddPair, AddGuaranteedPair, GrowPairs, ReallocPairs, FitsIn, IsAssoc
    <3> QED
      BY <1>2, <1>3, <2>1, <3>1, <3>2, AddPairFits DEF AddKey
  <2>2. CASE AddKeyGuaranteed(id, k, v)
    <3>1. PICK b : b = AddGuaranteedPair(assocs[id], p)
      OBVIOUS
    <3>2. b.compare = assocs[id].compare
      BY <1>3, <3>1 DEF AddGuaranteedPair, FitsIn, IsAssoc
    <3> QED
      BY <1>2, <1>3, <2>2, <3>1, <3>2, AddGuaranteedFits DEF AddKeyGuaranteed
  <2> QED
    BY <2>1, <2>2
<1>5. PICK a : a = Unsorted(b)
  OBVIOUS
<1>6. Fit(a) /\ a.pairs = Append(assocs[id].pairs, p) /\ a.compare = assocs[id].compare
  <2>1. a.compare = b.compare
    BY <1>4, <1>5 DEF Unsorted, FitsIn, IsAssoc
  <2> QED
    BY <1>4, <1>5, <2>1, UnsortedFits
<1>7. PICK c : c = BagOf(a.pairs)
  OBVIOUS
<1>8. Turns(id, c)
  BY <1>4, <1>5, <1>6, <1>7, ChangeTurns
<1>9. Abstract!Becomes(c) /\ kind' = kind /\ Abstract!Self = id
  BY <1>1, <1>8, TurnsBecomes
<1>10. c = Abstract!(+)(Abstract!Bag, Abstract!Copies(p))
  <2>1. Abstract!Bag = BagOf(assocs[id].pairs) /\ Abstract!Copies(p) = Abstract!SetToBag({p})
    BY <1>3, <1>9 DEF Abstract!Bag, Abstract!Copies
  <2>2. BagOf(Append(assocs[id].pairs, p)) = Abstract!(+)(BagOf(assocs[id].pairs), Abstract!SetToBag({p}))
    BY <1>2, <1>3, BagAppend
  <2> QED
    BY <1>6, <1>7, <2>1, <2>2
<1>11. p = [key |-> Abstract!Arg, value |-> Abstract!Other]
  BY <1>1, <1>2 DEF Pair, Abstract!Arg, Abstract!Other
<1>12. Abstract!Add
  BY <1>1, <1>9, <1>10, <1>11 DEF Abstract!Add, Abstract!Calls
<1> QED
  BY <1>9, <1>12 DEF Abstract!Next, Abstract!Call

(* One pair is replaced by another, in the sorted pairs.                   *)
LEMMA PlacedTurns ==
    ASSUME OInv, NEW id \in Live, NEW a, Sorts(id, a), NEW i \in 0 .. Len(a.pairs) - 1,
           NEW p \in Pairs, NEW rs, Change(id, Unsorted(SetPair(a, i, p)), rs)
    PROVE  /\ Turns(id, Abstract!(+)(Abstract!(-)(Contents[id], Abstract!SetToBag({a.pairs[i + 1]})),
                                     Abstract!SetToBag({p})))
           /\ a.pairs[i + 1] \in DOMAIN Contents[id]
<1>1. /\ Fit(a) /\ FitsIn(a) /\ a.pairs \in Seq(AllPairs) /\ a.compare = assocs[id].compare
      /\ BagOf(a.pairs) = BagOf(assocs[id].pairs)
  BY FitIsFit DEF Sorts
<1>2. Contents[id] = BagOf(a.pairs) /\ p \in AllPairs
  BY <1>1, LiveAt, PairsAll
<1>3. PICK b, c : b = SetPair(a, i, p) /\ c = Unsorted(b)
  OBVIOUS
<1>4. FitsIn(b) /\ b.pairs = [a.pairs EXCEPT ![i + 1] = p] /\ i + 1 \in 1 .. Len(a.pairs)
  BY <1>1, <1>3, SetPairFits
<1>5. b.compare = a.compare
  BY <1>1, <1>3 DEF SetPair, FitsIn, IsAssoc
<1>6. Fit(c) /\ c.pairs = b.pairs /\ c.compare = b.compare
  <2>1. c.compare = b.compare
    BY <1>3, <1>4 DEF Unsorted, FitsIn, IsAssoc
  <2> QED
    BY <1>3, <1>4, <2>1, UnsortedFits
<1>7. PICK d : d = BagOf(c.pairs)
  OBVIOUS
<1>8. Turns(id, d)
  BY <1>1, <1>3, <1>5, <1>6, <1>7, ChangeTurns
<1>9. PICK n : n = i + 1
  OBVIOUS
<1>10. /\ BagOf([a.pairs EXCEPT ![n] = p])
                 = Abstract!(+)(Abstract!(-)(BagOf(a.pairs), Abstract!SetToBag({a.pairs[n]})),
                                Abstract!SetToBag({p}))
       /\ a.pairs[n] \in DOMAIN BagOf(a.pairs)
  <2>1. n \in 1 .. Len(a.pairs)
    BY <1>4, <1>9
  <2>2. PICK s : s = a.pairs
    OBVIOUS
  <2>3. /\ BagOf([s EXCEPT ![n] = p])
                 = Abstract!(+)(Abstract!(-)(BagOf(s), Abstract!SetToBag({s[n]})),
                                Abstract!SetToBag({p}))
        /\ s[n] \in DOMAIN BagOf(s)
    BY <1>1, <1>2, <2>1, <2>2, BagExcept
  <2> QED
    BY <2>2, <2>3
<1> QED
  BY <1>2, <1>4, <1>6, <1>7, <1>8, <1>9, <1>10

LEMMA SetAtIndexRefines ==
    ASSUME OInv, NEW id \in Live, NEW i \in Indices(id), NEW k \in Key, NEW v \in Value,
           SetAtIndex(id, i, k, v), call' = <<"set_at_index", id, i, Pair(k, v)>>
    PROVE  Abstract!Next
<1>1. call'[1] = "set_at_index" /\ call'[2] = id /\ call'[3] = i /\ call'[4] = Pair(k, v)
  OBVIOUS
<1>2. PICK p : p = Pair(k, v) /\ p \in Pairs
  BY PairFacts
<1>3. PICK a, rs : a \in QsortIfNeeded(id) /\ Change(id, Unsorted(SetPair(a, i, p)), rs)
  BY <1>2 DEF SetAtIndex
<1>4. Sorts(id, a)
  BY <1>3, SortsIt
<1>5. i \in 0 .. Len(a.pairs) - 1
  BY <1>4 DEF Sorts, Indices, Count, PairCount
<1>6. PICK old : old = a.pairs[i + 1]
  OBVIOUS
<1>7. PICK b : b = Abstract!(+)(Abstract!(-)(Contents[id], Abstract!SetToBag({old})), Abstract!SetToBag({p}))
  OBVIOUS
<1>8. Turns(id, b) /\ old \in DOMAIN Contents[id]
  BY <1>2, <1>3, <1>4, <1>5, <1>6, <1>7, PlacedTurns
<1>9. Abstract!Becomes(b) /\ kind' = kind /\ Abstract!Self = id
  BY <1>1, <1>8, TurnsBecomes
<1>10. Abstract!Bag = Contents[id] /\ Abstract!Pairs = DOMAIN Contents[id]
  BY <1>9 DEF Abstract!Bag, Abstract!Pairs, Abstract!BagToSet
<1>11. Abstract!At(old, i)
  <2>1. Shows(id, a.pairs)
    BY <1>1, <1>4, SortsShows
  <2>2. old \in DOMAIN BagOf(a.pairs)
    BY <1>8, <2>1 DEF Shows
  <2>3. PICK s : s = a.pairs
    OBVIOUS
  <2>4. Shows(id, s) /\ old \in DOMAIN BagOf(s) /\ i \in 0 .. Len(s) - 1 /\ old = s[i + 1]
    BY <1>5, <1>6, <2>1, <2>2, <2>3
  <2> QED
    BY <2>4, AtPlace
<1>12. Abstract!SetAtIndex
  BY <1>1, <1>2, <1>7, <1>8, <1>9, <1>10, <1>11
     DEF Abstract!SetAtIndex, Abstract!Calls, Abstract!Copies, Abstract!Arg, Abstract!Other
<1> QED
  BY <1>9, <1>12 DEF Abstract!Next, Abstract!Call

(* Whether and where a bsearch finds a key of the kind                     *)
LEMMA Searched ==
    ASSUME OInv, NEW id \in Live, NEW a, Sorts(id, a), NEW k \in Key,
           NEW i, i = Bsearch(a.pairs, k, Rank(id))
    PROVE  IF \E n \in DOMAIN a.pairs : Class[a.pairs[n].key] = Class[k]
           THEN i \in 0 .. Len(a.pairs) - 1 /\ Class[a.pairs[i + 1].key] = Class[k]
           ELSE i = NotFound
<1>1. PICK s, rank : s = a.pairs /\ rank = Rank(id)
  OBVIOUS
<1>2. Compares[id] = assocs[id].compare /\ assocs[id].compare \in DOMAIN Order
  BY LiveAt
<1>3. PICK c : c = assocs[id].compare
  OBVIOUS
<1>4. rank = Order[c] /\ c \in DOMAIN Order /\ Compares[id] = c
  BY <1>1, <1>2, <1>3 DEF Rank
<1>5. s \in Seq(Pairs) /\ InOrder(s, rank)
  BY <1>1, <1>4 DEF Sorts
<1>6. kind \in {"intptr", "string"}
  BY DEF OInv
<1>7. \A n \in DOMAIN s : s[n] \in Pairs /\ s[n].key \in Key
  BY <1>4, <1>5, <1>6, PairsRanked
<1>8. \A l \in Key : rank[l] \in Int /\ (rank[l] = rank[k] <=> Class[l] = Class[k])
  BY <1>4, <1>6, EqualRanks
<1>9. \A n \in DOMAIN s : rank[s[n].key] \in Int
  BY <1>7, <1>8
<1>10. IF \E n \in DOMAIN s : rank[s[n].key] = rank[k]
       THEN i \in 0 .. Len(s) - 1 /\ rank[s[i + 1].key] = rank[k]
       ELSE i = NotFound
  <2>1. i = Bsearch(s, k, rank)
    BY <1>1
  <2> QED
    BY <1>5, <1>8, <1>9, <2>1, AssocBsearchExact
<1>11. \A n \in DOMAIN s : rank[s[n].key] = rank[k] <=> Class[s[n].key] = Class[k]
  BY <1>7, <1>8
<1>12. \A j \in 0 .. Len(s) - 1 : j + 1 \in DOMAIN s
  BY <1>5
<1> QED
  BY <1>1, <1>10, <1>11, <1>12

(* what has the key k, in the bag and in the pairs                         *)
LEMMA WithKey ==
    ASSUME OInv, NEW id \in Live, call'[2] = id, NEW s \in Seq(AllPairs), BagOf(s) = Contents[id], NEW k
    PROVE  /\ Abstract!With(k) = {p \in DOMAIN BagOf(s) : Class[p.key] = Class[k]}
           /\ Abstract!With(k) = {s[i] : i \in {i \in DOMAIN s : Class[s[i].key] = Class[k]}}
           /\ Abstract!With(k) = {} <=> ~ \E n \in DOMAIN s : Class[s[n].key] = Class[k]
           /\ \A n \in DOMAIN s : Class[s[n].key] = Class[k] => s[n] \in Abstract!With(k)
<1>1. Abstract!Self = id /\ Abstract!Bag = BagOf(s) /\ Abstract!Pairs = DOMAIN BagOf(s)
  BY DEF Abstract!Self, Abstract!Bag, Abstract!Pairs, Abstract!BagToSet
<1>2. DOMAIN BagOf(s) = {s[i] : i \in DOMAIN s}
  BY DEF BagOf
<1>3. Abstract!With(k) = {p \in DOMAIN BagOf(s) : Class[p.key] = Class[k]}
  BY <1>1 DEF Abstract!With
<1> QED
  BY <1>2, <1>3

-----------------------------------------------------------------------------
(* Removing *)

LEMMA HitsWithout ==
    ASSUME NEW s \in Seq(AllPairs), NEW r, r.location \in Nat, r.length \in Nat,
           r.location + r.length <= Len(s), NEW A
    PROVE  /\ HitCount(Without(s, r), A) = HitCount(s, A) - HitCount(Slice(s, r), A)
           /\ HitCount(s, A) \in Nat /\ HitCount(Slice(s, r), A) \in Nat
           /\ HitCount(Without(s, r), A) \in Nat
<1>1. PICK l, e, n : l = r.location /\ e = r.location + r.length /\ n = Len(s)
  OBVIOUS
<1>2. l \in Nat /\ e \in Nat /\ n \in Nat /\ l <= e /\ e <= n
  <2>1. Len(s) \in Nat
    OBVIOUS
  <2> QED
    BY <1>1, <2>1
<1> DEFINE a == SubSeq(s, 1, l)
           b == SubSeq(s, l + 1, e)
           c == SubSeq(s, e + 1, n)
<1>3. Slice(s, r) = b /\ Without(s, r) = a \o c
  BY <1>1 DEF Slice, Without
<1>4. \A i \in 1 .. n : s[i] \in AllPairs
  BY <1>1
<1>5. a \in Seq(AllPairs) /\ b \in Seq(AllPairs) /\ c \in Seq(AllPairs)
  <2>1. ASSUME NEW i \in Int, NEW j \in Int, i >= 1, j <= n
        PROVE  SubSeq(s, i, j) \in Seq(AllPairs)
    <3>1. \A k \in i .. j : k \in 1 .. n
      BY <1>2, <2>1
    <3>2. \A k \in i .. j : s[k] \in AllPairs
      BY <1>4, <3>1
    <3> QED
      BY <3>2, SubSeqProperties
  <2>2. l + 1 \in Int /\ e + 1 \in Int /\ l + 1 >= 1 /\ e + 1 >= 1 /\ l <= n
    BY <1>2
  <2> QED
    BY <1>2, <2>1, <2>2
<1>6. s = a \o SubSeq(s, l + 1, n)
  <2>1. /\ 1 \in 1 .. Len(s) + 1 /\ l \in 1 - 1 .. Len(s) /\ n \in l .. Len(s)
    BY <1>1, <1>2
  <2>2. SubSeq(s, 1, l) \o SubSeq(s, l + 1, n) = SubSeq(s, 1, n)
    BY <2>1, ConcatAdjacentSubSeq
  <2> QED
    BY <1>1, <2>2, SubSeqFull
<1>7. SubSeq(s, l + 1, n) = b \o c
  <2>1. l + 1 \in 1 .. Len(s) + 1 /\ e \in (l + 1) - 1 .. Len(s) /\ n \in e .. Len(s)
    BY <1>1, <1>2
  <2> QED
    BY <2>1, ConcatAdjacentSubSeq
<1> HIDE DEF a, b, c
<1>8. PICK d : d = b \o c
  OBVIOUS
<1>9. d \in Seq(AllPairs) /\ s = a \o d
  BY <1>5, <1>6, <1>7, <1>8, ConcatProperties
<1>10. HitCount(d, A) = HitCount(b, A) + HitCount(c, A)
  BY <1>5, <1>8, HitsConcat
<1>11. HitCount(a \o d, A) = HitCount(a, A) + HitCount(d, A)
  BY <1>5, <1>9, HitsConcat
<1>12. HitCount(a \o c, A) = HitCount(a, A) + HitCount(c, A)
  BY <1>5, HitsConcat
<1>13. HitCount(a, A) \in Nat /\ HitCount(b, A) \in Nat /\ HitCount(c, A) \in Nat
  BY <1>5, HitsFinite
<1>14. HitCount(s, A) = HitCount(a, A) + (HitCount(b, A) + HitCount(c, A))
  BY <1>9, <1>10, <1>11
<1> QED
  BY <1>3, <1>12, <1>13, <1>14

(* what a cut does to its assoc                                            *)
LEMMA CutTurns ==
    ASSUME OInv, NEW id \in Live, NEW a, Sorts(id, a) \/ a = assocs[id], NEW r,
           r.location \in Nat, r.length \in Nat \cup {All}, RemoveRange(id, a, r)
    PROVE  LET v == Validated(r, Len(a.pairs))
               t == Without(a.pairs, v)
           IN  /\ Turns(id, BagOf(t)) /\ t \in Seq(AllPairs)
               /\ Len(t) = Len(a.pairs) - v.length /\ Len(t) \in Nat
               /\ v.location \in Nat /\ v.length \in Nat /\ v.location + v.length <= Len(a.pairs)
               /\ a.pairs \in Seq(AllPairs)
<1>1. Fit(a) /\ a.compare = assocs[id].compare
  BY LiveAt DEF Sorts
<1>2. a.pairs \in Seq(Pairs) /\ a.pairs \in Seq(AllPairs) /\ Len(a.pairs) \in Nat /\ IsAssoc(a)
  BY <1>1, FitFacts
<1>3. PICK v : v = Validated(r, Len(a.pairs))
  OBVIOUS
<1>4. v.location \in Nat /\ v.length \in Nat /\ v.location + v.length <= Len(a.pairs)
  BY <1>2, <1>3, ValidatedWithin
<1>5. PICK t, b : t = Without(a.pairs, v) /\ b = RemovePairsInRange(a, r)
  OBVIOUS
<1>6. t \in Seq(Pairs) /\ Len(t) = Len(a.pairs) - v.length
  BY <1>2, <1>4, <1>5, WithoutItems
<1>7. Fit(b)
  BY <1>1, <1>5, RemovePairsFit
<1>8. b.pairs = t /\ b.compare = a.compare
  BY <1>2, <1>3, <1>5 DEF RemovePairsInRange, PairCount, IsAssoc
<1>9. PICK c, rs : c = BagOf(b.pairs) /\ Change(id, b, rs)
  BY <1>5 DEF RemoveRange
<1>10. Turns(id, c)
  BY <1>1, <1>7, <1>8, <1>9, ChangeTurns
<1>11. t \in Seq(AllPairs)
  BY <1>6, PairsAll
<1>12. Len(t) \in Nat
  BY <1>6
<1> QED
  BY <1>2, <1>3, <1>4, <1>5, <1>6, <1>8, <1>9, <1>10, <1>11, <1>12

LEMMA RemoveInRangeRefines ==
    ASSUME OInv, NEW id \in Live, NEW r \in Ranges(id), RemoveInRange(id, r),
           call' = <<"remove_in_range", id, r>>
    PROVE  Abstract!Next
<1>1. call'[1] = "remove_in_range" /\ call'[2] = id /\ call'[3] = r
  OBVIOUS
<1>2. r.location \in Nat /\ r.length \in Nat \cup {All}
  BY RangesFacts
<1>3. PICK a : a = assocs[id]
  OBVIOUS
<1>4. RemoveRange(id, a, r)
  BY <1>3 DEF RemoveInRange
<1>5. PICK s, v, t : s = a.pairs /\ v = Validated(r, Len(s)) /\ t = Without(s, v)
  OBVIOUS
<1>6. /\ Turns(id, BagOf(t)) /\ t \in Seq(AllPairs)
      /\ Len(t) = Len(s) - v.length /\ Len(t) \in Nat
      /\ v.location \in Nat /\ v.length \in Nat /\ v.location + v.length <= Len(s)
      /\ s \in Seq(AllPairs)
  BY <1>2, <1>3, <1>4, <1>5, CutTurns
<1>7. PICK b : b = BagOf(t)
  OBVIOUS
<1>8. Abstract!Becomes(b) /\ Abstract!Self = id /\ kind' = kind
  BY <1>1, <1>6, <1>7, TurnsBecomes
<1>9. Abstract!Bag = BagOf(s) /\ Abstract!Size = Len(s) /\ Len(s) \in Nat
  BY <1>1, <1>3, <1>5, BagNow
<1>10. Contents'[Abstract!Self] = b
  BY <1>6, <1>7, <1>8 DEF Turns
<1>11. Abstract!\sqsubseteq(b, Abstract!Bag)
  <2>1. Counts(b, Tally(t), AllPairs) /\ Counts(BagOf(s), Tally(s), AllPairs)
    BY <1>6, <1>7, BagOfCounts
  <2>2. PICK c, d, e : c = Tally(t) /\ d = Tally(s) /\ e = BagOf(s)
    OBVIOUS
  <2>3. ASSUME NEW p \in AllPairs PROVE c[p] <= d[p] /\ c[p] \in Nat /\ d[p] \in Nat
    <3>1. PICK A : A = {p}
      OBVIOUS
    <3>2. c[p] = HitCount(t, A) /\ d[p] = HitCount(s, A)
      BY <2>2, <3>1 DEF Tally
    <3>3. /\ HitCount(Without(s, v), A) = HitCount(s, A) - HitCount(Slice(s, v), A)
          /\ HitCount(s, A) \in Nat /\ HitCount(Slice(s, v), A) \in Nat
          /\ HitCount(Without(s, v), A) \in Nat
      BY <1>6, HitsWithout
    <3>4. PICK x, y, z : x = HitCount(t, A) /\ y = HitCount(s, A) /\ z = HitCount(Slice(s, v), A)
      OBVIOUS
    <3>5. x = y - z /\ x \in Nat /\ y \in Nat /\ z \in Nat
      BY <1>5, <3>3, <3>4
    <3>6. x <= y
      BY <3>5
    <3> QED
      BY <3>2, <3>4, <3>5, <3>6
  <2>4. Counts(b, c, AllPairs) /\ Counts(e, d, AllPairs)
    BY <2>1, <2>2
  <2>5. DOMAIN b \subseteq DOMAIN e /\ \A p \in DOMAIN b : b[p] <= e[p]
    <3>1. /\ DOMAIN b = {p \in AllPairs : c[p] > 0} /\ \A p \in DOMAIN b : b[p] = c[p]
          /\ DOMAIN e = {p \in AllPairs : d[p] > 0} /\ \A p \in DOMAIN e : e[p] = d[p]
      BY <2>4 DEF Counts
    <3> QED
      BY <2>3, <3>1
  <2> QED
    BY <1>9, <2>2, <2>5 DEF Abstract!\sqsubseteq
<1>12. Abstract!Total(b, Abstract!BagToSet(b)) = Len(t)
  BY <1>6, <1>7, TotalOfAll DEF Abstract!BagToSet
<1>13. v.length = IF r.length = -1 /\ r.location <= Len(s) THEN Len(s) - r.location
                  ELSE IF r.length # -1 /\ r.location + r.length <= Len(s) THEN r.length ELSE 0
  BY <1>5 DEF Validated, Make, All
<1>14. Abstract!Arg = r
  BY <1>1 DEF Abstract!Arg
<1>15. Abstract!RemoveSome
  BY <1>1, <1>6, <1>8, <1>9, <1>10, <1>11, <1>12, <1>13, <1>14
     DEF Abstract!RemoveSome, Abstract!Calls
<1> QED
  BY <1>8, <1>15 DEF Abstract!Next, Abstract!Call

LEMMA RemoveLastRefines ==
    ASSUME OInv, NEW id \in Live, RemoveLast(id), call' = <<"remove_last", id>>
    PROVE  Abstract!Next
<1>1. call'[1] = "remove_last" /\ call'[2] = id
  OBVIOUS
<1>2. PICK a : a = assocs[id]
  OBVIOUS
<1>3. /\ Fit(a) /\ a.pairs \in Seq(AllPairs) /\ a.pairs \in Seq(Pairs)
      /\ Len(a.pairs) \in Nat /\ IsAssoc(a) /\ a.size \in Nat /\ Len(a.pairs) <= a.size
  BY <1>2, LiveFit, FitFacts
<1>4. a.pairs # <<>> /\ Len(a.pairs) # 0
  <2>1. Len(a.pairs) > 0
    BY <1>2 DEF RemoveLast, Count, PairCount
  <2> QED
    BY <2>1
<1>5. PICK n, s, t : n = Len(a.pairs) /\ s = a.pairs /\ t = SubSeq(s, 1, n - 1)
  OBVIOUS
<1>6. n \in Nat \ {0} /\ n = Len(s) /\ s \in Seq(Pairs) /\ s \in Seq(AllPairs)
  BY <1>3, <1>4, <1>5
<1>7. t \in Seq(Pairs) /\ Len(t) = n - 1
  <2>1. \A i \in 1 .. n - 1 : s[i] \in Pairs
    BY <1>6
  <2>2. n - 1 \in Int
    BY <1>6
  <2>3. t \in Seq(Pairs) /\ Len(t) = IF 1 <= n - 1 THEN (n - 1) - 1 + 1 ELSE 0
    BY <1>5, <2>1, <2>2, SubSeqProperties
  <2> QED
    BY <1>6, <2>3
<1>8. PICK b : b = PopPair(a)
  OBVIOUS
<1>9. Fit(b) /\ b.pairs = t /\ b.compare = a.compare
  <2>1. b = [a EXCEPT !.pairs = t]
    BY <1>4, <1>5, <1>8 DEF PopPair, PairCount
  <2>2. Len(t) <= a.size
    BY <1>3, <1>5, <1>7
  <2>3. FitsIn(b) /\ b.pairs = t
    BY <1>3, <1>7, <2>1, <2>2, NewPairsFit
  <2>4. IsGood(b)
    BY <1>3, <1>8, PopPairKeeps DEF Fit
  <2>5. b.compare = a.compare
    BY <1>3, <2>1 DEF IsAssoc
  <2> QED
    BY <2>3, <2>4, <2>5 DEF Fit, FitsIn
<1>10. PICK c, rs : c = BagOf(b.pairs) /\ Change(id, b, rs)
  BY <1>2, <1>8 DEF RemoveLast
<1>11. Turns(id, c)
  BY <1>2, <1>9, <1>10, ChangeTurns
<1>12. Abstract!Becomes(c) /\ Abstract!Self = id /\ kind' = kind
  BY <1>1, <1>11, TurnsBecomes
<1>13. Abstract!Bag = BagOf(s) /\ Abstract!Pairs = DOMAIN BagOf(s)
  BY <1>1, <1>2, <1>5, BagNow
<1>14. PICK p, N : p = s[n] /\ N = {p}
  OBVIOUS
<1>15. p \in AllPairs /\ p \in DOMAIN BagOf(s) /\ N \subseteq DOMAIN BagOf(s)
  <2>1. n \in DOMAIN s
    BY <1>6
  <2> QED
    BY <1>6, <1>14, <2>1 DEF BagOf
<1>16. s = t \o <<p>>
  <2>1. 1 \in 1 .. Len(s) /\ n \in 1 .. Len(s)
    BY <1>6
  <2>2. SubSeq(s, 1, n) = SubSeq(s, 1, n - 1) \o <<s[n]>>
    BY <1>6, <2>1, SubSeqRecursiveSecond
  <2>3. SubSeq(s, 1, n) = s
    BY <1>6, SubSeqFull
  <2> QED
    BY <1>5, <1>14, <2>2, <2>3
<1>17. t \in Seq(AllPairs)
  BY <1>7, PairsAll
<1>18. PICK M, h : M = {} /\ h = Lowered(Tally(s), N)
  OBVIOUS
<1>19. Turnover(s, t, N, M)
  <2>1. ASSUME NEW q \in AllPairs
        PROVE  Tally(t)[q] = Tally(s)[q] - (IF q \in N THEN 1 ELSE 0) + (IF q \in M THEN 1 ELSE 0)
    <3>1. PICK A, u : A = {q} /\ u = <<p>>
      OBVIOUS
    <3>2. u \in Seq(AllPairs)
      BY <1>15, <3>1
    <3>3. HitCount(t \o u, A) = HitCount(t, A) + HitCount(u, A)
      BY <1>17, <3>2, HitsConcat
    <3>4. HitCount(u, A) = IF q \in N THEN 1 ELSE 0
      BY <1>14, <3>1, TallyOne DEF One
    <3>5. HitCount(s, A) = HitCount(t, A) + HitCount(u, A)
      BY <1>16, <3>1, <3>3
    <3>6. Tally(t)[q] = HitCount(t, A) /\ Tally(s)[q] = HitCount(s, A)
      BY <3>1 DEF Tally
    <3>7. HitCount(t, A) \in Nat
      BY <1>17, HitsFinite
    <3> QED
      BY <1>18, <3>4, <3>5, <3>6, <3>7
  <2> QED
    BY <2>1 DEF Turnover
<1>20. Tally(t) = h
  BY <1>6, <1>17, <1>18, <1>19, TallyIs
<1>21. BagOf(t) = Abstract!(-)(BagOf(s), Abstract!SetToBag(N))
  BY <1>6, <1>15, <1>17, <1>18, <1>20, BagTakes
<1>22. Abstract!RemoveLast
  BY <1>1, <1>9, <1>10, <1>12, <1>13, <1>14, <1>15, <1>21
     DEF Abstract!RemoveLast, Abstract!Calls, Abstract!Copies
<1> QED
  BY <1>12, <1>22 DEF Abstract!Next, Abstract!Call

(* Equal keys are next to each other.                                      *)
LEMMA Contiguous ==
    ASSUME OInv, NEW id \in Live, NEW a, Sorts(id, a), NEW k \in Key,
           NEW i \in DOMAIN a.pairs, NEW j \in DOMAIN a.pairs, NEW l \in DOMAIN a.pairs,
           i <= j, j <= l,
           Class[a.pairs[i].key] = Class[k], Class[a.pairs[l].key] = Class[k]
    PROVE  Class[a.pairs[j].key] = Class[k]
<1>1. PICK s, c : s = a.pairs /\ c = Compares[id]
  OBVIOUS
<1>2. c \in DOMAIN Order /\ s \in Seq(Pairs) /\ InOrder(s, Order[c]) /\ Ranked(s, Order[c])
  BY <1>1, LiveAt DEF Sorts
<1>3. kind \in {"intptr", "string"}
  BY DEF OInv
<1>4. \A n \in DOMAIN s : s[n].key \in Key
  BY <1>2, <1>3, PairsRanked
<1>5. \A m \in Key : /\ Order[c][m] \in Int
                     /\ Order[c][m] = Order[c][k] <=> Class[m] = Class[k]
  BY <1>2, <1>3, EqualRanks
<1>6. /\ s[i].key \in Key /\ s[j].key \in Key /\ s[l].key \in Key
      /\ i \in Int /\ j \in Int /\ l \in Int
  <2>1. DOMAIN s \subseteq Int
    BY <1>2
  <2> QED
    BY <1>1, <1>4, <2>1
<1>7. Order[c][s[i].key] <= Order[c][s[j].key] /\ Order[c][s[j].key] <= Order[c][s[l].key]
  <2>1. PICK rank : rank = Order[c]
    OBVIOUS
  <2>2. i \in DOMAIN s /\ j \in DOMAIN s /\ l \in DOMAIN s /\ InOrder(s, rank) /\ Ranked(s, rank)
    BY <1>1, <1>2, <2>1
  <2>3. rank[s[i].key] <= rank[s[j].key] /\ rank[s[j].key] <= rank[s[l].key]
    BY <1>6, <2>2, InOrderMonotone
  <2> QED
    BY <2>1, <2>3
<1>8. Order[c][s[i].key] = Order[c][k] /\ Order[c][s[l].key] = Order[c][k]
  BY <1>1, <1>5, <1>6
<1>9. Order[c][s[j].key] = Order[c][k]
  <2>1. PICK x, y, z : x = Order[c][s[i].key] /\ y = Order[c][s[j].key] /\ z = Order[c][s[l].key]
    OBVIOUS
  <2>2. x \in Int /\ y \in Int /\ z \in Int
    BY <1>5, <1>6, <2>1
  <2>3. x <= y /\ y <= z /\ x = z
    BY <1>7, <1>8, <2>1
  <2>4. y = z
    BY <2>2, <2>3
  <2> QED
    BY <1>8, <2>1, <2>4
<1> QED
  BY <1>1, <1>5, <1>6, <1>9

LEMMA SliceItems ==
    ASSUME NEW S, NEW s \in Seq(S), NEW r, r.location \in Nat, r.length \in Nat,
           r.location + r.length <= Len(s)
    PROVE  /\ Slice(s, r) \in Seq(S) /\ Len(Slice(s, r)) = r.length
           /\ \A i \in 1 .. r.length : Slice(s, r)[i] = s[r.location + i]
<1>1. PICK l, e : l = r.location + 1 /\ e = r.location + r.length
  OBVIOUS
<1>2. l \in Int /\ e \in Int
  BY <1>1
<1>3. Len(s) \in Nat
  OBVIOUS
<1>4. \A i \in l .. e : i \in 1 .. Len(s)
  BY <1>1, <1>2, <1>3
<1>5. \A i \in l .. e : s[i] \in S
  BY <1>4
<1>6. /\ SubSeq(s, l, e) \in Seq(S)
      /\ Len(SubSeq(s, l, e)) = IF l <= e THEN e - l + 1 ELSE 0
      /\ \A i \in 1 .. e - l + 1 : SubSeq(s, l, e)[i] = s[l + i - 1]
  BY <1>2, <1>5, SubSeqProperties
<1>7. PICK w : w = SubSeq(s, l, e)
  OBVIOUS
<1>8. w = Slice(s, r)
  BY <1>1, <1>7 DEF Slice
<1>9. e - l + 1 = r.length
  BY <1>1
<1>10. w \in Seq(S) /\ Len(w) = r.length
  <2>1. Len(w) = IF l <= e THEN e - l + 1 ELSE 0
    BY <1>6, <1>7
  <2>2. (IF l <= e THEN e - l + 1 ELSE 0) = r.length
    BY <1>1, <1>2
  <2> QED
    BY <1>6, <1>7, <2>1, <2>2
<1>11. \A i \in 1 .. r.length : w[i] = s[r.location + i]
  <2> TAKE i \in 1 .. r.length
  <2>1. i \in 1 .. e - l + 1 /\ l + i - 1 = r.location + i
    <3>1. i \in Int /\ 1 <= i /\ i <= r.length
      OBVIOUS
    <3>2. i <= e - l + 1
      BY <1>9, <3>1
    <3>3. l + i - 1 = r.location + i
      BY <1>1, <3>1
    <3> QED
      BY <1>2, <3>1, <3>2, <3>3
  <2>2. w[i] = s[l + i - 1]
    BY <1>6, <1>7, <2>1
  <2> QED
    BY <2>1, <2>2
<1> QED
  BY <1>8, <1>10, <1>11

(* The range r holds just the pairs of the class c.                        *)
IsClass(s, r, c) ==
    \A n \in DOMAIN s : (r.location < n /\ n <= r.location + r.length) <=> Class[s[n].key] = c
Others(s, c) == {p \in DOMAIN BagOf(s) : Class[p.key] # c}

(* what a cut of these leaves in the bag                                   *)
LEMMA CutClass ==
    ASSUME NEW s \in Seq(AllPairs), NEW r, r.location \in Nat, r.length \in Nat,
           r.location + r.length <= Len(s), NEW c, IsClass(s, r, c), NEW S, S = Others(s, c)
    PROVE  BagOf(Without(s, r)) = [p \in S |-> BagOf(s)[p]]
<1>0. /\ \A n \in DOMAIN s : (r.location < n /\ n <= r.location + r.length) <=> Class[s[n].key] = c
      /\ S = {p \in DOMAIN BagOf(s) : Class[p.key] # c}
  BY DEF IsClass, Others
<1>1. PICK t, u : t = Without(s, r) /\ u = Slice(s, r)
  OBVIOUS
<1>2. /\ t \in Seq(AllPairs)
      /\ \A n \in DOMAIN t : t[n] = s[IF n <= r.location THEN n ELSE n + r.length]
      /\ Len(t) = Len(s) - r.length
  BY <1>1, WithoutItems
<1>3. u \in Seq(AllPairs)
  BY <1>1, SliceType
<1>4. \A n \in DOMAIN t : Class[t[n].key] # c
  <2> TAKE n \in DOMAIN t
  <2>1. PICK m : m = IF n <= r.location THEN n ELSE n + r.length
    OBVIOUS
  <2>2. n \in 1 .. Len(s) - r.length /\ Len(s) \in Nat
    BY <1>2
  <2>3. m \in DOMAIN s /\ ~ (r.location < m /\ m <= r.location + r.length)
    BY <2>1, <2>2
  <2> QED
    BY <1>0, <1>2, <2>1, <2>3
<1>5. \A n \in DOMAIN u : Class[u[n].key] = c
  <2> TAKE n \in DOMAIN u
  <2>1. Len(u) = r.length /\ \A i \in 1 .. r.length : u[i] = s[r.location + i]
    BY <1>1, SliceItems
  <2>2. n \in 1 .. r.length
    BY <1>3, <2>1
  <2>9. u[n] = s[r.location + n] /\ r.location + n \in 1 .. Len(s)
    <3>1. Len(s) \in Nat
      OBVIOUS
    <3> QED
      BY <2>1, <2>2, <3>1
  <2>10. r.location < r.location + n /\ r.location + n <= r.location + r.length
    BY <2>2
  <2> QED
    BY <1>0, <2>9, <2>10
<1>6. PICK b : b = [p \in S |-> BagOf(s)[p]]
  OBVIOUS
<1>7. Counts(b, Only(Tally(s), S), AllPairs)
  <2>1. PICK d, f : d = BagOf(s) /\ f = Tally(s)
    OBVIOUS
  <2>2. Counts(d, f, AllPairs)
    BY <2>1, BagOfCounts
  <2>3. S \subseteq DOMAIN d
    BY <1>0, <2>1
  <2>4. Counts([p \in S |-> d[p]], Only(f, S), AllPairs)
    BY <2>2, <2>3, BagOnly
  <2> QED
    BY <1>6, <2>1, <2>4
<1>8. Only(Tally(s), S) = Tally(t)
  <2>1. PICK f, g : f = Tally(s) /\ g = Tally(t)
    OBVIOUS
  <2>2. f \in [AllPairs -> Nat] /\ g \in [AllPairs -> Nat]
    BY <1>2, <2>1, TallyType
  <2>3. ASSUME NEW p \in AllPairs PROVE g[p] = IF p \in S THEN f[p] ELSE 0
    <3>1. PICK A : A = {p}
      OBVIOUS
    <3>2. f[p] = HitCount(s, A) /\ g[p] = HitCount(t, A)
      BY <2>1, <3>1 DEF Tally
    <3>3. /\ HitCount(Without(s, r), A) = HitCount(s, A) - HitCount(Slice(s, r), A)
          /\ HitCount(s, A) \in Nat /\ HitCount(Slice(s, r), A) \in Nat
      BY HitsWithout
    <3>4. CASE Class[p.key] = c
      <4>1. ~ \E n \in DOMAIN t : t[n] = p
        BY <1>4, <3>4
      <4>2. ~ (g[p] > 0)
        BY <1>2, <2>1, <4>1, TallyType
      <4>3. p \notin S
        BY <1>0, <3>4
      <4> QED
        BY <2>2, <4>2, <4>3
    <3>5. CASE Class[p.key] # c
      <4>1. Hits(u, A) = {}
        BY <1>5, <3>1, <3>5 DEF Hits
      <4>2. HitCount(u, A) = 0
        BY <4>1, FS_EmptySet DEF HitCount
      <4>3. g[p] = f[p]
        BY <1>1, <2>2, <3>2, <3>3, <4>2
      <4>4. f[p] > 0 <=> \E n \in DOMAIN s : s[n] = p
        BY <2>1, TallyType
      <4>5. p \in DOMAIN BagOf(s) <=> \E n \in DOMAIN s : s[n] = p
        BY DEF BagOf
      <4>6. p \in S <=> f[p] > 0
        BY <1>0, <3>5, <4>4, <4>5
      <4> QED
        BY <2>2, <4>3, <4>6
    <3> QED
      BY <3>4, <3>5
  <2>4. Only(f, S) = [p \in AllPairs |-> IF p \in S THEN f[p] ELSE 0]
    BY <2>2 DEF Only
  <2>5. g = [p \in AllPairs |-> g[p]]
    BY <2>2
  <2> QED
    BY <2>1, <2>3, <2>4, <2>5
<1>9. Counts(b, Tally(t), AllPairs)
  BY <1>7, <1>8
<1>10. b = BagOf(t)
  BY <1>2, <1>9, BagOfEqual
<1> QED
  BY <1>1, <1>6, <1>10

LEMMA SelectAll == \A b : b = [p \in DOMAIN b |-> b[p]] /\ Abstract!Bag = b
                       => Abstract!Select(DOMAIN b) = b
BY DEF Abstract!Select

LEMMA BagIsFunction == ASSUME NEW s PROVE BagOf(s) = [p \in DOMAIN BagOf(s) |-> BagOf(s)[p]]
BY DEF BagOf

LEMMA RemoveKeyRefines ==
    ASSUME OInv, NEW id \in Live, NEW k \in Key, RemoveKey(id, k), call' = <<"remove", id, k>>
    PROVE  Abstract!Next
<1>1. call'[1] = "remove" /\ call'[2] = id /\ call'[3] = k
  OBVIOUS
<1> DEFINE Missed(a, hit) == hit = NotFound /\ Answer(id, a, None)
           Same(a, i) == Class[GetPair(a, i).key] = Class[k]
           Cuts(a, hit, first, last) ==
               /\ hit \in first .. last
               /\ \A j \in first .. last : j # hit => Same(a, j)
               /\ first > 0 => ~ Same(a, first - 1)
               /\ last < PairCount(a) - 1 => ~ Same(a, last + 1)
               /\ RemoveRange(id, a, Make(first, last + 1 - first))
<1>2. PICK a \in QsortIfNeeded(id) :
         \/ Missed(a, Bsearch(a.pairs, k, Rank(id)))
         \/ \E first, last \in 0 .. PairCount(a) - 1 :
               Cuts(a, Bsearch(a.pairs, k, Rank(id)), first, last)
  BY DEF RemoveKey
<1>3. PICK s, hit : s = a.pairs /\ hit = Bsearch(a.pairs, k, Rank(id))
  OBVIOUS
<1>4. Sorts(id, a)
  BY SortsIt
<1>5. IF \E n \in DOMAIN s : Class[s[n].key] = Class[k]
      THEN hit \in 0 .. Len(s) - 1 /\ Class[s[hit + 1].key] = Class[k]
      ELSE hit = NotFound
  <2>1. IF \E n \in DOMAIN a.pairs : Class[a.pairs[n].key] = Class[k]
        THEN hit \in 0 .. Len(a.pairs) - 1 /\ Class[a.pairs[hit + 1].key] = Class[k]
        ELSE hit = NotFound
    BY <1>3, <1>4, Searched
  <2> QED
    BY <1>3, <2>1
<1>6. s \in Seq(AllPairs) /\ BagOf(s) = Contents[id] /\ Len(s) \in Nat
  BY <1>3, <1>4, LiveAt DEF Sorts
<1>7. Abstract!With(k) = {p \in DOMAIN BagOf(s) : Class[p.key] = Class[k]}
  BY <1>1, <1>6, WithKey
<1>8. Abstract!With(k) = {} <=> ~ \E n \in DOMAIN s : Class[s[n].key] = Class[k]
  BY <1>1, <1>6, WithKey
<1>9. Abstract!Self = id /\ Abstract!Bag = BagOf(s) /\ Abstract!Pairs = DOMAIN BagOf(s)
  BY <1>1, <1>6 DEF Abstract!Self, Abstract!Bag, Abstract!Pairs, Abstract!BagToSet
<1>10. PICK S : S = Abstract!Pairs \ Abstract!With(k)
  OBVIOUS
<1>11. S = {p \in DOMAIN BagOf(s) : Class[p.key] # Class[k]}
  BY <1>7, <1>9, <1>10
<1>12. SUFFICES Abstract!Becomes(Abstract!Select(S)) /\ kind' = kind
  BY <1>1, <1>10 DEF Abstract!Next, Abstract!Call, Abstract!RemoveKey, Abstract!Calls, Abstract!Arg
<1>13. CASE hit = NotFound /\ Answer(id, a, None)
  <2>1. Replies(None)
    BY <1>4, <1>13, AnswerReplies
  <2>2. S = DOMAIN BagOf(s)
    <3>1. ~ \E n \in DOMAIN s : Class[s[n].key] = Class[k]
      BY <1>5, <1>13, PairArrayAssumption
    <3> QED
      BY <1>8, <1>9, <1>10, <3>1
  <2>3. Abstract!Select(S) = Contents[id]
    BY <1>6, <1>9, <2>2, BagIsFunction DEF Abstract!Select
  <2>4. Contents = [Contents EXCEPT ![id] = Contents[id]]
    BY DEF Contents
  <2> QED
    BY <1>9, <2>1, <2>3, <2>4 DEF Abstract!Becomes, Abstract!Enumeration, Replies
<1>14. CASE \E first, last \in 0 .. PairCount(a) - 1 : Cuts(a, hit, first, last)
  <2>1. PICK first \in 0 .. PairCount(a) - 1, last \in 0 .. PairCount(a) - 1 :
           Cuts(a, hit, first, last)
    BY <1>14
  <2>2. PairCount(a) = Len(s) /\ \A i : GetPair(a, i) = s[i + 1]
    BY <1>3 DEF PairCount, GetPair
  <2>3. hit \in first .. last /\ first \in 0 .. Len(s) - 1 /\ last \in 0 .. Len(s) - 1
    BY <2>1, <2>2
  <2>4. hit \in Nat /\ hit # NotFound
    BY <2>3, PairArrayAssumption
  <2>5. Class[s[hit + 1].key] = Class[k] /\ hit + 1 \in DOMAIN s
    <3>1. hit + 1 \in DOMAIN s
      BY <1>6, <2>3
    <3> QED
      BY <1>5, <2>4, <3>1
  <2>6. \A j \in first .. last : Class[s[j + 1].key] = Class[k]
    <3>1. \A j \in first .. last : j # hit => Class[s[j + 1].key] = Class[k]
      BY <2>1, <2>2
    <3> QED
      BY <2>5, <3>1
  <2>7. /\ first > 0 => ~ Class[s[first - 1 + 1].key] = Class[k]
        /\ last < Len(s) - 1 => ~ Class[s[last + 1 + 1].key] = Class[k]
    BY <2>1, <2>2
  <2>8. PICK r : r = Make(first, last + 1 - first)
    OBVIOUS
  <2>9. /\ r.location = first /\ r.length = last + 1 - first
        /\ r.location \in Nat /\ r.length \in Nat /\ r.location + r.length = last + 1
        /\ r.location + r.length <= Len(s) /\ r.length # All
    BY <2>3, <2>8 DEF Make, All
  <2>10. Validated(r, Len(s)) = r
    BY <2>9 DEF Validated
  <2>11. RemoveRange(id, a, r)
    BY <2>1, <2>8
  <2>12. PICK t : t = Without(s, r)
    OBVIOUS
  <2>13. Turns(id, BagOf(t))
    <3>1. r.location \in Nat /\ r.length \in Nat \cup {All}
      BY <2>9
    <3>2. Turns(id, BagOf(Without(a.pairs, Validated(r, Len(a.pairs)))))
      BY <1>4, <2>11, <3>1, CutTurns
    <3> QED
      BY <1>3, <2>10, <2>12, <3>2
  <2>14. \A n \in DOMAIN s : (r.location < n /\ n <= r.location + r.length) <=> Class[s[n].key] = Class[k]
    <3> TAKE n \in DOMAIN s
    <3>1. n \in 1 .. Len(s)
      BY <1>6
    <3>2. CASE first < n /\ n <= last + 1
      <4>1. n - 1 \in first .. last /\ (n - 1) + 1 = n
        BY <2>3, <3>1, <3>2
      <4>2. Class[s[n].key] = Class[k]
        <5>1. PICK m : m = n - 1
          OBVIOUS
        <5>2. m \in first .. last /\ m + 1 = n
          BY <4>1, <5>1
        <5> QED
          BY <2>6, <5>2
      <4> QED
        BY <2>9, <3>2, <4>2
    <3>3. CASE n <= first
      <4>1. first > 0 /\ first - 1 + 1 = first /\ first \in DOMAIN s
        BY <1>6, <2>3, <3>1, <3>3
      <4>2. Class[s[first].key] # Class[k]
        BY <2>7, <4>1
      <4>3. Class[s[n].key] # Class[k]
        <5>1. SUFFICES ASSUME Class[s[n].key] = Class[k] PROVE FALSE
          OBVIOUS
        <5>2. first <= hit + 1
          BY <2>3
        <5>3. /\ n \in DOMAIN a.pairs /\ first \in DOMAIN a.pairs /\ hit + 1 \in DOMAIN a.pairs
              /\ Class[a.pairs[n].key] = Class[k] /\ Class[a.pairs[hit + 1].key] = Class[k]
          BY <1>3, <2>5, <4>1, <5>1
        <5>4. PICK l : l = hit + 1
          OBVIOUS
        <5>5. /\ l \in DOMAIN a.pairs /\ first <= l /\ Class[a.pairs[l].key] = Class[k]
          BY <5>2, <5>3, <5>4
        <5>6. Class[a.pairs[first].key] = Class[k]
          BY <1>4, <3>3, <5>3, <5>5, Contiguous
        <5> QED
          BY <1>3, <4>2, <5>6
      <4> QED
        BY <2>3, <2>9, <3>1, <3>3, <4>3
    <3>4. CASE n > last + 1
      <4>1. PICK m : m = last + 2
        OBVIOUS
      <4>2. last < Len(s) - 1 /\ last + 1 + 1 = m /\ m \in DOMAIN s /\ m <= n
        BY <1>6, <2>3, <3>1, <3>4, <4>1
      <4>3. Class[s[m].key] # Class[k]
        BY <2>7, <4>2
      <4>4. Class[s[n].key] # Class[k]
        <5>1. SUFFICES ASSUME Class[s[n].key] = Class[k] PROVE FALSE
          OBVIOUS
        <5>2. PICK l : l = hit + 1
          OBVIOUS
        <5>3. l <= m
          BY <2>3, <4>1, <5>2
        <5>4. /\ l \in DOMAIN a.pairs /\ m \in DOMAIN a.pairs /\ n \in DOMAIN a.pairs
              /\ Class[a.pairs[n].key] = Class[k] /\ Class[a.pairs[l].key] = Class[k]
          BY <1>3, <2>5, <4>2, <5>1, <5>2
        <5>5. Class[a.pairs[m].key] = Class[k]
          BY <1>4, <4>2, <5>3, <5>4, Contiguous
        <5> QED
          BY <1>3, <4>3, <5>5
      <4> QED
        BY <2>3, <2>9, <3>1, <3>4, <4>4
    <3>5. n <= first \/ (first < n /\ n <= last + 1) \/ n > last + 1
      BY <2>3, <3>1
    <3> QED
      BY <3>2, <3>3, <3>4, <3>5
  <2>15. BagOf(t) = [p \in S |-> BagOf(s)[p]]
    <3>1. PICK c : c = Class[k]
      OBVIOUS
    <3>2. IsClass(s, r, c)
      BY <2>14, <3>1 DEF IsClass
    <3>3. S = Others(s, c)
      BY <1>11, <3>1 DEF Others
    <3>4. BagOf(Without(s, r)) = [p \in S |-> BagOf(s)[p]]
      BY <1>6, <2>9, <3>2, <3>3, CutClass
    <3> QED
      BY <2>12, <3>4
  <2>16. Abstract!Select(S) = BagOf(t)
    BY <1>9, <2>15 DEF Abstract!Select
  <2>17. PICK b : b = BagOf(t)
    OBVIOUS
  <2>18. Abstract!Becomes(b) /\ kind' = kind
    BY <1>1, <2>13, <2>17, TurnsBecomes
  <2> QED
    BY <2>16, <2>17, <2>18
<1> QED
  BY <1>2, <1>3, <1>13, <1>14

(* One pair is added behind the sorted pairs.                              *)
LEMMA AddedTurns ==
    ASSUME OInv, NEW id \in Live, NEW a, Sorts(id, a),
           NEW p \in Pairs, NEW rs, Change(id, Unsorted(AddPair(a, p)), rs)
    PROVE  Turns(id, Abstract!(+)(Contents[id], Abstract!SetToBag({p})))
<1>1. /\ FitsIn(a) /\ a.pairs \in Seq(AllPairs) /\ a.compare = assocs[id].compare
      /\ BagOf(a.pairs) = Contents[id]
  BY FitIsFit, LiveAt DEF Sorts
<1>2. p \in AllPairs
  BY PairsAll
<1>3. PICK b : b = AddPair(a, p)
  OBVIOUS
<1>4. FitsIn(b) /\ b.pairs = Append(a.pairs, p) /\ b.compare = a.compare
  <2>1. b.compare = a.compare
    BY <1>1, <1>3 DEF AddPair, AddGuaranteedPair, GrowPairs, ReallocPairs, FitsIn, IsAssoc
  <2> QED
    BY <1>1, <1>3, <2>1, AddPairFits
<1>5. PICK c : c = Unsorted(b)
  OBVIOUS
<1>6. Fit(c) /\ c.pairs = Append(a.pairs, p) /\ c.compare = assocs[id].compare
  <2>1. c.compare = b.compare
    BY <1>4, <1>5 DEF Unsorted, FitsIn, IsAssoc
  <2> QED
    BY <1>1, <1>4, <1>5, <2>1, UnsortedFits
<1>7. PICK d : d = BagOf(c.pairs)
  OBVIOUS
<1>8. Turns(id, d)
  BY <1>3, <1>5, <1>6, <1>7, ChangeTurns
<1>9. BagOf(Append(a.pairs, p)) = Abstract!(+)(BagOf(a.pairs), Abstract!SetToBag({p}))
  BY <1>1, <1>2, BagAppend
<1> QED
  BY <1>1, <1>6, <1>7, <1>8, <1>9

LEMMA SetKeyRefines ==
    ASSUME OInv, NEW id \in Live, NEW k \in Key, NEW v \in Value,
           SetKey(id, k, v), call' = <<"set", id, k, v>>
    PROVE  Abstract!Next
<1>1. call'[1] = "set" /\ call'[2] = id /\ call'[3] = k /\ call'[4] = v
  OBVIOUS
<1>2. PICK p : p = Pair(k, v) /\ p \in Pairs
  BY PairFacts
<1> DEFINE set(a, i) == IF i = NotFound THEN AddPair(a, p) ELSE SetPair(a, i, p)
<1>3. PICK a, rs : a \in QsortIfNeeded(id)
                   /\ Change(id, Unsorted(set(a, Bsearch(a.pairs, k, Rank(id)))), rs)
  BY <1>2 DEF SetKey
<1>4. PICK i : i = Bsearch(a.pairs, k, Rank(id))
  OBVIOUS
<1>5. Sorts(id, a)
  BY <1>3, SortsIt
<1>6. IF \E n \in DOMAIN a.pairs : Class[a.pairs[n].key] = Class[k]
      THEN i \in 0 .. Len(a.pairs) - 1 /\ Class[a.pairs[i + 1].key] = Class[k]
      ELSE i = NotFound
  BY <1>4, <1>5, Searched
<1>7. a.pairs \in Seq(AllPairs) /\ BagOf(a.pairs) = Contents[id]
  BY <1>5, LiveAt DEF Sorts
<1>8. Abstract!Self = id /\ Abstract!Bag = Contents[id]
  BY <1>1 DEF Abstract!Self, Abstract!Bag
<1>9. [key |-> Abstract!Arg, value |-> Abstract!Other] = p /\ Abstract!Arg = k
  BY <1>1, <1>2 DEF Pair, Abstract!Arg, Abstract!Other
<1>10. CASE i = NotFound
  <2>1. Change(id, Unsorted(AddPair(a, p)), rs)
    BY <1>3, <1>4, <1>10
  <2>2. PICK b : b = Abstract!(+)(Contents[id], Abstract!SetToBag({p}))
    OBVIOUS
  <2>3. Turns(id, Abstract!(+)(Contents[id], Abstract!SetToBag({p})))
    BY <1>2, <1>5, <2>1, AddedTurns
  <2>4. Turns(id, b)
    BY <2>2, <2>3
  <2>5. Abstract!Becomes(b) /\ kind' = kind
    BY <1>1, <2>4, TurnsBecomes
  <2>6. Abstract!With(k) = {}
    <3>1. ~ \E n \in DOMAIN a.pairs : Class[a.pairs[n].key] = Class[k]
      BY <1>6, <1>10, PairArrayAssumption
    <3> QED
      BY <1>1, <1>7, <3>1, WithKey
  <2>7. Abstract!Set
    BY <1>1, <1>8, <1>9, <2>2, <2>5, <2>6 DEF Abstract!Set, Abstract!Calls, Abstract!Copies
  <2> QED
    BY <2>5, <2>7 DEF Abstract!Next, Abstract!Call
<1>11. CASE i # NotFound
  <2>1. i \in 0 .. Len(a.pairs) - 1 /\ Class[a.pairs[i + 1].key] = Class[k]
    BY <1>6, <1>11
  <2>2. PICK old : old = a.pairs[i + 1]
    OBVIOUS
  <2>3. PICK b : b = Abstract!(+)(Abstract!(-)(Contents[id], Abstract!SetToBag({old})), Abstract!SetToBag({p}))
    OBVIOUS
  <2>4. Change(id, Unsorted(SetPair(a, i, p)), rs)
    BY <1>3, <1>4, <1>11
  <2>5. Turns(id, b)
    BY <1>2, <1>5, <2>1, <2>2, <2>3, <2>4, PlacedTurns
  <2>6. Abstract!Becomes(b) /\ kind' = kind
    BY <1>1, <2>5, TurnsBecomes
  <2>7. old \in Abstract!With(k)
    <3>1. i + 1 \in DOMAIN a.pairs
      BY <1>7, <2>1
    <3>2. \A n \in DOMAIN a.pairs : Class[a.pairs[n].key] = Class[k] => a.pairs[n] \in Abstract!With(k)
      BY <1>1, <1>7, WithKey
    <3> QED
      BY <2>1, <2>2, <3>1, <3>2
  <2>8. Abstract!Set
    BY <1>1, <1>8, <1>9, <2>3, <2>6, <2>7 DEF Abstract!Set, Abstract!Calls, Abstract!Copies
  <2> QED
    BY <2>6, <2>8 DEF Abstract!Next, Abstract!Call
<1> QED
  BY <1>10, <1>11

-----------------------------------------------------------------------------
(* Searching *)

LEMMA GetKeyRefines ==
    ASSUME OInv, NEW id \in Live, NEW k \in Key, GetKey(id, k), call' = <<"get", id, k>>
    PROVE  Abstract!Next
<1>1. call'[1] = "get" /\ call'[2] = id /\ call'[3] = k
  OBVIOUS
<1> DEFINE res(a, i) == IF i = NotFound THEN NULL ELSE a.pairs[i + 1].value
<1>2. PICK a \in QsortIfNeeded(id) : Answer(id, a, res(a, Bsearch(a.pairs, k, Rank(id))))
  BY DEF GetKey, GetPair
<1>3. PICK i : i = Bsearch(a.pairs, k, Rank(id))
  OBVIOUS
<1>4. Sorts(id, a)
  BY SortsIt
<1>5. IF \E n \in DOMAIN a.pairs : Class[a.pairs[n].key] = Class[k]
      THEN i \in 0 .. Len(a.pairs) - 1 /\ Class[a.pairs[i + 1].key] = Class[k]
      ELSE i = NotFound
  BY <1>3, <1>4, Searched
<1>6. a.pairs \in Seq(AllPairs) /\ BagOf(a.pairs) = Contents[id]
  BY <1>4, LiveAt DEF Sorts
<1>7. PICK r : r = res(a, i)
  OBVIOUS
<1>8. Answer(id, a, r)
  BY <1>2, <1>3, <1>7
<1>9. Replies(r)
  BY <1>4, <1>8, AnswerReplies
<1>10. PICK R : R = IF Abstract!With(k) = {} THEN {NULL} ELSE {p.value : p \in Abstract!With(k)}
  OBVIOUS
<1>11. r \in R
  <2>1. Abstract!With(k) = {} <=> ~ \E n \in DOMAIN a.pairs : Class[a.pairs[n].key] = Class[k]
    BY <1>1, <1>6, WithKey
  <2>2. CASE i = NotFound
    <3>1. Abstract!With(k) = {}
      BY <1>5, <2>1, <2>2, PairArrayAssumption
    <3> QED
      BY <1>7, <1>10, <2>2, <3>1
  <2>3. CASE i # NotFound
    <3>1. i + 1 \in DOMAIN a.pairs /\ Class[a.pairs[i + 1].key] = Class[k]
      BY <1>5, <1>6, <2>3
    <3>2. \A n \in DOMAIN a.pairs : Class[a.pairs[n].key] = Class[k] => a.pairs[n] \in Abstract!With(k)
      BY <1>1, <1>6, WithKey
    <3>3. a.pairs[i + 1] \in Abstract!With(k)
      BY <3>1, <3>2
    <3> QED
      BY <1>7, <1>10, <2>3, <3>3
  <2> QED
    BY <2>2, <2>3
<1>12. Abstract!Answers(R) /\ kind' = kind
  BY <1>9, <1>11, RepliesAnswers
<1>13. Abstract!Get
  BY <1>1, <1>10, <1>12 DEF Abstract!Get, Abstract!Calls, Abstract!Arg
<1> QED
  BY <1>12, <1>13 DEF Abstract!Next, Abstract!Call

LEMMA GetAtIndexRefines ==
    ASSUME OInv, NEW id \in Live, NEW i \in Indices(id), GetAtIndex(id, i),
           call' = <<"get_at_index", id, i>>
    PROVE  Abstract!Next
<1>1. call'[1] = "get_at_index" /\ call'[2] = id /\ call'[3] = i
  OBVIOUS
<1>2. PICK a \in QsortIfNeeded(id) : Answer(id, a, a.pairs[i + 1])
  BY DEF GetAtIndex, GetPair
<1>3. Sorts(id, a)
  BY SortsIt
<1>4. i \in 0 .. Len(a.pairs) - 1
  BY <1>3 DEF Sorts, Indices, Count, PairCount
<1>5. PICK s, p : s = a.pairs /\ p = a.pairs[i + 1]
  OBVIOUS
<1>6. s \in Seq(AllPairs) /\ i \in 0 .. Len(s) - 1 /\ p = s[i + 1]
  BY <1>3, <1>4, <1>5 DEF Sorts
<1>7. p \in DOMAIN BagOf(s)
  <2>1. i + 1 \in DOMAIN s
    BY <1>6
  <2> QED
    BY <1>6, <2>1 DEF BagOf
<1>8. Shows(id, s)
  BY <1>1, <1>3, <1>5, SortsShows
<1>9. Abstract!At(p, i)
  BY <1>6, <1>7, <1>8, AtPlace
<1>10. Abstract!Pairs = DOMAIN BagOf(s)
  BY <1>8 DEF Shows, Abstract!Pairs, Abstract!BagToSet, Abstract!Bag
<1>11. PICK R : R = {q \in Abstract!Pairs : Abstract!At(q, i)}
  OBVIOUS
<1>12. Replies(p)
  <2>1. Answer(id, a, p)
    BY <1>2, <1>5
  <2> QED
    BY <1>3, <2>1, AnswerReplies
<1>13. p \in R
  BY <1>7, <1>9, <1>10, <1>11
<1>14. Abstract!Answers(R) /\ kind' = kind
  BY <1>12, <1>13, RepliesAnswers
<1>15. Abstract!GetAtIndex
  BY <1>1, <1>11, <1>14 DEF Abstract!GetAtIndex, Abstract!Calls, Abstract!Arg
<1> QED
  BY <1>14, <1>15 DEF Abstract!Next, Abstract!Call

(* what a call that does not even sort returns                             *)
LEMMA ReadReplies ==
    ASSUME OInv, NEW id \in Live, NEW r, Answer(id, assocs[id], r)
    PROVE  Replies(r)
BY AnswerReplies

LEMMA GetLastRefines ==
    ASSUME OInv, NEW id \in Live, GetLast(id), call' = <<"get_last", id>>
    PROVE  Abstract!Next
<1>1. call'[1] = "get_last" /\ call'[2] = id
  OBVIOUS
<1>2. PICK s : s = assocs[id].pairs
  OBVIOUS
<1>3. Abstract!Pairs = {s[i] : i \in DOMAIN s} /\ s \in Seq(AllPairs)
  BY <1>1, <1>2, BagNow
<1>4. PICK r : r = LastPair(assocs[id])
  OBVIOUS
<1>5. Replies(r)
  BY <1>4, ReadReplies DEF GetLast
<1>6. PICK R : R = IF Abstract!Pairs = {} THEN {Abstract!Invalid} ELSE Abstract!Pairs
  OBVIOUS
<1>7. r \in R
  <2>1. CASE s = <<>>
    <3>1. Abstract!Pairs = {}
      BY <1>3, <2>1
    <3>2. r = InvalidPair
      BY <1>2, <1>4, <2>1 DEF LastPair
    <3> QED
      BY <1>6, <3>1, <3>2 DEF InvalidPair, Pair, Abstract!Invalid
  <2>2. CASE s # <<>>
    <3>1. Len(s) \in DOMAIN s
      BY <1>3, <2>2
    <3>2. r = s[Len(s)]
      BY <1>2, <1>4, <2>2 DEF LastPair, PairCount
    <3> QED
      BY <1>3, <1>6, <3>1, <3>2
  <2> QED
    BY <2>1, <2>2
<1>8. Abstract!Answers(R) /\ kind' = kind
  BY <1>5, <1>7, RepliesAnswers
<1>9. Abstract!Last
  BY <1>1, <1>6, <1>8 DEF Abstract!Last, Abstract!Calls
<1> QED
  BY <1>8, <1>9 DEF Abstract!Next, Abstract!Call

LEMMA GetInRangeRefines ==
    ASSUME OInv, NEW id \in Live, NEW range \in Ranges(id), GetInRange(id, range),
           call' = <<"get_in_range", id, range>>
    PROVE  Abstract!Next
<1>1. call'[1] = "get_in_range" /\ call'[2] = id
  OBVIOUS
<1>2. PICK s : s = assocs[id].pairs
  OBVIOUS
<1>3. Abstract!Pairs = {s[i] : i \in DOMAIN s} /\ s \in Seq(AllPairs)
  BY <1>1, <1>2, BagNow
<1>4. PICK v : v = Validated(range, Len(s))
  OBVIOUS
<1>5. v.location \in Nat /\ v.length \in Nat /\ v.location + v.length <= Len(s)
  <2>1. range.location \in Nat /\ range.length \in Nat \cup {All} /\ Len(s) \in Nat
    BY <1>3, RangesFacts
  <2> QED
    BY <1>4, <2>1, ValidatedWithin
<1>6. PICK r : r = Slice(s, v)
  OBVIOUS
<1>7. Answer(id, assocs[id], r)
  BY <1>2, <1>4, <1>6 DEF GetInRange, GetPairsInRange, PairCount
<1>8. Replies(r)
  BY <1>7, ReadReplies
<1>9. \A i \in DOMAIN r : r[i] \in Abstract!Pairs
  <2>1. /\ Slice(s, v) \in Seq(AllPairs) /\ Len(Slice(s, v)) = v.length
        /\ \A i \in 1 .. v.length : Slice(s, v)[i] = s[v.location + i]
    BY <1>3, <1>5, SliceItems
  <2>2. DOMAIN r = 1 .. v.length /\ \A i \in 1 .. v.length : r[i] = s[v.location + i]
    BY <1>6, <2>1
  <2>3. \A i \in 1 .. v.length : v.location + i \in DOMAIN s
    BY <1>3, <1>5
  <2> QED
    BY <1>3, <2>2, <2>3
<1>10. ret' = r
  BY <1>8 DEF Replies
<1>11. Abstract!Answers({ret'}) /\ kind' = kind
  <2>1. r \in {ret'}
    BY <1>10
  <2> QED
    BY <1>8, <2>1, RepliesAnswers
<1>12. Abstract!GetSome
  BY <1>1, <1>9, <1>10, <1>11 DEF Abstract!GetSome, Abstract!Calls
<1> QED
  BY <1>11, <1>12 DEF Abstract!Next, Abstract!Call

LEMMA FirstHitIs ==
    ASSUME NEW T, T \subseteq Nat
    PROVE  IF T = {} THEN FirstHit(T) = NotFound
           ELSE /\ FirstHit(T) \in T /\ \A j \in T : FirstHit(T) <= j
                /\ FirstHit(T) = CHOOSE i \in T : \A j \in T : i <= j
<1>1. CASE T # {}
  <2>1. \E i \in T : \A j \in T : i <= j
    BY <1>1, LeastNat
  <2>2. FirstHit(T) = CHOOSE i \in T : \A j \in T : i <= j
    BY <1>1 DEF FirstHit
  <2>3. /\ (CHOOSE i \in T : \A j \in T : i <= j) \in T
        /\ \A j \in T : (CHOOSE i \in T : \A j2 \in T : i <= j2) <= j
    BY <2>1
  <2> QED
    BY <1>1, <2>2, <2>3
<1> QED
  BY <1>1 DEF FirstHit

(* where a find in a range of the pairs looks                              *)
HitsOf(s, k, r) == {i \in r.location .. r.location + r.length - 1 :
                       Class[s[i + 1].key] = Class[k]}

LEMMA FindIs ==
    ASSUME NEW s, NEW k \in Key, NEW r
    PROVE  FindCallback(s, k, r, Class) = FirstHit(HitsOf(s, k, r))
<1>1. k # NotAKey
  BY AssocAssumption DEF Key
<1> QED
  BY <1>1 DEF FindCallback, HitsOf

LEMMA MemberIs ==
    ASSUME OInv, NEW id \in Live, NEW k \in Key
    PROVE  /\ MemberKey(id, k) \in BOOLEAN
           /\ MemberKey(id, k) <=> \E n \in DOMAIN assocs[id].pairs :
                                       Class[assocs[id].pairs[n].key] = Class[k]
<1>1. PICK s : s = assocs[id].pairs
  OBVIOUS
<1>2. s \in Seq(AllPairs) /\ Len(s) \in Nat /\ DOMAIN s = 1 .. Len(s)
  BY <1>1, LiveAt
<1>3. PICK r : r = Whole(id)
  OBVIOUS
<1>4. r.location = 0 /\ r.length = Len(s)
  BY <1>1, <1>3 DEF Whole, Make, Count, PairCount
<1>5. PICK T : T = HitsOf(s, k, r)
  OBVIOUS
<1>6. T = {i \in 0 .. Len(s) - 1 : Class[s[i + 1].key] = Class[k]}
  BY <1>2, <1>4, <1>5 DEF HitsOf
<1>7. T \subseteq Nat
  BY <1>2, <1>6
<1>8. FindCallback(assocs[id].pairs, k, Whole(id), Class) = FirstHit(T)
  BY <1>1, <1>3, <1>5, FindIs
<1>9. FirstHit(T) # NotFound <=> T # {}
  BY <1>7, FirstHitIs, PairArrayAssumption
<1>10. T # {} <=> \E n \in DOMAIN s : Class[s[n].key] = Class[k]
  <2>1. ASSUME T # {} PROVE \E n \in DOMAIN s : Class[s[n].key] = Class[k]
    <3>1. PICK i \in 0 .. Len(s) - 1 : Class[s[i + 1].key] = Class[k]
      BY <1>6, <2>1
    <3>2. i + 1 \in DOMAIN s
      BY <1>2
    <3> QED
      BY <3>1, <3>2
  <2>2. ASSUME NEW n \in DOMAIN s, Class[s[n].key] = Class[k] PROVE T # {}
    <3>1. n - 1 \in 0 .. Len(s) - 1 /\ n - 1 + 1 = n
      BY <1>2
    <3>2. PICK i : i = n - 1
      OBVIOUS
    <3>3. i \in T
      BY <1>6, <2>2, <3>1, <3>2
    <3> QED
      BY <3>3
  <2> QED
    BY <2>1, <2>2
<1> QED
  BY <1>1, <1>8, <1>9, <1>10 DEF MemberKey

LEMMA MemberRefines ==
    ASSUME OInv, NEW id \in Live, NEW k \in Key, Member(id, k), call' = <<"member", id, k>>
    PROVE  Abstract!Next
<1>1. call'[1] = "member" /\ call'[2] = id /\ call'[3] = k
  OBVIOUS
<1>2. PICK s : s = assocs[id].pairs
  OBVIOUS
<1>3. s \in Seq(AllPairs) /\ BagOf(s) = Contents[id]
  BY <1>2, LiveAt
<1>4. Abstract!With(k) = {} <=> ~ \E n \in DOMAIN s : Class[s[n].key] = Class[k]
  BY <1>1, <1>3, WithKey
<1>5. PICK r : r = MemberKey(id, k)
  OBVIOUS
<1>6. Replies(r)
  BY <1>5, ReadReplies DEF Member
<1>7. r \in BOOLEAN /\ (r <=> \E n \in DOMAIN s : Class[s[n].key] = Class[k])
  BY <1>2, <1>5, MemberIs
<1>8. r \in {Abstract!With(k) # {}}
  <2>1. r = (Abstract!With(k) # {})
    BY <1>4, <1>7
  <2> QED
    BY <2>1
<1>9. Abstract!Answers({Abstract!With(k) # {}}) /\ kind' = kind
  BY <1>6, <1>8, RepliesAnswers
<1>10. Abstract!Member
  BY <1>1, <1>9 DEF Abstract!Member, Abstract!Calls, Abstract!Arg
<1> QED
  BY <1>9, <1>10 DEF Abstract!Next, Abstract!Call

(* The pairs with the key k are where the sorted pairs have it.            *)
LEMMA AtWith ==
    ASSUME OInv, NEW id \in Live, NEW s, Shows(id, s), s \in Seq(Pairs), call'[2] = id,
           NEW k \in Key, NEW i \in 0 .. Len(s) - 1
    PROVE  (\E p \in Abstract!With(k) : Abstract!At(p, i)) <=> Class[s[i + 1].key] = Class[k]
<1>1. BagOf(s) = Contents[id] /\ s \in Seq(AllPairs)
  BY DEF Shows
<1>2. Abstract!With(k) = {p \in DOMAIN BagOf(s) : Class[p.key] = Class[k]}
  BY <1>1, WithKey
<1>3. PICK c : c = Compares[id]
  OBVIOUS
<1>4. c \in DOMAIN Order /\ kind \in {"intptr", "string"}
  BY <1>3, LiveAt DEF OInv
<1>5. \A n \in DOMAIN s : s[n] \in Pairs /\ s[n].key \in Key
  BY <1>4, PairsRanked
<1>6. i + 1 \in DOMAIN s
  BY <1>1
<1>7. DOMAIN BagOf(s) = {s[n] : n \in DOMAIN s}
  BY DEF BagOf
<1>8. \A p \in DOMAIN BagOf(s) : Abstract!At(p, i) <=> Class[s[i + 1].key] = Class[p.key]
  <2> TAKE p \in DOMAIN BagOf(s)
  <2>1. Abstract!At(p, i) <=> Order[c][s[i + 1].key] = Order[c][p.key]
    BY <1>3, AtPlace
  <2>2. p.key \in Key /\ s[i + 1].key \in Key
    BY <1>5, <1>6, <1>7
  <2>3. Order[c][s[i + 1].key] = Order[c][p.key] <=> Class[s[i + 1].key] = Class[p.key]
    BY <1>4, <2>2, EqualRanks
  <2> QED
    BY <2>1, <2>3
<1>9. s[i + 1] \in DOMAIN BagOf(s)
  BY <1>6, <1>7
<1> QED
  BY <1>2, <1>8, <1>9

LEMMA FoundRefines ==
    ASSUME OInv, NEW id \in Live, NEW a, Sorts(id, a), NEW k \in Key,
           NEW r, r.location \in 0 .. Len(a.pairs), r.length \in Nat \cup {All},
           NEW f, f = FindCallback(a.pairs, k, Validated(r, Len(a.pairs)), Class),
           Answer(id, a, f), call' = <<"find", id, k, r>>
    PROVE  Abstract!Next
<1>1. call'[1] = "find" /\ call'[2] = id /\ call'[3] = k /\ call'[4] = r
  OBVIOUS
<1>2. PICK s : s = a.pairs
  OBVIOUS
<1>3. /\ s \in Seq(Pairs) /\ s \in Seq(AllPairs) /\ Len(s) \in Nat /\ DOMAIN s = 1 .. Len(s)
      /\ BagOf(s) = Contents[id]
  BY <1>2, LiveAt DEF Sorts
<1>4. PICK v : v = Validated(r, Len(s))
  OBVIOUS
<1>5. v.location \in Nat /\ v.length \in Nat /\ v.location + v.length <= Len(s)
  <2>1. r.location \in Nat /\ r.length \in Nat \cup {All}
    BY <1>2, <1>3
  <2> QED
    BY <1>3, <1>4, <2>1, ValidatedWithin
<1>6. PICK T : T = HitsOf(s, k, v)
  OBVIOUS
<1>7. T \subseteq Nat /\ \A i \in T : i \in 0 .. Len(s) - 1
  BY <1>5, <1>6 DEF HitsOf
<1>8. f = FirstHit(T)
  BY <1>2, <1>4, <1>6, FindIs
<1>9. Shows(id, s)
  BY <1>1, <1>2, SortsShows
<1>10. Abstract!Size = Len(s)
  <2>1. /\ Abstract!Self = id /\ Abstract!Bag = BagOf(s) /\ Abstract!Pairs = DOMAIN BagOf(s)
    BY <1>1, <1>3 DEF Abstract!Self, Abstract!Bag, Abstract!Pairs, Abstract!BagToSet
  <2> QED
    BY <1>3, <2>1, TotalOfAll DEF Abstract!Size
<1>11. PICK end : end = IF r.length = -1 THEN Len(s) ELSE r.location + r.length
  OBVIOUS
<1>12. PICK at : at = {i \in r.location .. end - 1 : \E p \in Abstract!With(k) : Abstract!At(p, i)}
  OBVIOUS
<1>13. PICK R : R = IF end > Len(s) \/ at = {} THEN {NotFound}
                    ELSE {CHOOSE i \in at : \A j \in at : i <= j}
  OBVIOUS
<1>14. r.location \in 0 .. Len(s) /\ r.length \in Nat \cup {-1}
  BY <1>2 DEF All
<1>15. ASSUME end > Len(s) PROVE f \in R
  <2>1. v.location = 0 /\ v.length = 0
    BY <1>3, <1>4, <1>11, <1>14, <1>15 DEF Validated, Make, All
  <2>2. T = {}
    BY <1>6, <2>1 DEF HitsOf
  <2>3. f = NotFound
    BY <1>8, <2>2 DEF FirstHit
  <2> QED
    BY <1>13, <1>15, <2>3
<1>16. ASSUME ~ (end > Len(s)) PROVE f \in R
  <2>1. v.location = r.location /\ v.location + v.length = end /\ end \in Nat
    BY <1>3, <1>4, <1>11, <1>14, <1>16 DEF Validated, Make, All
  <2>2. \A i \in r.location .. end - 1 : i \in 0 .. Len(s) - 1
    BY <1>3, <1>14, <1>16, <2>1
  <2>3. \A i \in r.location .. end - 1 :
           (\E p \in Abstract!With(k) : Abstract!At(p, i)) <=> Class[s[i + 1].key] = Class[k]
    BY <1>1, <1>3, <1>9, <2>2, AtWith
  <2>4. at = {i \in r.location .. end - 1 : Class[s[i + 1].key] = Class[k]}
    BY <1>12, <2>3
  <2>5. at = T
    <3>1. v.location .. v.location + v.length - 1 = r.location .. end - 1
      BY <1>5, <2>1
    <3>2. T = {i \in v.location .. v.location + v.length - 1 : Class[s[i + 1].key] = Class[k]}
      BY <1>6 DEF HitsOf
    <3> QED
      BY <2>4, <3>1, <3>2, Zenon
  <2>6. IF T = {} THEN f = NotFound ELSE f = CHOOSE i \in T : \A j \in T : i <= j
    BY <1>7, <1>8, FirstHitIs
  <2> QED
    BY <1>13, <1>16, <2>5, <2>6
<1>17. f \in R
  BY <1>15, <1>16
<1>18. Replies(f)
  BY AnswerReplies
<1>19. Abstract!Answers(R) /\ kind' = kind
  BY <1>17, <1>18, RepliesAnswers
<1>20. Abstract!Find
  BY <1>1, <1>10, <1>11, <1>12, <1>13, <1>19
     DEF Abstract!Find, Abstract!Calls, Abstract!Arg, Abstract!Other
<1> QED
  BY <1>19, <1>20 DEF Abstract!Next, Abstract!Call

LEMMA FindInRangeRefines ==
    ASSUME OInv, NEW id \in Live, NEW k \in Key, NEW r \in Ranges(id), FindInRange(id, k, r),
           call' = <<"find", id, k, r>>
    PROVE  Abstract!Next
<1>1. PICK a \in QsortIfNeeded(id) :
         Answer(id, a, FindCallback(a.pairs, k, Validated(r, PairCount(a)), Class))
  BY DEF FindInRange
<1>2. Sorts(id, a)
  BY SortsIt
<1>3. PICK f : f = FindCallback(a.pairs, k, Validated(r, Len(a.pairs)), Class)
  OBVIOUS
<1>4. Answer(id, a, f)
  BY <1>1, <1>3 DEF PairCount
<1>5. r.location \in 0 .. Len(a.pairs) /\ r.length \in Nat \cup {All}
  BY <1>2 DEF Sorts, Ranges, Count, PairCount
<1> QED
  BY <1>2, <1>3, <1>4, <1>5, FoundRefines

LEMMA FindKeyRefines ==
    ASSUME OInv, NEW id \in Live, NEW k \in Key, FindKey(id, k),
           call' = <<"find", id, k, Make(0, All)>>
    PROVE  Abstract!Next
<1>1. PICK a \in QsortIfNeeded(id) :
         Answer(id, a, FindCallback(a.pairs, k, Whole(id), Class))
  BY DEF FindKey
<1>2. Sorts(id, a)
  BY SortsIt
<1>3. PICK r : r = Make(0, All)
  OBVIOUS
<1>4. Len(a.pairs) \in Nat
  BY <1>2 DEF Sorts
<1>5. r.location \in 0 .. Len(a.pairs) /\ r.length \in Nat \cup {All}
  BY <1>3, <1>4 DEF Make
<1>6. Whole(id) = Validated(r, Len(a.pairs))
  <2>1. Whole(id) = Make(0, Len(a.pairs))
    BY <1>2 DEF Sorts, Whole, Count, PairCount
  <2>2. Validated(r, Len(a.pairs)) = Make(0, Len(a.pairs))
    BY <1>3, <1>4 DEF Validated, Make, All
  <2> QED
    BY <2>1, <2>2
<1>7. PICK f : f = FindCallback(a.pairs, k, Validated(r, Len(a.pairs)), Class)
  OBVIOUS
<1>8. Answer(id, a, f) /\ call' = <<"find", id, k, r>>
  BY <1>1, <1>3, <1>6, <1>7
<1> QED
  BY <1>2, <1>5, <1>7, <1>8, FoundRefines

LEMMA FindKeyByCompareRefines ==
    ASSUME OInv, NEW id \in Live, NEW k \in Key, FindKeyByCompare(id, k),
           call' = <<"find_compare", id, k>>
    PROVE  Abstract!Next
<1>1. call'[1] = "find_compare" /\ call'[2] = id /\ call'[3] = k
  OBVIOUS
<1>2. PICK s : s = assocs[id].pairs
  OBVIOUS
<1>3. /\ s \in Seq(Pairs) /\ s \in Seq(AllPairs) /\ BagOf(s) = Contents[id]
      /\ Len(s) \in Nat /\ DOMAIN s = 1 .. Len(s) /\ Abstract!Size = Len(s)
  BY <1>1, <1>2, LiveAt, BagNow
<1>4. PICK c : c = assocs[id].compare
  OBVIOUS
<1>5. c \in DOMAIN Order /\ kind \in {"intptr", "string"} /\ Rank(id) = Order[c]
  BY <1>4, LiveAt DEF OInv, Rank
<1>6. \A n \in DOMAIN s : s[n].key \in Key
  BY <1>3, <1>5, PairsRanked
<1>7. \A n \in DOMAIN s : Order[c][s[n].key] = Order[c][k] <=> Class[s[n].key] = Class[k]
  BY <1>5, <1>6, EqualRanks
<1>8. PICK T : T = {i \in 0 .. Len(s) - 1 : Order[c][s[i + 1].key] = Order[c][k]}
  OBVIOUS
<1>9. PICK f : f = FindCompare(s, k, Whole(id), Rank(id))
  OBVIOUS
<1>10. f = FirstHit(T)
  <2>1. PICK r : r = Whole(id)
    OBVIOUS
  <2>2. r.location = 0 /\ r.length = Len(s)
    BY <1>2, <2>1 DEF Whole, Make, Count, PairCount
  <2>3. T = {i \in r.location .. r.location + r.length - 1 : Order[c][s[i + 1].key] = Order[c][k]}
    BY <1>3, <1>8, <2>2
  <2> QED
    BY <1>5, <1>9, <2>1, <2>3 DEF FindCompare
<1>11. T \subseteq Nat
  BY <1>3, <1>8
<1>12. Replies(f)
  BY <1>2, <1>9, ReadReplies DEF FindKeyByCompare
<1>13. Abstract!With(k) = {} <=> ~ \E n \in DOMAIN s : Class[s[n].key] = Class[k]
  BY <1>1, <1>3, WithKey
<1>14. PICK R : R = IF Abstract!With(k) = {} THEN {NotFound} ELSE 0 .. Len(s) - 1
  OBVIOUS
<1>15. f \in R
  <2>1. CASE T = {}
    <3>1. f = NotFound
      BY <1>10, <2>1 DEF FirstHit
    <3>2. ~ \E n \in DOMAIN s : Class[s[n].key] = Class[k]
      <4>1. SUFFICES ASSUME NEW n \in DOMAIN s, Class[s[n].key] = Class[k] PROVE FALSE
        OBVIOUS
      <4>2. PICK i : i = n - 1
        OBVIOUS
      <4>3. i \in 0 .. Len(s) - 1 /\ i + 1 = n
        BY <1>3, <4>2
      <4>4. Order[c][s[n].key] = Order[c][k]
        BY <1>7, <4>1
      <4> QED
        BY <1>8, <2>1, <4>3, <4>4
    <3> QED
      BY <1>13, <1>14, <3>1, <3>2
  <2>2. CASE T # {}
    <3>1. f \in T
      BY <1>10, <1>11, <2>2, FirstHitIs
    <3>2. f \in 0 .. Len(s) - 1 /\ Order[c][s[f + 1].key] = Order[c][k]
      BY <1>8, <3>1
    <3>3. f + 1 \in DOMAIN s
      BY <1>3, <3>2
    <3>4. Class[s[f + 1].key] = Class[k]
      BY <1>7, <3>2, <3>3
    <3>5. Abstract!With(k) # {}
      BY <1>13, <3>3, <3>4
    <3> QED
      BY <1>14, <3>2, <3>5
  <2> QED
    BY <2>1, <2>2
<1>16. Abstract!Answers(R) /\ kind' = kind
  BY <1>12, <1>15, RepliesAnswers
<1>17. Abstract!FindUnsorted
  BY <1>1, <1>3, <1>14, <1>16 DEF Abstract!FindUnsorted, Abstract!Calls, Abstract!Arg
<1> QED
  BY <1>16, <1>17 DEF Abstract!Next, Abstract!Call

-----------------------------------------------------------------------------
(* Adding what another assoc has *)

(* of the pairs q, the first of each class that is not in C                *)
FirstNew(q, C) == {n \in DOMAIN q : /\ Class[q[n].key] \notin C
                                    /\ \A m \in 1 .. n - 1 : Class[q[m].key] # Class[q[n].key]}

LEMMA NumberedIsSeq ==
    ASSUME NEW S, NEW c \in Nat, NEW t \in [1 .. c -> S]
    PROVE  t \in Seq(S)
OBVIOUS

(* f goes through W from below.                                            *)
Upward(f, W) == f \in [1 .. Cardinality(W) -> W] /\ \A i, j \in DOMAIN f : i < j => f[i] < f[j]

(* the pairs t are one for each class that q has and C lacks               *)
AreNew(t, q, C) ==
    /\ t \in Seq(AllPairs)
    /\ \A i \in DOMAIN t : Class[t[i].key] \notin C /\ \E n \in DOMAIN q : t[i] = q[n]
    /\ \A i, j \in DOMAIN t : Class[t[i].key] = Class[t[j].key] => i = j
    /\ \A n \in DOMAIN q : Class[q[n].key] \in C
                           \/ \E i \in DOMAIN t : Class[t[i].key] = Class[q[n].key]
    /\ q = <<>> => t = <<>>

LEMMA NewPairsAre ==
    ASSUME NEW q \in Seq(AllPairs), NEW C, NEW f, Upward(f, FirstNew(q, C))
    PROVE  AreNew([i \in DOMAIN f |-> q[f[i]]], q, C)
<1>15. PICK W : W = FirstNew(q, C)
  OBVIOUS
<1>16. PICK t : t = [i \in DOMAIN f |-> q[f[i]]]
  OBVIOUS
<1>17. SUFFICES AreNew(t, q, C)
  BY <1>16
<1>18. f \in [1 .. Cardinality(W) -> W] /\ \A i, j \in DOMAIN f : i < j => f[i] < f[j]
  BY <1>15 DEF Upward
<1>1. DOMAIN q = 1 .. Len(q) /\ Len(q) \in Nat /\ IsFiniteSet(1 .. Len(q)) /\ \A n \in DOMAIN q : q[n] \in AllPairs
  BY FS_Interval
<1>2. /\ W \subseteq 1 .. Len(q) /\ W \subseteq Nat
      /\ \A n \in W : Class[q[n].key] \notin C
                      /\ \A m \in 1 .. n - 1 : Class[q[m].key] # Class[q[n].key]
  BY <1>1, <1>15 DEF FirstNew
<1>3. IsFiniteSet(W) /\ Cardinality(W) \in Nat
  BY <1>1, <1>2, FS_Subset, FS_CardinalityType
<1>4. PICK c \in Nat : c = Cardinality(W)
  BY <1>3
<1>5. /\ f \in [1 .. c -> W] /\ DOMAIN f = 1 .. c /\ IsFiniteSet(1 .. c) /\ Cardinality(1 .. c) = c
      /\ \A i \in 1 .. c : f[i] \in W /\ f[i] \in Nat
  <2>1. f \in [1 .. c -> W]
    BY <1>4, <1>18
  <2>2. IsFiniteSet(1 .. c) /\ Cardinality(1 .. c) = c
    <3>1. IsFiniteSet(1 .. c) /\ Cardinality(1 .. c) = IF 1 > c THEN 0 ELSE c - 1 + 1
      BY FS_Interval
    <3> QED
      BY <3>1
  <2> QED
    BY <1>2, <2>1, <2>2
<1>6. \A i, j \in 1 .. c : f[i] = f[j] => i = j
  <2>1. \A i, j \in 1 .. c : i < j => f[i] < f[j]
    BY <1>5, <1>18
  <2>2. SUFFICES ASSUME NEW i \in 1 .. c, NEW j \in 1 .. c, f[i] = f[j] PROVE i = j
    OBVIOUS
  <2>3. f[i] \in Nat /\ f[j] \in Nat
    BY <1>5
  <2>4. ~ (i < j) /\ ~ (j < i)
    BY <2>1, <2>2, <2>3
  <2> QED
    BY <2>4
<1>7. \A n \in W : \E i \in 1 .. c : f[i] = n
  <2>1. f \in Injection(1 .. c, W)
    BY <1>5, <1>6 DEF Injection, IsInjective
  <2>2. f \in Surjection(1 .. c, W)
    BY <1>3, <1>4, <1>5, <2>1, FS_Injection
  <2> QED
    BY <2>2 DEF Surjection
<1>8. DOMAIN t = 1 .. c /\ \A i \in 1 .. c : t[i] = q[f[i]] /\ f[i] \in DOMAIN q
  BY <1>1, <1>2, <1>5, <1>16
<1>9. t \in Seq(AllPairs) /\ (c = 0 => t = <<>>)
  <2>1. t \in [1 .. c -> AllPairs]
    <3>1. \A i \in 1 .. c : t[i] \in AllPairs
      BY <1>1, <1>8
    <3> QED
      BY <1>5, <1>8, <1>16, <3>1
  <2>2. t \in Seq(AllPairs)
    BY <2>1, NumberedIsSeq
  <2>3. c = 0 => Len(t) = 0
    BY <1>8, <2>2
  <2> QED
    BY <2>2, <2>3
<1>10. \A i \in DOMAIN t : Class[t[i].key] \notin C /\ \E n \in DOMAIN q : t[i] = q[n]
  BY <1>2, <1>5, <1>8
<1>11. \A n, m \in W : Class[q[n].key] = Class[q[m].key] => n = m
  <2>1. SUFFICES ASSUME NEW n \in W, NEW m \in W, Class[q[n].key] = Class[q[m].key] PROVE n = m
    OBVIOUS
  <2>2. n \in Nat /\ m \in Nat /\ n >= 1 /\ m >= 1
    BY <1>2
  <2>3. ~ (n \in 1 .. m - 1) /\ ~ (m \in 1 .. n - 1)
    BY <1>2, <2>1
  <2> QED
    BY <2>2, <2>3
<1>12. \A i, j \in DOMAIN t : Class[t[i].key] = Class[t[j].key] => i = j
  <2>1. SUFFICES ASSUME NEW i \in 1 .. c, NEW j \in 1 .. c, Class[t[i].key] = Class[t[j].key] PROVE i = j
    BY <1>8
  <2>2. PICK n \in W, m \in W : n = f[i] /\ m = f[j]
    BY <1>5
  <2>3. Class[q[n].key] = Class[q[m].key]
    BY <1>8, <2>1, <2>2
  <2>4. n = m
    BY <1>11, <2>3
  <2> QED
    BY <1>6, <2>2, <2>4
<1>13. ASSUME NEW n \in DOMAIN q, Class[q[n].key] \notin C
       PROVE  \E i \in DOMAIN t : Class[t[i].key] = Class[q[n].key]
  <2>1. PICK T : T = {m \in 1 .. Len(q) : Class[q[m].key] = Class[q[n].key]}
    OBVIOUS
  <2>2. T \subseteq Nat /\ T # {}
    BY <1>1, <1>13, <2>1
  <2>3. PICK m \in T : \A j \in T : m <= j
    BY <2>2, LeastNat
  <2>4. m \in DOMAIN q /\ m \in Nat /\ Class[q[m].key] = Class[q[n].key]
    BY <1>1, <2>1, <2>3
  <2>5. \A j \in 1 .. m - 1 : Class[q[j].key] # Class[q[m].key]
    <3>1. SUFFICES ASSUME NEW j \in 1 .. m - 1, Class[q[j].key] = Class[q[m].key] PROVE FALSE
      OBVIOUS
    <3>2. j \in 1 .. Len(q) /\ ~ (m <= j)
      BY <1>1, <2>4
    <3>3. j \in T
      BY <2>1, <2>4, <3>1, <3>2
    <3> QED
      BY <2>3, <3>2, <3>3
  <2>6. m \in W
    BY <1>13, <2>4, <2>5, <1>15 DEF FirstNew
  <2>7. PICK i \in 1 .. c : f[i] = m
    BY <1>7, <2>6
  <2> QED
    BY <1>8, <2>4, <2>7
<1>14. q = <<>> => t = <<>>
  <2>1. q = <<>> => W = {}
    BY <1>2
  <2>2. q = <<>> => c = 0
    BY <1>4, <2>1, FS_EmptySet
  <2> QED
    BY <1>9, <2>2
<1> QED
  BY <1>9, <1>10, <1>12, <1>13, <1>14 DEF AreNew

Distinct(t) == \A i, j \in DOMAIN t : t[i] = t[j] => i = j
Items(t)    == {t[i] : i \in DOMAIN t}

LEMMA DistinctTally ==
    ASSUME NEW t \in Seq(AllPairs), \A i, j \in DOMAIN t : t[i] = t[j] => i = j, NEW p
    PROVE  HitCount(t, {p}) = IF p \in {t[i] : i \in DOMAIN t} THEN 1 ELSE 0
<1>1. CASE p \in {t[i] : i \in DOMAIN t}
  <2>1. PICK n \in DOMAIN t : t[n] = p
    BY <1>1
  <2>2. Hits(t, {p}) = {n}
    BY <2>1 DEF Hits
  <2> QED
    BY <1>1, <2>2, FS_Singleton DEF HitCount
<1>2. CASE p \notin {t[i] : i \in DOMAIN t}
  <2>1. Hits(t, {p}) = {}
    BY <1>2 DEF Hits
  <2> QED
    BY <1>2, <2>1, FS_EmptySet DEF HitCount
<1> QED
  BY <1>1, <1>2

LEMMA BagConcat ==
    ASSUME NEW s \in Seq(AllPairs), NEW t \in Seq(AllPairs), Distinct(t)
    PROVE  BagOf(s \o t) = Abstract!(+)(BagOf(s), Abstract!SetToBag(Items(t)))
<1>9. PICK N : N = Items(t)
  OBVIOUS
<1>1. N \subseteq AllPairs /\ s \o t \in Seq(AllPairs)
  BY <1>9 DEF Items
<1>2. PICK u : u = s \o t
  OBVIOUS
<1>3. u \in Seq(AllPairs)
  BY <1>1, <1>2
<1>4. \A p \in AllPairs : Tally(u)[p] = Tally(s)[p] - (IF p \in {} THEN 1 ELSE 0)
                                                 + (IF p \in N THEN 1 ELSE 0)
  <2> TAKE p \in AllPairs
  <2>1. /\ HitCount(s \o t, {p}) = HitCount(s, {p}) + HitCount(t, {p})
        /\ HitCount(s, {p}) \in Nat
    BY HitsConcat, HitsFinite
  <2>2. HitCount(t, {p}) = IF p \in N THEN 1 ELSE 0
    BY <1>9, DistinctTally DEF Distinct, Items
  <2>3. Tally(u)[p] = HitCount(s \o t, {p}) /\ Tally(s)[p] = HitCount(s, {p})
    BY <1>2, <1>3, TallyType
  <2> QED
    BY <2>1, <2>2, <2>3
<1>5. PICK M : M = {}
  OBVIOUS
<1>6. Turnover(s, u, M, N)
  BY <1>4, <1>5 DEF Turnover
<1>7. Tally(u) = Raised(Tally(s), N)
  BY <1>3, <1>5, <1>6, TallyIs
<1>8. BagOf(u) = Abstract!(+)(BagOf(s), Abstract!SetToBag(N))
  BY <1>1, <1>3, <1>7, BagAdds
<1> QED
  BY <1>2, <1>8, <1>9

LEMMA AddAssocRangeRefines ==
    ASSUME OInv, NEW id \in Live, NEW other \in Live, NEW r \in Ranges(other),
           AddAssocRange(id, other, r), call' = <<"add_assoc", id, other, r>>
    PROVE  Abstract!Next
<1>1. call'[1] = "add_assoc" /\ call'[2] = id /\ call'[3] = other /\ call'[4] = r
  OBVIOUS
<1>2. PICK s, o : s = assocs[id].pairs /\ o = assocs[other].pairs
  OBVIOUS
<1>3. /\ s \in Seq(AllPairs) /\ o \in Seq(AllPairs) /\ o \in Seq(Pairs) /\ Len(o) \in Nat
      /\ Contents[id] = BagOf(s) /\ Contents[other] = BagOf(o)
  BY <1>2, LiveAt
<1>4. /\ Abstract!Self = id /\ Abstract!Bag = BagOf(s) /\ Abstract!BagToSet(Contents[other]) = DOMAIN BagOf(o)
      /\ DOMAIN BagOf(s) = {s[i] : i \in DOMAIN s} /\ DOMAIN BagOf(o) = {o[i] : i \in DOMAIN o}
  <2>1. DOMAIN BagOf(s) = {s[i] : i \in DOMAIN s} /\ DOMAIN BagOf(o) = {o[i] : i \in DOMAIN o}
    BY DEF BagOf
  <2> QED
    BY <1>1, <1>3, <2>1 DEF Abstract!Self, Abstract!Bag, Abstract!BagToSet
<1>5. PICK C : C = Abstract!Classes(Abstract!Bag)
  OBVIOUS
<1>6. C = {Class[p.key] : p \in DOMAIN BagOf(s)}
  BY <1>4, <1>5 DEF Abstract!Classes, Abstract!BagToSet
<1>7. PICK q : q = GetPairsInRange(assocs[other], r)
  OBVIOUS
<1>8. PICK v : v = Validated(r, Len(o))
  OBVIOUS
<1>9. /\ v.location \in Nat /\ v.length \in Nat /\ v.location + v.length <= Len(o)
      /\ (r = [location |-> 0, length |-> -1] => v.location = 0 /\ v.length = Len(o))
  <2>1. r.location \in Nat /\ r.length \in Nat \cup {All}
    BY RangesFacts
  <2>2. v.location \in Nat /\ v.length \in Nat /\ v.location + v.length <= Len(o)
    BY <1>3, <1>8, <2>1, ValidatedWithin
  <2>3. r = [location |-> 0, length |-> -1] => v.location = 0 /\ v.length = Len(o)
    BY <1>3, <1>8 DEF Validated, Make, All
  <2> QED
    BY <2>2, <2>3
<1>10. /\ q \in Seq(Pairs) /\ q \in Seq(AllPairs) /\ Len(q) = v.length
       /\ \A i \in 1 .. v.length : q[i] = o[v.location + i]
  <2>1. q = Slice(o, v)
    BY <1>2, <1>7, <1>8 DEF GetPairsInRange, PairCount
  <2>2. /\ Slice(o, v) \in Seq(Pairs) /\ Len(Slice(o, v)) = v.length
        /\ \A i \in 1 .. v.length : Slice(o, v)[i] = o[v.location + i]
    BY <1>3, <1>9, SliceItems
  <2> QED
    BY <2>1, <2>2, PairsAll
<1>11. \A n \in DOMAIN q : q[n] \in DOMAIN BagOf(o) /\ q[n].key \in Key
  <2> TAKE n \in DOMAIN q
  <2>1. n \in 1 .. v.length
    BY <1>10
  <2>2. v.location + n \in DOMAIN o /\ q[n] = o[v.location + n]
    BY <1>3, <1>9, <1>10, <2>1
  <2>3. q[n] \in Pairs
    BY <1>10
  <2> QED
    BY <1>4, <2>2, <2>3 DEF Pairs
<1>12. \A n \in DOMAIN q : ~ MemberKey(id, q[n].key) <=> Class[q[n].key] \notin C
  <2> TAKE n \in DOMAIN q
  <2>1. PICK k \in Key : k = q[n].key
    BY <1>11
  <2>2. MemberKey(id, k) <=> \E m \in DOMAIN s : Class[s[m].key] = Class[k]
    BY <1>2, MemberIs
  <2>3. Class[k] \in C <=> \E m \in DOMAIN s : Class[s[m].key] = Class[k]
    BY <1>4, <1>6
  <2> QED
    BY <2>1, <2>2, <2>3
<1> DEFINE news == {n \in DOMAIN q : /\ ~ MemberKey(id, q[n].key)
                                     /\ \A m \in 1 .. n - 1 : Class[q[m].key] # Class[q[n].key]}
           items(f) == [i \in DOMAIN f |-> q[f[i]]]
<1>13. PICK f \in [1 .. Cardinality(news) -> news] :
          /\ \A i, j \in DOMAIN f : i < j => f[i] < f[j]
          /\ \E rs : Change(id, IF q = <<>> THEN assocs[id] ELSE Unsorted(AddPairs(assocs[id], items(f))), rs)
  BY <1>7 DEF AddAssocRange
<1>14. news = FirstNew(q, C)
  BY <1>12 DEF FirstNew
<1>16. PICK t : t = items(f)
  OBVIOUS
<1>17. Upward(f, FirstNew(q, C)) /\ t = [i \in DOMAIN f |-> q[f[i]]]
  BY <1>13, <1>14, <1>16 DEF Upward
<1>18. PICK rs : Change(id, IF q = <<>> THEN assocs[id] ELSE Unsorted(AddPairs(assocs[id], t)), rs)
  BY <1>13, <1>16
<1> HIDE DEF news, items
<1>19. /\ t \in Seq(AllPairs)
       /\ \A i \in DOMAIN t : Class[t[i].key] \notin C /\ \E n \in DOMAIN q : t[i] = q[n]
       /\ \A i, j \in DOMAIN t : Class[t[i].key] = Class[t[j].key] => i = j
       /\ \A n \in DOMAIN q : Class[q[n].key] \in C
                              \/ \E i \in DOMAIN t : Class[t[i].key] = Class[q[n].key]
       /\ q = <<>> => t = <<>>
  <2>1. AreNew([i \in DOMAIN f |-> q[f[i]]], q, C)
    BY <1>10, <1>17, NewPairsAre
  <2>2. AreNew(t, q, C)
    BY <1>17, <2>1
  <2> QED
    BY <2>2 DEF AreNew
<1>20. t \in Seq(Pairs)
  <2>1. \A i \in DOMAIN t : t[i] \in Pairs
    BY <1>10, <1>19
  <2>2. DOMAIN t = 1 .. Len(t) /\ Len(t) \in Nat /\ t = [i \in 1 .. Len(t) |-> t[i]]
    BY <1>19
  <2>3. t \in [1 .. Len(t) -> Pairs]
    BY <2>1, <2>2
  <2> QED
    BY <2>2, <2>3, NumberedIsSeq
<1>21. PICK a : a = IF q = <<>> THEN assocs[id] ELSE Unsorted(AddPairs(assocs[id], t))
  OBVIOUS
<1>22. Fit(a) /\ a.pairs = s \o t /\ a.compare = assocs[id].compare
  <2>1. CASE q = <<>>
    <3>1. a = assocs[id] /\ t = <<>>
      BY <1>19, <1>21, <2>1
    <3>2. s \o <<>> = s
      BY <1>3
    <3> QED
      BY <1>2, <3>1, <3>2, LiveAt
  <2>2. CASE q # <<>>
    <3>1. PICK b : b = AddPairs(assocs[id], t)
      OBVIOUS
    <3>2. FitsIn(assocs[id])
      BY LiveAt, FitIsFit
    <3>3. FitsIn(b) /\ b.pairs = s \o t
      BY <1>2, <1>20, <3>1, <3>2, AddPairsFit
    <3>4. b.compare = assocs[id].compare
      BY <3>1, <3>2 DEF AddPairs, ReallocPairs, FitsIn, IsAssoc
    <3>5. a = Unsorted(b)
      BY <1>21, <2>2, <3>1
    <3>6. a.compare = b.compare
      BY <3>3, <3>5 DEF Unsorted, FitsIn, IsAssoc
    <3> QED
      BY <3>3, <3>4, <3>5, <3>6, UnsortedFits
  <2> QED
    BY <2>1, <2>2
<1>23. PICK b : b = BagOf(a.pairs)
  OBVIOUS
<1>24. Turns(id, b)
  <2>1. Change(id, a, rs)
    BY <1>18, <1>21
  <2> QED
    BY <1>22, <1>23, <2>1, ChangeTurns
<1>25. Abstract!Becomes(b) /\ kind' = kind
  BY <1>1, <1>24, TurnsBecomes
<1>26. PICK N : N = {t[i] : i \in DOMAIN t}
  OBVIOUS
<1>27. b = Abstract!(+)(Abstract!Bag, Abstract!SetToBag(N))
  <2>1. Distinct(t)
    BY <1>19 DEF Distinct
  <2>2. BagOf(s \o t) = Abstract!(+)(BagOf(s), Abstract!SetToBag(Items(t)))
    BY <1>3, <1>19, <2>1, BagConcat
  <2>3. N = Items(t)
    BY <1>26 DEF Items
  <2> QED
    BY <1>4, <1>22, <1>23, <2>2, <2>3
<1>28. N \subseteq DOMAIN BagOf(o)
  BY <1>11, <1>19, <1>26
<1>29. \A p1, p2 \in N : Class[p1.key] = Class[p2.key] => p1 = p2
  BY <1>19, <1>26
<1>30. \A p \in N : Class[p.key] \notin C
  BY <1>19, <1>26
<1>31. r = [location |-> 0, length |-> -1] =>
          Abstract!Classes(Contents[other]) \subseteq C \cup {Class[p.key] : p \in N}
  <2>1. SUFFICES ASSUME r = [location |-> 0, length |-> -1], NEW c \in Abstract!Classes(Contents[other])
                 PROVE  c \in C \cup {Class[p.key] : p \in N}
    OBVIOUS
  <2>2. PICK p \in DOMAIN BagOf(o) : c = Class[p.key]
    BY <1>4, <2>1 DEF Abstract!Classes
  <2>3. PICK n \in DOMAIN o : p = o[n]
    BY <1>4
  <2>4. v.location = 0 /\ v.length = Len(o)
    BY <1>9, <2>1
  <2>5. n \in 1 .. Len(o) /\ 0 + n = n
    BY <1>3
  <2>6. n \in DOMAIN q /\ q[n] = o[n]
    BY <1>10, <2>4, <2>5
  <2>7. Class[q[n].key] \in C \/ \E i \in DOMAIN t : Class[t[i].key] = Class[q[n].key]
    BY <1>19, <2>6
  <2> QED
    BY <1>26, <2>2, <2>3, <2>6, <2>7
<1>32. Abstract!AddOther
  <2>1. Abstract!Arg = other /\ Abstract!Other = r
    BY <1>1 DEF Abstract!Arg, Abstract!Other
  <2>2. N \in SUBSET Abstract!BagToSet(Contents[other])
    BY <1>4, <1>28
  <2>3. Abstract!Becomes(Abstract!(+)(Abstract!Bag, Abstract!SetToBag(N)))
    BY <1>25, <1>27
  <2> QED
    BY <1>1, <1>5, <1>29, <1>30, <1>31, <2>1, <2>2, <2>3 DEF Abstract!AddOther, Abstract!Calls
<1> QED
  BY <1>25, <1>32 DEF Abstract!Next, Abstract!Call

-----------------------------------------------------------------------------
(* Comparing *)

ClassHits(s, c) == {i \in DOMAIN s : Class[s[i].key] = c}
SameClasses(s, t) == \A c : Cardinality(ClassHits(s, c)) = Cardinality(ClassHits(t, c))
OfClass(b, c) == {p \in DOMAIN b : Class[p.key] = c}

LEMMA TotalOfClass ==
    ASSUME NEW s \in Seq(AllPairs), NEW c
    PROVE  /\ Abstract!Total(BagOf(s), OfClass(BagOf(s), c)) = Cardinality(ClassHits(s, c))
           /\ IsFiniteSet(ClassHits(s, c))
<1>1. PICK A : A = {p \in AllPairs : Class[p.key] = c}
  OBVIOUS
<1>2. PICK P : P = {p \in DOMAIN BagOf(s) : p \in A}
  OBVIOUS
<1>3. Abstract!Total(BagOf(s), P) = Cardinality({i \in DOMAIN s : s[i] \in A})
  BY <1>2, TotalWhere
<1>4. \A i \in DOMAIN s : s[i] \in AllPairs
  OBVIOUS
<1>5. \A p \in DOMAIN BagOf(s) : p \in AllPairs
  BY <1>4 DEF BagOf
<1>6. P = OfClass(BagOf(s), c)
  BY <1>1, <1>2, <1>5 DEF OfClass
<1>7. {i \in DOMAIN s : s[i] \in A} = ClassHits(s, c)
  BY <1>1, <1>4 DEF ClassHits
<1>8. IsFiniteSet(DOMAIN s)
  <2>1. DOMAIN s = 1 .. Len(s) /\ Len(s) \in Nat
    OBVIOUS
  <2> QED
    BY <2>1, FS_Interval
<1>9. ClassHits(s, c) \subseteq DOMAIN s
  BY DEF ClassHits
<1> QED
  BY <1>3, <1>6, <1>7, <1>8, <1>9, FS_Subset

(* how the places of s can be paired with those of t                       *)
PairsUp(s, t, f) ==
    /\ f \in Bijection(DOMAIN s, DOMAIN t)
    /\ \A i \in DOMAIN s : Class[t[f[i]].key] = Class[s[i].key]

LEMMA ClassesPaired ==
    ASSUME NEW s \in Seq(AllPairs), NEW t \in Seq(AllPairs), SameClasses(s, t)
    PROVE  \E f : PairsUp(s, t, f)
<1>1. \A c : \E g : g \in Bijection(ClassHits(s, c), ClassHits(t, c))
  <2> TAKE c
  <2>1. IsFiniteSet(ClassHits(s, c)) /\ IsFiniteSet(ClassHits(t, c))
    BY TotalOfClass
  <2>2. Cardinality(ClassHits(s, c)) = Cardinality(ClassHits(t, c))
    BY DEF SameClasses
  <2>3. ExistsBijection(ClassHits(s, c), ClassHits(t, c))
    BY <2>1, <2>2, FS_SameCardinalityBij
  <2> QED
    BY <2>3 DEF ExistsBijection
<1> DEFINE G(c) == CHOOSE g : g \in Bijection(ClassHits(s, c), ClassHits(t, c))
<1>2. \A c : G(c) \in Bijection(ClassHits(s, c), ClassHits(t, c))
  BY <1>1
<1> HIDE DEF G
<1>3. \A c : /\ \A i \in ClassHits(s, c) : G(c)[i] \in ClassHits(t, c)
             /\ \A i, j \in ClassHits(s, c) : G(c)[i] = G(c)[j] => i = j
             /\ \A j \in ClassHits(t, c) : \E i \in ClassHits(s, c) : G(c)[i] = j
  <2> TAKE c
  <2>1. PICK g, S, T : g = G(c) /\ S = ClassHits(s, c) /\ T = ClassHits(t, c)
    OBVIOUS
  <2>2. g \in Bijection(S, T)
    BY <1>2, <2>1
  <2>3. /\ \A x \in S : g[x] \in T
        /\ \A x, y \in S : g[x] = g[y] => x = y
        /\ \A y \in T : \E x \in S : g[x] = y
    BY <2>2, BijectionFacts
  <2> QED
    BY <2>1, <2>3
<1>4. PICK f : f = [i \in DOMAIN s |-> G(Class[s[i].key])[i]]
  OBVIOUS
<1>5. \A i \in DOMAIN s : /\ f[i] = G(Class[s[i].key])[i] /\ i \in ClassHits(s, Class[s[i].key])
                          /\ f[i] \in DOMAIN t /\ Class[t[f[i]].key] = Class[s[i].key]
  <2> TAKE i \in DOMAIN s
  <2>1. PICK c : c = Class[s[i].key]
    OBVIOUS
  <2>2. f[i] = G(c)[i] /\ i \in ClassHits(s, c)
    BY <1>4, <2>1 DEF ClassHits
  <2>3. f[i] \in ClassHits(t, c)
    BY <1>3, <2>2
  <2> QED
    BY <2>1, <2>2, <2>3 DEF ClassHits
<1>6. f \in [DOMAIN s -> DOMAIN t]
  BY <1>4, <1>5
<1>7. \A i, j \in DOMAIN s : f[i] = f[j] => i = j
  <2>1. SUFFICES ASSUME NEW i \in DOMAIN s, NEW j \in DOMAIN s, f[i] = f[j] PROVE i = j
    OBVIOUS
  <2>2. PICK c : c = Class[s[i].key]
    OBVIOUS
  <2>3. Class[s[j].key] = c
    BY <1>5, <2>1, <2>2
  <2>4. i \in ClassHits(s, c) /\ j \in ClassHits(s, c) /\ G(c)[i] = G(c)[j]
    BY <1>5, <2>1, <2>2, <2>3
  <2> QED
    BY <1>3, <2>4
<1>8. \A j \in DOMAIN t : \E i \in DOMAIN s : f[i] = j
  <2> TAKE j \in DOMAIN t
  <2>1. PICK c : c = Class[t[j].key]
    OBVIOUS
  <2>2. j \in ClassHits(t, c)
    BY <2>1 DEF ClassHits
  <2>3. PICK i \in ClassHits(s, c) : G(c)[i] = j
    BY <1>3, <2>2
  <2>4. i \in DOMAIN s /\ Class[s[i].key] = c
    BY DEF ClassHits
  <2> QED
    BY <1>5, <2>3, <2>4
<1>9. f \in Bijection(DOMAIN s, DOMAIN t)
  BY <1>6, <1>7, <1>8, BijectionIs
<1> QED
  BY <1>5, <1>9 DEF PairsUp

LEMMA PairedLengths ==
    ASSUME NEW s \in Seq(AllPairs), NEW t \in Seq(AllPairs), NEW f, PairsUp(s, t, f)
    PROVE  Len(s) = Len(t)
<1>1. PICK m \in Nat, n \in Nat : m = Len(s) /\ n = Len(t)
  OBVIOUS
<1>2. DOMAIN s = 1 .. m /\ DOMAIN t = 1 .. n
  BY <1>1
<1>3. IsFiniteSet(1 .. m) /\ Cardinality(1 .. m) = m /\ Cardinality(1 .. n) = n
  BY FS_Interval
<1>4. ExistsBijection(1 .. m, 1 .. n)
  BY <1>2 DEF PairsUp, ExistsBijection
<1> QED
  BY <1>1, <1>3, <1>4, FS_Bijection

(* what f pairs, within sets of places                                     *)
LEMMA PairedCounts ==
    ASSUME NEW s \in Seq(AllPairs), NEW t \in Seq(AllPairs), NEW f, PairsUp(s, t, f),
           NEW S, NEW T, S \subseteq DOMAIN s, T \subseteq DOMAIN t,
           \A i \in DOMAIN s : i \in S <=> f[i] \in T
    PROVE  Cardinality(S) = Cardinality(T)
<1>1. /\ \A x \in DOMAIN s : f[x] \in DOMAIN t
      /\ \A x, y \in DOMAIN s : f[x] = f[y] => x = y
      /\ \A y \in DOMAIN t : \E x \in DOMAIN s : f[x] = y
  BY BijectionFacts DEF PairsUp
<1>2. PICK g : g = [i \in S |-> f[i]]
  OBVIOUS
<1>3. g \in [S -> T] /\ \A i \in S : g[i] = f[i]
  BY <1>2
<1>4. \A x, y \in S : g[x] = g[y] => x = y
  BY <1>1, <1>3
<1>5. \A y \in T : \E x \in S : g[x] = y
  BY <1>1, <1>3
<1>6. ExistsBijection(S, T)
  BY <1>3, <1>4, <1>5, BijectionIs DEF ExistsBijection
<1>7. IsFiniteSet(S)
  <2>1. DOMAIN s = 1 .. Len(s) /\ Len(s) \in Nat
    OBVIOUS
  <2>2. IsFiniteSet(DOMAIN s)
    BY <2>1, FS_Interval
  <2> QED
    BY <2>2, FS_Subset
<1> QED
  BY <1>6, <1>7, FS_Bijection

(* Pairs in the same order that can be paired have the same ranks.         *)
LEMMA PairedRanks ==
    ASSUME NEW s \in Seq(AllPairs), NEW t \in Seq(AllPairs), NEW f, PairsUp(s, t, f), NEW rank,
           InOrder(s, rank), InOrder(t, rank), Ranked(s, rank), Ranked(t, rank),
           \A i \in DOMAIN s : rank[t[f[i]].key] = rank[s[i].key],
           NEW i \in DOMAIN s
    PROVE  i \in DOMAIN t /\ rank[t[i].key] = rank[s[i].key]
<1>1. Len(s) = Len(t) /\ Len(s) \in Nat /\ DOMAIN s = 1 .. Len(s) /\ DOMAIN t = 1 .. Len(t)
  BY PairedLengths
<1>2. PICK k : k = s[i].key
  OBVIOUS
<1>3. rank[k] \in Int
  BY <1>2 DEF Ranked
<1>4. /\ Cardinality(BelowIn(s, rank, k)) = Cardinality(BelowIn(t, rank, k))
      /\ Cardinality(UpToIn(s, rank, k)) = Cardinality(UpToIn(t, rank, k))
  <2>1. \A x \in DOMAIN s : f[x] \in DOMAIN t
    BY BijectionFacts DEF PairsUp
  <2>2. PICK A, B : A = BelowIn(s, rank, k) /\ B = BelowIn(t, rank, k)
    OBVIOUS
  <2>3. A \subseteq DOMAIN s /\ B \subseteq DOMAIN t /\ \A x \in DOMAIN s : x \in A <=> f[x] \in B
    BY <2>1, <2>2 DEF BelowIn
  <2>4. Cardinality(A) = Cardinality(B)
    BY <2>3, PairedCounts
  <2>5. PICK C, D : C = UpToIn(s, rank, k) /\ D = UpToIn(t, rank, k)
    OBVIOUS
  <2>6. C \subseteq DOMAIN s /\ D \subseteq DOMAIN t /\ \A x \in DOMAIN s : x \in C <=> f[x] \in D
    BY <2>1, <2>5 DEF UpToIn
  <2>7. Cardinality(C) = Cardinality(D)
    BY <2>6, PairedCounts
  <2> QED
    BY <2>2, <2>4, <2>5, <2>7
<1>5. PICK n : n = i - 1
  OBVIOUS
<1>6. n \in 0 .. Len(s) - 1 /\ n \in 0 .. Len(t) - 1 /\ n + 1 = i
  BY <1>1, <1>5
<1>7. Cardinality(BelowIn(s, rank, k)) <= n /\ n < Cardinality(UpToIn(s, rank, k))
  <2>1. rank[s[n + 1].key] = rank[k]
    BY <1>2, <1>6
  <2> QED
    BY <1>3, <1>6, <2>1, PlaceOfRank
<1>8. Cardinality(BelowIn(t, rank, k)) <= n /\ n < Cardinality(UpToIn(t, rank, k))
  BY <1>4, <1>7
<1>9. rank[t[n + 1].key] = rank[k]
  BY <1>3, <1>6, <1>8, PlaceOfRank
<1> QED
  BY <1>1, <1>2, <1>6, <1>9

(* Two assocs are sorted at once.                                          *)
LEMMA PutTwoSorted ==
    ASSUME OInv, NEW id \in Live, NEW other \in Live, id # other,
           NEW a, NEW b, Sorts(id, a), Sorts(other, b), rover' = rover,
           assocs' = [assocs EXCEPT ![id] = a, ![other] = b]
    PROVE  Contents' = Contents /\ Compares' = Compares /\ Rest' = Rest
<1>1. /\ id \in Id /\ Contents[id] = BagOf(a.pairs) /\ Compares[id] = a.compare /\ a # None
      /\ other \in Id /\ Contents[other] = BagOf(b.pairs) /\ Compares[other] = b.compare /\ b # None
      /\ DOMAIN assocs = Id
  BY LiveAt, FitFacts DEF Sorts
<1>2. /\ assocs'[id] = a /\ assocs'[other] = b
      /\ \A i \in Id : i # id /\ i # other => assocs'[i] = assocs[i]
  BY <1>1
<1>3. \A i \in Id : /\ Contents[i] = IF assocs[i] = None THEN None ELSE BagOf(assocs[i].pairs)
                    /\ Contents'[i] = IF assocs'[i] = None THEN None ELSE BagOf(assocs'[i].pairs)
                    /\ Compares[i] = IF assocs[i] = None THEN None ELSE assocs[i].compare
                    /\ Compares'[i] = IF assocs'[i] = None THEN None ELSE assocs'[i].compare
  BY DEF Contents, Compares
<1>4. \A i \in Id : Contents'[i] = Contents[i] /\ Compares'[i] = Compares[i]
  <2> TAKE i \in Id
  <2>1. CASE i = id
    BY <1>1, <1>2, <1>3, <2>1
  <2>2. CASE i = other
    BY <1>1, <1>2, <1>3, <2>2
  <2>3. CASE i # id /\ i # other
    <3>1. assocs'[i] = assocs[i]
      BY <1>2, <2>3
    <3>2. PICK x, y : x = assocs[i] /\ y = assocs'[i]
      OBVIOUS
    <3>3. /\ Contents[i] = IF x = None THEN None ELSE BagOf(x.pairs)
          /\ Contents'[i] = IF y = None THEN None ELSE BagOf(y.pairs)
          /\ Compares[i] = IF x = None THEN None ELSE x.compare
          /\ Compares'[i] = IF y = None THEN None ELSE y.compare
      BY <1>3, <3>2
    <3>4. x = y
      BY <3>1, <3>2
    <3> QED
      BY <3>3, <3>4
  <2> QED
    BY <2>1, <2>2, <2>3
<1>5. Contents' = Contents /\ Compares' = Compares
  <2>1. /\ Contents = [i \in Id |-> Contents[i]] /\ Contents' = [i \in Id |-> Contents'[i]]
        /\ Compares = [i \in Id |-> Compares[i]] /\ Compares' = [i \in Id |-> Compares'[i]]
    BY DEF Contents, Compares
  <2>2. PICK x, y, u, v : x = Contents /\ y = Contents' /\ u = Compares /\ v = Compares'
    OBVIOUS
  <2>3. /\ x = [i \in Id |-> x[i]] /\ y = [i \in Id |-> y[i]] /\ u = [i \in Id |-> u[i]]
        /\ v = [i \in Id |-> v[i]] /\ \A i \in Id : y[i] = x[i] /\ v[i] = u[i]
    BY <1>4, <2>1, <2>2
  <2>4. y = x /\ v = u
    BY <2>3
  <2> QED
    BY <2>2, <2>4
<1>6. ASSUME rover # None PROVE assocs'[rover.assoc] = assocs[rover.assoc]
  <2>1. rover.assoc \in Live /\ rover.assoc \in Id /\ assocs[rover.assoc].sorted
    BY <1>6 DEF OInv, RoverOK, Live, IsSorted
  <2>2. assocs[rover.assoc].sorted = TRUE
    <3>1. assocs[rover.assoc].sorted \in BOOLEAN
      BY <2>1, LiveAt DEF Fit, IsGood, IsAssoc
    <3> QED
      BY <2>1, <3>1
  <2>3. CASE rover.assoc = id
    BY <1>2, <2>2, <2>3 DEF Sorts
  <2>4. CASE rover.assoc = other
    BY <1>2, <2>2, <2>4 DEF Sorts
  <2>5. CASE rover.assoc # id /\ rover.assoc # other
    BY <1>2, <2>1, <2>5
  <2> QED
    BY <2>3, <2>4, <2>5
<1>7. Rest' = Rest
  BY <1>6, RestElsewhere
<1> QED
  BY <1>5, <1>7

(* The classes of the keys come as often in either bag.                    *)
AlikeBags(a, b) ==
    \A c \in Abstract!Classes(a) \cup Abstract!Classes(b) :
       Abstract!Total(a, OfClass(a, c)) = Abstract!Total(b, OfClass(b, c))

LEMMA ClassIn ==
    ASSUME NEW s \in Seq(AllPairs), NEW c
    PROVE  /\ c \in Abstract!Classes(BagOf(s)) <=> \E i \in DOMAIN s : Class[s[i].key] = c
           /\ c \notin Abstract!Classes(BagOf(s)) => ClassHits(s, c) = {}
<1>1. DOMAIN BagOf(s) = {s[i] : i \in DOMAIN s}
  BY DEF BagOf
<1>2. Abstract!Classes(BagOf(s)) = {Class[p.key] : p \in DOMAIN BagOf(s)}
  BY DEF Abstract!Classes, Abstract!BagToSet
<1>3. c \in Abstract!Classes(BagOf(s)) <=> \E i \in DOMAIN s : Class[s[i].key] = c
  BY <1>1, <1>2
<1> QED
  BY <1>3 DEF ClassHits

LEMMA AlikeIs ==
    ASSUME NEW s \in Seq(AllPairs), NEW t \in Seq(AllPairs)
    PROVE  AlikeBags(BagOf(s), BagOf(t)) <=> SameClasses(s, t)
<1>1. \A c : /\ Abstract!Total(BagOf(s), OfClass(BagOf(s), c)) = Cardinality(ClassHits(s, c))
             /\ Abstract!Total(BagOf(t), OfClass(BagOf(t), c)) = Cardinality(ClassHits(t, c))
  BY TotalOfClass
<1>2. \A c : c \notin Abstract!Classes(BagOf(s)) \cup Abstract!Classes(BagOf(t))
             => Cardinality(ClassHits(s, c)) = Cardinality(ClassHits(t, c))
  <2> TAKE c
  <2>1. HAVE c \notin Abstract!Classes(BagOf(s)) \cup Abstract!Classes(BagOf(t))
  <2>2. ClassHits(s, c) = {} /\ ClassHits(t, c) = {}
    BY <2>1, ClassIn
  <2> QED
    BY <2>2
<1> QED
  BY <1>1, <1>2 DEF AlikeBags, SameClasses

(* Sorted by the same ranks, what is alike is equal place by place.        *)
LEMMA AlikeInPlace ==
    ASSUME kind \in {"intptr", "string"}, NEW c \in DOMAIN Order,
           NEW s \in Seq(Pairs), NEW t \in Seq(Pairs), InOrder(s, Order[c]), InOrder(t, Order[c]),
           SameClasses(s, t), NEW i \in DOMAIN s
    PROVE  i \in DOMAIN t /\ Class[t[i].key] = Class[s[i].key]
<1>1. s \in Seq(AllPairs) /\ t \in Seq(AllPairs)
  BY PairsAll
<1>2. PICK f : PairsUp(s, t, f)
  BY <1>1, ClassesPaired
<1>3. /\ Ranked(s, Order[c]) /\ Ranked(t, Order[c])
      /\ \A n \in DOMAIN s : s[n].key \in Key
      /\ \A n \in DOMAIN t : t[n].key \in Key
  BY PairsRanked
<1>4. \A n \in DOMAIN s : f[n] \in DOMAIN t /\ Class[t[f[n]].key] = Class[s[n].key]
  BY <1>2, BijectionFacts DEF PairsUp
<1>5. \A n \in DOMAIN s : Order[c][t[f[n]].key] = Order[c][s[n].key]
  <2> TAKE n \in DOMAIN s
  <2>1. PICK k \in Key, l \in Key : k = t[f[n]].key /\ l = s[n].key
    BY <1>3, <1>4
  <2>2. Class[k] = Class[l]
    BY <1>4, <2>1
  <2>3. Order[c][k] = Order[c][l]
    BY <2>2, EqualRanks
  <2> QED
    BY <2>1, <2>3
<1>6. PICK rank : rank = Order[c]
  OBVIOUS
<1>7. i \in DOMAIN t /\ rank[t[i].key] = rank[s[i].key]
  <2>1. InOrder(s, rank) /\ InOrder(t, rank) /\ Ranked(s, rank) /\ Ranked(t, rank)
    BY <1>3, <1>6
  <2>2. \A n \in DOMAIN s : rank[t[f[n]].key] = rank[s[n].key]
    BY <1>5, <1>6
  <2> QED
    BY <1>1, <1>2, <2>1, <2>2, PairedRanks
<1>8. PICK k \in Key, l \in Key : k = t[i].key /\ l = s[i].key
  BY <1>3, <1>7
<1>9. Order[c][k] = Order[c][l]
  BY <1>6, <1>7, <1>8
<1>10. Class[k] = Class[l]
  BY <1>9, EqualRanks
<1> QED
  BY <1>7, <1>8, <1>10

LEMMA InPlaceAlike ==
    ASSUME NEW s, NEW t, DOMAIN s = DOMAIN t, \A i \in DOMAIN s : Class[s[i].key] = Class[t[i].key]
    PROVE  SameClasses(s, t)
<1>1. \A c : ClassHits(s, c) = ClassHits(t, c)
  BY DEF ClassHits
<1> QED
  BY <1>1 DEF SameClasses

LEMMA SameBagAlike ==
    ASSUME NEW s \in Seq(AllPairs), NEW t \in Seq(AllPairs), BagOf(s) = BagOf(t)
    PROVE  SameClasses(s, t)
<1>1. \A c : /\ Abstract!Total(BagOf(s), OfClass(BagOf(s), c)) = Cardinality(ClassHits(s, c))
             /\ Abstract!Total(BagOf(t), OfClass(BagOf(t), c)) = Cardinality(ClassHits(t, c))
  BY TotalOfClass
<1> QED
  BY <1>1 DEF SameClasses

(* A bag in which no class comes twice has but one order.                  *)
LEMMA OneOrder ==
    ASSUME kind \in {"intptr", "string"}, NEW c \in DOMAIN Order,
           NEW s \in Seq(Pairs), NEW t \in Seq(Pairs), InOrder(s, Order[c]), InOrder(t, Order[c]),
           BagOf(s) = BagOf(t),
           \A x \in Abstract!Classes(BagOf(s)) : Abstract!Total(BagOf(s), OfClass(BagOf(s), x)) = 1
    PROVE  s = t
<1>1. s \in Seq(AllPairs) /\ t \in Seq(AllPairs)
  BY PairsAll
<1>2. SameClasses(s, t)
  BY <1>1, SameBagAlike
<1>3. \A i \in DOMAIN s : i \in DOMAIN t /\ Class[t[i].key] = Class[s[i].key]
  BY <1>2, AlikeInPlace
<1>4. \A i, j \in DOMAIN s : Class[s[i].key] = Class[s[j].key] => i = j
  <2>1. SUFFICES ASSUME NEW i \in DOMAIN s, NEW j \in DOMAIN s, Class[s[i].key] = Class[s[j].key]
                 PROVE  i = j
    OBVIOUS
  <2>2. PICK x : x = Class[s[i].key]
    OBVIOUS
  <2>3. x \in Abstract!Classes(BagOf(s))
    BY <1>1, <2>2, ClassIn
  <2>4. Cardinality(ClassHits(s, x)) = 1 /\ IsFiniteSet(ClassHits(s, x))
    BY <1>1, <2>3, TotalOfClass
  <2>5. PICK n : ClassHits(s, x) = {n}
    BY <2>4, FS_Singleton
  <2>6. i \in ClassHits(s, x) /\ j \in ClassHits(s, x)
    BY <2>1, <2>2 DEF ClassHits
  <2> QED
    BY <2>5, <2>6
<1>5. \A i \in DOMAIN s : t[i] = s[i]
  <2> TAKE i \in DOMAIN s
  <2>1. t[i] \in DOMAIN BagOf(t)
    BY <1>3 DEF BagOf
  <2>2. t[i] \in DOMAIN BagOf(s)
    BY <2>1
  <2>3. PICK j \in DOMAIN s : s[j] = t[i]
    BY <2>2 DEF BagOf
  <2>4. Class[s[j].key] = Class[s[i].key]
    BY <1>3, <2>3
  <2>5. j = i
    BY <1>4, <2>4
  <2> QED
    BY <2>3, <2>5
<1>6. Len(s) = Len(t) /\ DOMAIN s = 1 .. Len(s) /\ DOMAIN t = 1 .. Len(t)
  BY <1>1, <1>2, ClassesPaired, PairedLengths
<1> QED
  BY <1>1, <1>5, <1>6

LEMMA IsEqualRefines ==
    ASSUME OInv, NEW id \in Live, NEW other \in Live, IsEqual(id, other),
           call' = <<"is_equal", id, other>>
    PROVE  Abstract!Next
<1>1. call'[1] = "is_equal" /\ call'[2] = id /\ call'[3] = other
  OBVIOUS
<1>2. PICK s, t : s = assocs[id].pairs /\ t = assocs[other].pairs
  OBVIOUS
<1>3. /\ s \in Seq(AllPairs) /\ t \in Seq(AllPairs) /\ Len(s) \in Nat /\ Len(t) \in Nat
      /\ Contents[id] = BagOf(s) /\ Contents[other] = BagOf(t)
  BY <1>2, LiveAt
<1>4. /\ id # other /\ assocs[id].compare = assocs[other].compare
      /\ kind' = kind /\ rover' = rover /\ kind \in {"intptr", "string"}
  BY DEF IsEqual, OInv
<1>5. PICK a, b : a = BagOf(s) /\ b = BagOf(t)
  OBVIOUS
<1>6. Abstract!Bag = a /\ Contents[Abstract!Arg] = b
  BY <1>1, <1>3, <1>5 DEF Abstract!Self, Abstract!Bag, Abstract!Arg
<1> DEFINE Allowed == IF kind = "string" THEN {AlikeBags(a, b)}
                      ELSE IF a # b THEN {FALSE}
                      ELSE IF \A c \in Abstract!Classes(a) : Abstract!Total(a, OfClass(a, c)) = 1
                      THEN {TRUE} ELSE {TRUE, FALSE}
<1>7. SUFFICES /\ ret' \in Allowed
               /\ Contents' = Contents /\ Compares' = Compares /\ Rest' = Rest
  <2>1. ASSUME ret' \in Allowed, Contents' = Contents, Compares' = Compares, Rest' = Rest
        PROVE  Abstract!Next
    <3>1. Replies(ret')
      BY <1>4, <2>1 DEF Replies
    <3>2. Abstract!Answers(Allowed)
      BY <2>1, <3>1, RepliesAnswers
    <3>3. Abstract!Equal
      BY <1>1, <1>6, <3>2 DEF Abstract!Equal, Abstract!Calls, Abstract!BagToSet, AlikeBags, OfClass
    <3> QED
      BY <1>4, <3>3 DEF Abstract!Next, Abstract!Call
  <2> QED
    BY <2>1
<1>8. CASE Len(s) # Len(t) \/ Len(s) = 0
  <2>1. ret' = (Len(s) = Len(t)) /\ assocs' = assocs
    BY <1>2, <1>8 DEF IsEqual, Count, PairCount
  <2>2. Contents' = Contents /\ Compares' = Compares /\ Rest' = Rest
    BY <1>4, <2>1 DEF Contents, Compares, Rest
  <2>3. ASSUME Len(s) # Len(t) PROVE ret' \in Allowed
    <3>1. ret' = FALSE
      BY <2>1, <2>3
    <3>2. a # b
      <4>1. SUFFICES ASSUME a = b PROVE FALSE
        OBVIOUS
      <4>2. BagOf(s) = BagOf(t)
        BY <1>5, <4>1
      <4>3. SameClasses(s, t)
        BY <1>3, <4>2, SameBagAlike
      <4>4. Len(s) = Len(t)
        BY <1>3, <4>3, ClassesPaired, PairedLengths
      <4> QED
        BY <2>3, <4>4
    <3>3. ~ AlikeBags(a, b)
      <4>1. SUFFICES ASSUME AlikeBags(a, b) PROVE FALSE
        OBVIOUS
      <4>2. SameClasses(s, t)
        BY <1>3, <1>5, <4>1, AlikeIs
      <4>3. Len(s) = Len(t)
        BY <1>3, <4>2, ClassesPaired, PairedLengths
      <4> QED
        BY <2>3, <4>3
    <3>4. AlikeBags(a, b) = FALSE
      BY <3>3 DEF AlikeBags
    <3> QED
      BY <3>1, <3>2, <3>4
  <2>4. ASSUME Len(s) = Len(t), Len(s) = 0 PROVE ret' \in Allowed
    <3>1. ret' = TRUE
      BY <2>1, <2>4
    <3>2. s = <<>> /\ t = <<>>
      <4>1. \A x \in Seq(AllPairs) : Len(x) = 0 => x = <<>>
        OBVIOUS
      <4>2. s \in Seq(AllPairs) /\ t \in Seq(AllPairs) /\ Len(s) = 0 /\ Len(t) = 0
        BY <1>3, <2>4
      <4> QED
        BY <4>1, <4>2
    <3>3. a = b
      BY <1>5, <3>2
    <3>4. AlikeBags(a, b)
      BY <3>3 DEF AlikeBags
    <3>5. AlikeBags(a, b) = TRUE
      BY <3>4 DEF AlikeBags
    <3> QED
      BY <3>1, <3>3, <3>5
  <2> QED
    BY <1>8, <2>2, <2>3, <2>4
<1>9. CASE ~ (Len(s) # Len(t) \/ Len(s) = 0)
  <2> DEFINE Same(x, y) ==
                 IF kind = "intptr" THEN x.pairs = y.pairs
                 ELSE \A i \in 1 .. Len(s) : Rank(id)[x.pairs[i].key] = Rank(id)[y.pairs[i].key]
  <2>1. PICK x \in QsortIfNeeded(id), y \in QsortIfNeeded(other) :
           assocs' = [assocs EXCEPT ![id] = x, ![other] = y] /\ ret' = Same(x, y)
    BY <1>2, <1>9 DEF IsEqual, Count, PairCount
  <2>2. Sorts(id, x) /\ Sorts(other, y)
    BY <2>1, SortsIt
  <2>3. Contents' = Contents /\ Compares' = Compares /\ Rest' = Rest
    BY <1>4, <2>1, <2>2, PutTwoSorted
  <2>4. PICK c : c = assocs[id].compare
    OBVIOUS
  <2>5. /\ c \in DOMAIN Order /\ Compares[id] = c /\ Compares[other] = c /\ Rank(id) = Order[c]
    BY <1>4, <2>4, LiveAt DEF Rank
  <2>6. PICK u, v : u = x.pairs /\ v = y.pairs
    OBVIOUS
  <2>7. /\ u \in Seq(Pairs) /\ v \in Seq(Pairs) /\ u \in Seq(AllPairs) /\ v \in Seq(AllPairs)
        /\ Len(u) = Len(s) /\ Len(v) = Len(s) /\ DOMAIN u = 1 .. Len(s) /\ DOMAIN v = 1 .. Len(s)
        /\ BagOf(u) = a /\ BagOf(v) = b
        /\ InOrder(u, Order[c]) /\ InOrder(v, Order[c])
    BY <1>2, <1>5, <1>9, <2>2, <2>5, <2>6 DEF Sorts
  <2>8. ret' = IF kind = "intptr" THEN u = v
               ELSE \A i \in 1 .. Len(s) : Order[c][u[i].key] = Order[c][v[i].key]
    BY <2>1, <2>5, <2>6
  <2>9. CASE kind = "string"
    <3>1. AlikeBags(a, b) <=> SameClasses(u, v)
      <4>1. AlikeBags(BagOf(u), BagOf(v)) <=> SameClasses(u, v)
        BY <2>7, AlikeIs
      <4> QED
        BY <2>7, <4>1
    <3>2. /\ \A i \in DOMAIN u : u[i].key \in Key
          /\ \A i \in DOMAIN v : v[i].key \in Key
      BY <1>4, <2>5, <2>7, PairsRanked
    <3>3. \A i \in 1 .. Len(s) : Order[c][u[i].key] = Order[c][v[i].key] <=> Class[u[i].key] = Class[v[i].key]
      <4> TAKE i \in 1 .. Len(s)
      <4>1. PICK k \in Key, l \in Key : k = u[i].key /\ l = v[i].key
        BY <2>7, <3>2
      <4>2. Order[c][k] = Order[c][l] <=> Class[k] = Class[l]
        BY <1>4, <2>5, EqualRanks
      <4> QED
        BY <4>1, <4>2
    <3>4. ret' = \A i \in 1 .. Len(s) : Class[u[i].key] = Class[v[i].key]
      BY <2>8, <2>9, <3>3
    <3>5. SameClasses(u, v) => \A i \in 1 .. Len(s) : Class[u[i].key] = Class[v[i].key]
      BY <1>4, <2>5, <2>7, AlikeInPlace
    <3>6. (\A i \in 1 .. Len(s) : Class[u[i].key] = Class[v[i].key]) => SameClasses(u, v)
      BY <2>7, InPlaceAlike
    <3>7. ret' = AlikeBags(a, b)
      <4>1. AlikeBags(a, b) \in BOOLEAN
        BY DEF AlikeBags
      <4> QED
        BY <3>1, <3>4, <3>5, <3>6, <4>1
    <3> QED
      BY <2>3, <2>9, <3>7
  <2>10. CASE kind = "intptr"
    <3>1. ret' = (u = v)
      BY <2>8, <2>10
    <3>2. kind # "string"
      BY <2>10
    <3>3. ASSUME a # b PROVE ret' \in Allowed
      BY <2>7, <3>1, <3>2, <3>3
    <3>4. ASSUME a = b, \A z \in Abstract!Classes(a) : Abstract!Total(a, OfClass(a, z)) = 1
          PROVE  ret' \in Allowed
      <4>1. BagOf(u) = BagOf(v)
        BY <2>7, <3>4
      <4>2. \A z \in Abstract!Classes(BagOf(u)) : Abstract!Total(BagOf(u), OfClass(BagOf(u), z)) = 1
        BY <2>7, <3>4
      <4>3. u = v
        BY <1>4, <2>5, <2>7, <4>1, <4>2, OneOrder
      <4> QED
        BY <3>1, <3>2, <3>4, <4>3
    <3>5. ASSUME a = b, ~ \A z \in Abstract!Classes(a) : Abstract!Total(a, OfClass(a, z)) = 1
          PROVE  ret' \in Allowed
      BY <3>1, <3>2, <3>5
    <3> QED
      BY <2>3, <3>3, <3>4, <3>5
  <2> QED
    BY <1>4, <2>9, <2>10
<1> QED
  BY <1>8, <1>9

-----------------------------------------------------------------------------
(* Enumeration *)

(* An enumerator ends where its assoc does.                                *)
RInv == rover # None => rover.end = Count(rover.assoc)

(* A step leaves the enumerator and its assoc alone, or ends it.           *)
RoverSafe == rover' = None \/ (rover' = rover /\ assocs'[rover.assoc] = assocs[rover.assoc])

LEMMA SafeRInv ==
    ASSUME RInv, RoverSafe
    PROVE  RInv'
BY DEF RInv, RoverSafe, Count, PairCount

LEMMA ChangeSafe ==
    ASSUME OInv, NEW id \in Live, NEW a, NEW rs, Change(id, a, rs)
    PROVE  RoverSafe
<1>1. \A i \in Id : i # id => assocs'[i] = assocs[i]
  BY DEF Change, Put, OInv, AInv
<1>2. CASE rover' # None
  <2>1. rover' = rover /\ rover # None /\ rover.assoc # id
    BY <1>2 DEF Change, Invalidate
  <2>2. rover.assoc \in Id
    BY <2>1 DEF OInv, RoverOK, Live
  <2> QED
    BY <1>1, <2>1, <2>2 DEF RoverSafe
<1> QED
  BY <1>2 DEF RoverSafe

LEMMA SortedRover ==
    ASSUME OInv, rover # None
    PROVE  /\ rover.assoc \in Live /\ rover.assoc \in Id /\ assocs[rover.assoc].sorted = TRUE
           /\ rover \in [assoc : Live, at : Nat, end : Nat]
<1>1. rover.assoc \in Live /\ assocs[rover.assoc].sorted /\ rover \in [assoc : Live, at : Nat, end : Nat]
  BY DEF OInv, RoverOK, IsSorted
<1>2. assocs[rover.assoc].sorted \in BOOLEAN
  BY <1>1, LiveAt DEF Fit, IsGood, IsAssoc
<1> QED
  BY <1>1, <1>2 DEF Live

LEMMA PutSafe ==
    ASSUME OInv, NEW id \in Id, NEW a, Put(id, a), rover' = rover,
           \/ assocs[id] = None
           \/ a = assocs[id]
           \/ Sorts(id, a)
    PROVE  RoverSafe
<1>1. assocs'[id] = a /\ \A i \in Id : i # id => assocs'[i] = assocs[i]
  BY DEF Put, OInv, AInv
<1>2. CASE rover # None
  <2>1. rover.assoc \in Live /\ rover.assoc \in Id /\ assocs[rover.assoc].sorted = TRUE
    BY <1>2, SortedRover
  <2>2. CASE rover.assoc = id
    <3>1. assocs[id] # None
      BY <2>1, <2>2 DEF Live
    <3>2. a = assocs[id]
      BY <2>1, <2>2, <3>1 DEF Sorts
    <3> QED
      BY <1>1, <2>2, <3>2 DEF RoverSafe
  <2>3. CASE rover.assoc # id
    BY <1>1, <2>1, <2>3 DEF RoverSafe
  <2> QED
    BY <2>2, <2>3
<1>3. CASE rover = None
  BY <1>3 DEF RoverSafe
<1> QED
  BY <1>2, <1>3

LEMMA AnswerSafe ==
    ASSUME OInv, NEW id \in Live, NEW a \in QsortIfNeeded(id) \cup {assocs[id]}, NEW result,
           Answer(id, a, result)
    PROVE  RoverSafe
<1>1. Sorts(id, a) \/ a = assocs[id]
  BY SortsIt
<1>2. Put(id, a) /\ rover' = rover /\ id \in Id
  BY LiveAt DEF Answer
<1> QED
  BY <1>1, <1>2, PutSafe

LEMMA IsEqualSafe ==
    ASSUME OInv, NEW id \in Live, NEW other \in Live, IsEqual(id, other)
    PROVE  RoverSafe
<1>1. rover' = rover /\ id # other
  BY DEF IsEqual
<1>2. CASE assocs' = assocs
  BY <1>1, <1>2 DEF RoverSafe
<1>3. CASE assocs' # assocs
  <2>1. PICK a \in QsortIfNeeded(id), b \in QsortIfNeeded(other) :
           assocs' = [assocs EXCEPT ![id] = a, ![other] = b]
    BY <1>3 DEF IsEqual
  <2>2. Sorts(id, a) /\ Sorts(other, b)
    BY SortsIt
  <2>3. /\ assocs'[id] = a /\ assocs'[other] = b
        /\ \A i \in Id : i # id /\ i # other => assocs'[i] = assocs[i]
    BY <1>1, <2>1, LiveAt
  <2>4. CASE rover # None
    <3>1. rover.assoc \in Id /\ assocs[rover.assoc].sorted = TRUE
      BY <2>4, SortedRover
    <3>2. assocs'[rover.assoc] = assocs[rover.assoc]
      BY <2>2, <2>3, <3>1 DEF Sorts
    <3> QED
      BY <1>1, <3>2 DEF RoverSafe
  <2>5. CASE rover = None
    BY <1>1, <2>5 DEF RoverSafe
  <2> QED
    BY <2>4, <2>5
<1> QED
  BY <1>2, <1>3

LEMMA EnumerateRInv ==
    ASSUME OInv, NEW id \in Live, Enumerate(id)
    PROVE  RInv'
<1>1. PICK a : Put(id, a) /\ rover' = [assoc |-> id, at |-> 0, end |-> PairCount(a)]
  BY DEF Enumerate
<1>2. assocs'[id] = a
  BY <1>1, LiveAt DEF Put
<1> QED
  BY <1>1, <1>2 DEF RInv, Count

LEMMA EnumeratorNextRInv ==
    ASSUME OInv, RInv, EnumeratorNext
    PROVE  RInv'
<1>1. rover # None /\ rover \in [assoc : Live, at : Nat, end : Nat] /\ assocs' = assocs
  BY SortedRover DEF EnumeratorNext
<1>2. CASE rover' = None
  BY <1>2 DEF RInv
<1>3. CASE rover' # None
  <2>1. rover' = [rover EXCEPT !.at = @ + 1]
    BY <1>3 DEF EnumeratorNext
  <2>2. rover'.assoc = rover.assoc /\ rover'.end = rover.end
    BY <1>1, <2>1
  <2> QED
    BY <1>1, <2>2 DEF RInv, Count, PairCount
<1> QED
  BY <1>2, <1>3

LEMMA EnumerateRefines ==
    ASSUME OInv, NEW id \in Live, Enumerate(id), call' = <<"enumerate", id>>
    PROVE  Abstract!Next
<1>1. call'[1] = "enumerate" /\ call'[2] = id
  OBVIOUS
<1>2. PICK a \in QsortIfNeeded(id) :
         /\ Put(id, a) /\ rover' = [assoc |-> id, at |-> 0, end |-> PairCount(a)]
         /\ ret' = None /\ kind' = kind
  BY DEF Enumerate
<1>3. Sorts(id, a)
  BY SortsIt
<1>4. PICK s : s = a.pairs
  OBVIOUS
<1>5. s \in Seq(AllPairs) /\ Len(s) \in Nat /\ BagOf(s) = Contents[id]
  BY <1>3, <1>4, LiveAt DEF Sorts
<1>6. rover' # None
  BY <1>2, <1>4, <1>5, LiveAt, AssocAssumption DEF PairCount
<1>7. Rest' = s
  <2>1. assocs'[id] = a
    BY <1>2, LiveAt DEF Put
  <2>2. Rest' = SubSeq(assocs'[rover'.assoc].pairs, rover'.at + 1, rover'.end)
    BY <1>6 DEF Rest
  <2>3. rover'.assoc = id /\ rover'.at + 1 = 1 /\ rover'.end = Len(s)
    BY <1>2, <1>4 DEF PairCount
  <2>4. Rest' = SubSeq(s, 1, Len(s))
    BY <1>4, <2>1, <2>2, <2>3
  <2>5. \A x \in Seq(AllPairs) : SubSeq(x, 1, Len(x)) = x
    OBVIOUS
  <2> QED
    BY <1>5, <2>4, <2>5
<1>8. Contents' = Contents /\ Compares' = Compares
  BY <1>2, <1>3, PutSorted
<1>9. Shows(id, s)
  BY <1>1, <1>3, <1>4, SortsShows
<1>10. Abstract!Self = id /\ Abstract!Bag = BagOf(s) /\ Abstract!Pairs = DOMAIN BagOf(s)
  BY <1>1, <1>5 DEF Abstract!Self, Abstract!Bag, Abstract!Pairs, Abstract!BagToSet
<1>11. Abstract!Size = Len(s)
  BY <1>5, <1>10, TotalOfAll DEF Abstract!Size
<1>12. \A p \in Abstract!Pairs : Abstract!Bag[p] = Cardinality({i \in DOMAIN s : s[i] = p})
  BY <1>10 DEF BagOf
<1>13. \A i, j \in DOMAIN s : i < j => Abstract!Place(s[i].key) <= Abstract!Place(s[j].key)
  <2>1. \A k : Abstract!Place(k) = Order[Compares[id]][k]
    BY <1>10 DEF Abstract!Place
  <2> QED
    BY <1>9, <2>1 DEF Shows, InOrder
<1>14. Abstract!Open
  <2>1. Len(Rest') = Abstract!Size
    BY <1>7, <1>11
  <2>2. \A p \in Abstract!Pairs : Abstract!Bag[p] = Abstract!Cardinality({i \in DOMAIN Rest' : Rest'[i] = p})
    BY <1>7, <1>12, SameCardinality
  <2>3. \A i, j \in DOMAIN Rest' : i < j => Abstract!Place(Rest'[i].key) <= Abstract!Place(Rest'[j].key)
    BY <1>7, <1>13
  <2> QED
    BY <1>1, <1>2, <1>8, <2>1, <2>2, <2>3 DEF Abstract!Open, Abstract!Calls
<1> QED
  BY <1>2, <1>14 DEF Abstract!Next, Abstract!Call

LEMMA EnumeratorNextRefines ==
    ASSUME OInv, RInv, EnumeratorNext, call' = <<"next">>
    PROVE  Abstract!Next
<1>1. call'[1] = "next"
  OBVIOUS
<1>2. /\ rover # None /\ rover \in [assoc : Live, at : Nat, end : Nat]
      /\ assocs' = assocs /\ kind' = kind /\ rover.assoc \in Live
  BY SortedRover DEF EnumeratorNext
<1>3. Contents' = Contents /\ Compares' = Compares
  BY <1>2 DEF Contents, Compares
<1>4. PICK s : s = assocs[rover.assoc].pairs
  OBVIOUS
<1>5. PICK m \in Nat, n \in Nat : m = rover.at /\ n = rover.end
  BY <1>2
<1>6. s \in Seq(AllPairs) /\ n = Len(s)
  BY <1>2, <1>4, <1>5, LiveAt DEF RInv, Count, PairCount
<1>7. Rest = SubSeq(s, m + 1, n) /\ SubSeq(s, m + 1, n) \in Seq(AllPairs)
  <2>1. Rest = SubSeq(s, m + 1, n)
    BY <1>2, <1>4, <1>5 DEF Rest
  <2>2. \A x \in Seq(AllPairs) : \A i \in Nat : SubSeq(x, i + 1, Len(x)) \in Seq(AllPairs)
    OBVIOUS
  <2> QED
    BY <1>6, <2>1, <2>2
<1>8. Rest # None
  BY <1>7, AssocAssumption DEF AllPairs
<1>9. CASE m < n
  <2>1. ret' = s[m + 1] /\ rover' = [rover EXCEPT !.at = @ + 1]
    BY <1>4, <1>5, <1>9 DEF EnumeratorNext, GetPair
  <2>2. /\ rover'.assoc = rover.assoc /\ rover'.at = m + 1 /\ rover'.end = n
        /\ rover' \in [assoc : Id, at : Nat, end : Nat]
    BY <1>2, <1>5, <2>1 DEF Live
  <2>3. rover' # None
    BY <2>2, AssocAssumption
  <2>4. Rest' = SubSeq(s, m + 2, n)
    <3>1. Rest' = SubSeq(assocs'[rover'.assoc].pairs, rover'.at + 1, rover'.end)
      BY <2>3 DEF Rest
    <3>2. rover'.at + 1 = m + 2
      BY <2>2
    <3> QED
      BY <1>2, <1>4, <2>2, <3>1, <3>2
  <2>5. /\ SubSeq(s, m + 1, n) # <<>> /\ Head(SubSeq(s, m + 1, n)) = s[m + 1]
        /\ Tail(SubSeq(s, m + 1, n)) = SubSeq(s, m + 2, n)
    <3>1. PICK u : u = SubSeq(s, m + 1, n)
      OBVIOUS
    <3>2. PICK v : v = SubSeq(s, m + 2, n)
      OBVIOUS
    <3>3. /\ u \in Seq(AllPairs) /\ Len(u) = n - m
          /\ \A i \in 1 .. n - m : u[i] = s[m + i]
      BY <1>6, <1>9, <3>1
    <3>4. /\ v \in Seq(AllPairs) /\ Len(v) = n - m - 1
          /\ \A i \in 1 .. n - m - 1 : v[i] = s[m + 1 + i]
      BY <1>6, <1>9, <3>2
    <3>5. u # <<>> /\ Head(u) = s[m + 1]
      BY <1>9, <3>3
    <3>6. Tail(u) \in Seq(AllPairs) /\ Len(Tail(u)) = n - m - 1
          /\ \A i \in 1 .. n - m - 1 : Tail(u)[i] = u[i + 1]
      BY <1>9, <3>3
    <3>7. \A i \in 1 .. n - m - 1 : Tail(u)[i] = v[i]
      <4> TAKE i \in 1 .. n - m - 1
      <4>1. i + 1 \in 1 .. n - m /\ m + (i + 1) = m + 1 + i
        BY <1>9
      <4>2. PICK j : j = i + 1
        OBVIOUS
      <4>3. u[j] = s[m + j] /\ m + j = m + 1 + i
        BY <3>3, <4>1, <4>2
      <4> QED
        BY <3>4, <3>6, <4>2, <4>3
    <3>8. Tail(u) = v
      BY <3>4, <3>6, <3>7
    <3> QED
      BY <3>1, <3>2, <3>5, <3>8
  <2>6. ret' = Head(Rest) /\ Rest' = Tail(Rest) /\ Rest # <<>>
    BY <1>7, <2>1, <2>4, <2>5
  <2>7. Abstract!EnumeratorNext
    BY <1>1, <1>3, <1>8, <2>6 DEF Abstract!EnumeratorNext, Abstract!Calls
  <2> QED
    BY <1>2, <2>7 DEF Abstract!Next, Abstract!Call
<1>10. CASE ~ (m < n)
  <2>1. ret' = InvalidPair /\ rover' = None
    BY <1>5, <1>10 DEF EnumeratorNext
  <2>2. Rest' = None
    BY <2>1 DEF Rest
  <2>3. Rest = <<>>
    <3>1. SubSeq(s, m + 1, n) = <<>>
      BY <1>6, <1>10
    <3> QED
      BY <1>7, <3>1
  <2>4. InvalidPair = Abstract!Invalid
    BY DEF InvalidPair, Pair, Abstract!Invalid
  <2>5. Abstract!EnumeratorNext
    BY <1>1, <1>3, <1>8, <2>1, <2>2, <2>3, <2>4 DEF Abstract!EnumeratorNext, Abstract!Calls
  <2> QED
    BY <1>2, <2>5 DEF Abstract!Next, Abstract!Call
<1> QED
  BY <1>9, <1>10

-----------------------------------------------------------------------------
(* Changing integer keys *)

(* t are the pairs s, whose keys have become f of them.                    *)
Renames(f, s, t) == t = [i \in DOMAIN s |-> Pair(f[s[i].key], s[i].value)]

LEMMA RenamedBag ==
    ASSUME NEW s \in Seq(AllPairs), NEW t \in Seq(AllPairs), NEW f, Renames(f, s, t),
           Abstract!Bag = BagOf(s)
    PROVE  BagOf(t) = Abstract!Renamed(f)
<1>1. Abstract!Pairs = DOMAIN BagOf(s) /\ DOMAIN BagOf(s) = {s[i] : i \in DOMAIN s}
  BY DEF Abstract!Pairs, Abstract!BagToSet, BagOf
<1>2. DOMAIN t = DOMAIN s /\ \A i \in DOMAIN s : t[i] = Pair(f[s[i].key], s[i].value)
  BY DEF Renames
<1>3. \A i \in DOMAIN s : s[i] \in AllPairs
  OBVIOUS
<1>4. PICK image : image = {[p EXCEPT !.key = f[p.key]] : p \in Abstract!Pairs}
  OBVIOUS
<1>5. \A p \in AllPairs : [p EXCEPT !.key = f[p.key]] = Pair(f[p.key], p.value)
  BY DEF AllPairs, Pair
<1>6. image = {t[i] : i \in DOMAIN t}
  <2>1. \A p \in Abstract!Pairs : \E i \in DOMAIN t : [p EXCEPT !.key = f[p.key]] = t[i]
    <3> TAKE p \in Abstract!Pairs
    <3>1. PICK i \in DOMAIN s : p = s[i]
      BY <1>1
    <3>2. [p EXCEPT !.key = f[p.key]] = Pair(f[p.key], p.value)
      BY <1>3, <1>5, <3>1
    <3> QED
      BY <1>2, <3>1, <3>2
  <2>2. \A i \in DOMAIN t : \E p \in Abstract!Pairs : [p EXCEPT !.key = f[p.key]] = t[i]
    <3> TAKE i \in DOMAIN t
    <3>1. PICK p \in Abstract!Pairs : p = s[i]
      BY <1>1, <1>2
    <3>2. p \in AllPairs
      BY <1>2, <1>3, <3>1
    <3>3. [p EXCEPT !.key = f[p.key]] = Pair(f[p.key], p.value)
      BY <1>5, <3>2
    <3> QED
      BY <1>2, <3>1, <3>3
  <2> DEFINE g(p) == [p EXCEPT !.key = f[p.key]]
  <2>3. image = {g(p) : p \in Abstract!Pairs}
    BY <1>4
  <2>4. /\ \A p \in Abstract!Pairs : \E i \in DOMAIN t : g(p) = t[i]
        /\ \A i \in DOMAIN t : \E p \in Abstract!Pairs : g(p) = t[i]
    BY <2>1, <2>2
  <2> HIDE DEF g
  <2> QED
    BY <2>3, <2>4
<1>7. \A p \in image : Cardinality({i \in DOMAIN t : t[i] = p})
                       = Abstract!Total(Abstract!Bag, {q \in Abstract!Pairs : f[q.key] = p.key /\ q.value = p.value})
  <2> TAKE p \in image
  <2>1. PICK A : A = {q \in AllPairs : f[q.key] = p.key /\ q.value = p.value}
    OBVIOUS
  <2>2. PICK P : P = {q \in DOMAIN BagOf(s) : q \in A}
    OBVIOUS
  <2>3. Abstract!Total(BagOf(s), P) = Cardinality({i \in DOMAIN s : s[i] \in A})
    BY <2>2, TotalWhere
  <2>4. P = {q \in Abstract!Pairs : f[q.key] = p.key /\ q.value = p.value}
    BY <1>1, <1>3, <2>1, <2>2
  <2>5. PICK n \in DOMAIN t : p = t[n]
    BY <1>6
  <2>6. p = Pair(f[s[n].key], s[n].value)
    BY <1>2, <2>5
  <2>7. \A x, y : Pair(x, y) = p <=> x = p.key /\ y = p.value
    BY <2>6 DEF Pair
  <2>8. \A i \in DOMAIN s : t[i] = p <=> s[i] \in A
    <3> TAKE i \in DOMAIN s
    <3>1. t[i] = Pair(f[s[i].key], s[i].value)
      BY <1>2
    <3>2. t[i] = p <=> f[s[i].key] = p.key /\ s[i].value = p.value
      BY <2>7, <3>1
    <3> QED
      BY <1>3, <2>1, <3>2
  <2>9. {i \in DOMAIN t : t[i] = p} = {i \in DOMAIN s : s[i] \in A}
    BY <1>2, <2>8
  <2> QED
    BY <2>3, <2>4, <2>9
<1>8. Abstract!Renamed(f) = [p \in image |-> Abstract!Total(Abstract!Bag,
          {q \in Abstract!Pairs : f[q.key] = p.key /\ q.value = p.value})]
  BY <1>4 DEF Abstract!Renamed
<1>9. BagOf(t) = [p \in image |-> Cardinality({i \in DOMAIN t : t[i] = p})]
  BY <1>6 DEF BagOf
<1> QED
  BY <1>7, <1>8, <1>9

LEMMA RekeyedTurns ==
    ASSUME OInv, kind = "intptr", NEW id \in Live, NEW a, Sorts(id, a), call'[2] = id,
           NEW t, InBounds([a EXCEPT !.pairs = t]), NEW f, Renames(f, a.pairs, t),
           Change(id, Unsorted([a EXCEPT !.pairs = t]), refs)
    PROVE  Abstract!Becomes(Abstract!Renamed(f)) /\ kind' = kind
<1>1. /\ Fit(a) /\ IsAssoc(a) /\ a.pairs \in Seq(AllPairs) /\ BagOf(a.pairs) = Contents[id]
      /\ a.compare = assocs[id].compare
  BY FitFacts, LiveAt DEF Sorts
<1>2. /\ t = [i \in DOMAIN a.pairs |-> t[i]] /\ DOMAIN t = DOMAIN a.pairs
      /\ \A i \in DOMAIN a.pairs : t[i] = a.pairs[i] \/ \E k : t[i] = Pair(k, a.pairs[i].value)
  BY DEF Renames
<1>3. t \in Seq(Pairs)
  <2>1. \A i \in DOMAIN t : t[i].key \in Intptr
    BY <1>1 DEF InBounds, IsAssoc
  <2>2. \A i \in DOMAIN t : t[i] = Pair(f[a.pairs[i].key], a.pairs[i].value)
    BY DEF Renames
  <2>3. \A i \in DOMAIN t : t[i] \in Pairs
    <3> TAKE i \in DOMAIN t
    <3>1. t[i] = [key |-> f[a.pairs[i].key], value |-> a.pairs[i].value]
      BY <2>2 DEF Pair
    <3>2. a.pairs[i].value \in Value
      <4>1. a.pairs[i] \in AllPairs
        BY <1>1, <1>2
      <4> QED
        BY <4>1 DEF AllPairs
    <3>3. t[i].key \in Key
      BY <2>1 DEF Key
    <3> QED
      BY <3>1, <3>2, <3>3 DEF Pairs
  <2>4. DOMAIN t = 1 .. Len(a.pairs) /\ Len(a.pairs) \in Nat
    BY <1>1, <1>2
  <2>5. t \in [1 .. Len(a.pairs) -> Pairs]
    BY <1>2, <2>3, <2>4
  <2> QED
    BY <2>4, <2>5, NumberedIsSeq
<1>4. PICK b : b = [a EXCEPT !.pairs = t]
  OBVIOUS
<1>5. PICK c : c = Unsorted(b)
  OBVIOUS
<1>6. Fit(c) /\ c.pairs = t /\ c.compare = assocs[id].compare
  <2>1. b.pairs = t /\ b.compare = a.compare /\ b.size = a.size
    BY <1>1, <1>4 DEF IsAssoc
  <2>2. Len(t) = Len(a.pairs)
    <3>1. DOMAIN t = 1 .. Len(t) /\ DOMAIN a.pairs = 1 .. Len(a.pairs) /\ Len(t) \in Nat /\ Len(a.pairs) \in Nat
      BY <1>1, <1>3
    <3>2. PICK l \in Nat, m \in Nat : l = Len(t) /\ m = Len(a.pairs)
      BY <3>1
    <3>3. 1 .. l = 1 .. m
      BY <1>2, <3>1, <3>2
    <3>4. (l = 0 \/ l \in 1 .. m) /\ (m = 0 \/ m \in 1 .. l)
      BY <3>3
    <3> QED
      BY <3>2, <3>4
  <2>3. IsAssoc(b)
    BY <1>1, <1>3, <1>4, NewPairs
  <2>4. FitsIn(b)
    BY <1>1, <2>1, <2>2, <2>3, FitFacts DEF FitsIn
  <2>5. c.compare = b.compare
    BY <1>5, <2>3 DEF IsAssoc, Unsorted
  <2> QED
    BY <1>1, <1>5, <2>1, <2>4, <2>5, UnsortedFits
<1>7. t \in Seq(AllPairs)
  BY <1>3, PairsAll
<1>8. PICK d : d = BagOf(t)
  OBVIOUS
<1>9. Turns(id, d)
  <2>1. Fit(c) /\ Change(id, c, refs)
    BY <1>4, <1>5, <1>6
  <2>2. d = BagOf(c.pairs)
    BY <1>6, <1>8
  <2> QED
    BY <1>6, <2>1, <2>2, ChangeTurns
<1>10. Abstract!Becomes(d) /\ Abstract!Self = id /\ kind' = kind
  BY <1>9, TurnsBecomes
<1>11. Abstract!Bag = BagOf(a.pairs)
  BY <1>1, <1>10 DEF Abstract!Bag
<1>12. BagOf(t) = Abstract!Renamed(f)
  BY <1>1, <1>7, <1>11, RenamedBag
<1> QED
  BY <1>8, <1>10, <1>12

(* Sorted integer keys ascend, if their order does.                        *)
LEMMA KeysAscend ==
    ASSUME OInv, kind = "intptr", NEW id \in Live, NEW a, Sorts(id, a), Ascending(id),
           NEW i \in DOMAIN a.pairs, NEW j \in DOMAIN a.pairs, i <= j
    PROVE  a.pairs[i].key \in Int /\ a.pairs[j].key \in Int /\ a.pairs[i].key <= a.pairs[j].key
<1>1. PICK s, rank : s = a.pairs /\ rank = Order[Compares[id]]
  OBVIOUS
<1>2. /\ s \in Seq(Pairs) /\ InOrder(s, rank) /\ Ranked(s, rank) /\ DOMAIN s = 1 .. Len(s) /\ Len(s) \in Nat
      /\ Rank(id) = rank
  BY <1>1, LiveAt DEF Sorts, Rank
<1>3. PICK k \in Intptr, l \in Intptr : k = s[i].key /\ l = s[j].key
  <2>1. s[i] \in Pairs /\ s[j] \in Pairs
    BY <1>1, <1>2
  <2>2. s[i].key \in Intptr /\ s[j].key \in Intptr
    BY <2>1 DEF Pairs, Key
  <2> QED
    BY <2>2
<1>4. k \in Int /\ l \in Int
  BY AssocAssumption
<1>5. rank[s[i].key] <= rank[s[j].key]
  BY <1>1, <1>2, InOrderMonotone
<1>6. rank[s[i].key] \in Int /\ rank[s[j].key] \in Int
  BY <1>1, <1>2 DEF Ranked
<1>7. l < k => rank[l] < rank[k]
  BY <1>2 DEF Ascending
<1>8. ~ (l < k)
  BY <1>3, <1>5, <1>6, <1>7
<1> QED
  BY <1>1, <1>3, <1>4, <1>8

(* where the loop over the keys starts                                     *)
LEMMA FirstKey ==
    ASSUME OInv, kind = "intptr", NEW id \in Live, NEW a, Sorts(id, a), Ascending(id), NEW k \in Key,
           NEW start, start = FindCallback(a.pairs, k, Whole(id), Class)
    PROVE  /\ start # NotFound <=> \E n \in DOMAIN a.pairs : Class[a.pairs[n].key] = Class[k]
           /\ start # NotFound => /\ start \in 0 .. Len(a.pairs) - 1
                                  /\ a.pairs[start + 1].key = k
                                  /\ \A i \in DOMAIN a.pairs : i > start <=> a.pairs[i].key >= k
<1>1. PICK s : s = a.pairs
  OBVIOUS
<1>2. s \in Seq(Pairs) /\ Len(s) \in Nat /\ DOMAIN s = 1 .. Len(s) /\ Whole(id) = Make(0, Len(s))
  BY <1>1 DEF Sorts, Whole, Count, PairCount
<1>3. PICK T : T = {i \in 0 .. Len(s) - 1 : Class[s[i + 1].key] = Class[k]}
  OBVIOUS
<1>4. start = FirstHit(T)
  <2>1. PICK r : r = Whole(id)
    OBVIOUS
  <2>2. r.location = 0 /\ r.length = Len(s)
    BY <1>2, <2>1 DEF Make
  <2>3. T = HitsOf(s, k, r)
    BY <1>2, <1>3, <2>2 DEF HitsOf
  <2>4. FindCallback(s, k, r, Class) = FirstHit(HitsOf(s, k, r))
    BY FindIs
  <2> QED
    BY <1>1, <2>1, <2>3, <2>4
<1>5. T \subseteq Nat
  BY <1>2, <1>3
<1>6. IF T = {} THEN start = NotFound
      ELSE start \in T /\ (\A j \in T : start <= j) /\ start # NotFound
  BY <1>4, <1>5, FirstHitIs, PairArrayAssumption
<1>7. T # {} <=> \E n \in DOMAIN s : Class[s[n].key] = Class[k]
  <2>1. ASSUME NEW i \in T PROVE i + 1 \in DOMAIN s /\ Class[s[i + 1].key] = Class[k]
    BY <1>2, <1>3
  <2>2. ASSUME NEW n \in DOMAIN s, Class[s[n].key] = Class[k] PROVE T # {}
    <3>1. PICK i : i = n - 1
      OBVIOUS
    <3>2. i \in 0 .. Len(s) - 1 /\ i + 1 = n
      BY <1>2, <3>1
    <3>3. i \in T
      BY <1>3, <2>2, <3>2
    <3> QED
      BY <3>3
  <2> QED
    BY <2>1, <2>2
<1>8. ASSUME start # NotFound
      PROVE  /\ start \in 0 .. Len(s) - 1 /\ s[start + 1].key = k
             /\ \A i \in DOMAIN s : i > start <=> s[i].key >= k
  <2>1. start \in T /\ \A j \in T : start <= j
    BY <1>6, <1>8
  <2>2. start \in 0 .. Len(s) - 1 /\ Class[s[start + 1].key] = Class[k]
    BY <1>3, <2>1
  <2>3. PICK m : m = start + 1
    OBVIOUS
  <2>4. m \in DOMAIN s /\ Class[s[m].key] = Class[k]
    BY <1>2, <2>2, <2>3
  <2>5. \A n \in DOMAIN s : s[n].key \in Key
    <3>1. \A n \in DOMAIN s : s[n] \in Pairs
      BY <1>2
    <3> QED
      BY <3>1 DEF Pairs
  <2>6. \A n \in DOMAIN s : (Class[s[n].key] = Class[k] <=> s[n].key = k) /\ s[n].key \in Int
    <3>1. k \in Intptr /\ \A n \in DOMAIN s : s[n].key \in Intptr
      BY <2>5 DEF Key
    <3> QED
      BY <3>1, AssocAssumption
  <2>7. s[m].key = k /\ k \in Int
    BY <2>4, <2>6
  <2>8. ASSUME NEW i \in DOMAIN s PROVE i > start <=> s[i].key >= k
    <3>1. i \in 1 .. Len(s) /\ m \in 1 .. Len(s) /\ s[i].key \in Int
      BY <1>2, <2>4, <2>6
    <3>2. CASE i > start
      <4>1. m <= i
        BY <2>2, <2>3, <3>1, <3>2
      <4>2. s[m].key <= s[i].key
        BY <1>1, <2>4, <4>1, KeysAscend
      <4> QED
        BY <2>7, <3>1, <3>2, <4>2
    <3>3. CASE ~ (i > start)
      <4>1. i <= m /\ i - 1 \in 0 .. Len(s) - 1 /\ ~ (start <= i - 1) /\ (i - 1) + 1 = i
        BY <1>2, <2>2, <2>3, <3>1, <3>3
      <4>2. s[i].key <= s[m].key
        BY <1>1, <2>4, <4>1, KeysAscend
      <4>3. s[i].key # k
        <5>1. PICK j : j = i - 1
          OBVIOUS
        <5>2. j \in 0 .. Len(s) - 1 /\ j + 1 = i /\ j \notin T
          BY <2>1, <4>1, <5>1
        <5>3. Class[s[i].key] # Class[k]
          BY <1>3, <5>2
        <5> QED
          BY <2>6, <5>3
      <4> QED
        BY <2>7, <3>1, <3>3, <4>2, <4>3
    <3> QED
      BY <3>2, <3>3
  <2> QED
    BY <2>2, <2>3, <2>7, <2>8
<1> QED
  BY <1>1, <1>6, <1>7, <1>8

(* The loop over the keys sees those from the first one up to where it     *)
(* stops.                                                                  *)
LEMMA LoopSees ==
    ASSUME OInv, kind = "intptr", NEW id \in Live, NEW a, Sorts(id, a), Ascending(id), NEW k \in Key,
           NEW start, start = FindCallback(a.pairs, k, Whole(id), Class), start # NotFound,
           NEW stop \in Int, NEW i \in DOMAIN a.pairs
    PROVE  /\ i > start /\ (\A j \in start + 1 .. i : a.pairs[j].key < stop)
                 <=> k <= a.pairs[i].key /\ a.pairs[i].key < stop
           /\ a.pairs[i].key \in Int /\ k \in Int
<1>1. PICK s : s = a.pairs
  OBVIOUS
<1>2. s \in Seq(Pairs) /\ Len(s) \in Nat /\ DOMAIN s = 1 .. Len(s)
  BY <1>1 DEF Sorts
<1>3. start \in 0 .. Len(s) - 1 /\ \A n \in DOMAIN s : n > start <=> s[n].key >= k
  BY <1>1, FirstKey
<1>4. \A n \in DOMAIN s : s[n].key \in Int
  BY <1>1, KeysAscend, <1>2
<1>5. k \in Int
  BY AssocAssumption DEF Key
<1>6. i \in 1 .. Len(s) /\ s[i].key \in Int
  BY <1>1, <1>2, <1>4
<1>7. ASSUME i > start, \A j \in start + 1 .. i : s[j].key < stop
      PROVE  s[i].key < stop
  <2>1. i \in start + 1 .. i
    BY <1>3, <1>6, <1>7
  <2> QED
    BY <1>7, <2>1
<1>8. ASSUME i > start, s[i].key < stop, NEW j \in start + 1 .. i
      PROVE  s[j].key < stop
  <2>1. j \in 1 .. Len(s) /\ j <= i
    BY <1>3, <1>6, <1>8
  <2>2. j \in DOMAIN s /\ s[j].key \in Int
    BY <1>2, <1>4, <2>1
  <2>3. s[j].key <= s[i].key
    BY <1>1, <2>1, <2>2, KeysAscend
  <2> QED
    BY <1>6, <1>8, <2>2, <2>3
<1>9. i > start <=> k <= s[i].key
  <2>1. i > start <=> s[i].key >= k
    BY <1>1, <1>3
  <2> QED
    BY <1>5, <1>6, <2>1
<1> QED
  BY <1>1, <1>5, <1>6, <1>7, <1>8, <1>9

(* t are the pairs s, but those the loop sees have another key.            *)
Rekeys(s, t, k, stop, f) ==
    /\ DOMAIN t = DOMAIN s /\ t = [i \in DOMAIN s |-> t[i]]
    /\ \A i \in DOMAIN s :
          t[i] = IF k <= s[i].key /\ s[i].key < stop THEN Pair(f[s[i].key], s[i].value) ELSE s[i]

LEMMA RekeysRenames ==
    ASSUME NEW s \in Seq(AllPairs), NEW t, NEW k, NEW stop, NEW f, Rekeys(s, t, k, stop, f),
           \A i \in DOMAIN s : ~ (k <= s[i].key /\ s[i].key < stop) => f[s[i].key] = s[i].key
    PROVE  Renames(f, s, t)
<1>1. \A i \in DOMAIN s : s[i] \in AllPairs
  OBVIOUS
<1>2. \A p \in AllPairs : p = Pair(p.key, p.value)
  BY DEF AllPairs, Pair
<1>3. \A i \in DOMAIN s : t[i] = Pair(f[s[i].key], s[i].value)
  <2> TAKE i \in DOMAIN s
  <2>1. CASE k <= s[i].key /\ s[i].key < stop
    BY <2>1 DEF Rekeys
  <2>2. CASE ~ (k <= s[i].key /\ s[i].key < stop)
    <3>1. t[i] = s[i] /\ f[s[i].key] = s[i].key
      BY <2>2 DEF Rekeys
    <3> QED
      BY <1>1, <1>2, <3>1
  <2> QED
    BY <2>1, <2>2
<1> QED
  BY <1>3 DEF Rekeys, Renames

(* what a range of keys is validated to                                    *)
LEMMA KeysFit ==
    ASSUME OInv, NEW id \in Live, call'[2] = id, NEW l \in Intptr \cap Nat, NEW n \in 1 .. 2,
           NEW r, r = Validated(Make(l, n), Count(id))
    PROVE  /\ Abstract!Fits(Make(l, n)) => r = Make(l, n) /\ r.location = l /\ r.length = n
           /\ ~ Abstract!Fits(Make(l, n)) => r.length = 0
           /\ Make(l, n).location = l /\ Make(l, n).length = n
           /\ l \in Nat /\ n \in {1, 2} /\ (kind = "intptr" => l \in Key)
<1>1. Count(id) \in Nat /\ Abstract!Size = Count(id)
  BY BagNow DEF Count, PairCount
<1>2. l \in Nat /\ n \in {1, 2} /\ Make(l, n).location = l /\ Make(l, n).length = n
  BY DEF Make
<1>3. Abstract!Fits(Make(l, n)) <=> l + n <= Count(id)
  BY <1>1, <1>2 DEF Abstract!Fits
<1>4. r = IF l + n <= Count(id) THEN Make(l, n) ELSE Make(0, 0)
  BY <1>1, <1>2 DEF Validated, All
<1>5. Make(0, 0).length = 0
  BY DEF Make
<1> QED
  BY <1>2, <1>3, <1>4, <1>5 DEF Key

LEMMA RemapRefines ==
    ASSUME OInv, kind = "intptr", NEW id \in Live, NEW l \in Intptr \cap Nat, NEW n \in 1 .. 2,
           NEW offset \in Int, Remap(id, Make(l, n), offset),
           call' = <<"remap", id, Make(l, n), offset>>
    PROVE  Abstract!Next
<1>1. call'[1] = "remap" /\ call'[2] = id /\ call'[3] = Make(l, n) /\ call'[4] = offset
  OBVIOUS
<1>2. /\ Abstract!Self = id /\ Abstract!Arg = Make(l, n) /\ Abstract!Other = offset
      /\ Abstract!Calls({"remap"})
  BY <1>1 DEF Abstract!Self, Abstract!Arg, Abstract!Other, Abstract!Calls
<1> DEFINE r        == Validated(Make(l, n), Count(id))
           start(a) == FindCallback(a.pairs, r.location, Whole(id), Class)
           moved(a) == Rekeyed(a, start(a), LAMBDA k : k < 0 \/ k >= r.location + r.length,
                               LAMBDA k : k + offset)
<1>9. /\ Ascending(id)
      /\ IF r.length = 0 THEN Answer(id, assocs[id], None)
         ELSE \E a \in QsortIfNeeded(id) :
            IF start(a) = NotFound THEN Answer(id, a, None)
            ELSE InBounds(moved(a)) /\ Change(id, Unsorted(moved(a)), refs)
  BY DEF Remap
<1>12. Ascending(id)
  BY <1>9
<1>3. r = Validated(Make(l, n), Count(id))
  OBVIOUS
<1> HIDE DEF r
<1>4. /\ Abstract!Fits(Make(l, n)) => r.location = l /\ r.length = n
      /\ ~ Abstract!Fits(Make(l, n)) => r.length = 0
      /\ Make(l, n).location = l /\ Make(l, n).length = n
      /\ l \in Nat /\ n \in {1, 2} /\ l \in Key
  BY <1>1, <1>3, KeysFit
<1>5. PICK F : F = [k \in {p.key : p \in Abstract!Pairs} |->
                       IF Abstract!Within(Make(l, n), k) THEN k + offset ELSE k]
  OBVIOUS
<1>6. PICK can \in BOOLEAN : can <=> (Abstract!Fits(Make(l, n)) /\ n > 0 /\ Abstract!With(l) # {})
  OBVIOUS
<1>7. ASSUME IF can THEN Abstract!Becomes(Abstract!Renamed(F))
             ELSE ret' = None /\ UNCHANGED <<Contents, Compares, Rest>>,
             kind' = kind
      PROVE  Abstract!Next
  <2>1. Abstract!Remap
    BY <1>2, <1>4, <1>5, <1>6, <1>7 DEF Abstract!Remap
  <2> QED
    BY <1>7, <2>1 DEF Abstract!Next, Abstract!Call
<1>8. ASSUME Replies(None), ~ can
      PROVE  Abstract!Next
  <2>1. Abstract!Answers({None}) /\ kind' = kind
    BY <1>8, RepliesAnswers
  <2> QED
    BY <1>7, <1>8, <2>1 DEF Abstract!Answers
<1>10. CASE r.length = 0
  <2>1. Answer(id, assocs[id], None)
    BY <1>9, <1>10
  <2>2. Replies(None)
    BY <2>1, ReadReplies
  <2>3. ~ can
    BY <1>4, <1>6, <1>10
  <2> QED
    BY <1>8, <2>2, <2>3
<1>11. CASE r.length # 0
  <2>1. PICK a \in QsortIfNeeded(id) :
            IF start(a) = NotFound THEN Answer(id, a, None)
            ELSE InBounds(moved(a)) /\ Change(id, Unsorted(moved(a)), refs)
    BY <1>9, <1>11
  <2>2. Abstract!Fits(Make(l, n)) /\ r.location = l /\ r.length = n
    BY <1>4, <1>11
  <2>3. Sorts(id, a)
    BY SortsIt
  <2>4. PICK s : s = a.pairs
    OBVIOUS
  <2>5. s \in Seq(AllPairs) /\ BagOf(s) = Contents[id] /\ s \in Seq(Pairs)
    BY <2>3, <2>4, LiveAt DEF Sorts
  <2>6. PICK at : at = FindCallback(s, l, Whole(id), Class)
    OBVIOUS
  <2>7. at = start(a)
    BY <2>2, <2>4, <2>6
  <2>11. at = FindCallback(a.pairs, l, Whole(id), Class)
    BY <2>4, <2>6
  <2>12. l \in Key /\ l \in Nat /\ n \in Nat
    BY <1>4
  <2>8. at # NotFound <=> Abstract!With(l) # {}
    <3>1. at # NotFound <=> \E m \in DOMAIN a.pairs : Class[a.pairs[m].key] = Class[l]
      BY <1>12, <2>3, <2>11, <2>12, FirstKey
    <3>2. Abstract!With(l) = {} <=> ~ \E m \in DOMAIN s : Class[s[m].key] = Class[l]
      BY <1>1, <2>5, WithKey
    <3> QED
      BY <2>4, <3>1, <3>2
  <2>9. CASE at = NotFound
    <3>1. Answer(id, a, None)
      BY <2>1, <2>7, <2>9
    <3>2. Replies(None)
      BY <2>3, <3>1, AnswerReplies
    <3>3. ~ can
      BY <1>6, <2>8, <2>9
    <3> QED
      BY <1>8, <3>2, <3>3
  <2>10. CASE at # NotFound
    <3>1. can
      BY <1>4, <1>6, <2>2, <2>8, <2>10
    <3>2. InBounds(moved(a)) /\ Change(id, Unsorted(moved(a)), refs)
      BY <2>1, <2>7, <2>10
    <3>3. PICK t : t = moved(a).pairs
      OBVIOUS
    <3>4. /\ moved(a) = [a EXCEPT !.pairs = t]
          /\ t = [i \in DOMAIN s |->
                     IF i > at /\ \A j \in at + 1 .. i : ~ (s[j].key < 0 \/ s[j].key >= l + n)
                     THEN Pair(s[i].key + offset, s[i].value) ELSE s[i]]
      <4>1. IsAssoc(a)
        BY <2>3, FitFacts DEF Sorts
      <4> QED
        BY <2>2, <2>4, <2>7, <3>3, <4>1 DEF Rekeyed, IsAssoc
    <3>5. Rekeys(s, t, l, l + n, F)
      <4>1. DOMAIN t = DOMAIN s /\ t = [i \in DOMAIN s |-> t[i]]
        BY <3>4
      <4>2. ASSUME NEW i \in DOMAIN s
            PROVE  t[i] = IF l <= s[i].key /\ s[i].key < l + n
                          THEN Pair(F[s[i].key], s[i].value) ELSE s[i]
        <5>1. /\ i > at /\ (\A j \in at + 1 .. i : s[j].key < l + n)
                    <=> l <= s[i].key /\ s[i].key < l + n
              /\ s[i].key \in Int
          <6>1. PICK stop \in Int : stop = l + n
            BY <2>12
          <6>2. i \in DOMAIN a.pairs
            BY <2>4
          <6>3. /\ i > at /\ (\A j \in at + 1 .. i : a.pairs[j].key < stop)
                    <=> l <= a.pairs[i].key /\ a.pairs[i].key < stop
                /\ a.pairs[i].key \in Int
            BY <1>12, <2>3, <2>10, <2>11, <2>12, <6>2, LoopSees
          <6> QED
            BY <2>4, <6>1, <6>3
        <5>2. ASSUME i > at
              PROVE  \A j \in at + 1 .. i :
                         s[j].key < l + n <=> ~ (s[j].key < 0 \/ s[j].key >= l + n)
          <6>1. at \in 0 .. Len(s) - 1 /\ \A j \in DOMAIN s : j > at <=> s[j].key >= l
            BY <1>12, <2>3, <2>4, <2>10, <2>11, <2>12, FirstKey
          <6>2. DOMAIN s = 1 .. Len(s) /\ Len(s) \in Nat
            BY <2>5
          <6>3. \A j \in at + 1 .. i : j \in DOMAIN s /\ j > at
            BY <6>1, <6>2
          <6>5. \A j \in at + 1 .. i : s[j].key >= l
            BY <6>1, <6>3
          <6>4. \A j \in DOMAIN s : s[j].key \in Int
            <7>1. \A j \in DOMAIN a.pairs : j <= j
              BY <2>4, <6>2
            <7> QED
              BY <1>12, <2>3, <2>4, <7>1, KeysAscend
          <6> QED
            BY <1>4, <6>3, <6>4, <6>5
        <5>3. s[i].key \in {p.key : p \in Abstract!Pairs}
          <6>1. s[i] \in Abstract!Pairs
            BY <1>1, <2>5, BagNow, LiveAt, <1>2 DEF Abstract!Pairs, Abstract!Bag, Abstract!BagToSet, BagOf
          <6> QED
            BY <6>1
        <5>4. l <= s[i].key /\ s[i].key < l + n => F[s[i].key] = s[i].key + offset
          BY <1>4, <1>5, <5>3 DEF Abstract!Within
        <5> QED
          BY <3>4, <5>1, <5>2, <5>4
      <4> QED
        BY <4>1, <4>2 DEF Rekeys
    <3>6. \A i \in DOMAIN s : ~ (l <= s[i].key /\ s[i].key < l + n) => F[s[i].key] = s[i].key
      <4>1. \A i \in DOMAIN s : s[i] \in Abstract!Pairs
        BY <1>1, <2>5, BagNow, LiveAt, <1>2 DEF Abstract!Pairs, Abstract!Bag, Abstract!BagToSet, BagOf
      <4>2. \A i \in DOMAIN s : s[i].key \in {p.key : p \in Abstract!Pairs}
        BY <4>1
      <4> QED
        BY <1>4, <1>5, <4>2 DEF Abstract!Within
    <3>7. Renames(F, s, t)
      BY <2>5, <3>5, <3>6, RekeysRenames
    <3>8. Abstract!Becomes(Abstract!Renamed(F)) /\ kind' = kind
      <4>1. InBounds([a EXCEPT !.pairs = t]) /\ Change(id, Unsorted([a EXCEPT !.pairs = t]), refs)
        BY <3>2, <3>4
      <4> QED
        BY <1>1, <2>3, <2>4, <3>7, <4>1, RekeyedTurns
    <3> QED
      BY <1>7, <3>1, <3>8
  <2> QED
    BY <2>9, <2>10
<1> QED
  BY <1>10, <1>11

(* Where the key k ends up, if n keys from l on move to an index.  A       *)
(* negative index ends the loop at once.                                   *)
Moved(l, n, to, k) ==
    IF to < 0 THEN k
    ELSE IF (l <= k /\ k < l + n) \/ (to > l /\ k = to + 1) THEN k + (to - l)
    ELSE IF to <= k /\ k < l THEN k + n
    ELSE IF l + n <= k /\ k <= to THEN k - n
    ELSE k

LEMMA MovedDown ==
    ASSUME NEW l \in Nat, NEW n \in Nat, NEW to \in Nat, to < l, NEW k \in Int
    PROVE  Moved(l, n, to, k) = IF to <= k /\ k < l + n
                                THEN IF to <= k /\ k < l THEN k + n ELSE k + (to - l)
                                ELSE k
BY DEF Moved

LEMMA MovedUp ==
    ASSUME NEW l \in Nat, NEW n \in Nat, NEW to \in Nat, l + n <= to, n > 0, NEW k \in Int
    PROVE  Moved(l, n, to, k) = IF l <= k /\ k < to + 2
                                THEN IF l + n <= k /\ k < to + 1 THEN k - n ELSE k + (to - l)
                                ELSE k
BY DEF Moved

(* the step of the abstract bag, once it is known whether the keys move    *)
MoveGuard(l, n, to) ==
    /\ Abstract!Fits(Make(l, n)) /\ n > 0 /\ ~ (l <= to /\ to < l + n)
    /\ Abstract!With(IF to < l THEN to ELSE l) # {}

MovedKeys(l, n, to) == [k \in {p.key : p \in Abstract!Pairs} |-> Moved(l, n, to, k)]

LEMMA MoveSteps ==
    ASSUME NEW id, NEW l, NEW n, NEW to, call' = <<"move", id, Make(l, n), to>>, kind' = kind,
           IF MoveGuard(l, n, to) THEN Abstract!Becomes(Abstract!Renamed(MovedKeys(l, n, to)))
           ELSE ret' = None /\ UNCHANGED <<Contents, Compares, Rest>>
    PROVE  Abstract!Next
<1>1. call'[1] = "move" /\ call'[2] = id /\ call'[3] = Make(l, n) /\ call'[4] = to
  OBVIOUS
<1>2. /\ Abstract!Self = id /\ Abstract!Arg = Make(l, n) /\ Abstract!Other = to
      /\ Abstract!Calls({"move"})
  BY <1>1 DEF Abstract!Self, Abstract!Arg, Abstract!Other, Abstract!Calls
<1>3. Make(l, n).location = l /\ Make(l, n).length = n
  BY DEF Make
<1>4. \A k : Abstract!Within(Make(l, n), k) <=> l <= k /\ k < l + n
  BY <1>3 DEF Abstract!Within
<1>5. MovedKeys(l, n, to) = [k \in {p.key : p \in Abstract!Pairs} |->
                    IF to < 0 THEN k
                    ELSE IF Abstract!Within(Make(l, n), k) \/ (to > l /\ k = to + 1)
                    THEN k + (to - l)
                    ELSE IF to <= k /\ k < l THEN k + n
                    ELSE IF l + n <= k /\ k <= to THEN k - n
                    ELSE k]
  BY <1>4 DEF MovedKeys, Moved
<1>6. Abstract!Move
  BY <1>2, <1>3, <1>4, <1>5 DEF Abstract!Move, MoveGuard
<1> QED
  BY <1>6 DEF Abstract!Next, Abstract!Call

LEMMA MoveToRefines ==
    ASSUME OInv, kind = "intptr", NEW id \in Live, NEW l \in Intptr \cap Nat, NEW n \in 1 .. 2,
           NEW to \in Intptr, MoveTo(id, Make(l, n), to),
           call' = <<"move", id, Make(l, n), to>>
    PROVE  Abstract!Next
<1>1. call'[2] = id
  OBVIOUS
<1> DEFINE r        == Validated(Make(l, n), Count(id))
           offset   == to - r.location
           down     == offset < 0
           away     == IF down THEN Make(to, r.location - to)
                       ELSE Make(r.location + r.length, to + 1 - (r.location + r.length))
           by       == IF down THEN r.length ELSE - r.length
           end      == IF down THEN r.location + r.length - 1 ELSE to + 1
           first    == IF down THEN to ELSE r.location
           start(a) == FindCallback(a.pairs, first, Whole(id), Class)
           moved(a) == Rekeyed(a, start(a), LAMBDA k : k < 0 \/ k > end,
                               LAMBDA k : IF Contains(away, k) THEN k + by ELSE k + offset)
<1>2. /\ Ascending(id)
      /\ IF r.length = 0 \/ Contains(r, to) THEN Answer(id, assocs[id], None)
         ELSE \E a \in QsortIfNeeded(id) :
            IF start(a) = NotFound THEN Answer(id, a, None)
            ELSE InBounds(moved(a)) /\ Change(id, Unsorted(moved(a)), refs)
  BY DEF MoveTo
<1>3. Ascending(id)
  BY <1>2
<1>4. r = Validated(Make(l, n), Count(id))
  OBVIOUS
<1> HIDE DEF r
<1>5. /\ Abstract!Fits(Make(l, n)) => r.location = l /\ r.length = n
      /\ ~ Abstract!Fits(Make(l, n)) => r.length = 0
      /\ l \in Nat /\ n \in {1, 2} /\ l \in Key
  BY <1>1, <1>4, KeysFit
<1>6. n \in Nat /\ n > 0 /\ to \in Int /\ to \in Key /\ l \in Nat
  BY <1>5, AssocAssumption DEF Key
<1>7. MoveGuard(l, n, to) \in BOOLEAN
  BY DEF MoveGuard
<1>8. ASSUME Replies(None), ~ MoveGuard(l, n, to)
      PROVE  Abstract!Next
  <2>1. Abstract!Answers({None}) /\ kind' = kind
    BY <1>8, RepliesAnswers
  <2>2. ret' = None /\ UNCHANGED <<Contents, Compares, Rest>>
    BY <2>1 DEF Abstract!Answers
  <2> QED
    BY <1>8, <2>1, <2>2, MoveSteps
<1>9. CASE r.length = 0 \/ Contains(r, to)
  <2>1. Answer(id, assocs[id], None)
    BY <1>2, <1>9
  <2>2. Replies(None)
    BY <2>1, ReadReplies
  <2>3. ~ MoveGuard(l, n, to)
    BY <1>5, <1>9 DEF MoveGuard, Contains
  <2> QED
    BY <1>8, <2>2, <2>3
<1>10. CASE ~ (r.length = 0 \/ Contains(r, to))
  <2>1. PICK a \in QsortIfNeeded(id) :
            IF start(a) = NotFound THEN Answer(id, a, None)
            ELSE InBounds(moved(a)) /\ Change(id, Unsorted(moved(a)), refs)
    BY <1>2, <1>10
  <2>2. Abstract!Fits(Make(l, n)) /\ r.location = l /\ r.length = n
    BY <1>5, <1>10
  <2>3. ~ (l <= to /\ to < l + n)
    BY <1>10, <2>2 DEF Contains
  <2>4. Sorts(id, a)
    BY SortsIt
  <2>5. PICK s : s = a.pairs
    OBVIOUS
  <2>6. s \in Seq(AllPairs) /\ BagOf(s) = Contents[id] /\ s \in Seq(Pairs)
    BY <2>4, <2>5, LiveAt DEF Sorts
  <2>7. PICK k \in Key : k = IF to < l THEN to ELSE l
    BY <1>5, <1>6
  <2>8. PICK stop \in Int : stop = IF to < 0 THEN to ELSE IF to < l THEN l + n ELSE to + 2
    BY <1>6
  <2>9. offset = to - l /\ (down <=> to < l) /\ first = k
    BY <1>6, <2>2, <2>7
  <2>10. /\ k < 0 => stop = k
         /\ \A x \in Int : 0 <= k /\ k <= x => ((x < 0 \/ x > end) <=> ~ (x < stop))
         /\ \A x \in Int : k <= x /\ x < stop
                => (IF Contains(away, x) THEN x + by ELSE x + offset) = Moved(l, n, to, x)
         /\ \A x \in Int : ~ (k <= x /\ x < stop) => Moved(l, n, to, x) = x
    <3>1. CASE to < 0
      <4>1. k = to /\ stop = to
        BY <1>6, <2>7, <2>8, <3>1
      <4>2. \A x \in Int : Moved(l, n, to, x) = x
        BY <3>1 DEF Moved
      <4>3. \A x \in Int : ~ (k <= x /\ x < stop)
        BY <1>6, <4>1
      <4>4. ~ (0 <= k)
        BY <1>6, <3>1, <4>1
      <4> HIDE DEF away, by, end, offset, down, first
      <4> QED
        BY <4>1, <4>2, <4>3, <4>4
    <3>2. CASE ~ (to < 0) /\ to < l
      <4>1. k = to /\ stop = l + n /\ to \in Nat
        BY <1>6, <2>7, <2>8, <3>2
      <4>2. away = Make(to, l - to) /\ by = n /\ end = l + n - 1
        BY <2>2, <2>9, <3>2
      <4>3. away.location = to /\ away.length = l - to
        BY <4>2 DEF Make
      <4>4. \A x \in Int : Contains(away, x) <=> to <= x /\ x < l
        BY <1>6, <4>3 DEF Contains
      <4>5. \A x \in Int : 0 <= k /\ k <= x => ((x < 0 \/ x > end) <=> ~ (x < stop))
        BY <1>6, <4>1, <4>2
      <4> HIDE DEF away, by, end, offset, down, first
      <4> QED
        BY <1>6, <2>9, <3>2, <4>1, <4>2, <4>4, <4>5, MovedDown
    <3>3. CASE ~ (to < l)
      <4>1. k = l /\ stop = to + 2 /\ l + n <= to /\ to \in Nat
        BY <1>6, <2>3, <2>7, <2>8, <3>3
      <4>2. away = Make(l + n, to + 1 - (l + n)) /\ by = - n /\ end = to + 1
        BY <2>2, <2>9, <3>3
      <4>3. away.location = l + n /\ away.length = to + 1 - (l + n)
        BY <4>2 DEF Make
      <4>4. \A x \in Int : Contains(away, x) <=> l + n <= x /\ x < to + 1
        BY <1>6, <4>3 DEF Contains
      <4>5. \A x \in Int : 0 <= k /\ k <= x => ((x < 0 \/ x > end) <=> ~ (x < stop))
        BY <1>6, <4>1, <4>2
      <4>6. \A x \in Int : x + by = x - n
        BY <1>6, <4>2
      <4> HIDE DEF away, by, end, offset, down, first
      <4>7. \A x \in Int :
               Moved(l, n, to, x) = IF l <= x /\ x < to + 2
                                    THEN IF l + n <= x /\ x < to + 1 THEN x - n ELSE x + (to - l)
                                    ELSE x
        BY <1>6, <4>1, MovedUp
      <4>8. ASSUME NEW x \in Int, k <= x, x < stop
            PROVE  (IF Contains(away, x) THEN x + by ELSE x + offset) = Moved(l, n, to, x)
        <5>1. Moved(l, n, to, x) = IF l + n <= x /\ x < to + 1 THEN x - n ELSE x + (to - l)
          BY <4>1, <4>7, <4>8
        <5>2. x + by = x - n /\ (Contains(away, x) <=> l + n <= x /\ x < to + 1)
              /\ x + offset = x + (to - l)
          BY <2>9, <4>4, <4>6
        <5> QED
          BY <5>1, <5>2
      <4>9. ASSUME NEW x \in Int, ~ (k <= x /\ x < stop)
            PROVE  Moved(l, n, to, x) = x
        BY <4>1, <4>7, <4>9
      <4>10. ~ (k < 0)
        BY <1>6, <4>1
      <4> QED
        BY <4>5, <4>8, <4>9, <4>10
    <3> QED
      BY <3>1, <3>2, <3>3
  <2>11. PICK at : at = FindCallback(a.pairs, k, Whole(id), Class)
    OBVIOUS
  <2>12. at = start(a)
    BY <2>9, <2>11
  <2>13. at # NotFound <=> Abstract!With(k) # {}
    <3>1. at # NotFound <=> \E m \in DOMAIN a.pairs : Class[a.pairs[m].key] = Class[k]
      BY <1>3, <2>4, <2>11, FirstKey
    <3>2. Abstract!With(k) = {} <=> ~ \E m \in DOMAIN s : Class[s[m].key] = Class[k]
      BY <1>1, <2>6, WithKey
    <3> QED
      BY <2>5, <3>1, <3>2
  <2>14. MoveGuard(l, n, to) <=> Abstract!With(k) # {}
    BY <1>6, <2>2, <2>3, <2>7 DEF MoveGuard
  <2>15. CASE at = NotFound
    <3>1. Answer(id, a, None)
      BY <2>1, <2>12, <2>15
    <3>2. Replies(None)
      BY <2>4, <3>1, AnswerReplies
    <3>3. ~ MoveGuard(l, n, to)
      BY <2>13, <2>14, <2>15
    <3> QED
      BY <1>8, <3>2, <3>3
  <2>16. CASE at # NotFound
    <3>1. MoveGuard(l, n, to)
      BY <2>13, <2>14, <2>16
    <3>2. InBounds(moved(a)) /\ Change(id, Unsorted(moved(a)), refs)
      BY <2>1, <2>12, <2>16
    <3>3. PICK t : t = moved(a).pairs
      OBVIOUS
    <3> HIDE DEF away, by, end, offset, down, first
    <3>4. /\ moved(a) = [a EXCEPT !.pairs = t]
          /\ t = [i \in DOMAIN s |->
                     IF i > at /\ \A j \in at + 1 .. i : ~ (s[j].key < 0 \/ s[j].key > end)
                     THEN Pair(IF Contains(away, s[i].key) THEN s[i].key + by
                               ELSE s[i].key + offset, s[i].value)
                     ELSE s[i]]
      <4>1. IsAssoc(a)
        BY <2>4, FitFacts DEF Sorts
      <4> QED
        BY <2>5, <2>12, <3>3, <4>1 DEF Rekeyed, IsAssoc
    <3>5. \A j \in DOMAIN s : s[j].key \in Int /\ s[j].key \in {p.key : p \in Abstract!Pairs}
      <4>1. DOMAIN s = 1 .. Len(s) /\ Len(s) \in Nat
        BY <2>6
      <4>2. \A j \in DOMAIN a.pairs : j <= j
        BY <2>5, <4>1
      <4>3. \A j \in DOMAIN s : s[j].key \in Int
        BY <1>3, <2>4, <2>5, <4>2, KeysAscend
      <4>4. Abstract!Self = id
        BY <1>1 DEF Abstract!Self
      <4>5. \A j \in DOMAIN s : s[j] \in Abstract!Pairs
        BY <2>6, <4>4 DEF Abstract!Pairs, Abstract!Bag, Abstract!BagToSet, BagOf
      <4> QED
        BY <4>3, <4>5
    <3> DEFINE F == MovedKeys(l, n, to)
    <3>6. \A j \in DOMAIN s : F[s[j].key] = Moved(l, n, to, s[j].key)
      BY <3>5 DEF MovedKeys
    <3> HIDE DEF F
    <3>7. Rekeys(s, t, k, stop, F)
      <4>1. DOMAIN t = DOMAIN s /\ t = [i \in DOMAIN s |-> t[i]]
        BY <3>4
      <4>2. ASSUME NEW i \in DOMAIN s
            PROVE  t[i] = IF k <= s[i].key /\ s[i].key < stop
                          THEN Pair(F[s[i].key], s[i].value) ELSE s[i]
        <5>1. /\ i > at /\ (\A j \in at + 1 .. i : s[j].key < stop)
                    <=> k <= s[i].key /\ s[i].key < stop
          <6>1. i \in DOMAIN a.pairs
            BY <2>5
          <6>2. /\ i > at /\ (\A j \in at + 1 .. i : a.pairs[j].key < stop)
                    <=> k <= a.pairs[i].key /\ a.pairs[i].key < stop
            BY <1>3, <2>4, <2>11, <2>16, <6>1, LoopSees
          <6> QED
            BY <2>5, <6>2
        <5>2. ASSUME i > at
              PROVE  (\A j \in at + 1 .. i : s[j].key < stop)
                        <=> \A j \in at + 1 .. i : ~ (s[j].key < 0 \/ s[j].key > end)
          <6>1. /\ at \in 0 .. Len(s) - 1 /\ s[at + 1].key = k
                /\ \A j \in DOMAIN s : j > at <=> s[j].key >= k
            BY <1>3, <2>4, <2>5, <2>11, <2>16, FirstKey
          <6>2. DOMAIN s = 1 .. Len(s) /\ Len(s) \in Nat /\ k \in Int
            BY <1>6, <2>6, <2>7
          <6>3. \A j \in at + 1 .. i : j \in DOMAIN s /\ j > at
            BY <6>1, <6>2
          <6>4. CASE 0 <= k
            <7>1. \A j \in at + 1 .. i : s[j].key \in Int /\ k <= s[j].key
              BY <3>5, <6>1, <6>2, <6>3
            <7> QED
              BY <2>10, <6>4, <7>1
          <6>5. CASE ~ (0 <= k)
            <7>1. at + 1 \in at + 1 .. i
              BY <5>2, <6>1, <6>2
            <7>2. ~ (s[at + 1].key < stop) /\ s[at + 1].key < 0
              BY <2>10, <6>1, <6>2, <6>5
            <7> QED
              BY <7>1, <7>2
          <6> QED
            BY <6>4, <6>5
        <5>3. k <= s[i].key /\ s[i].key < stop
                 => F[s[i].key] = IF Contains(away, s[i].key) THEN s[i].key + by
                                  ELSE s[i].key + offset
          BY <2>10, <3>5, <3>6
        <5>4. t[i] = IF i > at /\ \A j \in at + 1 .. i : ~ (s[j].key < 0 \/ s[j].key > end)
                     THEN Pair(IF Contains(away, s[i].key) THEN s[i].key + by
                               ELSE s[i].key + offset, s[i].value)
                     ELSE s[i]
          BY <3>4
        <5> QED
          BY <5>1, <5>2, <5>3, <5>4
      <4> QED
        BY <4>1, <4>2 DEF Rekeys
    <3>8. \A i \in DOMAIN s : ~ (k <= s[i].key /\ s[i].key < stop) => F[s[i].key] = s[i].key
      BY <2>10, <3>5, <3>6
    <3>9. Renames(F, s, t)
      BY <2>6, <3>7, <3>8, RekeysRenames
    <3>10. Abstract!Becomes(Abstract!Renamed(F)) /\ kind' = kind
      <4>1. InBounds([a EXCEPT !.pairs = t]) /\ Change(id, Unsorted([a EXCEPT !.pairs = t]), refs)
        BY <3>2, <3>4
      <4> QED
        BY <1>1, <2>4, <2>5, <3>9, <4>1, RekeyedTurns
    <3> QED
      BY <3>1, <3>10, MoveSteps DEF F
  <2> QED
    BY <2>15, <2>16
<1> QED
  BY <1>9, <1>10

-----------------------------------------------------------------------------
(* The specification *)

(* what most functions are in the end                                      *)
Acts(id) ==
    \/ \E a, rs : Change(id, a, rs)
    \/ \E a \in QsortIfNeeded(id) \cup {assocs[id]} : \E result : Answer(id, a, result)

LEMMA ActsSafe ==
    ASSUME OInv, NEW id \in Live, Acts(id)
    PROVE  RoverSafe
BY ChangeSafe, AnswerSafe DEF Acts

LEMMA ChangesAct ==
    ASSUME NEW id, NEW k, NEW v, NEW r, NEW other, NEW c, NEW i,
           \/ DoneAssoc(id) \/ ResetAssoc(id) \/ SetCompare(id, c)
           \/ AddKey(id, k, v) \/ AddKeyGuaranteed(id, k, v)
           \/ SetKey(id, k, v) \/ SetAtIndex(id, i, k, v)
           \/ AddAssocRange(id, other, r) \/ RemoveInRange(id, r) \/ RemoveLast(id)
    PROVE  \E a, rs : Change(id, a, rs)
<1>1. CASE DoneAssoc(id)
  BY <1>1 DEF DoneAssoc
<1>2. CASE ResetAssoc(id)
  BY <1>2 DEF ResetAssoc
<1>3. CASE SetCompare(id, c)
  BY <1>3 DEF SetCompare
<1>4. CASE AddKey(id, k, v)
  BY <1>4 DEF AddKey
<1>5. CASE AddKeyGuaranteed(id, k, v)
  BY <1>5 DEF AddKeyGuaranteed
<1>6. CASE SetKey(id, k, v)
  BY <1>6, Zenon DEF SetKey
<1>7. CASE SetAtIndex(id, i, k, v)
  BY <1>7, Zenon DEF SetAtIndex
<1>8. CASE AddAssocRange(id, other, r)
  BY <1>8, Zenon DEF AddAssocRange
<1>9. CASE RemoveInRange(id, r)
  BY <1>9 DEF RemoveInRange, RemoveRange
<1>10. CASE RemoveLast(id)
  BY <1>10 DEF RemoveLast
<1> QED
  BY <1>1, <1>2, <1>3, <1>4, <1>5, <1>6, <1>7, <1>8, <1>9, <1>10

LEMMA AnswersAct ==
    ASSUME NEW id, NEW k, NEW r, NEW i,
           \/ GetKey(id, k) \/ FindKey(id, k) \/ FindKeyByCompare(id, k) \/ Member(id, k)
           \/ FindInRange(id, k, r) \/ GetAtIndex(id, i) \/ GetLast(id) \/ GetInRange(id, r)
    PROVE  \E a \in QsortIfNeeded(id) \cup {assocs[id]} : \E result : Answer(id, a, result)
<1>1. \/ \E result : Answer(id, assocs[id], result)
      \/ \E a \in QsortIfNeeded(id) : \E result : Answer(id, a, result)
  BY DEF GetKey, FindKey, FindKeyByCompare, Member, FindInRange, GetAtIndex, GetLast, GetInRange
<1> QED
  BY <1>1

LEMMA RemoveKeyActs ==
    ASSUME NEW id, NEW k, RemoveKey(id, k)
    PROVE  Acts(id)
<1>1. \E a \in QsortIfNeeded(id) :
         \/ Answer(id, a, None)
         \/ \E r : RemoveRange(id, a, r)
  BY Zenon DEF RemoveKey
<1>2. \A a, r : RemoveRange(id, a, r) => \E b, rs : Change(id, b, rs)
  BY DEF RemoveRange
<1> QED
  BY <1>1, <1>2 DEF Acts

LEMMA RemapActs ==
    ASSUME NEW id, NEW range, NEW offset, Remap(id, range, offset)
    PROVE  Acts(id)
<1>1. \/ Answer(id, assocs[id], None)
      \/ \E a \in QsortIfNeeded(id) : Answer(id, a, None) \/ \E b : Change(id, b, refs)
  BY Zenon DEF Remap
<1> QED
  BY <1>1 DEF Acts

LEMMA MoveToActs ==
    ASSUME NEW id, NEW range, NEW index, MoveTo(id, range, index)
    PROVE  Acts(id)
<1>1. \/ Answer(id, assocs[id], None)
      \/ \E a \in QsortIfNeeded(id) : Answer(id, a, None) \/ \E b : Change(id, b, refs)
  BY Zenon DEF MoveTo
<1> QED
  BY <1>1 DEF Acts

LEMMA CreationSafe ==
    ASSUME OInv, NEW id \in Id, NEW n, NEW c, NEW other, InitAssoc(id, n, c) \/ CopyAssoc(id, other)
    PROVE  RoverSafe
<1>1. assocs[id] = None /\ rover' = rover /\ \E a : Put(id, a)
  BY Zenon DEF InitAssoc, CopyAssoc
<1> QED
  BY <1>1, PutSafe

LEMMA RInitInv == Init => RInv
BY DEF Init, RInv

LEMMA RNextInv == OInv /\ RInv /\ [Next]_vars => RInv'
<1> SUFFICES ASSUME OInv, RInv, [Next]_vars
             PROVE  RInv'
  OBVIOUS
<1>1. ASSUME NEW id \in Id, NEW n \in Capacities, NEW c \in DOMAIN Order, InitAssoc(id, n, c)
      PROVE  RInv'
  BY <1>1, CreationSafe, SafeRInv
<1>2. ASSUME NEW id \in Id, NEW other \in Live, CopyAssoc(id, other)
      PROVE  RInv'
  BY <1>2, CreationSafe, SafeRInv
<1>3. ASSUME NEW id \in Live,
             \E k, v, r, other, c, i :
               \/ DoneAssoc(id) \/ ResetAssoc(id) \/ SetCompare(id, c)
               \/ AddKey(id, k, v) \/ AddKeyGuaranteed(id, k, v)
               \/ SetKey(id, k, v) \/ SetAtIndex(id, i, k, v)
               \/ AddAssocRange(id, other, r) \/ RemoveInRange(id, r) \/ RemoveLast(id)
      PROVE  RInv'
  <2>1. \E a, rs : Change(id, a, rs)
    BY <1>3, ChangesAct
  <2> QED
    BY <2>1, ActsSafe, SafeRInv DEF Acts
<1>4. ASSUME NEW id \in Live,
             \E k, r, i :
               \/ GetKey(id, k) \/ FindKey(id, k) \/ FindKeyByCompare(id, k) \/ Member(id, k)
               \/ FindInRange(id, k, r) \/ GetAtIndex(id, i) \/ GetLast(id) \/ GetInRange(id, r)
      PROVE  RInv'
  <2>1. \E a \in QsortIfNeeded(id) \cup {assocs[id]} : \E result : Answer(id, a, result)
    BY <1>4, AnswersAct
  <2> QED
    BY <2>1, ActsSafe, SafeRInv DEF Acts
<1>5. ASSUME NEW id \in Live,
             \/ \E k : RemoveKey(id, k)
             \/ \E range, offset : Remap(id, range, offset)
             \/ \E range, index : MoveTo(id, range, index)
      PROVE  RInv'
  <2>1. Acts(id)
    BY <1>5, RemoveKeyActs, RemapActs, MoveToActs
  <2> QED
    BY <2>1, ActsSafe, SafeRInv
<1>6. ASSUME NEW id \in Live, NEW other \in Live, IsEqual(id, other)
      PROVE  RInv'
  BY <1>6, IsEqualSafe, SafeRInv
<1>7. ASSUME NEW id \in Live, Enumerate(id)
      PROVE  RInv'
  BY <1>7, EnumerateRInv
<1>8. CASE EnumeratorNext
  BY <1>8, EnumeratorNextRInv
<1>9. CASE UNCHANGED vars
  <2>1. RoverSafe
    BY <1>9 DEF vars, RoverSafe
  <2> QED
    BY <2>1, SafeRInv
<1> QED
  BY <1>1, <1>2, <1>3, <1>4, <1>5, <1>6, <1>7, <1>8, <1>9 DEF Next

-----------------------------------------------------------------------------

LEMMA InitIsAbstract == Init => Abstract!Init
<1> SUFFICES ASSUME Init PROVE Abstract!Init
  OBVIOUS
<1>1. assocs = [i \in Id |-> None] /\ rover = None /\ ret = None
  BY DEF Init
<1>2. Contents = [i \in Id |-> None]
  BY <1>1 DEF Contents
<1> QED
  BY <1>1, <1>2 DEF Abstract!Init, Rest

LEMMA StutterIsAbstract ==
    ASSUME UNCHANGED vars
    PROVE  UNCHANGED Abstract!vars
<1>1. UNCHANGED <<kind, assocs, refs, rover, ret, call>>
  BY DEF vars
<1>2. Contents' = Contents /\ Compares' = Compares /\ Rest' = Rest
  BY <1>1 DEF Contents, Compares, Rest
<1> QED
  BY <1>1, <1>2 DEF Abstract!vars

LEMMA NextIsAbstract ==
    ASSUME OInv, RInv, Next
    PROVE  Abstract!Next
<1>1. ASSUME NEW id \in Id, NEW n \in Capacities, NEW c \in DOMAIN Order,
             InitAssoc(id, n, c), call' = <<"init", id, c>>
      PROVE  Abstract!Next
  BY <1>1, InitRefines
<1>2. ASSUME NEW id \in Id, NEW other \in Live, CopyAssoc(id, other), call' = <<"copy", id, other>>
      PROVE  Abstract!Next
  BY <1>2, CopyRefines
<1>3. ASSUME NEW id \in Live,
             \/ DoneAssoc(id) /\ call' = <<"done", id>>
             \/ ResetAssoc(id) /\ call' = <<"reset", id>>
             \/ \E c \in DOMAIN Order : SetCompare(id, c) /\ call' = <<"set_compare", id, c>>
      PROVE  Abstract!Next
  BY <1>3, DoneRefines, ResetRefines, SetCompareRefines
<1>4. ASSUME NEW id \in Live, NEW k \in Key, NEW v \in Value,
             \/ AddKey(id, k, v) /\ call' = <<"add", id, k, v>>
             \/ AddKeyGuaranteed(id, k, v) /\ call' = <<"add", id, k, v>>
             \/ SetKey(id, k, v) /\ call' = <<"set", id, k, v>>
             \/ \E i \in Indices(id) :
                   SetAtIndex(id, i, k, v) /\ call' = <<"set_at_index", id, i, Pair(k, v)>>
      PROVE  Abstract!Next
  BY <1>4, AddedRefines, SetKeyRefines, SetAtIndexRefines
<1>5. ASSUME NEW id \in Live, NEW other \in Live, NEW r \in Ranges(other),
             AddAssocRange(id, other, r), call' = <<"add_assoc", id, other, r>>
      PROVE  Abstract!Next
  BY <1>5, AddAssocRangeRefines
<1>6. ASSUME NEW id \in Live,
             \/ \E r \in Ranges(id) : RemoveInRange(id, r) /\ call' = <<"remove_in_range", id, r>>
             \/ \E k \in Key : RemoveKey(id, k) /\ call' = <<"remove", id, k>>
             \/ RemoveLast(id) /\ call' = <<"remove_last", id>>
      PROVE  Abstract!Next
  BY <1>6, RemoveInRangeRefines, RemoveKeyRefines, RemoveLastRefines
<1>7. ASSUME NEW id \in Live, NEW k \in Key,
             \/ GetKey(id, k) /\ call' = <<"get", id, k>>
             \/ FindKey(id, k) /\ call' = <<"find", id, k, Make(0, All)>>
             \/ FindKeyByCompare(id, k) /\ call' = <<"find_compare", id, k>>
             \/ Member(id, k) /\ call' = <<"member", id, k>>
             \/ \E r \in Ranges(id) : FindInRange(id, k, r) /\ call' = <<"find", id, k, r>>
      PROVE  Abstract!Next
  BY <1>7, GetKeyRefines, FindKeyRefines, FindKeyByCompareRefines, MemberRefines,
     FindInRangeRefines
<1>8. ASSUME NEW id \in Live,
             \/ \E i \in Indices(id) : GetAtIndex(id, i) /\ call' = <<"get_at_index", id, i>>
             \/ GetLast(id) /\ call' = <<"get_last", id>>
             \/ \E r \in Ranges(id) : GetInRange(id, r) /\ call' = <<"get_in_range", id, r>>
             \/ \E other \in Live : IsEqual(id, other) /\ call' = <<"is_equal", id, other>>
      PROVE  Abstract!Next
  BY <1>8, GetAtIndexRefines, GetLastRefines, GetInRangeRefines, IsEqualRefines
<1>9. ASSUME NEW id \in Live, kind = "intptr", NEW l \in Intptr \cap Nat, NEW n \in 1 .. 2,
             \/ \E offset \in {-1, 2} :
                   Remap(id, Make(l, n), offset) /\ call' = <<"remap", id, Make(l, n), offset>>
             \/ \E index \in Intptr :
                   MoveTo(id, Make(l, n), index) /\ call' = <<"move", id, Make(l, n), index>>
      PROVE  Abstract!Next
  <2>1. \A offset \in {-1, 2} : offset \in Int
    OBVIOUS
  <2> QED
    BY <1>9, <2>1, RemapRefines, MoveToRefines
<1>10. ASSUME NEW id \in Live, Enumerate(id), call' = <<"enumerate", id>>
       PROVE  Abstract!Next
  BY <1>10, EnumerateRefines
<1>11. CASE EnumeratorNext /\ call' = <<"next">>
  BY <1>11, EnumeratorNextRefines
<1> QED
  BY <1>1, <1>2, <1>3, <1>4, <1>5, <1>6, <1>7, <1>8, <1>9, <1>10, <1>11 DEF Next

LEMMA StepIsAbstract == OInv /\ RInv /\ [Next]_vars => [Abstract!Next]_(Abstract!vars)
BY NextIsAbstract, StutterIsAbstract

(* Whether an assoc sorts or not, whatever order equal keys got, each call *)
(* does to the bag of its pairs what its operation promises, returns what  *)
(* it promises, and disturbs an enumerator only by a change of its assoc.  *)
THEOREM ImplementsPairBag == Spec => RefinesPairBag
<1> QED
  BY OInitInv, ONextInv, RInitInv, RNextInv, InitIsAbstract, StepIsAbstract, PTL
  DEF Spec, RefinesPairBag, Abstract!Spec
=============================================================================
