---------------------------- MODULE Arrays_proofs ----------------------------
(***************************************************************************)
(* Proofs about the arrays.                                                *)
(***************************************************************************)
EXTENDS Arrays, NumberFacts, SequenceTheorems

-----------------------------------------------------------------------------
(* What an operation makes of an array *)

Maybe == Storage \cup {Moved}

(* an array in the middle of an operation                                  *)
Raw == [items : Seq(Item), size : Nat, storage : Maybe, initial : Storage,
        mutations : Nat, freed : SUBSET Maybe]

Fits2(a) == Len(a.items) <= a.size

(* an array between operations                                             *)
Clean(a) ==
    /\ a \in Raw /\ Fits2(a)
    /\ a.storage # Moved /\ a.mutations = 0 /\ a.freed = {}
    /\ a.storage = NULL => a.size = 0
    /\ kind = "structs" => a.initial \in {NULL, a.storage}

(* Whatever the operation does to the storage of a, the one it had is      *)
(* freed if it is given up and is not the one that was lent.               *)
Stays(a, b) == b.storage = a.storage /\ b.initial = a.initial /\ b.size = a.size /\ b.freed = {}
Moves(a, b) ==
    /\ b.storage \in {Moved, NULL} /\ (b.storage = NULL => b.size = 0)
    /\ b.initial = IF kind = "structs" THEN NULL ELSE a.initial
    /\ b.freed \ {NULL, Moved} = IF a.storage = a.initial THEN {} ELSE {a.storage} \ {NULL}

Stage(a, b) ==
    /\ Clean(a) /\ b \in Raw /\ Fits2(b)
    /\ b = a \/ b.mutations > 0
    /\ Stays(a, b) \/ Moves(a, b)

LEMMA Constants ==
    /\ Moved # NULL /\ MinCapacity \in Nat \ {0} /\ NULL \in Storage /\ Moved \notin Storage
    /\ NULL \in Maybe /\ Moved \in Maybe /\ Storage \subseteq Maybe
    /\ Capacities \subseteq Nat /\ LentCapacity \in Nat /\ MaxItems \in Nat
    /\ Id \subseteq Storage /\ NULL \notin Id /\ Moved \notin Id /\ NULL \notin Block /\ Moved \notin Block
    /\ Id \cap Block = {}
BY PointerArrayAssumption, ArrayHeapAssumption, PointerArraysAssumption DEF Storage, Maybe

LEMMA StageSame ==
    ASSUME NEW a, Clean(a)
    PROVE  Stage(a, a)
BY DEF Stage, Stays, Clean

LEMMA StageNumbers ==
    ASSUME NEW a, NEW b, Stage(a, b)
    PROVE  /\ Len(b.items) \in Nat /\ b.size \in Nat /\ Len(b.items) <= b.size
           /\ b.mutations \in Nat /\ b.items \in Seq(Item)
<1>1. b.items \in Seq(Item)
  BY DEF Stage, Raw
<1>2. Len(b.items) \in Nat
  BY <1>1
<1> QED
  BY <1>1, <1>2 DEF Stage, Raw, Fits2

LEMMA BumpFacts ==
    ASSUME NEW b \in Raw
    PROVE  /\ Bump(b) \in Raw /\ Bump(b).items = b.items /\ Bump(b).size = b.size
           /\ Bump(b).storage = b.storage /\ Bump(b).initial = b.initial
           /\ Bump(b).freed = b.freed /\ Bump(b).mutations > 0
BY DEF Bump, Raw

LEMMA StageBump ==
    ASSUME NEW a, NEW b, Stage(a, b)
    PROVE  /\ Stage(a, Bump(b)) /\ Bump(b).items = b.items /\ Bump(b).size = b.size
           /\ Bump(b).mutations > 0
<1> DEFINE c == Bump(b)
<1>1. b \in Raw /\ b.mutations \in Nat
  BY DEF Stage, Raw
<1>2. /\ c \in Raw /\ c.items = b.items /\ c.size = b.size /\ c.storage = b.storage
      /\ c.initial = b.initial /\ c.freed = b.freed /\ c.mutations > 0
  BY <1>1, BumpFacts
<1> HIDE DEF c
<1>3. Stage(a, c)
  BY <1>2 DEF Stage, Fits2, Stays, Moves
<1> QED
  BY <1>2, <1>3 DEF c

(* The items change, and the array knows.                                  *)
LEMMA StageItems ==
    ASSUME NEW a, NEW b, Stage(a, b), NEW s \in Seq(Item), Len(s) <= b.size
    PROVE  /\ Stage(a, Bump([b EXCEPT !.items = s]))
           /\ Bump([b EXCEPT !.items = s]).items = s
           /\ Bump([b EXCEPT !.items = s]).size = b.size
           /\ Bump([b EXCEPT !.items = s]).mutations > 0
<1> DEFINE d == [b EXCEPT !.items = s]
           c == Bump(d)
<1>1. b \in Raw
  BY DEF Stage
<1>4. /\ d \in Raw /\ d.items = s /\ d.size = b.size /\ d.storage = b.storage
      /\ d.initial = b.initial /\ d.freed = b.freed
  BY <1>1 DEF Raw
<1> HIDE DEF d
<1>2. /\ c \in Raw /\ c.items = s /\ c.size = b.size /\ c.storage = b.storage
      /\ c.initial = b.initial /\ c.freed = b.freed /\ c.mutations > 0
  BY <1>4, BumpFacts
<1> HIDE DEF c
<1>3. Stage(a, c)
  BY <1>2 DEF Stage, Fits2, Stays, Moves
<1> QED
  BY <1>2, <1>3 DEF c, d

LEMMA MaxFacts ==
    ASSUME NEW m \in Nat, NEW n \in Nat
    PROVE  Max2(m, n) \in Nat /\ Max2(m, n) >= m /\ Max2(m, n) >= n
BY DEF Max2

LEMMA StageRealloc ==
    ASSUME NEW a, NEW b, Stage(a, b), kind # "structs", NEW n \in Nat, n >= Len(b.items)
    PROVE  /\ Stage(a, Realloc(b, n)) /\ Realloc(b, n).items = b.items
           /\ Realloc(b, n).size >= n /\ Realloc(b, n).size >= 1
<1> DEFINE z == Max2(Pow2Round(n), MinCapacity)
           F == IF b.storage = b.initial THEN b.freed ELSE b.freed \cup {b.storage}
           c == Realloc(b, n)
<1>1. z \in Nat /\ z >= n /\ z >= 1
  <2>1. PICK p \in Nat : p = Pow2Round(n) /\ p >= n /\ p >= 1
    BY RoundFacts
  <2>2. PICK m \in Nat : m = MinCapacity
    BY Constants
  <2> QED
    BY <2>1, <2>2 DEF Max2
<1>2. b \in Raw /\ b.mutations \in Nat /\ b.storage \in Maybe /\ b.freed \in SUBSET Maybe
  BY DEF Stage, Raw
<1>3. F \in SUBSET Maybe
  BY <1>2
<1> DEFINE d == [b EXCEPT !.size = z, !.storage = Moved, !.freed = F]
<1>4. c = Bump(d)
  BY <1>2 DEF Realloc, Raw
<1> HIDE DEF z, F
<1>8. /\ d \in Raw /\ d.items = b.items /\ d.size = z /\ d.storage = Moved
      /\ d.initial = b.initial /\ d.freed = F
  BY <1>1, <1>2, <1>3, Constants DEF Raw
<1> HIDE DEF d
<1>5. /\ c \in Raw /\ c.items = b.items /\ c.size = z /\ c.storage = Moved
      /\ c.initial = b.initial /\ c.freed = F /\ c.mutations > 0
  BY <1>4, <1>8, BumpFacts
<1> HIDE DEF c
<1>6. Moves(a, c)
  <2>1. a.storage # Moved /\ a.initial \in Storage /\ a.storage \in Maybe
    BY DEF Stage, Clean, Raw
  <2>2. CASE Stays(a, b)
    BY <2>1, <2>2, <1>5, Constants DEF Stays, Moves, F
  <2>3. CASE Moves(a, b)
    BY <2>1, <2>3, <1>5, Constants DEF Moves, F
  <2> QED
    BY <2>2, <2>3 DEF Stage
<1>7. Fits2(c)
  <2>1. PICK l \in Nat : l = Len(b.items)
    BY StageNumbers
  <2> QED
    BY <2>1, <1>1, <1>5 DEF Fits2
<1> QED
  BY <1>1, <1>5, <1>6, <1>7 DEF Stage, c

LEMMA StageGuarantee ==
    ASSUME NEW a, NEW b, Stage(a, b), kind # "structs", NEW n \in Nat
    PROVE  /\ Stage(a, Guarantee(b, n)) /\ Guarantee(b, n).items = b.items
           /\ Guarantee(b, n).size >= Len(b.items) + n /\ Guarantee(b, n).size \in Nat
           /\ Guarantee(b, n).mutations > 0
<1>1. PICK l, z : l = Len(b.items) /\ z = b.size /\ l \in Nat /\ z \in Nat /\ l <= z
  BY StageNumbers
<1> DEFINE m == z + (n - (z - l))
           c == IF z - l < n THEN Realloc(b, m) ELSE b
<1>2. Guarantee(b, n) = Bump(c)
  BY <1>1 DEF Guarantee, Count
<1>3. Stage(a, c) /\ c.items = b.items /\ c.size >= l + n
  <2>1. CASE z - l < n
    <3>1. m \in Nat /\ m = l + n /\ m >= Len(b.items)
      <4>1. m = l + n
        BY <1>1
      <4> HIDE DEF m
      <4> QED
        BY <1>1, <4>1
    <3> HIDE DEF m
    <3>2. /\ Stage(a, Realloc(b, m)) /\ Realloc(b, m).items = b.items
          /\ Realloc(b, m).size >= m
      BY <3>1, StageRealloc
    <3> QED
      BY <2>1, <3>1, <3>2
  <2>2. CASE ~ (z - l < n)
    BY <1>1, <2>2
  <2> QED
    BY <2>1, <2>2
<1> HIDE DEF c, m
<1>4. Stage(a, Bump(c)) /\ Bump(c).items = c.items /\ Bump(c).size = c.size /\ Bump(c).mutations > 0
  BY <1>3, StageBump
<1>5. Bump(c).size \in Nat
  BY <1>4, StageNumbers
<1> QED
  BY <1>1, <1>2, <1>3, <1>4, <1>5

LEMMA StageAdvance ==
    ASSUME NEW a, NEW b, Stage(a, b), kind # "structs", NEW ps \in Seq(Item)
    PROVE  /\ Stage(a, Advance(b, ps)) /\ Advance(b, ps).items = b.items \o ps
           /\ Advance(b, ps).mutations > 0
<1> DEFINE c == Guarantee(b, Len(ps))
           s == b.items \o ps
<1>1. PICK n \in Nat : n = Len(ps)
  <2>1. Len(ps) \in Nat
    OBVIOUS
  <2> QED
    BY <2>1
<1>2. Stage(a, c) /\ c.items = b.items /\ c.size >= Len(b.items) + n
  BY <1>1, StageGuarantee
<1>3. b.items \in Seq(Item) /\ Len(b.items) \in Nat
  BY StageNumbers
<1>4. s \in Seq(Item) /\ Len(s) = Len(b.items) + n
  BY <1>1, <1>3
<1>5. Advance(b, ps) = Bump([c EXCEPT !.items = s])
  <2>1. c.items = b.items /\ c \in Raw
    BY <1>2 DEF Stage
  <2> HIDE DEF c
  <2> QED
    BY <2>1 DEF Advance, c, Raw
<1> HIDE DEF s, c
<1>6. Len(s) <= c.size
  BY <1>2, <1>4
<1>7. /\ Stage(a, Bump([c EXCEPT !.items = s])) /\ Bump([c EXCEPT !.items = s]).items = s
      /\ Bump([c EXCEPT !.items = s]).mutations > 0
  BY <1>2, <1>4, <1>6, StageItems
<1> QED
  BY <1>5, <1>7 DEF s

LEMMA StageAddGuaranteed ==
    ASSUME NEW a, NEW b, Stage(a, b), NEW p \in Item, Len(b.items) < b.size
    PROVE  Stage(a, AddGuaranteed(b, p)) /\ AddGuaranteed(b, p).items = Append(b.items, p)
           /\ AddGuaranteed(b, p).size = b.size
<1> DEFINE s == Append(b.items, p)
<1>1. PICK l, z : l = Len(b.items) /\ z = b.size /\ l \in Nat /\ z \in Nat
  BY StageNumbers
<1>2. b.items \in Seq(Item) /\ b \in Raw
  BY DEF Stage, Raw
<1>3. s \in Seq(Item) /\ Len(s) = l + 1
  BY <1>1, <1>2
<1>4. AddGuaranteed(b, p) = Bump([b EXCEPT !.items = s])
  BY <1>2 DEF AddGuaranteed, Raw
<1> HIDE DEF s
<1>5. Len(s) <= b.size
  BY <1>1, <1>3
<1>6. /\ Stage(a, Bump([b EXCEPT !.items = s])) /\ Bump([b EXCEPT !.items = s]).items = s
      /\ Bump([b EXCEPT !.items = s]).size = b.size
  BY <1>3, <1>5, StageItems
<1> QED
  BY <1>4, <1>6 DEF s

LEMMA StageAdd ==
    ASSUME NEW a, NEW b, Stage(a, b), kind # "structs", NEW p \in Item
    PROVE  Stage(a, Add(b, p)) /\ Add(b, p).items = Append(b.items, p)
<1> DEFINE c == IF Count(b) = b.size THEN Grow(b) ELSE b
<1>1. PICK l, z : l = Len(b.items) /\ z = b.size /\ l \in Nat /\ z \in Nat /\ l <= z
  BY StageNumbers
<1>2. Stage(a, c) /\ c.items = b.items /\ Len(c.items) < c.size
  <2>1. CASE l = z
    <3>1. PICK n \in Nat : n = 2 * z /\ n >= l /\ n = 2 * b.size /\ (l > 0 => n > l)
      BY <1>1
    <3>2. c = Realloc(b, n)
      BY <1>1, <2>1, <3>1 DEF Grow, Count
    <3>3. n >= Len(b.items)
      BY <1>1, <3>1
    <3>4. /\ Stage(a, Realloc(b, n)) /\ Realloc(b, n).items = b.items
          /\ Realloc(b, n).size >= n /\ Realloc(b, n).size >= 1
      BY <3>3, StageRealloc
    <3>5. Realloc(b, n).size \in Nat
      BY <3>4, StageNumbers
    <3> HIDE DEF c
    <3> QED
      BY <1>1, <3>1, <3>2, <3>4, <3>5
  <2>2. CASE l # z
    <3>1. c = b /\ l < z
      BY <1>1, <2>2 DEF Count
    <3> HIDE DEF c
    <3> QED
      BY <1>1, <3>1
  <2> QED
    BY <2>1, <2>2
<1>3. Add(b, p) = AddGuaranteed(c, p)
  BY DEF Add
<1> HIDE DEF c
<1>4. Stage(a, AddGuaranteed(c, p)) /\ AddGuaranteed(c, p).items = Append(c.items, p)
  BY <1>2, StageAddGuaranteed
<1> QED
  BY <1>2, <1>3, <1>4

(* A part of the items, or some in another order: what does not need room. *)
LEMMA StageLess ==
    ASSUME NEW a, NEW b, Stage(a, b), NEW s \in Seq(Item), Len(s) <= Len(b.items)
    PROVE  /\ Stage(a, Bump([b EXCEPT !.items = s]))
           /\ Bump([b EXCEPT !.items = s]).items = s
           /\ Bump([b EXCEPT !.items = s]).mutations > 0
<1>1. PICK l, z, n : /\ l = Len(b.items) /\ z = b.size /\ n = Len(s) /\ l \in Nat /\ z \in Nat
                     /\ n \in Nat /\ l <= z
  <2>1. Len(s) \in Nat
    OBVIOUS
  <2> QED
    BY <2>1, StageNumbers
<1>2. Len(s) <= b.size
  BY <1>1
<1> QED
  BY <1>2, StageItems

LEMMA StagePop ==
    ASSUME NEW a, NEW b, Stage(a, b)
    PROVE  /\ Stage(a, Pop(b))
           /\ Pop(b).items = IF b.items = <<>> THEN <<>> ELSE SubSeq(b.items, 1, Len(b.items) - 1)
<1>1. b.items \in Seq(Item) /\ Len(b.items) \in Nat /\ b \in Raw
  BY StageNumbers DEF Stage
<1>2. CASE b.items = <<>>
  BY <1>2 DEF Pop
<1>3. ASSUME b.items # <<>>
      PROVE  Stage(a, Pop(b)) /\ Pop(b).items = SubSeq(b.items, 1, Len(b.items) - 1)
  <2> DEFINE s == SubSeq(b.items, 1, Len(b.items) - 1)
  <2>1. PICK l \in Nat : l = Len(b.items) /\ l > 0
    BY <1>1, <1>3
  <2>2. s \in Seq(Item) /\ Len(s) = l - 1
    BY <1>1, <2>1
  <2>3. Pop(b) = Bump([b EXCEPT !.items = s])
    BY <1>1, <1>3 DEF Pop, Count, Raw
  <2> HIDE DEF s
  <2>4. Len(s) <= Len(b.items)
    BY <2>1, <2>2
  <2>5. Stage(a, Bump([b EXCEPT !.items = s])) /\ Bump([b EXCEPT !.items = s]).items = s
    BY <2>2, <2>4, StageLess
  <2> QED
    BY <2>3, <2>5 DEF s
<1> QED
  BY <1>2, <1>3

LEMMA StageReset ==
    ASSUME NEW a, NEW b, Stage(a, b)
    PROVE  Stage(a, Reset(b)) /\ Reset(b).items = <<>> /\ Reset(b).mutations > 0
<1>1. <<>> \in Seq(Item) /\ Len(<<>>) = 0
  OBVIOUS
<1>2. PICK l \in Nat : l = Len(b.items)
  BY StageNumbers
<1>3. Len(<<>>) <= Len(b.items)
  BY <1>1, <1>2
<1>4. /\ Stage(a, Bump([b EXCEPT !.items = <<>>])) /\ Bump([b EXCEPT !.items = <<>>]).items = <<>>
      /\ Bump([b EXCEPT !.items = <<>>]).mutations > 0
  BY <1>1, <1>3, StageLess
<1> QED
  BY <1>4 DEF Reset

LEMMA StageSet ==
    ASSUME NEW a, NEW b, Stage(a, b), NEW i \in 0 .. Len(b.items) - 1, NEW p \in Item
    PROVE  /\ Stage(a, Set(b, i, p)) /\ Set(b, i, p).items = [b.items EXCEPT ![i + 1] = p]
           /\ i + 1 \in DOMAIN b.items /\ Get(b, i) \in Item
<1> DEFINE s == [b.items EXCEPT ![i + 1] = p]
<1>1. b.items \in Seq(Item) /\ Len(b.items) \in Nat /\ b \in Raw
  BY StageNumbers DEF Stage
<1>2. i + 1 \in 1 .. Len(b.items) /\ DOMAIN b.items = 1 .. Len(b.items)
  BY <1>1
<1>3. s \in Seq(Item) /\ Len(s) = Len(b.items)
  BY <1>1, <1>2, ExceptSeq
<1>4. Set(b, i, p) = Bump([b EXCEPT !.items = s])
  BY <1>1 DEF Set, Raw
<1>5. Get(b, i) \in Item
  BY <1>1, <1>2, ElementOfSeq DEF Get
<1> HIDE DEF s
<1>6. Len(s) <= Len(b.items)
  BY <1>1, <1>3
<1>7. Stage(a, Bump([b EXCEPT !.items = s])) /\ Bump([b EXCEPT !.items = s]).items = s
  BY <1>3, <1>6, StageLess
<1> QED
  BY <1>2, <1>4, <1>5, <1>7 DEF s

-----------------------------------------------------------------------------
(* Ranges, and the parts of the items that they are *)

AnyRange == [location : Nat, length : Nat \cup {All}]

LEMMA ValidatedFacts ==
    ASSUME NEW r \in AnyRange, NEW n \in Nat, NEW v, v = Validated(r, n)
    PROVE  /\ v.location \in Nat /\ v.length \in Nat /\ v.location + v.length <= n
           /\ v \in AnyRange
<1>1. r.location \in Nat /\ r.length \in Nat \cup {-1}
  BY DEF AnyRange, All
<1>2. CASE r.length = All /\ r.location <= n
  BY <1>1, <1>2 DEF Validated, Make, AnyRange
<1>3. CASE r.length # All /\ r.location + r.length <= n
  BY <1>1, <1>3 DEF Validated, Make, AnyRange, All
<1>4. CASE ~ (r.length = All /\ r.location <= n) /\ ~ (r.length # All /\ r.location + r.length <= n)
  BY <1>1, <1>4 DEF Validated, Make, AnyRange
<1> QED
  BY <1>2, <1>3, <1>4

LEMMA IntersectionFacts ==
    ASSUME NEW r \in AnyRange, NEW n \in Nat, NEW v, v = Intersection(r, n)
    PROVE  v.location \in Nat /\ v.length \in Nat /\ v.location + v.length <= n
<1>1. r.location \in Nat /\ r.length \in Nat \cup {-1}
  BY DEF AnyRange, All
<1> QED
  BY <1>1 DEF Intersection, Make, All

LEMMA ConcatFacts ==
    ASSUME NEW S, NEW s \in Seq(S), NEW t \in Seq(S)
    PROVE  s \o t \in Seq(S) /\ Len(s \o t) = Len(s) + Len(t) /\ Len(s) \in Nat /\ Len(t) \in Nat
OBVIOUS

LEMMA PartFacts ==
    ASSUME NEW S, NEW s \in Seq(S), NEW m \in Nat, NEW n \in Nat, m <= n, n <= Len(s)
    PROVE  /\ SubSeq(s, m + 1, n) \in Seq(S) /\ Len(SubSeq(s, m + 1, n)) = n - m
           /\ \A i \in 1 .. n - m : SubSeq(s, m + 1, n)[i] = s[m + i]
<1>1. PICK k \in Nat : k = m + 1
  OBVIOUS
<1>2. Len(s) \in Nat
  OBVIOUS
<1>3. SubSeq(s, k, n) = [i \in 1 .. n - k + 1 |-> s[k + i - 1]]
  OBVIOUS
<1>4. n - k + 1 = n - m /\ n - m \in Nat
  BY <1>1
<1>5. \A i \in 1 .. n - m : k + i - 1 = m + i /\ m + i \in 1 .. Len(s)
  BY <1>1, <1>2
<1>6. SubSeq(s, k, n) = [i \in 1 .. n - m |-> s[m + i]]
  BY <1>3, <1>4, <1>5
<1>7. \A i \in 1 .. n - m : s[m + i] \in S
  BY <1>5, ElementOfSeq
<1> HIDE <1>3
<1> QED
  BY <1>1, <1>4, <1>6, <1>7

LEMMA SliceFacts ==
    ASSUME NEW S, NEW s \in Seq(S), NEW r, r.location \in Nat, r.length \in Nat,
           r.location + r.length <= Len(s)
    PROVE  /\ Slice(s, r) \in Seq(S) /\ Len(Slice(s, r)) = r.length
           /\ \A i \in 1 .. r.length : Slice(s, r)[i] = s[r.location + i]
           /\ Without(s, r) \in Seq(S) /\ Len(Without(s, r)) = Len(s) - r.length
<1>1. PICK l \in Nat, n \in Nat : l = r.location /\ n = r.length
  OBVIOUS
<1>2. PICK z \in Nat : z = Len(s) /\ l + n <= z
  <2>1. Len(s) \in Nat
    OBVIOUS
  <2> QED
    BY <1>1, <2>1
<1>3. PICK x \in Nat : x = l + n /\ l <= x /\ x <= z /\ x - l = n
  BY <1>2
<1>4. SubSeq(s, 1, l) \in Seq(S) /\ Len(SubSeq(s, 1, l)) = l
  <2>1. 0 + 1 = 1 /\ 0 <= l /\ l - 0 = l /\ l <= z
    BY <1>3
  <2> QED
    BY <1>2, <2>1, PartFacts
<1>5. SubSeq(s, x + 1, z) \in Seq(S) /\ Len(SubSeq(s, x + 1, z)) = z - x
  BY <1>2, <1>3, PartFacts
<1>6. /\ SubSeq(s, l + 1, x) \in Seq(S) /\ Len(SubSeq(s, l + 1, x)) = n
      /\ \A i \in 1 .. n : SubSeq(s, l + 1, x)[i] = s[l + i]
  BY <1>2, <1>3, PartFacts
<1>7. Slice(s, r) = SubSeq(s, l + 1, x) /\ Without(s, r) = SubSeq(s, 1, l) \o SubSeq(s, x + 1, z)
  BY <1>1, <1>2, <1>3 DEF Slice, Without
<1>8. /\ Without(s, r) \in Seq(S)
      /\ Len(Without(s, r)) = Len(SubSeq(s, 1, l)) + Len(SubSeq(s, x + 1, z))
  BY <1>4, <1>5, <1>7, ConcatFacts
<1>9. l + (z - x) = z - n
  BY <1>3
<1> QED
  BY <1>1, <1>2, <1>4, <1>5, <1>6, <1>7, <1>8, <1>9

LEMMA WithFacts ==
    ASSUME NEW S, NEW s \in Seq(S), NEW i \in 0 .. Len(s), NEW ps \in Seq(S)
    PROVE  With(s, i, ps) \in Seq(S) /\ Len(With(s, i, ps)) = Len(s) + Len(ps)
<1>1. PICK z \in Nat : z = Len(s) /\ i \in 0 .. z /\ i \in Nat /\ i <= z
  <2>1. Len(s) \in Nat
    OBVIOUS
  <2> QED
    BY <2>1
<1>2. PICK m \in Nat : m = Len(ps)
  BY ConcatFacts
<1>3. SubSeq(s, 1, i) \in Seq(S) /\ Len(SubSeq(s, 1, i)) = i
  <2>1. 0 + 1 = 1 /\ 0 <= i /\ i - 0 = i
    BY <1>1
  <2> QED
    BY <1>1, <2>1, PartFacts
<1>4. SubSeq(s, i + 1, z) \in Seq(S) /\ Len(SubSeq(s, i + 1, z)) = z - i
  BY <1>1, PartFacts
<1>5. PICK u \in Seq(S), v \in Seq(S) : u = SubSeq(s, 1, i) /\ v = SubSeq(s, i + 1, z)
  BY <1>3, <1>4
<1>6. u \o ps \in Seq(S) /\ Len(u \o ps) = Len(u) + Len(ps)
  BY <1>5, ConcatFacts
<1>7. (u \o ps) \o v \in Seq(S) /\ Len((u \o ps) \o v) = Len(u \o ps) + Len(v)
  BY <1>5, <1>6, ConcatFacts
<1>8. With(s, i, ps) = (u \o ps) \o v
  BY <1>1, <1>5 DEF With
<1>9. (i + m) + (z - i) = z + m
  BY <1>1, <1>2
<1> QED
  BY <1>1, <1>2, <1>3, <1>4, <1>5, <1>6, <1>7, <1>8, <1>9

LEMMA StageRemoveInRange ==
    ASSUME NEW a, NEW b, Stage(a, b), NEW r \in AnyRange
    PROVE  /\ Stage(a, RemoveInRange(b, r))
           /\ RemoveInRange(b, r).items
                  = IF Intersection(r, Len(b.items)).length = 0 THEN b.items
                    ELSE Without(b.items, Intersection(r, Len(b.items)))
<1>1. b.items \in Seq(Item) /\ Len(b.items) \in Nat /\ b \in Raw
  BY StageNumbers DEF Stage
<1>2. PICK v : v = Intersection(r, Len(b.items))
  OBVIOUS
<1>3. v.location \in Nat /\ v.length \in Nat /\ v.location + v.length <= Len(b.items)
  BY <1>1, <1>2, IntersectionFacts
<1>4. CASE v.length = 0
  BY <1>2, <1>4 DEF RemoveInRange, Count
<1>5. ASSUME v.length # 0
      PROVE  /\ Stage(a, RemoveInRange(b, r))
             /\ RemoveInRange(b, r).items = Without(b.items, v)
  <2> DEFINE s == Without(b.items, v)
  <2>1. s \in Seq(Item) /\ Len(s) = Len(b.items) - v.length
    BY <1>1, <1>3, SliceFacts
  <2>2. RemoveInRange(b, r) = Bump([b EXCEPT !.items = s])
    BY <1>1, <1>2, <1>5 DEF RemoveInRange, Count, Raw
  <2> HIDE DEF s
  <2>3. Len(s) <= Len(b.items)
    BY <1>1, <1>3, <2>1
  <2>4. Stage(a, Bump([b EXCEPT !.items = s])) /\ Bump([b EXCEPT !.items = s]).items = s
    BY <2>1, <2>3, StageLess
  <2> QED
    BY <2>2, <2>4 DEF s
<1> QED
  BY <1>2, <1>4, <1>5

LEMMA StageInsert ==
    ASSUME NEW a, NEW b, Stage(a, b), kind # "structs", NEW i \in 0 .. Len(b.items),
           NEW ps \in Seq(Item)
    PROVE  /\ Stage(a, InsertInRange(b, i, ps))
           /\ InsertInRange(b, i, ps).items = IF ps = <<>> THEN b.items ELSE With(b.items, i, ps)
<1>1. CASE ps = <<>>
  BY <1>1 DEF InsertInRange
<1>2. ASSUME ps # <<>>
      PROVE  /\ Stage(a, InsertInRange(b, i, ps))
             /\ InsertInRange(b, i, ps).items = With(b.items, i, ps)
  <2>1. PICK l, m, z : /\ l = Len(b.items) /\ m = Len(ps) /\ z = b.size /\ l \in Nat /\ m \in Nat
                       /\ z \in Nat
    <3>1. Len(ps) \in Nat
      OBVIOUS
    <3> QED
      BY <3>1, StageNumbers
  <2>2. PICK n \in Nat : n = l + m /\ n >= l
    <3>1. l \in Nat /\ m \in Nat
      BY <2>1
    <3> HIDE <2>1
    <3> QED
      BY <3>1
  <2>3. PICK p \in Nat : p = Pow2Round(n) /\ p >= n
    BY <2>2, RoundFacts
  <2> DEFINE c == IF n > z THEN Realloc(b, p) ELSE b
             s == With(b.items, i, ps)
  <2>4. s \in Seq(Item) /\ Len(s) = n
    BY <2>1, <2>2, StageNumbers, WithFacts
  <2>5. Stage(a, c) /\ c.items = b.items /\ c.size >= n /\ c.size \in Nat
    <3>1. p >= Len(b.items)
      BY <2>1, <2>2, <2>3
    <3>2. /\ Stage(a, Realloc(b, p)) /\ Realloc(b, p).items = b.items /\ Realloc(b, p).size >= p
      BY <3>1, StageRealloc
    <3>3. Realloc(b, p).size \in Nat
      BY <3>2, StageNumbers
    <3> QED
      BY <2>1, <2>2, <2>3, <3>2, <3>3
  <2>6. InsertInRange(b, i, ps) = Bump([c EXCEPT !.items = s])
    <3>1. c.items = b.items /\ c \in Raw
      BY <2>5 DEF Stage
    <3>2. InsertInRange(b, i, ps) = Bump([c EXCEPT !.items = With(@, i, ps)])
      BY <1>2, <2>1, <2>2, <2>3 DEF InsertInRange, Count
    <3> HIDE DEF c
    <3> QED
      BY <3>1, <3>2 DEF Raw
  <2> HIDE DEF c, s
  <2>7. Len(s) <= c.size
    BY <2>2, <2>4, <2>5
  <2>8. Stage(a, Bump([c EXCEPT !.items = s])) /\ Bump([c EXCEPT !.items = s]).items = s
    BY <2>4, <2>5, <2>7, StageItems
  <2> QED
    BY <2>6, <2>8 DEF s
<1> QED
  BY <1>1, <1>2

(* What range r of the array o holds, behind the items s                   *)
Joined(t, s, o, r) == t = s \o Slice(o.items, Validated(r, Len(o.items)))

LEMMA StageAddPointerarray ==
    ASSUME NEW a, NEW b, Stage(a, b), kind # "structs", NEW o, o.items \in Seq(Item),
           NEW r \in AnyRange, NEW v, v = Validated(r, Len(o.items))
    PROVE  /\ Stage(a, AddPointerarray(b, o, r))
           /\ Joined(AddPointerarray(b, o, r).items, b.items, o, r)
<1>1. Len(o.items) \in Nat /\ b.items \in Seq(Item)
  BY StageNumbers
<1>2. v.location \in Nat /\ v.length \in Nat /\ v.location + v.length <= Len(o.items)
  BY <1>1, ValidatedFacts
<1> DEFINE s == Slice(o.items, v)
<1>3. s \in Seq(Item) /\ Len(s) = v.length
  BY <1>2, SliceFacts
<1>4. AddPointerarray(b, o, r) = IF v.length = 0 THEN b ELSE Bump(Advance(b, s))
  BY DEF AddPointerarray, Count
<1> HIDE DEF s
<1>5. Stage(a, Advance(b, s)) /\ Advance(b, s).items = b.items \o s
  BY <1>3, StageAdvance
<1>6. Stage(a, Bump(Advance(b, s))) /\ Bump(Advance(b, s)).items = Advance(b, s).items
  BY <1>5, StageBump
<1>7. CASE v.length = 0
  <2>1. s = <<>>
    BY <1>3, <1>7
  <2>2. b.items \o s = b.items
    BY <1>1, <2>1, ConcatEmptySeq
  <2> QED
    BY <1>4, <1>7, <2>2 DEF s, Joined
<1>8. CASE v.length # 0
  BY <1>4, <1>5, <1>6, <1>8 DEF s, Joined
<1> QED
  BY <1>7, <1>8

-----------------------------------------------------------------------------
(* Loops *)

LEMMA UpTo ==
    ASSUME NEW n \in Nat, NEW T, 0 \in T, \A k \in 1 .. n : k - 1 \in T => k \in T
    PROVE  \A k \in 0 .. n : k \in T
<1> DEFINE Q == {k \in Nat : k <= n => k \in T}
<1>1. 0 \in Q
  OBVIOUS
<1>2. ASSUME NEW k \in Nat, k \in Q PROVE k + 1 \in Q
  <2>1. k + 1 <= n => k + 1 \in 1 .. n /\ (k + 1) - 1 = k /\ k <= n
    OBVIOUS
  <2> QED
    BY <1>2, <2>1
<1> HIDE DEF Q
<1>3. \A k \in Nat : k \in Q
  BY <1>1, <1>2, Induction
<1> QED
  BY <1>3 DEF Q

-----------------------------------------------------------------------------
(* What is left of a sequence, as SequenceStore puts it *)

(* the places of what is in B                                              *)
Lost(s, B) == {i \in DOMAIN s : s[i] \in B}

(* f picks, in order, the places of s that are kept, and t is what is there *)
Picks(f, n, s, kept, t) ==
    /\ f \in [1 .. n -> kept]
    /\ \A j, k \in 1 .. n : j < k => f[j] < f[k]
    /\ \A i \in kept : \E k \in 1 .. n : f[k] = i
    /\ t = [k \in 1 .. n |-> s[f[k]]]

LEMMA CutByPicks ==
    ASSUME NEW s, NEW gone, NEW t, NEW n \in 0 .. Len(s), NEW f,
           Picks(f, n, s, DOMAIN s \ gone, t)
    PROVE  Abstract!Cut(s, gone, t)
BY DEF Picks, Abstract!Cut

LEMMA SeqFacts ==
    ASSUME NEW S, NEW s \in Seq(S)
    PROVE  \E n \in Nat : n = Len(s) /\ DOMAIN s = 1 .. n /\ s \in [1 .. n -> S]
                            /\ s = [k \in 1 .. n |-> s[k]]
<1>1. Len(s) \in Nat /\ DOMAIN s = 1 .. Len(s) /\ s \in [1 .. Len(s) -> S]
  OBVIOUS
<1> QED
  BY <1>1

(* What lies outside of the sequence takes nothing out of it.              *)
LEMMA CutNothing ==
    ASSUME NEW S, NEW s \in Seq(S), NEW gone, gone \cap DOMAIN s = {}
    PROVE  Abstract!Cut(s, gone, s)
<1>1. PICK n \in Nat : n = Len(s) /\ DOMAIN s = 1 .. n /\ s = [k \in 1 .. n |-> s[k]]
  BY SeqFacts
<1> DEFINE f == [k \in 1 .. n |-> k]
<1>2. DOMAIN s \ gone = 1 .. n
  BY <1>1
<1>3. [k \in 1 .. n |-> s[f[k]]] = [k \in 1 .. n |-> s[k]]
  OBVIOUS
<1>4. Picks(f, n, s, 1 .. n, s)
  BY <1>1, <1>3 DEF Picks
<1>5. n \in 0 .. Len(s)
  BY <1>1
<1> QED
  BY <1>2, <1>4, <1>5, CutByPicks

LEMMA ConcatAt ==
    ASSUME NEW S, NEW u \in Seq(S), NEW w \in Seq(S), NEW l, l = Len(u), NEW z, z = Len(w)
    PROVE  \A k \in 1 .. l + z : (u \o w)[k] = IF k <= l THEN u[k] ELSE w[k - l]
OBVIOUS

(* The items that stay when a range goes.                                  *)
LEMMA WithoutFacts ==
    ASSUME NEW S, NEW s \in Seq(S), NEW n \in Nat, n = Len(s), NEW l \in Nat, NEW m \in Nat,
           l + m <= n, NEW v, v.location = l, v.length = m
    PROVE  /\ Without(s, v) \in Seq(S) /\ Len(Without(s, v)) = n - m
           /\ \A k \in 1 .. n - m : Without(s, v)[k] = s[IF k <= l THEN k ELSE k + m]
<1>1. PICK x \in Nat : x = l + m /\ l <= x /\ x <= n
  OBVIOUS
<1>2. PICK u, w : u = SubSeq(s, 1, l) /\ w = SubSeq(s, x + 1, n)
  OBVIOUS
<1>3. u \in Seq(S) /\ Len(u) = l /\ \A i \in 1 .. l : u[i] = s[i]
  <2>1. 0 + 1 = 1 /\ 0 <= l /\ l - 0 = l /\ l <= n /\ \A i \in 1 .. l : 0 + i = i
    BY <1>1
  <2>2. /\ SubSeq(s, 0 + 1, l) \in Seq(S) /\ Len(SubSeq(s, 0 + 1, l)) = l - 0
        /\ \A i \in 1 .. l - 0 : SubSeq(s, 0 + 1, l)[i] = s[0 + i]
    BY <2>1, PartFacts
  <2> QED
    BY <1>2, <2>1, <2>2
<1>4. w \in Seq(S) /\ Len(w) = n - x /\ \A i \in 1 .. n - x : w[i] = s[x + i]
  BY <1>1, <1>2, PartFacts
<1>5. Without(s, v) = u \o w
  BY <1>1, <1>2 DEF Without
<1>6. PICK z \in Nat : z = n - x
  <2>1. n - x \in Nat
    BY <1>1
  <2> QED
    BY <2>1
<1>10. Len(w) = z /\ n - m = l + z
  <2>1. n - m = l + (n - x)
    BY <1>1
  <2> QED
    BY <1>4, <1>6, <2>1
<1>7. u \o w \in Seq(S) /\ Len(u \o w) = l + z
  <2>1. u \o w \in Seq(S) /\ Len(u \o w) = Len(u) + Len(w)
    BY <1>3, <1>4, ConcatFacts
  <2> QED
    BY <1>3, <1>10, <2>1
<1>8. \A k \in 1 .. l + z : (u \o w)[k] = IF k <= l THEN u[k] ELSE w[k - l]
  <2>1. u \in Seq(S) /\ w \in Seq(S) /\ l = Len(u) /\ z = Len(w)
    BY <1>3, <1>4, <1>10
  <2> QED
    BY <2>1, ConcatAt
<1>9. \A k \in 1 .. l + z : (u \o w)[k] = s[IF k <= l THEN k ELSE k + m]
  <2> SUFFICES ASSUME NEW k \in 1 .. l + z
               PROVE  (u \o w)[k] = s[IF k <= l THEN k ELSE k + m]
    OBVIOUS
  <2>1. CASE k <= l
    BY <1>3, <1>8, <2>1
  <2>2. CASE ~ (k <= l)
    <3>1. k - l \in 1 .. z /\ x + (k - l) = k + m
      BY <1>1, <2>2
    <3>2. w[k - l] = s[x + (k - l)]
      BY <1>4, <1>6, <3>1
    <3> QED
      BY <1>8, <2>2, <3>1, <3>2
  <2> QED
    BY <2>1, <2>2
<1> QED
  BY <1>5, <1>7, <1>9, <1>10

(* what is kept without the places l + 1 .. l + m                           *)
Spared(f, kept, l, m) == {i \in kept : \A k \in l + 1 .. l + m : f[k] # i}

(* picks that agree with f at first                                         *)
PicksLike(f, l, n, s, kept, t) ==
    \E g : Picks(g, n, s, kept, t) /\ \A k \in 1 .. l : g[k] = f[k]

(* A range less.                                                           *)
LEMMA PicksFewer ==
    ASSUME NEW S, NEW s \in Seq(S), NEW kept, kept \subseteq Nat, NEW t \in Seq(S), NEW n \in Nat,
           NEW f, Picks(f, n, s, kept, t), NEW l \in Nat, NEW m \in Nat, l + m <= n, NEW v,
           v.location = l, v.length = m
    PROVE  PicksLike(f, l, n - m, s, Spared(f, kept, l, m), Without(t, v))
<1> DEFINE z == n - m
           g == [k \in 1 .. z |-> IF k <= l THEN f[k] ELSE f[k + m]]
           rest == {i \in kept : \A k \in l + 1 .. l + m : f[k] # i}
           At(k) == IF k <= l THEN k ELSE k + m
<1>1. z \in Nat /\ l <= z
  OBVIOUS
<1>2. \A k \in 1 .. z : /\ At(k) \in 1 .. n /\ At(k) \notin l + 1 .. l + m /\ g[k] = f[At(k)]
                        /\ \A j \in 1 .. z : j < k => At(j) < At(k)
  OBVIOUS
<1>3. \A j, k \in 1 .. n : f[j] = f[k] => j = k
  <2> SUFFICES ASSUME NEW j \in 1 .. n, NEW k \in 1 .. n, f[j] = f[k] PROVE j = k
    OBVIOUS
  <2>1. PICK x \in Nat, y \in Nat : x = f[j] /\ y = f[k]
    BY DEF Picks
  <2>2. j < k => x < y
    BY <2>1 DEF Picks
  <2>3. k < j => y < x
    BY <2>1 DEF Picks
  <2> QED
    BY <2>1, <2>2, <2>3
<1>4. \A k \in 1 .. z : g[k] \in rest
  <2> SUFFICES ASSUME NEW k \in 1 .. z PROVE f[At(k)] \in rest
    BY <1>2
  <2>1. PICK i : i = At(k) /\ i \in 1 .. n /\ i \notin l + 1 .. l + m
    BY <1>2
  <2>2. f[i] \in kept
    BY <2>1 DEF Picks
  <2>3. l + 1 .. l + m \subseteq 1 .. n
    OBVIOUS
  <2> QED
    BY <1>3, <2>1, <2>2, <2>3
<1>5. \A j, k \in 1 .. z : j < k => g[j] < g[k]
  <2> SUFFICES ASSUME NEW j \in 1 .. z, NEW k \in 1 .. z, j < k PROVE f[At(j)] < f[At(k)]
    BY <1>2
  <2> HIDE DEF At
  <2> QED
    BY <1>2 DEF Picks
<1>6. ASSUME NEW i \in rest PROVE \E k \in 1 .. z : g[k] = i
  <2>1. PICK k \in 1 .. n : f[k] = i
    BY DEF Picks
  <2>2. k \notin l + 1 .. l + m
    BY <2>1
  <2>3. CASE k <= l
    BY <1>1, <2>1, <2>3
  <2>4. CASE ~ (k <= l)
    <3>1. PICK j \in Nat : j = k - m /\ j \in 1 .. z /\ ~ (j <= l) /\ j + m = k
      BY <2>2, <2>4
    <3> QED
      BY <2>1, <3>1
  <2> QED
    BY <2>3, <2>4
<1>7. Without(t, v) = [k \in 1 .. z |-> s[g[k]]]
  <2>1. Len(t) = n /\ t = [k \in 1 .. n |-> s[f[k]]]
    BY DEF Picks
  <2>2. PICK x : x = Without(t, v)
    OBVIOUS
  <2>6. n = Len(t)
    BY <2>1
  <2>7. /\ Without(t, v) \in Seq(S) /\ Len(Without(t, v)) = n - m
        /\ \A k \in 1 .. n - m : Without(t, v)[k] = t[IF k <= l THEN k ELSE k + m]
    BY <2>6, WithoutFacts
  <2>3. x \in Seq(S) /\ Len(x) = z /\ \A k \in 1 .. z : x[k] = t[At(k)]
    BY <2>2, <2>7
  <2>4. \A k \in 1 .. z : x[k] = s[g[k]]
    <3> SUFFICES ASSUME NEW k \in 1 .. z PROVE x[k] = s[g[k]]
      OBVIOUS
    <3>1. PICK i \in 1 .. n : i = At(k) /\ g[k] = f[i]
      BY <1>2
    <3>2. x[k] = t[i]
      BY <2>3, <3>1
    <3>3. t[i] = s[f[i]]
      BY <2>1
    <3> QED
      BY <3>1, <3>2, <3>3
  <2>5. x = [k \in 1 .. z |-> x[k]]
    BY <2>3, SeqFacts
  <2> QED
    BY <2>2, <2>4, <2>5
<1>8. g \in [1 .. z -> rest]
  BY <1>4
<1>9. \A k \in 1 .. l : g[k] = f[k]
  BY <1>1
<1> HIDE DEF g, rest
<1> QED
  BY <1>5, <1>6, <1>7, <1>8, <1>9 DEF Picks, rest, Spared, PicksLike

LEMMA PicksOneFewer ==
    ASSUME NEW S, NEW s \in Seq(S), NEW kept, kept \subseteq Nat, NEW t \in Seq(S), NEW n \in Nat,
           NEW f, Picks(f, n, s, kept, t), NEW l \in Nat, l + 1 <= n
    PROVE  PicksLike(f, l, n - 1, s, Spared(f, kept, l, 1), Without(t, Make(l, 1)))
<1>1. PICK e \in Nat : e = 1
  OBVIOUS
<1>4. PICK v : v = Make(l, 1)
  OBVIOUS
<1>2. v.location = l /\ v.length = e /\ l + e <= n
  BY <1>1, <1>4 DEF Make
<1>3. PicksLike(f, l, n - e, s, Spared(f, kept, l, e), Without(t, v))
  BY <1>2, PicksFewer
<1> QED
  BY <1>1, <1>3, <1>4

(* A range goes.                                                           *)
LEMMA CutRange ==
    ASSUME NEW S, NEW s \in Seq(S), NEW n \in Nat, n = Len(s), NEW l \in Nat, NEW m \in Nat,
           l + m <= n, NEW v, v.location = l, v.length = m, NEW gone,
           \A i \in 1 .. n : i \in gone <=> i \in l + 1 .. l + m
    PROVE  Abstract!Cut(s, gone, Without(s, v))
<1> DEFINE f == [k \in 1 .. n |-> k]
           kept == 1 .. n
           less == Spared(f, kept, l, m)
<1>1. DOMAIN s = 1 .. n /\ s = [k \in 1 .. n |-> s[k]]
  BY SeqFacts
<1>2. [k \in 1 .. n |-> s[f[k]]] = [k \in 1 .. n |-> s[k]]
  OBVIOUS
<1>3. Picks(f, n, s, kept, s)
  BY <1>1, <1>2 DEF Picks
<1>4. \A k \in l + 1 .. l + m : f[k] = k
  <2>1. l + 1 .. l + m \subseteq 1 .. n
    OBVIOUS
  <2> QED
    BY <2>1
<1>5. less = DOMAIN s \ gone
  <2>1. \A i \in 1 .. n : i \in less <=> i \notin gone
    <3> SUFFICES ASSUME NEW i \in 1 .. n PROVE i \in less <=> i \notin l + 1 .. l + m
      OBVIOUS
    <3> HIDE DEF f
    <3> QED
      BY <1>4 DEF Spared
  <2>2. less \subseteq 1 .. n
    BY DEF Spared
  <2> HIDE DEF less
  <2> QED
    BY <1>1, <2>1, <2>2
<1>6. kept \subseteq Nat
  OBVIOUS
<1> HIDE DEF f, kept, less
<1>7. PICK g : Picks(g, n - m, s, less, Without(s, v))
  <2>1. PicksLike(f, l, n - m, s, Spared(f, kept, l, m), Without(s, v))
    BY <1>3, <1>6, PicksFewer
  <2> QED
    BY <2>1 DEF less, PicksLike
<1>8. n - m \in 0 .. Len(s)
  OBVIOUS
<1> QED
  BY <1>5, <1>7, <1>8, CutByPicks

(* A loop from the last place to the first takes out what is in B.         *)
Downward(n, B, t) ==
    \A k \in 1 .. n : n - k + 1 <= Len(t[k - 1]) =>
        t[k] = IF t[k - 1][n - k + 1] \in B THEN Without(t[k - 1], Make(n - k, 1)) ELSE t[k - 1]

LEMMA CutDown ==
    ASSUME NEW S, NEW s \in Seq(S), NEW n \in Nat, n = Len(s), NEW B, NEW t, t[0] = s,
           Downward(n, B, t)
    PROVE  Abstract!Cut(s, Lost(s, B), t[n]) /\ t[n] \in Seq(S)
<1> DEFINE Kept(k) == {i \in 1 .. n : i <= n - k \/ s[i] \notin B}
           Done2(k, u, m, f) == /\ Picks(f, m, s, Kept(k), u) /\ \A i \in 1 .. n - k : f[i] = i
                                /\ u \in Seq(S) /\ n - k <= m /\ m <= n
           T == {k \in 0 .. n : \E m \in Nat : \E f : Done2(k, t[k], m, f)}
<1>1. DOMAIN s = 1 .. n /\ s = [k \in 1 .. n |-> s[k]]
  BY SeqFacts
<1>2. 0 \in T
  <2> DEFINE f == [k \in 1 .. n |-> k]
  <2>1. [k \in 1 .. n |-> s[f[k]]] = [k \in 1 .. n |-> s[k]]
    OBVIOUS
  <2>2. Kept(0) = 1 .. n
    OBVIOUS
  <2>3. Picks(f, n, s, Kept(0), s)
    BY <1>1, <2>1, <2>2 DEF Picks
  <2>4. \A i \in 1 .. n - 0 : f[i] = i
    OBVIOUS
  <2> HIDE DEF f, Kept
  <2>5. Done2(0, t[0], n, f)
    BY <2>3, <2>4
  <2> HIDE DEF Done2
  <2> QED
    BY <2>5
<1>3. ASSUME NEW k \in 1 .. n, k - 1 \in T PROVE k \in T
  <2>1. PICK u, x, w : u = t[k - 1] /\ x = n - k + 1 /\ w = t[k]
    OBVIOUS
  <2>11. PICK m \in Nat : \E f : Done2(k - 1, u, m, f)
    BY <1>3, <2>1
  <2>2. PICK f : Done2(k - 1, u, m, f)
    BY <2>11
  <2>3. x \in 1 .. n /\ x = n - (k - 1) /\ x - 1 = n - k /\ x \in Nat /\ x - 1 \in Nat
    BY <2>1
  <2>4. /\ Picks(f, m, s, Kept(k - 1), u) /\ \A i \in 1 .. x : f[i] = i
        /\ u \in Seq(S) /\ x <= m /\ m <= n
    BY <2>2, <2>3
  <2>5. w = IF u[x] \in B THEN Without(u, Make(x - 1, 1)) ELSE u
    <3>1. Len(u) = m
      BY <2>4 DEF Picks
    <3>2. n - k + 1 <= Len(t[k - 1])
      BY <2>1, <2>4, <3>1
    <3> QED
      BY <2>1, <2>3, <3>2 DEF Downward
  <2>6. u[x] = s[x]
    <3>1. x \in 1 .. m /\ f[x] = x
      BY <2>3, <2>4
    <3> HIDE DEF Kept
    <3>2. u = [j \in 1 .. m |-> s[f[j]]]
      BY <2>4 DEF Picks
    <3> QED
      BY <3>1, <3>2
  <2>7. Kept(k) = IF s[x] \in B THEN Kept(k - 1) \ {x} ELSE Kept(k - 1)
    BY <2>3
  <2>8. \A i \in 1 .. n - k : f[i] = i
    BY <2>3, <2>4
  <2>9. CASE s[x] \notin B
    <3>1. Kept(k) = Kept(k - 1) /\ w = u /\ n - k <= m
      BY <2>3, <2>4, <2>5, <2>6, <2>7, <2>9
    <3> HIDE DEF Kept
    <3>2. Done2(k, t[k], m, f)
      BY <2>1, <2>4, <2>8, <3>1
    <3> QED
      BY <3>2
  <2>10. CASE s[x] \in B
    <3> HIDE DEF Kept
    <3>1. PICK l \in Nat : l = x - 1 /\ l + 1 = x /\ l + 1 <= m
      <4>1. x - 1 \in Nat /\ (x - 1) + 1 = x /\ (x - 1) + 1 <= m
        BY <2>3, <2>4
      <4> QED
        BY <4>1
    <3>11. PICK v : v = Make(l, 1)
      OBVIOUS
    <3>2. v.location = l /\ v.length = 1
      BY <3>11 DEF Make
    <3>3. PICK K : K = Kept(k - 1) /\ K \subseteq Nat
      <4>1. Kept(k - 1) \subseteq Nat
        BY DEF Kept
      <4> QED
        BY <4>1
    <3>4. Spared(f, K, l, 1) = Kept(k)
      <4>1. l + 1 .. l + 1 = {x} /\ f[x] = x
        BY <2>3, <2>4, <3>1
      <4> QED
        BY <2>7, <2>10, <3>3, <4>1 DEF Spared
    <3>5. PICK g : /\ Picks(g, m - 1, s, Kept(k), Without(u, v))
                   /\ \A i \in 1 .. l : g[i] = f[i]
      <4>1. Picks(f, m, s, K, u) /\ u \in Seq(S) /\ l + 1 <= m
        BY <2>4, <3>1, <3>3
      <4>2. K \subseteq Nat
        BY <3>3
      <4>3. PicksLike(f, l, m - 1, s, Spared(f, K, l, 1), Without(u, Make(l, 1)))
        BY <4>1, <4>2, PicksOneFewer
      <4> QED
        BY <3>4, <3>11, <4>3 DEF PicksLike
    <3>6. w = Without(u, v)
      BY <2>5, <2>6, <2>10, <3>1, <3>11
    <3>7. \A i \in 1 .. n - k : g[i] = i
      BY <2>3, <2>8, <3>1, <3>5
    <3>8. PICK z \in Nat : z = m - 1 /\ n - k <= z /\ z <= n
      BY <2>3, <2>4, <3>1
    <3>9. w \in Seq(S)
      <4>1. Len(u) = m
        BY <2>4 DEF Picks
      <4> QED
        BY <2>4, <3>1, <3>2, <3>6, <4>1, WithoutFacts
    <3>10. Done2(k, w, z, g)
      BY <3>5, <3>6, <3>7, <3>8, <3>9
    <3> QED
      BY <2>1, <3>10
  <2> QED
    BY <2>9, <2>10
<1> HIDE DEF T
<1>4. \A k \in 0 .. n : k \in T
  BY <1>2, <1>3, UpTo
<1>5. n \in 0 .. n
  OBVIOUS
<1>9. PICK m \in Nat : \E f : Done2(n, t[n], m, f)
  BY <1>4, <1>5 DEF T
<1>6. PICK f : Done2(n, t[n], m, f)
  BY <1>9
<1>7. Kept(n) = DOMAIN s \ Lost(s, B)
  BY <1>1 DEF Lost
<1>8. m \in 0 .. Len(s)
  BY <1>6
<1> HIDE DEF Kept
<1>10. Picks(f, m, s, DOMAIN s \ Lost(s, B), t[n]) /\ t[n] \in Seq(S)
  BY <1>6, <1>7
<1>11. Abstract!Cut(s, Lost(s, B), t[n])
  <2>1. PICK gone, u : gone = Lost(s, B) /\ u = t[n]
    OBVIOUS
  <2>2. Picks(f, m, s, DOMAIN s \ gone, u)
    BY <1>10, <2>1
  <2>3. Abstract!Cut(s, gone, u)
    BY <1>8, <2>2, CutByPicks
  <2> QED
    BY <2>1, <2>3
<1> QED
  BY <1>10, <1>11

(* A loop from the first place to the last appends what is not in B.       *)
LEMMA CutUp ==
    ASSUME NEW S, NEW s \in Seq(S), NEW n \in Nat, n = Len(s), NEW B, NEW t, t[0] = <<>>,
           \A k \in 1 .. n :
              t[k] = IF s[k] \in B THEN t[k - 1] ELSE Append(t[k - 1], s[k])
    PROVE  Abstract!Cut(s, Lost(s, B), t[n])
<1> DEFINE Kept(k) == {i \in 1 .. k : s[i] \notin B}
           Done2(k, u, m, f) == Picks(f, m, s, Kept(k), u) /\ u \in Seq(S) /\ m <= k
           T == {k \in 0 .. n : \E m \in Nat : \E f : Done2(k, t[k], m, f)}
<1>1. DOMAIN s = 1 .. n /\ \A k \in 1 .. n : s[k] \in S
  BY SeqFacts
<1>2. 0 \in T
  <2>1. PICK m \in Nat : m = 0
    OBVIOUS
  <2>5. PICK f : f = [k \in 1 .. m |-> k]
    OBVIOUS
  <2>2. 1 .. m = {} /\ Kept(0) = {} /\ [k \in 1 .. m |-> s[f[k]]] = <<>>
    BY <2>1
  <2>3. Picks(f, m, s, Kept(0), <<>>) /\ m <= 0
    BY <2>1, <2>2, <2>5 DEF Picks
  <2>4. Done2(0, t[0], m, f)
    BY <2>3
  <2> HIDE DEF Done2
  <2> QED
    BY <2>4
<1>3. ASSUME NEW k \in 1 .. n, k - 1 \in T PROVE k \in T
  <2>1. PICK u, w : u = t[k - 1] /\ w = t[k]
    OBVIOUS
  <2>11. PICK m \in Nat : \E f : Done2(k - 1, u, m, f)
    BY <1>3, <2>1
  <2>2. PICK f : Done2(k - 1, u, m, f)
    BY <2>11
  <2>3. Picks(f, m, s, Kept(k - 1), u) /\ u \in Seq(S) /\ m <= k - 1
    BY <2>2
  <2>4. w = IF s[k] \in B THEN u ELSE Append(u, s[k])
    BY <2>1
  <2>5. Kept(k) = IF s[k] \in B THEN Kept(k - 1) ELSE Kept(k - 1) \cup {k}
    OBVIOUS
  <2>6. \A i \in Kept(k - 1) : i \in Nat /\ i < k
    OBVIOUS
  <2>7. CASE s[k] \in B
    <3> HIDE DEF Kept
    <3>1. Done2(k, t[k], m, f)
      BY <2>1, <2>3, <2>4, <2>5, <2>7
    <3> QED
      BY <3>1
  <2>8. CASE s[k] \notin B
    <3>1. PICK z \in Nat : z = m + 1 /\ z <= k
      BY <2>3
    <3> DEFINE g == [j \in 1 .. z |-> IF j <= m THEN f[j] ELSE k]
    <3>2. Kept(k) = Kept(k - 1) \cup {k}
      BY <2>5, <2>8
    <3> HIDE DEF Kept
    <3>3. \A j \in 1 .. z : j \in 1 .. m \/ j = z
      BY <3>1
    <3>4. g[z] = k /\ \A j \in 1 .. m : g[j] = f[j] /\ f[j] \in Kept(k - 1) /\ j \in 1 .. z /\ j < z
      <4>1. z \in 1 .. z /\ ~ (z <= m) /\ \A j \in 1 .. m : j \in 1 .. z /\ j <= m /\ j < z
        BY <3>1
      <4>2. \A j \in 1 .. m : f[j] \in Kept(k - 1)
        BY <2>3 DEF Picks
      <4> QED
        BY <4>1, <4>2
    <3>5. g \in [1 .. z -> Kept(k)]
      <4>1. \A j \in 1 .. z : g[j] \in Kept(k)
        <5> HIDE DEF g
        <5> QED
          BY <3>2, <3>3, <3>4
      <4> QED
        BY <4>1
    <3>6. u = [j \in 1 .. m |-> s[f[j]]] /\ Len(u) = m
      BY <2>3 DEF Picks
    <3>7. w = [j \in 1 .. z |-> s[g[j]]] /\ w \in Seq(S)
      <4>1. w = Append(u, s[k]) /\ s[k] \in S
        BY <1>1, <2>4, <2>8
      <4>2. w \in Seq(S) /\ Len(w) = z /\ w[z] = s[k] /\ \A j \in 1 .. m : w[j] = u[j]
        BY <2>3, <3>1, <3>6, <4>1
      <4>3. \A j \in 1 .. z : w[j] = s[g[j]]
        <5>1. \A j \in 1 .. m : u[j] = s[f[j]]
          BY <3>6
        <5> HIDE DEF g
        <5> QED
          BY <3>3, <3>4, <4>2, <5>1
      <4>4. w = [j \in 1 .. z |-> w[j]]
        BY <4>2, SeqFacts
      <4> HIDE DEF g
      <4> QED
        BY <4>2, <4>3, <4>4
    <3> HIDE DEF g
    <3>8. \A i, j \in 1 .. z : i < j => g[i] < g[j]
      <4> SUFFICES ASSUME NEW i \in 1 .. z, NEW j \in 1 .. z, i < j PROVE g[i] < g[j]
        OBVIOUS
      <4>1. i \in 1 .. m
        BY <3>1
      <4>2. CASE j = z
        BY <2>6, <3>4, <4>1, <4>2
      <4>3. CASE j \in 1 .. m
        BY <2>3, <3>4, <4>1, <4>3 DEF Picks
      <4> QED
        BY <3>3, <4>2, <4>3
    <3>9. \A i \in Kept(k) : \E j \in 1 .. z : g[j] = i
      <4> SUFFICES ASSUME NEW i \in Kept(k) PROVE \E j \in 1 .. z : g[j] = i
        OBVIOUS
      <4>1. CASE i = k
        BY <3>1, <3>4, <4>1
      <4>2. CASE i \in Kept(k - 1)
        <5>1. PICK j \in 1 .. m : f[j] = i
          BY <2>3, <4>2 DEF Picks
        <5> QED
          BY <3>4, <5>1
      <4> QED
        BY <3>2, <4>1, <4>2
    <3>10. Picks(g, z, s, Kept(k), w)
      BY <3>5, <3>7, <3>8, <3>9 DEF Picks
    <3>11. Done2(k, t[k], z, g)
      BY <2>1, <3>1, <3>7, <3>10
    <3> QED
      BY <3>11
  <2> QED
    BY <2>7, <2>8
<1> HIDE DEF T
<1>4. \A k \in 0 .. n : k \in T
  BY <1>2, <1>3, UpTo
<1>5. n \in 0 .. n
  OBVIOUS
<1>9. PICK m \in Nat : \E f : Done2(n, t[n], m, f)
  BY <1>4, <1>5 DEF T
<1>6. PICK f : Done2(n, t[n], m, f)
  BY <1>9
<1>7. Kept(n) = DOMAIN s \ Lost(s, B)
  BY <1>1 DEF Lost
<1>8. m \in 0 .. Len(s)
  BY <1>6
<1> HIDE DEF Kept
<1> QED
  BY <1>6, <1>7, <1>8, CutByPicks

(* the last place of what is in B                                          *)
LastLost(s, B) == {i \in DOMAIN s : s[i] \in B /\ \A j \in i + 1 .. Len(s) : s[j] \notin B}

LEMMA CutLast ==
    ASSUME NEW S, NEW s \in Seq(S), NEW n \in Nat, n = Len(s), NEW B, NEW i \in Nat, i + 1 <= n,
           s[i + 1] \in B, \A j \in 0 .. n - 1 : s[j + 1] \in B => i >= j
    PROVE  Abstract!Cut(s, LastLost(s, B), Without(s, Make(i, 1)))
<1>1. PICK gone : gone = LastLost(s, B)
  OBVIOUS
<1>2. PICK e \in Nat : e = 1
  OBVIOUS
<1>3. PICK v : v = Make(i, 1)
  OBVIOUS
<1>4. v.location = i /\ v.length = e /\ i + e <= n
  BY <1>2, <1>3 DEF Make
<1>5. DOMAIN s = 1 .. n
  BY SeqFacts
<1>6. \A k \in 1 .. n : s[k] \in B => k <= i + 1
  <2> SUFFICES ASSUME NEW k \in 1 .. n, s[k] \in B PROVE k <= i + 1
    OBVIOUS
  <2>1. PICK j : j = k - 1 /\ j \in 0 .. n - 1 /\ j + 1 = k
    OBVIOUS
  <2> QED
    BY <2>1
<1>7. \A k \in 1 .. n : k \in gone <=> k = i + 1
  <2> SUFFICES ASSUME NEW k \in 1 .. n PROVE k \in gone <=> k = i + 1
    OBVIOUS
  <2>1. i + 1 \in 1 .. n /\ \A j \in (i + 1) + 1 .. n : j \in 1 .. n /\ ~ (j <= i + 1)
    OBVIOUS
  <2>2. i + 1 \in gone
    BY <1>1, <1>5, <1>6, <2>1 DEF LastLost
  <2>3. ASSUME k \in gone, k # i + 1 PROVE FALSE
    <3>1. s[k] \in B /\ k <= i + 1
      BY <1>1, <1>6, <2>3 DEF LastLost
    <3>2. i + 1 \in k + 1 .. n
      BY <2>3, <3>1
    <3> QED
      BY <1>1, <2>3, <3>2 DEF LastLost
  <2> QED
    BY <2>2, <2>3
<1>8. \A k \in 1 .. n : k \in gone <=> k \in i + 1 .. i + e
  BY <1>2, <1>7
<1>9. Abstract!Cut(s, gone, Without(s, v))
  BY <1>4, <1>8, CutRange
<1> QED
  BY <1>1, <1>3, <1>9

LEMMA CutNoLast ==
    ASSUME NEW S, NEW s \in Seq(S), NEW n \in Nat, n = Len(s), NEW B,
           \A j \in 0 .. n - 1 : s[j + 1] \notin B
    PROVE  Abstract!Cut(s, LastLost(s, B), s)
<1>1. \A k \in 1 .. n : s[k] \notin B
  <2> SUFFICES ASSUME NEW k \in 1 .. n PROVE s[k] \notin B
    OBVIOUS
  <2>1. PICK j : j = k - 1 /\ j \in 0 .. n - 1 /\ j + 1 = k
    OBVIOUS
  <2> QED
    BY <2>1
<1>2. DOMAIN s = 1 .. n
  BY SeqFacts
<1>3. LastLost(s, B) \cap DOMAIN s = {}
  BY <1>1, <1>2 DEF LastLost
<1> QED
  BY <1>3, CutNothing

LEMMA StageCompact ==
    ASSUME NEW a, NEW b, Stage(a, b), NEW p
    PROVE  /\ Stage(a, Compact(b, p))
           /\ Abstract!Cut(b.items, Lost(b.items, {p}), Compact(b, p).items)
<1>1. PICK n \in Nat : n = Len(b.items)
  BY StageNumbers
<1>2. PICK t \in Seq(Item) : t = b.items
  BY StageNumbers
<1>3. \A k \in 1 .. n : t[k] \in Item
  BY <1>1, <1>2, ElementOfSeq
<1> DEFINE next(x, k) == IF t[k] = p THEN x ELSE Append(x, t[k])
           X     == Seq(Item)
           step  == [x \in X |-> [k \in Nat |-> IF k \in 1 .. n THEN next(x, k) ELSE x]]
           Eq(g) == g = [k \in 0 .. n |-> IF k = 0 THEN <<>>
                                          ELSE IF t[k] = p THEN g[k - 1]
                                          ELSE Append(g[k - 1], t[k])]
           kept  == CHOOSE g : Eq(g)
<1>4. Eq(kept)
  <2>1. \A x \in X, k \in 1 .. n : next(x, k) \in X
    BY <1>3
  <2>2. PICK f \in [0 .. n -> X] : IsRun(f, n, <<>>, step)
    <3>1. step \in [X -> [Nat -> X]] /\ <<>> \in X
      BY <2>1
    <3> HIDE DEF step, X
    <3> QED
      BY <3>1, RunExists
  <2>3. ASSUME NEW k \in 1 .. n PROVE f[k] = next(f[k - 1], k)
    <3>1. k - 1 \in 0 .. n /\ k \in Nat /\ f[k - 1] \in X
      OBVIOUS
    <3>2. f[k] = step[f[k - 1]][k]
      BY <2>2 DEF IsRun
    <3> QED
      BY <3>1, <3>2
  <2>4. f[0] = <<>>
    BY <2>2 DEF IsRun
  <2>5. \A k \in 0 .. n : k = 0 \/ k \in 1 .. n
    OBVIOUS
  <2>6. Eq(f)
    <3> HIDE DEF step, X
    <3> QED
      BY <2>3, <2>4, <2>5
  <2> QED
    BY <2>6
<1> HIDE DEF kept
<1>5. \A k \in 0 .. n : kept[k] \in Seq(Item) /\ Len(kept[k]) <= k
  <2> DEFINE T == {k \in 0 .. n : kept[k] \in Seq(Item) /\ Len(kept[k]) <= k}
  <2>1. 0 \in T
    BY <1>4
  <2>2. ASSUME NEW k \in 1 .. n, k - 1 \in T PROVE k \in T
    <3>1. PICK s \in Seq(Item) : s = kept[k - 1] /\ Len(s) <= k - 1
      BY <2>2
    <3>2. kept[k] = next(s, k)
      <4>1. k \in 0 .. n /\ k # 0
        OBVIOUS
      <4> QED
        BY <1>4, <3>1, <4>1
    <3>3. PICK l \in Nat : l = Len(s) /\ l <= k
      <4>1. Len(s) \in Nat
        OBVIOUS
      <4> QED
        BY <3>1, <4>1
    <3>4. next(s, k) \in Seq(Item) /\ (Len(next(s, k)) = l \/ Len(next(s, k)) = l + 1)
      BY <1>3, <3>3
    <3>5. l + 1 <= k /\ k \in 0 .. n
      BY <3>1, <3>3
    <3> HIDE DEF next
    <3> QED
      BY <3>2, <3>3, <3>4, <3>5
  <2> HIDE DEF T
  <2>3. \A k \in 0 .. n : k \in T
    BY <2>1, <2>2, UpTo
  <2> QED
    BY <2>3 DEF T
<1>6. n \in 0 .. n
  OBVIOUS
<1>7. kept[n] \in Seq(Item) /\ Len(kept[n]) <= Len(b.items)
  BY <1>1, <1>5, <1>6
<1>8. Compact(b, p) = Bump([b EXCEPT !.items = kept[n]])
  BY <1>1, <1>2 DEF Compact, Count, kept
<1>9. Abstract!Cut(t, Lost(t, {p}), kept[n])
  <2>1. kept[0] = <<>>
    BY <1>4
  <2>2. \A k \in 1 .. n : kept[k] = IF t[k] \in {p} THEN kept[k - 1] ELSE Append(kept[k - 1], t[k])
    <3>1. \A k \in 1 .. n : k \in 0 .. n /\ k # 0
      OBVIOUS
    <3> QED
      BY <1>4, <3>1
  <2>3. n = Len(t)
    BY <1>1, <1>2
  <2> QED
    BY <2>1, <2>2, <2>3, CutUp
<1>10. /\ Stage(a, Bump([b EXCEPT !.items = kept[n]]))
       /\ Bump([b EXCEPT !.items = kept[n]]).items = kept[n]
  BY <1>7, StageLess
<1> QED
  BY <1>2, <1>8, <1>9, <1>10

(* One place of the array goes.                                            *)
LEMMA RemoveOne ==
    ASSUME NEW a, NEW b, Stage(a, b), NEW i \in Nat, i + 1 <= Len(b.items)
    PROVE  /\ Stage(a, RemoveInRange(b, Make(i, 1)))
           /\ RemoveInRange(b, Make(i, 1)).items = Without(b.items, Make(i, 1))
<1>1. PICK n \in Nat : n = Len(b.items)
  BY StageNumbers
<1>2. PICK r : r = Make(i, 1)
  OBVIOUS
<1>3. r \in AnyRange
  BY <1>2 DEF Make, AnyRange
<1>4. Intersection(r, n) = r /\ r.length = 1
  BY <1>1, <1>2 DEF Intersection, Make, All
<1> QED
  BY <1>1, <1>2, <1>3, <1>4, StageRemoveInRange

(* the places that a range means                                           *)
InRange(s, r) == {i \in DOMAIN s : Abstract!First(r) <= i /\ i <= Abstract!Last(r, Len(s))}

LEMMA StageCutRange ==
    ASSUME NEW a, NEW b, Stage(a, b), NEW r \in AnyRange
    PROVE  /\ Stage(a, RemoveInRange(b, r))
           /\ Abstract!Cut(b.items, InRange(b.items, r), RemoveInRange(b, r).items)
<1>1. PICK s \in Seq(Item) : s = b.items
  BY StageNumbers
<1>2. PICK n \in Nat : n = Len(s) /\ DOMAIN s = 1 .. n
  BY SeqFacts
<1>3. PICK l, k : l = r.location /\ k = r.length /\ l \in Nat /\ k \in Nat \cup {-1}
  BY DEF AnyRange, All
<1>4. PICK e \in Nat : e = (IF k = -1 \/ l + k > n THEN n ELSE l + k) /\ e <= n
  <2>1. (IF k = -1 \/ l + k > n THEN n ELSE l + k) \in Nat
    BY <1>3
  <2> QED
    BY <1>3, <2>1
<1>5. PICK v : v = Intersection(r, n)
  OBVIOUS
<1>6. PICK gone : gone = InRange(s, r)
  OBVIOUS
<1>7. \A i \in 1 .. n : i \in gone <=> l + 1 <= i /\ i <= e
  <2> SUFFICES ASSUME NEW i \in 1 .. n PROVE i \in gone <=> l + 1 <= i /\ i <= e
    OBVIOUS
  <2>1. i \in gone <=> l + 1 <= i /\ i <= (IF k = -1 THEN n ELSE l + k)
    BY <1>2, <1>3, <1>6 DEF InRange, Abstract!First, Abstract!Last
  <2> QED
    BY <1>3, <1>4, <2>1
<1>8. v = IF l >= e THEN Make(0, 0) ELSE Make(l, e - l)
  BY <1>3, <1>4, <1>5 DEF Intersection, All
<1>9. /\ Stage(a, RemoveInRange(b, r))
      /\ RemoveInRange(b, r).items = IF v.length = 0 THEN s ELSE Without(s, v)
  BY <1>1, <1>2, <1>5, StageRemoveInRange
<1>10. CASE l >= e
  <2>1. v.length = 0
    BY <1>8, <1>10 DEF Make
  <2>2. gone \cap DOMAIN s = {}
    BY <1>2, <1>3, <1>4, <1>7, <1>10
  <2>3. Abstract!Cut(s, gone, s)
    BY <2>2, CutNothing
  <2> QED
    BY <1>1, <1>6, <1>9, <2>1, <2>3
<1>11. CASE ~ (l >= e)
  <2>1. PICK m \in Nat : m = e - l /\ m # 0 /\ l + m = e
    <3>1. e - l \in Nat /\ e - l # 0 /\ l + (e - l) = e
      BY <1>3, <1>4, <1>11
    <3> QED
      BY <3>1
  <2>2. v.location = l /\ v.length = m
    BY <1>8, <1>11, <2>1 DEF Make
  <2>3. \A i \in 1 .. n : i \in gone <=> i \in l + 1 .. l + m
    <3>1. l \in Nat /\ l + m = e
      BY <1>3, <2>1
    <3>2. \A i \in 1 .. n : i \in l + 1 .. e <=> l + 1 <= i /\ i <= e
      BY <3>1
    <3> QED
      BY <1>7, <3>1, <3>2
  <2>4. l \in Nat /\ l + m <= n
    BY <1>3, <1>4, <2>1
  <2>5. Abstract!Cut(s, gone, Without(s, v))
    BY <1>2, <2>2, <2>3, <2>4, CutRange
  <2> QED
    BY <1>1, <1>6, <1>9, <2>1, <2>2, <2>5
<1> QED
  BY <1>10, <1>11

(* A validated range is the range, if it fits, or it is nothing.           *)
LEMMA InValidated ==
    ASSUME NEW S, NEW s \in Seq(S), NEW r \in AnyRange, NEW v, v = Validated(r, Len(s))
    PROVE  /\ v \in AnyRange
           /\ Abstract!Fits(r, Len(s)) => InRange(s, v) = InRange(s, r)
           /\ ~ Abstract!Fits(r, Len(s)) => v.location = 0 /\ v.length = 0
           /\ Abstract!Part(s, r) = Slice(s, v)
<1>1. PICK n \in Nat : n = Len(s) /\ DOMAIN s = 1 .. n
  BY SeqFacts
<1>2. PICK l, k : l = r.location /\ k = r.length /\ l \in Nat /\ k \in Nat \cup {-1}
  BY DEF AnyRange, All
<1>3. v \in AnyRange
  BY <1>1, ValidatedFacts
<1>4. CASE k = -1 /\ l <= n
  <2>1. v = Make(l, n - l) /\ l + (n - l) = n /\ n - l # -1
    BY <1>1, <1>2, <1>4 DEF Validated, All
  <2>2. v.location = l /\ v.length = n - l
    BY <2>1 DEF Make
  <2>3. Abstract!Last(v, n) = n /\ Abstract!Last(r, n) = n
    BY <1>2, <1>4, <2>1, <2>2 DEF Abstract!Last
  <2>4. Abstract!First(v) = l + 1 /\ Abstract!First(r) = l + 1
    BY <1>2, <2>2 DEF Abstract!First
  <2>5. Abstract!Fits(r, n)
    BY <1>2, <1>4, <2>3 DEF Abstract!Fits
  <2>6. Slice(s, v) = SubSeq(s, l + 1, n)
    BY <2>1, <2>2 DEF Slice
  <2> QED
    BY <1>1, <1>3, <2>3, <2>4, <2>5, <2>6 DEF InRange, Abstract!Part
<1>5. CASE k # -1 /\ l + k <= n
  <2>1. v = r
    BY <1>1, <1>2, <1>5 DEF Validated, All
  <2>2. Abstract!Last(r, n) = l + k /\ Abstract!First(r) = l + 1
    BY <1>2, <1>5 DEF Abstract!Last, Abstract!First
  <2>3. Abstract!Fits(r, n)
    BY <1>2, <1>5, <2>2 DEF Abstract!Fits
  <2>4. Slice(s, v) = SubSeq(s, l + 1, l + k)
    BY <1>2, <2>1 DEF Slice
  <2> QED
    BY <1>1, <1>3, <2>1, <2>2, <2>3, <2>4 DEF Abstract!Part
<1>6. CASE ~ (k = -1 /\ l <= n) /\ ~ (k # -1 /\ l + k <= n)
  <2>1. v = Make(0, 0)
    BY <1>1, <1>2, <1>6 DEF Validated, All
  <2>2. v.location = 0 /\ v.length = 0
    BY <2>1 DEF Make
  <2>3. ~ Abstract!Fits(r, n)
    BY <1>2, <1>6 DEF Abstract!Fits, Abstract!Last
  <2>6. Slice(s, v) = <<>>
    BY <2>2 DEF Slice
  <2> QED
    BY <1>1, <1>3, <2>2, <2>3, <2>6 DEF Abstract!Part
<1> QED
  BY <1>4, <1>5, <1>6

LEMMA StageRemove ==
    ASSUME NEW a, NEW b, Stage(a, b), NEW p
    PROVE  /\ Stage(a, Remove(b, p))
           /\ Abstract!Cut(b.items, Lost(b.items, {p}), Remove(b, p).items)
<1>1. PICK n \in Nat : n = Len(b.items)
  BY StageNumbers
<1> DEFINE X       == {c \in Raw : Stage(a, c)}
           At(k)   == n - k
           next(c, k) == IF Get(c, At(k)) = p THEN RemoveInRange(c, Make(At(k), 1)) ELSE c
           step    == [x \in X |-> [k \in Nat |-> IF k \in 1 .. n THEN next(x, k) ELSE x]]
           Eq(g)   == g = [k \in 0 .. n |-> IF k = 0 THEN b ELSE next(g[k - 1], k)]
           left    == CHOOSE g : Eq(g)
<1>2. b \in X
  BY DEF Stage
<1>3. \A c \in X, k \in 1 .. n : next(c, k) \in X
  <2> SUFFICES ASSUME NEW c \in X, NEW k \in 1 .. n PROVE next(c, k) \in X
    OBVIOUS
  <2>1. Make(At(k), 1) \in AnyRange
    BY DEF Make, AnyRange
  <2> HIDE DEF At
  <2>2. Stage(a, RemoveInRange(c, Make(At(k), 1)))
    BY <2>1, StageRemoveInRange
  <2>3. RemoveInRange(c, Make(At(k), 1)) \in X
    BY <2>2 DEF Stage
  <2> QED
    BY <2>3
<1> HIDE DEF next
<1>4. PICK f \in [0 .. n -> X] : IsRun(f, n, b, step)
  <2>1. step \in [X -> [Nat -> X]]
    BY <1>3
  <2> HIDE DEF step, X
  <2> QED
    BY <1>2, <2>1, RunExists
<1>5. Eq(f)
  <2>1. ASSUME NEW k \in 1 .. n PROVE f[k] = next(f[k - 1], k)
    <3>1. k - 1 \in 0 .. n /\ k \in Nat /\ f[k - 1] \in X
      OBVIOUS
    <3>2. f[k] = step[f[k - 1]][k]
      BY <1>4 DEF IsRun
    <3> QED
      BY <3>1, <3>2
  <2>2. f[0] = b
    BY <1>4 DEF IsRun
  <2>3. \A k \in 0 .. n : k = 0 \/ k \in 1 .. n
    OBVIOUS
  <2> HIDE DEF step, X
  <2> QED
    BY <2>1, <2>2, <2>3
<1>6. Eq(left)
  BY <1>5
<1> HIDE DEF left
<1>7. \A k \in 0 .. n : left[k] \in X
  <2> DEFINE T == {k \in 0 .. n : left[k] \in X}
  <2>1. 0 \in T
    BY <1>2, <1>6
  <2>2. ASSUME NEW k \in 1 .. n, k - 1 \in T PROVE k \in T
    <3>1. k \in 0 .. n /\ k # 0
      OBVIOUS
    <3>2. left[k] = next(left[k - 1], k) /\ left[k - 1] \in X
      BY <1>6, <2>2, <3>1
    <3>3. left[k] \in X
      <4> HIDE DEF X
      <4> QED
        BY <1>3, <3>2
    <3> QED
      BY <3>1, <3>3
  <2> HIDE DEF T
  <2>3. \A k \in 0 .. n : k \in T
    BY <2>1, <2>2, UpTo
  <2> QED
    BY <2>3 DEF T
<1>8. Remove(b, p) = left[n]
  BY <1>1 DEF Remove, Count, left, next
<1>9. n \in 0 .. n
  OBVIOUS
<1> DEFINE t == [k \in 0 .. n |-> left[k].items]
<1>10. ASSUME NEW k \in 1 .. n, n - k + 1 <= Len(t[k - 1])
       PROVE  t[k] = IF t[k - 1][n - k + 1] \in {p} THEN Without(t[k - 1], Make(n - k, 1))
                     ELSE t[k - 1]
  <2>1. PICK c, d : c = left[k - 1] /\ d = left[k]
    OBVIOUS
  <2>2. k \in 0 .. n /\ k - 1 \in 0 .. n /\ k # 0
    OBVIOUS
  <2>3. t[k] = d.items /\ t[k - 1] = c.items
    BY <2>1, <2>2
  <2>4. d = next(c, k) /\ Stage(a, c)
    BY <1>6, <1>7, <2>1, <2>2
  <2>5. PICK i \in Nat : i = n - k /\ At(k) = i /\ i + 1 = n - k + 1
    OBVIOUS
  <2>6. Get(c, i) = c.items[n - k + 1]
    BY <2>5 DEF Get
  <2>7. i + 1 <= Len(c.items)
    BY <1>10, <2>3, <2>5
  <2> HIDE DEF t, At
  <2>8. CASE Get(c, i) # p
    BY <2>3, <2>4, <2>5, <2>6, <2>8 DEF next
  <2>9. CASE Get(c, i) = p
    <3>1. d = RemoveInRange(c, Make(i, 1))
      BY <2>4, <2>5, <2>9 DEF next
    <3>2. d.items = Without(c.items, Make(i, 1))
      BY <2>4, <2>7, <3>1, RemoveOne
    <3> QED
      BY <2>3, <2>5, <2>6, <2>9, <3>2
  <2> QED
    BY <2>8, <2>9
<1>11. t[0] = b.items /\ t[n] = left[n].items
  BY <1>6, <1>9
<1> HIDE DEF t
<1>12. Abstract!Cut(b.items, Lost(b.items, {p}), t[n])
  <2>1. PICK s \in Seq(Item) : s = b.items /\ n = Len(s)
    BY <1>1, StageNumbers
  <2>2. Downward(n, {p}, t)
    BY <1>10 DEF Downward
  <2>3. PICK B : B = {p}
    OBVIOUS
  <2>4. Abstract!Cut(s, Lost(s, B), t[n])
    BY <1>11, <2>1, <2>2, <2>3, CutDown
  <2> QED
    BY <2>1, <2>3, <2>4
<1>13. Stage(a, left[n])
  BY <1>7, <1>9
<1> QED
  BY <1>8, <1>11, <1>12, <1>13

LEMMA LastHit ==
    ASSUME NEW n \in Nat, NEW hits, hits \subseteq 0 .. n - 1, hits # {},
           NEW i, i = CHOOSE k \in hits : \A j \in hits : k >= j
    PROVE  i \in hits /\ i \in Nat /\ \A j \in hits : i >= j
<1>1. hits \subseteq 0 .. n
  OBVIOUS
<1>2. PICK m \in hits : \A j \in hits : j <= m
  BY <1>1, GreatestNat
<1>3. \A j \in hits : m >= j
  BY <1>2
<1>4. i \in hits /\ \A j \in hits : i >= j
  BY <1>3
<1>5. hits \subseteq Nat
  OBVIOUS
<1> QED
  BY <1>4, <1>5

LEMMA FirstHit ==
    ASSUME NEW hits, hits \subseteq Nat, hits # {},
           NEW i, i = CHOOSE k \in hits : \A j \in hits : k <= j
    PROVE  i \in hits /\ i \in Nat /\ \A j \in hits : i <= j
<1>1. PICK m \in hits : \A j \in hits : m <= j
  BY LeastNat
<1> QED
  BY <1>1

LEMMA StageRemoveUnique ==
    ASSUME NEW a, NEW b, Stage(a, b), NEW p
    PROVE  /\ Stage(a, RemoveUnique(b, p))
           /\ Abstract!Cut(b.items, LastLost(b.items, {p}), RemoveUnique(b, p).items)
<1>1. PICK s \in Seq(Item) : s = b.items
  BY StageNumbers
<1>2. PICK n \in Nat : n = Len(s)
  BY <1>1, StageNumbers
<1> DEFINE hits == {i \in 0 .. n - 1 : Get(b, i) = p}
           i == CHOOSE k \in hits : \A j \in hits : k >= j
<1>3. RemoveUnique(b, p) = IF hits = {} THEN b ELSE RemoveInRange(b, Make(i, 1))
  BY <1>1, <1>2 DEF RemoveUnique, Count
<1>4. PICK B : B = {p}
  OBVIOUS
<1>5. \A j \in 0 .. n - 1 : j \in hits <=> s[j + 1] \in B
  BY <1>1, <1>4 DEF Get
<1>6. CASE hits = {}
  <2>1. \A j \in 0 .. n - 1 : s[j + 1] \notin B
    BY <1>5, <1>6
  <2>2. Abstract!Cut(s, LastLost(s, B), s)
    BY <1>2, <2>1, CutNoLast
  <2> QED
    BY <1>1, <1>3, <1>4, <1>6, <2>2
<1>7. CASE hits # {}
  <2>1. i \in hits /\ i \in Nat /\ \A j \in hits : i >= j
    <3>1. hits \subseteq 0 .. n - 1
      OBVIOUS
    <3> HIDE DEF hits
    <3> QED
      BY <1>7, <3>1, LastHit
  <2>2. i \in 0 .. n - 1
    BY <2>1
  <2> HIDE DEF i, hits
  <2>7. i + 1 <= n
    BY <2>2
  <2>8. s[i + 1] \in B
    BY <1>5, <2>1, <2>2
  <2>9. \A j \in 0 .. n - 1 : s[j + 1] \in B => i >= j
    BY <1>5, <2>1
  <2>3. i + 1 <= n /\ s[i + 1] \in B /\ \A j \in 0 .. n - 1 : s[j + 1] \in B => i >= j
    BY <2>7, <2>8, <2>9
  <2>4. Abstract!Cut(s, LastLost(s, B), Without(s, Make(i, 1)))
    BY <1>2, <2>1, <2>3, CutLast
  <2>5. i + 1 <= Len(b.items)
    BY <1>1, <1>2, <2>3
  <2>6. /\ Stage(a, RemoveInRange(b, Make(i, 1)))
        /\ RemoveInRange(b, Make(i, 1)).items = Without(b.items, Make(i, 1))
    BY <2>1, <2>5, RemoveOne
  <2> QED
    BY <1>1, <1>3, <1>4, <1>7, <2>4, <2>6
<1> QED
  BY <1>6, <1>7

(* The items in another order. *)
LEMMA SortingFacts ==
    ASSUME NEW S, NEW s \in Seq(S), NEW rank, NEW t \in Sortings(s, rank)
    PROVE  /\ t \in Seq(S) /\ Len(t) = Len(s)
           /\ \E f \in [DOMAIN s -> DOMAIN s] :
                 /\ \A i, j \in DOMAIN s : f[i] = f[j] => i = j
                 /\ t = [i \in DOMAIN s |-> s[f[i]]]
<1>1. PICK f \in [DOMAIN s -> DOMAIN s] :
         /\ \A i, j \in DOMAIN s : f[i] = f[j] => i = j
         /\ t = [i \in DOMAIN s |-> s[f[i]]]
  BY DEF Sortings
<1>2. PICK n \in Nat : n = Len(s) /\ DOMAIN s = 1 .. n
  <2>1. Len(s) \in Nat /\ DOMAIN s = 1 .. Len(s)
    OBVIOUS
  <2> QED
    BY <2>1
<1>3. \A i \in 1 .. n : s[f[i]] \in S
  BY <1>2, ElementOfSeq
<1>4. t = [i \in 1 .. n |-> s[f[i]]]
  BY <1>1, <1>2
<1>5. t \in Seq(S) /\ Len(t) = n
  BY <1>3, <1>4
<1> QED
  BY <1>1, <1>2, <1>5

LEMMA StageSorted ==
    ASSUME NEW a, NEW b, Stage(a, b), NEW rank, NEW t \in Sortings(b.items, rank)
    PROVE  Stage(a, Sorted(b, t)) /\ Sorted(b, t).items = t
<1>1. t \in Seq(Item) /\ Len(t) = Len(b.items)
  BY StageNumbers, SortingFacts
<1>2. Len(t) <= Len(b.items)
  BY <1>1, StageNumbers
<1> QED
  BY <1>1, <1>2, StageLess DEF Sorted

Zeroes(n) == [k \in 1 .. n |-> NULL]

LEMMA ZeroesFacts ==
    ASSUME NULL \in Item, NEW n \in Nat
    PROVE  Zeroes(n) \in Seq(Item) /\ Len(Zeroes(n)) = n /\ \A k \in 1 .. n : Zeroes(n)[k] = NULL
BY DEF Zeroes

LEMMA PaddedSame ==
    ASSUME NEW s \in Seq(Item), NEW m \in Nat, m <= Len(s)
    PROVE  Abstract!Padded(s, m) = s
<1>1. PICK n \in Nat : n = Len(s) /\ DOMAIN s = 1 .. n /\ s = [k \in 1 .. n |-> s[k]]
  BY SeqFacts
<1>2. (IF m > Len(s) THEN m ELSE Len(s)) = n
  BY <1>1
<1>3. Abstract!Padded(s, m) = [k \in 1 .. n |-> IF k \in DOMAIN s THEN s[k] ELSE NULL]
  BY <1>2 DEF Abstract!Padded
<1> QED
  BY <1>1, <1>3

LEMMA PaddedMore ==
    ASSUME NULL \in Item, NEW s \in Seq(Item), NEW z \in Nat, NEW m, m = Len(s) + z
    PROVE  Abstract!Padded(s, m) = s \o Zeroes(z)
<1>1. PICK n \in Nat : n = Len(s) /\ DOMAIN s = 1 .. n /\ s = [k \in 1 .. n |-> s[k]]
  BY SeqFacts
<1>2. PICK x, w : x = s \o w /\ w = Zeroes(z)
  OBVIOUS
<1>3. w \in Seq(Item) /\ Len(w) = z /\ \A k \in 1 .. z : w[k] = NULL
  BY <1>2, ZeroesFacts
<1>4. x \in Seq(Item) /\ Len(x) = m /\ m \in Nat /\ m = n + z
  BY <1>1, <1>2, <1>3, ConcatFacts
<1>5. \A k \in 1 .. m : x[k] = IF k <= n THEN s[k] ELSE w[k - n]
  <2>1. z = Len(w) /\ n = Len(s)
    BY <1>1, <1>3
  <2>2. \A k \in 1 .. n + z : (s \o w)[k] = IF k <= n THEN s[k] ELSE w[k - n]
    BY <1>3, <2>1, ConcatAt
  <2> QED
    BY <1>2, <1>4, <2>2
<1>6. \A k \in 1 .. m : x[k] = IF k \in DOMAIN s THEN s[k] ELSE NULL
  <2> SUFFICES ASSUME NEW k \in 1 .. m PROVE x[k] = IF k \in DOMAIN s THEN s[k] ELSE NULL
    OBVIOUS
  <2>1. k \in DOMAIN s <=> k <= n
    BY <1>1, <1>4
  <2>2. ~ (k <= n) => k - n \in 1 .. z
    BY <1>4
  <2> QED
    BY <1>3, <1>5, <2>1, <2>2
<1>7. x = [k \in 1 .. m |-> x[k]]
  BY <1>4, SeqFacts
<1>8. (IF m > Len(s) THEN m ELSE Len(s)) = m
  BY <1>1, <1>4
<1>9. Abstract!Padded(s, m) = [k \in 1 .. m |-> IF k \in DOMAIN s THEN s[k] ELSE NULL]
  BY <1>8 DEF Abstract!Padded
<1> QED
  BY <1>2, <1>6, <1>7, <1>9

Behind(s, z, m)        == m = Len(s) + (z + 1)
PutsBehind(s, z, m, p) == s \o Append(Zeroes(z), p) = [Abstract!Padded(s, m) EXCEPT ![m] = p]

(* A pointer behind the end, after NULLs.                                  *)
LEMMA PutBehind ==
    ASSUME NULL \in Item, NEW s \in Seq(Item), NEW z \in Nat, NEW p \in Item,
           NEW m, Behind(s, z, m)
    PROVE  PutsBehind(s, z, m, p)
<1>1. PICK n \in Nat : n = Len(s)
  BY SeqFacts
<1>2. PICK c, w, d : c = s \o w /\ w = Zeroes(z) /\ d = Abstract!Padded(s, m)
  OBVIOUS
<1>3. w \in Seq(Item) /\ Len(w) = z
  BY <1>2, ZeroesFacts
<1>4. PICK i \in Nat : i = n + z /\ m = i + 1
  <2>1. n + z \in Nat /\ m = (n + z) + 1
    BY <1>1 DEF Behind
  <2> QED
    BY <2>1
<1>5. c \in Seq(Item) /\ Len(c) = i
  BY <1>1, <1>2, <1>3, <1>4, ConcatFacts
<1>6. s \o Append(w, p) = Append(c, p) /\ s \o Append(w, NULL) = Append(c, NULL)
  BY <1>2, <1>3
<1>7. PICK e \in Nat : e = z + 1 /\ m = Len(s) + e
  <2>1. z + 1 \in Nat /\ m = Len(s) + (z + 1)
    BY <1>1 DEF Behind
  <2> QED
    BY <2>1
<1>9. d = s \o Zeroes(e)
  BY <1>2, <1>7, PaddedMore
<1>10. Zeroes(e) = Append(w, NULL)
  BY <1>2, <1>3, <1>7 DEF Zeroes
<1>11. d = Append(c, NULL)
  BY <1>6, <1>9, <1>10
<1>12. Append(c, p) = [Append(c, NULL) EXCEPT ![m] = p]
  <2>1. PICK x, y : x = Append(c, p) /\ y = Append(c, NULL)
    OBVIOUS
  <2>2. x \in Seq(Item) /\ y \in Seq(Item) /\ Len(x) = m /\ Len(y) = m
    BY <1>4, <1>5, <2>1
  <2>3. m \in Nat /\ DOMAIN x = 1 .. m /\ DOMAIN y = 1 .. m /\ x = [k \in 1 .. m |-> x[k]]
    BY <1>4, <2>2, SeqFacts
  <2>4. \A k \in 1 .. m : x[k] = IF k = m THEN p ELSE y[k]
    BY <1>4, <1>5, <2>1
  <2>5. [y EXCEPT ![m] = p] = [k \in 1 .. m |-> IF k = m THEN p ELSE y[k]]
    BY <2>3
  <2> QED
    BY <2>1, <2>3, <2>4, <2>5
<1> QED
  BY <1>2, <1>6, <1>11, <1>12 DEF PutsBehind

LEMMA StageSetZeroing ==
    ASSUME NEW a, NEW b, Stage(a, b), kind # "structs", NULL \in Item, NEW i \in Nat, NEW p \in Item,
           NEW m, m = i + 1
    PROVE  /\ Stage(a, SetZeroing(b, i, p))
           /\ SetZeroing(b, i, p).items = [Abstract!Padded(b.items, m) EXCEPT ![m] = p]
<1>1. PICK s \in Seq(Item) : s = b.items
  BY StageNumbers
<1>4. PICK n \in Nat : n = Len(s)
  BY <1>1, StageNumbers
<1>2. CASE i < n
  <2>1. i \in 0 .. Len(b.items) - 1
    BY <1>1, <1>2, <1>4
  <2>2. m \in Nat /\ m <= Len(s)
    BY <1>2, <1>4
  <2>3. Abstract!Padded(s, m) = s
    BY <2>2, PaddedSame
  <2>4. Stage(a, Set(b, i, p)) /\ Set(b, i, p).items = [b.items EXCEPT ![i + 1] = p]
    BY <2>1, StageSet
  <2>5. SetZeroing(b, i, p) = Set(b, i, p)
    BY <1>1, <1>2, <1>4 DEF SetZeroing, Count
  <2> QED
    BY <1>1, <2>3, <2>4, <2>5
<1>3. CASE ~ (i < n)
  <2>1. PICK z \in Nat : z = i - n /\ m = Len(s) + (z + 1)
    <3>1. i - n \in Nat /\ m = n + ((i - n) + 1)
      BY <1>3
    <3> QED
      BY <1>4, <3>1
  <2>2. PICK zs : zs = Zeroes(z) /\ zs \in Seq(Item)
    BY ZeroesFacts
  <2>3. SetZeroing(b, i, p) = Bump(Advance(b, Append(zs, p)))
    BY <1>1, <1>3, <1>4, <2>1, <2>2 DEF SetZeroing, Count, Zeroes
  <2>8. Behind(s, z, m)
    BY <2>1 DEF Behind
  <2>9. PutsBehind(s, z, m, p)
    BY <2>8, PutBehind
  <2>6. s \o Append(zs, p) = [Abstract!Padded(s, m) EXCEPT ![m] = p]
    BY <2>2, <2>9 DEF PutsBehind
  <2>4. Append(zs, p) \in Seq(Item)
    BY <2>2
  <2>5. /\ Stage(a, Advance(b, Append(zs, p)))
        /\ Advance(b, Append(zs, p)).items = b.items \o Append(zs, p)
    BY <2>4, StageAdvance
  <2>7. /\ Stage(a, Bump(Advance(b, Append(zs, p))))
        /\ Bump(Advance(b, Append(zs, p))).items = b.items \o Append(zs, p)
    BY <2>5, StageBump
  <2> QED
    BY <1>1, <2>3, <2>6, <2>7
<1> QED
  BY <1>2, <1>3

LEMMA StageGetZeroingAddress ==
    ASSUME NEW a, NEW b, Stage(a, b), kind # "structs", NULL \in Item, NEW i \in Nat, NEW m, m = i + 1
    PROVE  /\ Stage(a, GetZeroingAddress(b, i))
           /\ GetZeroingAddress(b, i).items = Abstract!Padded(b.items, m)
<1>1. PICK s \in Seq(Item) : s = b.items
  BY StageNumbers
<1>4. PICK n \in Nat : n = Len(s)
  BY <1>1, StageNumbers
<1>2. CASE i < n
  <2>1. m \in Nat /\ m <= Len(s)
    BY <1>2, <1>4
  <2>2. Abstract!Padded(s, m) = s
    BY <2>1, PaddedSame
  <2> QED
    BY <1>1, <1>2, <1>4, <2>2 DEF GetZeroingAddress, Count
<1>3. CASE ~ (i < n)
  <2>1. PICK z \in Nat : z = i - n + 1 /\ m = Len(s) + z
    <3>1. i - n + 1 \in Nat /\ m = n + (i - n + 1)
      BY <1>3
    <3> QED
      BY <1>4, <3>1
  <2>2. PICK zs : zs = Zeroes(z) /\ zs \in Seq(Item)
    BY ZeroesFacts
  <2>3. GetZeroingAddress(b, i) = Advance(b, zs)
    BY <1>1, <1>3, <1>4, <2>1, <2>2 DEF GetZeroingAddress, Count, Zeroes
  <2>4. Abstract!Padded(s, m) = s \o zs
    BY <2>1, <2>2, PaddedMore
  <2>5. Stage(a, Advance(b, zs)) /\ Advance(b, zs).items = b.items \o zs
    BY <2>2, StageAdvance
  <2> QED
    BY <1>1, <2>3, <2>4, <2>5
<1> QED
  BY <1>2, <1>3

-----------------------------------------------------------------------------
(* Arrays of structs *)

LEMMA StageResize ==
    ASSUME NEW a, NEW b, Stage(a, b), kind = "structs", NEW n \in Nat, n >= Len(b.items)
    PROVE  /\ Stage(a, Resize(b, n)) /\ Resize(b, n).items = b.items
           /\ Resize(b, n).size >= n
<1>1. b \in Raw /\ b.size \in Nat /\ b.storage \in Maybe /\ b.initial \in Storage
      /\ b.freed \in SUBSET Maybe
  BY DEF Stage, Raw
<1>2. CASE b.initial # NULL /\ n <= b.size
  BY <1>1, <1>2 DEF Resize
<1>3. ASSUME ~ (b.initial # NULL /\ n <= b.size)
      PROVE  /\ Stage(a, Resize(b, n)) /\ Resize(b, n).items = b.items
             /\ Resize(b, n).size >= n
  <2> DEFINE F == IF b.initial = NULL THEN b.freed \cup {b.storage} ELSE b.freed
             l == IF n = 0 THEN NULL ELSE Moved
             d == [b EXCEPT !.size = n, !.initial = NULL, !.storage = l, !.freed = F]
             c == Resize(b, n)
  <2>1. F \in SUBSET Maybe /\ l \in Maybe
    BY <1>1, Constants
  <2>2. c = Bump(d)
    BY <1>1, <1>3 DEF Resize, Raw
  <2> HIDE DEF F, l
  <2>3. /\ d \in Raw /\ d.items = b.items /\ d.size = n /\ d.storage = l
        /\ d.initial = NULL /\ d.freed = F
    BY <1>1, <2>1, Constants DEF Raw
  <2> HIDE DEF d
  <2>4. /\ c \in Raw /\ c.items = b.items /\ c.size = n /\ c.storage = l
        /\ c.initial = NULL /\ c.freed = F /\ c.mutations > 0
    BY <2>2, <2>3, BumpFacts
  <2> HIDE DEF c
  <2>5. Moves(a, c)
    <3>1. /\ a.storage # Moved /\ a.initial \in Storage /\ a.storage \in Maybe
          /\ a.initial \in {NULL, a.storage}
      BY DEF Stage, Clean, Raw
    <3>2. CASE Stays(a, b)
      <4>1. c.freed \ {NULL, Moved} = IF a.storage = a.initial THEN {} ELSE {a.storage} \ {NULL}
        BY <2>4, <3>1, <3>2, Constants DEF Stays, F
      <4> QED
        BY <2>4, <4>1, Constants DEF Moves, l
    <3>3. CASE Moves(a, b)
      <4>1. c.freed \ {NULL, Moved} = IF a.storage = a.initial THEN {} ELSE {a.storage} \ {NULL}
        BY <2>4, <3>1, <3>3, Constants DEF Moves, F
      <4> QED
        BY <2>4, <4>1, Constants DEF Moves, l
    <3> QED
      BY <3>2, <3>3 DEF Stage
  <2>6. Fits2(c)
    <3>1. PICK m \in Nat : m = Len(b.items)
      BY StageNumbers
    <3> QED
      BY <2>4, <3>1 DEF Fits2
  <2>7. Stage(a, c) /\ c.items = b.items /\ c.size >= n
    BY <2>4, <2>5, <2>6 DEF Stage
  <2> QED
    BY <2>7 DEF c
<1> QED
  BY <1>2, <1>3

LEMMA StageGuaranteeStructs ==
    ASSUME NEW a, NEW b, Stage(a, b), kind = "structs", NEW n \in Nat
    PROVE  /\ Stage(a, GuaranteeStructs(b, n)) /\ GuaranteeStructs(b, n).items = b.items
           /\ GuaranteeStructs(b, n).size >= Len(b.items) + n
           /\ GuaranteeStructs(b, n).size \in Nat
           /\ GuaranteeStructs(b, n).mutations > 0
<1>1. PICK l, z : l = Len(b.items) /\ z = b.size /\ l \in Nat /\ z \in Nat /\ l <= z
  BY StageNumbers
<1> DEFINE need == z + (n - (z - l))
           m == Max2(Doubled(b), need)
           c == IF z - l < n THEN Resize(b, m) ELSE b
<1>2. GuaranteeStructs(b, n) = Bump(c)
  BY <1>1 DEF GuaranteeStructs, Count
<1>3. Stage(a, c) /\ c.items = b.items /\ c.size >= l + n
  <2>1. CASE z - l < n
    <3>1. need = l + n
      BY <1>1
    <3>2. Doubled(b) \in Nat
      <4>1. Max2(z, 1) \in Nat
        BY <1>1 DEF Max2
      <4> QED
        BY <1>1, <4>1 DEF Doubled
    <3>3. need \in Nat /\ need >= l
      <4> HIDE DEF need
      <4> QED
        BY <1>1, <3>1
    <3>4. m \in Nat /\ m >= need
      <4> HIDE DEF need
      <4> QED
        BY <3>2, <3>3, MaxFacts
    <3> HIDE DEF m, need
    <3>5. m >= Len(b.items) /\ m >= l + n
      BY <1>1, <3>1, <3>3, <3>4
    <3>6. /\ Stage(a, Resize(b, m)) /\ Resize(b, m).items = b.items
          /\ Resize(b, m).size >= m
      BY <3>4, <3>5, StageResize
    <3>7. Resize(b, m).size \in Nat
      BY <3>6, StageNumbers
    <3> QED
      BY <1>1, <2>1, <3>4, <3>5, <3>6, <3>7
  <2>2. CASE ~ (z - l < n)
    BY <1>1, <2>2
  <2> QED
    BY <2>1, <2>2
<1> HIDE DEF c, m, need
<1>4. Stage(a, Bump(c)) /\ Bump(c).items = c.items /\ Bump(c).size = c.size /\ Bump(c).mutations > 0
  BY <1>3, StageBump
<1>5. Bump(c).size \in Nat
  BY <1>4, StageNumbers
<1> QED
  BY <1>1, <1>2, <1>3, <1>4, <1>5

LEMMA StageAdvanceStructs ==
    ASSUME NEW a, NEW b, Stage(a, b), kind = "structs", NEW ps \in Seq(Item)
    PROVE  /\ Stage(a, AdvanceStructs(b, ps)) /\ AdvanceStructs(b, ps).items = b.items \o ps
<1> DEFINE c == GuaranteeStructs(b, Len(ps))
           s == b.items \o ps
<1>1. PICK n \in Nat : n = Len(ps)
  BY ConcatFacts
<1>2. Stage(a, c) /\ c.items = b.items /\ c.size >= Len(b.items) + n
  BY <1>1, StageGuaranteeStructs
<1>3. b.items \in Seq(Item) /\ Len(b.items) \in Nat
  BY StageNumbers
<1>4. s \in Seq(Item) /\ Len(s) = Len(b.items) + n
  BY <1>1, <1>3, ConcatFacts
<1>5. AdvanceStructs(b, ps) = Bump([c EXCEPT !.items = s])
  <2>1. c.items = b.items /\ c \in Raw
    BY <1>2 DEF Stage
  <2> HIDE DEF c
  <2> QED
    BY <2>1 DEF AdvanceStructs, c, Raw
<1> HIDE DEF s, c
<1>6. Len(s) <= c.size
  BY <1>2, <1>4
<1>7. Stage(a, Bump([c EXCEPT !.items = s])) /\ Bump([c EXCEPT !.items = s]).items = s
  BY <1>2, <1>4, <1>6, StageItems
<1> QED
  BY <1>5, <1>7 DEF s

LEMMA StageGrowStructs ==
    ASSUME NEW a, NEW b, Stage(a, b), kind = "structs"
    PROVE  /\ Stage(a, GrowStructs(b)) /\ GrowStructs(b).items = b.items
           /\ GrowStructs(b).size > Len(b.items)
<1>1. PICK l, z : l = Len(b.items) /\ z = b.size /\ l \in Nat /\ z \in Nat /\ l <= z
  BY StageNumbers
<1>2. PICK n \in Nat : n = Doubled(b) /\ n > l
  <2>1. PICK m \in Nat : m = Max2(z, 1) /\ m >= z /\ m >= 1
    BY <1>1, MaxFacts
  <2>2. Doubled(b) = 2 * m
    BY <1>1, <2>1 DEF Doubled
  <2>3. 2 * m \in Nat /\ 2 * m > l
    BY <1>1, <2>1
  <2> QED
    BY <2>2, <2>3
<1>3. n >= Len(b.items)
  BY <1>1, <1>2
<1>4. /\ Stage(a, Resize(b, n)) /\ Resize(b, n).items = b.items /\ Resize(b, n).size >= n
  BY <1>3, StageResize
<1>5. Resize(b, n).size \in Nat
  BY <1>4, StageNumbers
<1> QED
  BY <1>1, <1>2, <1>4, <1>5 DEF GrowStructs

LEMMA StageAddStruct ==
    ASSUME NEW a, NEW b, Stage(a, b), kind = "structs", NEW p \in Item
    PROVE  Stage(a, AddStruct(b, p)) /\ AddStruct(b, p).items = Append(b.items, p)
<1> DEFINE c == IF Count(b) = b.size THEN GrowStructs(b) ELSE b
<1>1. PICK l, z : l = Len(b.items) /\ z = b.size /\ l \in Nat /\ z \in Nat /\ l <= z
  BY StageNumbers
<1>2. Stage(a, c) /\ c.items = b.items /\ Len(c.items) < c.size
  <2>1. CASE l = z
    <3>1. c = GrowStructs(b)
      BY <1>1, <2>1 DEF Count
    <3> HIDE DEF c
    <3>2. /\ Stage(a, GrowStructs(b)) /\ GrowStructs(b).items = b.items
          /\ GrowStructs(b).size > Len(b.items)
      BY StageGrowStructs
    <3>3. GrowStructs(b).size \in Nat
      BY <3>2, StageNumbers
    <3> QED
      BY <1>1, <3>1, <3>2, <3>3
  <2>2. CASE l # z
    <3>1. c = b /\ l < z
      BY <1>1, <2>2 DEF Count
    <3> HIDE DEF c
    <3> QED
      BY <1>1, <3>1
  <2> QED
    BY <2>1, <2>2
<1>3. AddStruct(b, p) = AddGuaranteed(c, p)
  BY DEF AddStruct
<1> HIDE DEF c
<1>4. Stage(a, AddGuaranteed(c, p)) /\ AddGuaranteed(c, p).items = Append(c.items, p)
  BY <1>2, StageAddGuaranteed
<1> QED
  BY <1>2, <1>3, <1>4

(* Behind the end, nothing is put.                                         *)
PutIn(s, i, p) == [k \in DOMAIN s |-> IF k = i + 1 THEN p ELSE s[k]]

LEMMA PutInFacts ==
    ASSUME NEW S, NEW s \in Seq(S), NEW i \in Nat, NEW p
    PROVE  /\ i < Len(s) => PutIn(s, i, p) = [s EXCEPT ![i + 1] = p]
           /\ ~ (i < Len(s)) => PutIn(s, i, p) = s
<1>1. PICK n \in Nat : n = Len(s) /\ DOMAIN s = 1 .. n /\ s = [k \in 1 .. n |-> s[k]]
  BY SeqFacts
<1>2. ~ (i < n) => \A k \in 1 .. n : k # i + 1
  OBVIOUS
<1>3. ~ (i < n) => PutIn(s, i, p) = [k \in 1 .. n |-> s[k]]
  BY <1>1, <1>2 DEF PutIn
<1>4. PICK m : m = i + 1
  OBVIOUS
<1>5. PutIn(s, i, p) = [s EXCEPT ![m] = p]
  <2>1. PutIn(s, i, p) = [k \in DOMAIN s |-> IF k = m THEN p ELSE s[k]]
    BY <1>4 DEF PutIn
  <2> QED
    BY <1>1, <2>1
<1> QED
  BY <1>1, <1>3, <1>4, <1>5

LEMMA StageSetStruct ==
    ASSUME NEW a, NEW b, Stage(a, b), NEW i \in Nat, NEW p \in Item
    PROVE  Stage(a, SetStruct(b, i, p)) /\ SetStruct(b, i, p).items = PutIn(b.items, i, p)
<1>1. PICK n \in Nat : n = Len(b.items)
  BY StageNumbers
<1>4. PICK s \in Seq(Item) : s = b.items
  BY StageNumbers
<1>5. /\ i < Len(s) => PutIn(s, i, p) = [s EXCEPT ![i + 1] = p]
      /\ ~ (i < Len(s)) => PutIn(s, i, p) = s
  BY PutInFacts
<1>2. CASE i < n
  <2>1. i \in 0 .. Len(b.items) - 1
    BY <1>1, <1>2
  <2>2. Stage(a, Set(b, i, p)) /\ Set(b, i, p).items = [b.items EXCEPT ![i + 1] = p]
    BY <2>1, StageSet
  <2>3. SetStruct(b, i, p) = Set(b, i, p)
    BY <1>1, <1>2 DEF SetStruct, Count
  <2> QED
    BY <1>1, <1>2, <1>4, <1>5, <2>2, <2>3
<1>3. CASE ~ (i < n)
  <2>1. SetStruct(b, i, p) = Bump(b)
    BY <1>1, <1>3 DEF SetStruct, Count
  <2>2. Stage(a, Bump(b)) /\ Bump(b).items = b.items
    BY StageBump
  <2> QED
    BY <1>1, <1>3, <1>4, <1>5, <2>1, <2>2
<1> QED
  BY <1>2, <1>3

LEMMA StageAddStructarray ==
    ASSUME NEW a, NEW b, Stage(a, b), kind = "structs", NEW o, o.items \in Seq(Item),
           NEW r \in AnyRange, NEW v, v = Validated(r, Len(o.items))
    PROVE  /\ Stage(a, AddStructarray(b, o, r))
           /\ Joined(AddStructarray(b, o, r).items, b.items, o, r)
<1>1. Len(o.items) \in Nat /\ b.items \in Seq(Item)
  BY StageNumbers, ConcatFacts
<1>2. v.location \in Nat /\ v.length \in Nat /\ v.location + v.length <= Len(o.items)
  BY <1>1, ValidatedFacts
<1> DEFINE s == Slice(o.items, v)
<1>3. s \in Seq(Item) /\ Len(s) = v.length
  BY <1>2, SliceFacts
<1>4. AddStructarray(b, o, r) = IF v.length = 0 THEN b ELSE AdvanceStructs(b, s)
  BY DEF AddStructarray, Count
<1> HIDE DEF s
<1>5. Stage(a, AdvanceStructs(b, s)) /\ AdvanceStructs(b, s).items = b.items \o s
  BY <1>3, StageAdvanceStructs
<1>7. CASE v.length = 0
  <2>1. s = <<>>
    BY <1>3, <1>7
  <2>2. b.items \o s = b.items
    BY <1>1, <2>1, ConcatEmptySeq
  <2> QED
    BY <1>4, <1>7, <2>2 DEF s, Joined
<1>8. CASE v.length # 0
  BY <1>4, <1>5, <1>8 DEF s, Joined
<1> QED
  BY <1>7, <1>8

LEMMA StageSizeToFit ==
    ASSUME NEW a, NEW b, Stage(a, b), kind = "structs"
    PROVE  Stage(a, SizeToFit(b)) /\ SizeToFit(b).items = b.items
<1>1. PICK n \in Nat : n = Len(b.items) /\ n >= Len(b.items)
  BY StageNumbers
<1> QED
  BY <1>1, StageResize DEF SizeToFit, Count

(* the first n items, or all                                               *)
AtMost(s, n) == SubSeq(s, 1, IF n < Len(s) THEN n ELSE Len(s))

LEMMA AtMostFacts ==
    ASSUME NEW S, NEW s \in Seq(S), NEW n \in Nat
    PROVE  /\ AtMost(s, n) \in Seq(S)
           /\ n >= Len(s) => AtMost(s, n) = s
           /\ n < Len(s) => AtMost(s, n) = SubSeq(s, 1, n)
<1>1. PICK l \in Nat : l = Len(s)
  BY SeqFacts
<1>2. CASE n < l
  <2>1. 0 + 1 = 1 /\ 0 <= n /\ n <= Len(s)
    BY <1>1, <1>2
  <2>2. SubSeq(s, 1, n) \in Seq(S)
    BY <2>1, PartFacts
  <2> QED
    BY <1>1, <1>2, <2>2 DEF AtMost
<1>3. CASE ~ (n < l)
  <2>1. SubSeq(s, 1, l) = s
    BY <1>1
  <2>2. AtMost(s, n) = s
    BY <1>1, <1>3, <2>1 DEF AtMost
  <2> QED
    BY <1>1, <1>3, <2>2
<1> QED
  BY <1>2, <1>3

(* what set_count adds                                                     *)
Fills(s, n, ps) == Len(ps) = IF n > Len(s) THEN n - Len(s) ELSE 0

LEMMA StageSetCount ==
    ASSUME NEW a, NEW b, Stage(a, b), kind = "structs", NEW n \in Nat, NEW ps \in Seq(Item),
           Fills(b.items, n, ps)
    PROVE  /\ Stage(a, SetCount(b, n, ps))
           /\ SetCount(b, n, ps).items = AtMost(b.items, n) \o ps
<1>1. PICK l \in Nat : l = Len(b.items)
  BY StageNumbers
<1>2. b.items \in Seq(Item) /\ b \in Raw
  BY StageNumbers DEF Stage
<1>3. CASE n < l
  <2> DEFINE s == SubSeq(b.items, 1, n)
  <2>1. s \in Seq(Item) /\ Len(s) = n
    <3>1. 0 + 1 = 1 /\ 0 <= n /\ n - 0 = n /\ n <= Len(b.items)
      BY <1>1, <1>3
    <3> QED
      BY <1>2, <3>1, PartFacts
  <2>2. SetCount(b, n, ps) = SizeToFit(Bump([b EXCEPT !.items = s]))
    BY <1>1, <1>2, <1>3 DEF SetCount, Count, Raw
  <2> HIDE DEF s
  <2>3. Len(s) <= Len(b.items)
    BY <1>1, <1>3, <2>1
  <2>4. Stage(a, Bump([b EXCEPT !.items = s])) /\ Bump([b EXCEPT !.items = s]).items = s
    BY <2>1, <2>3, StageLess
  <2>5. AtMost(b.items, n) = s
    BY <1>1, <1>3 DEF AtMost, s
  <2>6. ps = <<>>
    BY <1>1, <1>3 DEF Fills
  <2>7. s \o <<>> = s
    BY <2>1, ConcatEmptySeq
  <2> QED
    BY <2>2, <2>4, <2>5, <2>6, <2>7, StageSizeToFit
<1>7. ~ (n < l) => AtMost(b.items, n) = b.items
  <2>1. PICK s \in Seq(Item) : s = b.items
    BY <1>2
  <2>2. n >= Len(s) => AtMost(s, n) = s
    BY AtMostFacts
  <2>3. ~ (n < l) => n >= Len(s)
    BY <1>1, <2>1
  <2> QED
    BY <2>1, <2>2, <2>3
<1>4. CASE n = l
  <2>1. SetCount(b, n, ps) = SizeToFit(b)
    BY <1>1, <1>4 DEF SetCount, Count
  <2>2. ps = <<>>
    BY <1>1, <1>4 DEF Fills
  <2>3. b.items \o <<>> = b.items /\ ~ (n < l)
    BY <1>2, <1>4, ConcatEmptySeq
  <2> QED
    BY <1>7, <2>1, <2>2, <2>3, StageSizeToFit
<1>5. CASE n > l
  <2>1. SetCount(b, n, ps) = AdvanceStructs(b, ps) /\ ~ (n < l)
    BY <1>1, <1>5 DEF SetCount, Count
  <2> QED
    BY <1>7, <2>1, StageAdvanceStructs
<1>6. n < l \/ n = l \/ n > l
  BY <1>1
<1> QED
  BY <1>3, <1>4, <1>5, <1>6

LEMMA StageZeroToCount ==
    ASSUME NEW a, NEW b, Stage(a, b), kind = "structs", NULL \in Item, NEW n \in Nat
    PROVE  /\ Stage(a, ZeroToCount(b, n))
           /\ ZeroToCount(b, n).items
                  = AtMost(b.items, n) \o [k \in 1 .. n - Len(b.items) |-> NULL]
<1>1. PICK l \in Nat : l = Len(b.items)
  BY StageNumbers
<1>2. PICK zs : zs = [k \in 1 .. n - l |-> NULL]
  OBVIOUS
<1>3. zs \in Seq(Item) /\ Fills(b.items, n, zs)
  <2>1. CASE n > l
    <3>1. PICK m \in Nat : m = n - l
      <4>1. n - l \in Nat
        BY <2>1
      <4> QED
        BY <4>1
    <3>2. zs = Zeroes(m)
      BY <1>2, <3>1 DEF Zeroes
    <3> QED
      BY <1>1, <2>1, <3>1, <3>2, ZeroesFacts DEF Fills
  <2>2. CASE ~ (n > l)
    <3>1. 1 .. n - l = {}
      BY <2>2
    <3>2. zs = <<>>
      BY <1>2, <3>1
    <3> QED
      BY <1>1, <2>2, <3>2 DEF Fills
  <2> QED
    BY <2>1, <2>2
<1>4. ZeroToCount(b, n) = SetCount(b, n, zs)
  BY <1>1, <1>2 DEF ZeroToCount, Count
<1>5. Stage(a, SetCount(b, n, zs)) /\ SetCount(b, n, zs).items = AtMost(b.items, n) \o zs
  BY <1>3, StageSetCount
<1> QED
  BY <1>1, <1>2, <1>4, <1>5

LEMMA StageInsertStructs ==
    ASSUME NEW a, NEW b, Stage(a, b), kind = "structs", NEW i \in 0 .. Len(b.items),
           NEW ps \in Seq(Item)
    PROVE  /\ Stage(a, InsertStructsInRange(b, i, ps))
           /\ InsertStructsInRange(b, i, ps).items
                 = IF ps = <<>> THEN b.items ELSE With(b.items, i, ps)
<1>1. CASE ps = <<>>
  BY <1>1 DEF InsertStructsInRange
<1>2. ASSUME ps # <<>>
      PROVE  /\ Stage(a, InsertStructsInRange(b, i, ps))
             /\ InsertStructsInRange(b, i, ps).items = With(b.items, i, ps)
  <2>1. PICK l, m, z : /\ l = Len(b.items) /\ m = Len(ps) /\ z = b.size /\ l \in Nat /\ m \in Nat
                       /\ z \in Nat
    BY StageNumbers, ConcatFacts
  <2>2. PICK n \in Nat : n = l + m /\ n >= l
    <3>1. l \in Nat /\ m \in Nat
      BY <2>1
    <3> HIDE <2>1
    <3> QED
      BY <3>1
  <2>3. PICK p \in Nat : p = Pow2Round(n) /\ p >= n
    BY <2>2, RoundFacts
  <2> DEFINE c == IF n > z THEN Resize(b, p) ELSE b
             s == With(b.items, i, ps)
  <2>4. s \in Seq(Item) /\ Len(s) = n
    BY <2>1, <2>2, StageNumbers, WithFacts
  <2>5. Stage(a, c) /\ c.items = b.items /\ c.size >= n /\ c.size \in Nat
    <3>1. p >= Len(b.items)
      BY <2>1, <2>2, <2>3
    <3>2. /\ Stage(a, Resize(b, p)) /\ Resize(b, p).items = b.items /\ Resize(b, p).size >= p
      BY <3>1, StageResize
    <3>3. Resize(b, p).size \in Nat
      BY <3>2, StageNumbers
    <3> QED
      BY <2>1, <2>2, <2>3, <3>2, <3>3
  <2>6. InsertStructsInRange(b, i, ps) = Bump([c EXCEPT !.items = s])
    <3>1. c.items = b.items /\ c \in Raw
      BY <2>5 DEF Stage
    <3>2. InsertStructsInRange(b, i, ps) = Bump([c EXCEPT !.items = With(@, i, ps)])
      BY <1>2, <2>1, <2>2, <2>3 DEF InsertStructsInRange, Count
    <3> HIDE DEF c
    <3> QED
      BY <3>1, <3>2 DEF Raw
  <2> HIDE DEF c, s
  <2>7. Len(s) <= c.size
    BY <2>2, <2>4, <2>5
  <2>8. Stage(a, Bump([c EXCEPT !.items = s])) /\ Bump([c EXCEPT !.items = s]).items = s
    BY <2>4, <2>5, <2>7, StageItems
  <2> QED
    BY <2>6, <2>8 DEF s
<1> QED
  BY <1>1, <1>2

-----------------------------------------------------------------------------
(* The invariant *)

(* An array that is initialised: lent storage is its own, unless absorb    *)
(* passed it on.                                                           *)
ArrayOK(i, a, st) ==
    /\ Clean(a) /\ a.storage \in Storage /\ a.initial \in {i, NULL}
    /\ a.storage \in Id => (a.storage = i /\ a.initial = i) \/ a.storage \in st

LiveIn(f) == {i \in Id : f[i] # None}

(* The blocks in use and the arrays that own them.                         *)
HeapOK(f, h, al) ==
    /\ DOMAIN h = {f[i].storage : i \in LiveIn(f)} \cap Block
    /\ \A i, j \in LiveIn(f) : f[i].storage = f[j].storage /\ i # j => f[i].storage = NULL
    /\ \A i \in LiveIn(f) : f[i].storage \in Block => h[f[i].storage] = Real(al[i])

RoverRecord == [array : Id, forward : BOOLEAN, at : Nat, end : Nat, storage : Storage,
                robbed : BOOLEAN]

(* An enumerator belongs to a live array; one that is not robbed stands    *)
(* within its items.                                                       *)
RoverOK(r, f) ==
    r # None =>
        /\ r \in RoverRecord /\ r.array \in LiveIn(f)
        /\ r.robbed \/ /\ r.storage = f[r.array].storage
                       /\ r.at <= Len(f[r.array].items)
                       /\ r.forward => r.end = Len(f[r.array].items)
                       /\ ~ r.forward => r.end = 0

AnyAllocator == {NULL} \cup UNION {Allocator[j] : j \in Id}

ArraysInv ==
    /\ kind \in Kinds
    /\ DOMAIN arrays = Id /\ arrays = [i \in Id |-> arrays[i]]
    /\ \A i \in Live : ArrayOK(i, arrays[i], stolen)
    /\ HeapOK(arrays, heap, allocator)
    /\ stolen \subseteq Id /\ misfreed \subseteq stolen
    /\ allocator \in [Id -> AnyAllocator]
    /\ refs \in [Object -> Int]
    /\ RoverOK(rover, arrays)

LEMMA ItemFacts ==
    ASSUME kind \in Kinds
    PROVE  /\ Item \subseteq Object \cup Values
           /\ kind \in {"pointers", "objects", "structs"}
           /\ kind = "objects" => Item = Object
           /\ kind # "objects" => Item = Values /\ NULL \in Item
<1>1. kind \in {"pointers", "objects", "structs"}
  BY ArraysAssumption
<1>2. CASE kind = "pointers"
  BY <1>2 DEF Item, Values
<1>3. CASE kind = "objects"
  BY <1>3 DEF Item, Values
<1>4. CASE kind = "structs"
  BY <1>4 DEF Item, Values
<1> QED
  BY <1>1, <1>2, <1>3, <1>4

LEMMA CleanIsLive ==
    ASSUME kind \in Kinds, NEW a, Clean(a), a.storage \in Storage
    PROVE  a # None
<1>1. Seq(Item) \subseteq Seq(Object \cup Values)
  BY ItemFacts
<1>2. /\ a \in Raw /\ a.mutations \in {0} /\ a.freed \in {{}}
  BY DEF Clean
<1>3. a \in [items : Seq(Object \cup Values), size : Nat, storage : Storage,
             initial : Storage, mutations : {0}, freed : {{}}]
  BY <1>1, <1>2 DEF Raw
<1> QED
  BY <1>3, PointerArraysAssumption

(* Between operations an array has no storage that malloc has yet to give. *)
LEMMA SettledRaw ==
    ASSUME NEW b \in Raw, Fits2(b), b.storage = NULL => b.size = 0,
           kind = "structs" => b.initial = NULL \/ (b.initial = b.storage /\ b.storage # Moved),
           NEW l \in Block
    PROVE  /\ Clean(Settled(b, l)) /\ Settled(b, l).items = b.items
           /\ Settled(b, l).storage = (IF b.storage = Moved THEN l ELSE b.storage)
           /\ Settled(b, l).initial = b.initial
           /\ Settled(b, l).storage \in Storage
<1> DEFINE m == IF b.storage = Moved THEN l ELSE b.storage
           d == [b EXCEPT !.storage = m]
           e == [d EXCEPT !.mutations = 0]
           c == Settled(b, l)
<1>1. b \in Raw /\ b.storage \in Maybe /\ Fits2(b)
  BY DEF Raw
<1>2. m \in Storage /\ m \in Maybe /\ m # Moved
  BY <1>1, Constants DEF Storage, Maybe
<1>3. c = [e EXCEPT !.freed = {}]
  BY <1>1 DEF Settled, Raw
<1> HIDE DEF m
<1>9. /\ d \in Raw /\ d.items = b.items /\ d.size = b.size /\ d.storage = m
      /\ d.initial = b.initial
  BY <1>1, <1>2 DEF Raw
<1> HIDE DEF d
<1>10. /\ e \in Raw /\ e.items = b.items /\ e.size = b.size /\ e.storage = m
       /\ e.initial = b.initial /\ e.mutations = 0
  BY <1>9 DEF Raw
<1> HIDE DEF e
<1>4. /\ c \in Raw /\ c.items = b.items /\ c.size = b.size /\ c.storage = m
      /\ c.initial = b.initial /\ c.mutations = 0 /\ c.freed = {}
  BY <1>3, <1>10 DEF Raw
<1> HIDE DEF c
<1>5. m = NULL => b.storage = NULL
  BY Constants DEF m
<1>6. b.storage = NULL => b.size = 0
  OBVIOUS
<1>7. kind = "structs" => c.initial \in {NULL, c.storage}
  BY <1>4 DEF m
<1>8. Clean(c)
  BY <1>1, <1>2, <1>4, <1>5, <1>6, <1>7 DEF Clean, Fits2
<1> QED
  BY <1>2, <1>4, <1>8 DEF c, m

LEMMA SettledFacts ==
    ASSUME NEW a, NEW b, Stage(a, b), NEW l \in Block
    PROVE  /\ Clean(Settled(b, l)) /\ Settled(b, l).items = b.items
           /\ Settled(b, l).storage = (IF b.storage = Moved THEN l ELSE b.storage)
           /\ Settled(b, l).initial = b.initial
           /\ Settled(b, l).storage \in Storage
<1>1. b \in Raw /\ Fits2(b)
  BY DEF Stage
<1>2. b.storage = NULL => b.size = 0
  BY DEF Stage, Stays, Moves, Clean
<1>3. kind = "structs" => b.initial = NULL \/ (b.initial = b.storage /\ b.storage # Moved)
  BY DEF Stage, Stays, Moves, Clean
<1> QED
  BY <1>1, <1>2, <1>3, SettledRaw

(* Settling what has not moved changes nothing.                            *)
LEMMA SettledSame ==
    ASSUME NEW a, Clean(a), NEW l
    PROVE  Settled(a, l) = a
<1>1. a \in Raw /\ a.storage # Moved /\ a.mutations = 0 /\ a.freed = {}
  BY DEF Clean
<1> QED
  BY <1>1 DEF Settled, Raw

(* malloc finds a block.                                                   *)
LEMMA UnusedFacts ==
    ASSUME NEW id \in Id, NEW used,
           used \subseteq {arrays[i].storage : i \in Id \ {id}} \cap Block
    PROVE  Unused(used) \in Block /\ Unused(used) \notin used
<1> DEFINE D == Id \ {id}
           R == {arrays[i].storage : i \in D}
           g == [i \in D |-> arrays[i].storage]
<1>1. IsFiniteSet(Id) /\ IsFiniteSet(Block) /\ Cardinality(Id) <= Cardinality(Block)
  BY ArrayHeapAssumption
<1>2. IsFiniteSet(D) /\ Cardinality(D) = Cardinality(Id) - 1 /\ Cardinality(Id) \in Nat
  BY <1>1, FS_RemoveElement, FS_CardinalityType
<1>3. g \in Surjection(D, R)
  BY DEF Surjection
<1> HIDE DEF g, R, D
<1>4. IsFiniteSet(R) /\ Cardinality(R) <= Cardinality(D)
  BY <1>2, <1>3, FS_Surjection
<1>5. IsFiniteSet(used) /\ Cardinality(used) <= Cardinality(R)
  BY <1>4, FS_Subset DEF R, D
<1>6. Cardinality(used) \in Nat /\ Cardinality(R) \in Nat /\ Cardinality(D) \in Nat
      /\ Cardinality(Block) \in Nat
  BY <1>1, <1>2, <1>4, <1>5, FS_CardinalityType
<1>7. used # Block
  BY <1>1, <1>2, <1>4, <1>5, <1>6
<1>8. \E b \in Block : b \notin used
  BY <1>7
<1> QED
  BY <1>8 DEF Unused

(* One array changes, and with it the block it has.                        *)
OthersOf(f, id) == {f[i].storage : i \in LiveIn(f) \ {id}} \cap Block
BlockOf(g, id)  == (IF g[id] = None THEN {} ELSE {g[id].storage}) \cap Block

OneChanges(f, g, h, h2, al, al2, id) ==
    /\ HeapOK(f, h, al) /\ id \in Id
    /\ \A i \in Id : i # id => g[i] = f[i] /\ al2[i] = al[i]
    /\ DOMAIN h2 = OthersOf(f, id) \cup BlockOf(g, id)
    /\ g[id] # None => \A i \in LiveIn(f) \ {id} :
                          f[i].storage = g[id].storage => g[id].storage = NULL
    /\ \A l \in OthersOf(f, id) : h2[l] = h[l]
    /\ \A l \in BlockOf(g, id) : h2[l] = Real(al2[id])

LEMMA HeapOne ==
    ASSUME NEW f, NEW g, NEW h, NEW h2, NEW al, NEW al2, NEW id,
           OneChanges(f, g, h, h2, al, al2, id)
    PROVE  HeapOK(g, h2, al2)
<1> DEFINE T == OthersOf(f, id)
           M == BlockOf(g, id)
<1>0. /\ T = {f[i].storage : i \in LiveIn(f) \ {id}} \cap Block
      /\ M = (IF g[id] = None THEN {} ELSE {g[id].storage}) \cap Block
      /\ HeapOK(f, h, al) /\ id \in Id
      /\ \A i \in Id : i # id => g[i] = f[i] /\ al2[i] = al[i]
      /\ DOMAIN h2 = T \cup M
      /\ g[id] # None => \A i \in LiveIn(f) \ {id} :
                            f[i].storage = g[id].storage => g[id].storage = NULL
      /\ \A l \in T : h2[l] = h[l]
      /\ \A l \in M : h2[l] = Real(al2[id])
  BY DEF OneChanges, OthersOf, BlockOf
<1> HIDE DEF T, M
<1>1. LiveIn(g) \ {id} = LiveIn(f) \ {id}
  BY <1>0 DEF LiveIn
<1>2. \A i \in LiveIn(f) \ {id} : i \in Id /\ i # id /\ g[i].storage = f[i].storage /\ al2[i] = al[i]
  BY <1>0 DEF LiveIn
<1>3. DOMAIN h2 = {g[i].storage : i \in LiveIn(g)} \cap Block
  <2>1. ASSUME NEW l PROVE l \in DOMAIN h2 <=> l \in {g[i].storage : i \in LiveIn(g)} \cap Block
    <3>1. l \in T <=> l \in Block /\ \E i \in LiveIn(f) \ {id} : l = g[i].storage
      BY <1>0, <1>2
    <3>2. l \in M <=> l \in Block /\ g[id] # None /\ l = g[id].storage
      BY <1>0
    <3>3. (\E i \in LiveIn(g) : l = g[i].storage)
              <=> (\E i \in LiveIn(f) \ {id} : l = g[i].storage) \/ (g[id] # None /\ l = g[id].storage)
      BY <1>0, <1>1 DEF LiveIn
    <3> QED
      BY <1>0, <3>1, <3>2, <3>3
  <2> QED
    BY <1>0, <2>1
<1>4. ASSUME NEW i \in LiveIn(g), NEW j \in LiveIn(g), g[i].storage = g[j].storage, i # j
      PROVE  g[i].storage = NULL
  <2>1. CASE i # id /\ j # id
    BY <1>0, <1>1, <1>2, <1>4, <2>1 DEF HeapOK
  <2>2. CASE i = id
    <3>1. j \in LiveIn(f) \ {id} /\ g[id] # None
      BY <1>1, <1>4, <2>2 DEF LiveIn
    <3> QED
      BY <1>0, <1>2, <1>4, <2>2, <3>1
  <2>3. CASE j = id
    <3>1. i \in LiveIn(f) \ {id} /\ g[id] # None
      BY <1>1, <1>4, <2>3 DEF LiveIn
    <3> QED
      BY <1>0, <1>2, <1>4, <2>3, <3>1
  <2> QED
    BY <2>1, <2>2, <2>3
<1>5. ASSUME NEW i \in LiveIn(g), g[i].storage \in Block
      PROVE  h2[g[i].storage] = Real(al2[i])
  <2>1. CASE i = id
    <3>1. g[id] # None
      BY <2>1 DEF LiveIn
    <3> QED
      BY <1>0, <1>5, <2>1, <3>1
  <2>2. CASE i # id
    <3>1. i \in LiveIn(f) \ {id}
      BY <1>1, <2>2
    <3>2. g[i].storage \in T /\ g[i].storage = f[i].storage /\ al2[i] = al[i]
      BY <1>0, <1>2, <1>5, <3>1
    <3>3. h[f[i].storage] = Real(al[i])
      BY <1>0, <1>5, <3>1, <3>2 DEF HeapOK
    <3> QED
      BY <1>0, <3>2, <3>3
  <2> QED
    BY <2>1, <2>2
<1> QED
  BY <1>3, <1>4, <1>5 DEF HeapOK

-----------------------------------------------------------------------------
(* One array changes *)

(* what it leaves behind keeps the invariant                               *)
LEMMA InvOne ==
    ASSUME ArraysInv, NEW id \in Id, NEW a, a = None \/ ArrayOK(id, a, stolen'),
           DOMAIN arrays' = Id, arrays' = [i \in Id |-> arrays'[i]], arrays'[id] = a,
           \A i \in Id : i # id => /\ arrays'[i] = arrays[i]
                                   /\ allocator'[i] = allocator[i]
                                   /\ (i \in Live => ArrayOK(i, arrays[i], stolen')),
           allocator' \in [Id -> AnyAllocator],
           HeapOK(arrays', heap', allocator'),
           stolen' \subseteq Id, misfreed' \subseteq stolen',
           refs' \in [Object -> Int], RoverOK(rover', arrays'), UNCHANGED kind
    PROVE  ArraysInv'
<1>1. /\ kind' \in Kinds /\ Item' = Item
      /\ (\A i, b, st : ArrayOK(i, b, st)' <=> ArrayOK(i, b, st))
  BY DEF ArraysInv, Item, ArrayOK, Clean, Raw, Fits2
<1>2. ASSUME NEW i \in Live' PROVE ArrayOK(i, arrays'[i], stolen')
  <2>1. CASE i = id
    <3>1. a # None
      BY <2>1 DEF Live
    <3> QED
      BY <2>1, <3>1
  <2>2. CASE i # id
    <3>1. i \in Live
      BY <2>2 DEF Live
    <3> QED
      BY <2>2, <3>1 DEF Live
  <2> QED
    BY <2>1, <2>2
<1> QED
  BY <1>1, <1>2 DEF ArraysInv, HeapOK, LiveIn, RoverOK

(* The blocks of the other arrays *)
Others(id) == {arrays[i].storage : i \in Live \ {id}} \cap Block

LEMMA OthersFacts ==
    ASSUME ArraysInv, NEW id \in Id
    PROVE  /\ Others(id) \subseteq {arrays[i].storage : i \in Id \ {id}} \cap Block
           /\ id \notin Live => DOMAIN heap = Others(id)
           /\ id \in Live => /\ DOMAIN heap = Others(id) \cup ({arrays[id].storage} \cap Block)
                             /\ arrays[id].storage \notin Others(id)
           /\ \A l \in Others(id) : \E i \in Live \ {id} :
                 l = arrays[i].storage /\ heap[l] = Real(allocator[i])
<1>1. /\ DOMAIN heap = {arrays[i].storage : i \in Live} \cap Block
      /\ \A i, j \in Live : arrays[i].storage = arrays[j].storage /\ i # j => arrays[i].storage = NULL
      /\ \A i \in Live : arrays[i].storage \in Block => heap[arrays[i].storage] = Real(allocator[i])
  BY DEF ArraysInv, HeapOK, LiveIn, Live
<1>2. Live \subseteq Id /\ NULL \notin Block
  BY Constants DEF Live
<1>3. Others(id) \subseteq {arrays[i].storage : i \in Id \ {id}} \cap Block
  BY <1>2 DEF Others
<1>4. ASSUME id \notin Live PROVE DOMAIN heap = Others(id)
  BY <1>1, <1>4 DEF Others
<1>5. ASSUME id \in Live
      PROVE  /\ DOMAIN heap = Others(id) \cup ({arrays[id].storage} \cap Block)
             /\ arrays[id].storage \notin Others(id)
  BY <1>1, <1>2, <1>5 DEF Others
<1>6. \A l \in Others(id) : \E i \in Live \ {id} :
         l = arrays[i].storage /\ heap[l] = Real(allocator[i])
  BY <1>1 DEF Others
<1> QED
  BY <1>3, <1>4, <1>5, <1>6

LEMMA HeapStep ==
    ASSUME HeapOK(arrays, heap, allocator), NEW id \in Id,
           \A i \in Id : i # id => arrays'[i] = arrays[i] /\ allocator'[i] = allocator[i],
           NEW M, M = (IF arrays'[id] = None THEN {} ELSE {arrays'[id].storage}) \cap Block,
           DOMAIN heap' = Others(id) \cup M,
           arrays'[id] # None => \A i \in LiveIn(arrays) \ {id} :
               arrays[i].storage = arrays'[id].storage => arrays'[id].storage = NULL,
           \A l \in Others(id) : heap'[l] = heap[l],
           \A l \in M : heap'[l] = Real(allocator'[id])
    PROVE  HeapOK(arrays', heap', allocator')
<1>1. Others(id) = OthersOf(arrays, id) /\ M = BlockOf(arrays', id)
  BY DEF Others, OthersOf, BlockOf, Live, LiveIn
<1>2. OneChanges(arrays, arrays', heap, heap', allocator, allocator', id)
  BY <1>1 DEF OneChanges
<1> QED
  BY <1>2, HeapOne

(* What an operation frees is the storage the array had, and this is a     *)
(* block of its allocator, or was lent to it by absorb.                    *)
LEMMA FreedFacts ==
    ASSUME ArraysInv, NEW id \in Live, NEW b,
           b.freed \ {NULL, Moved} \subseteq {arrays[id].storage} \ {NULL, arrays[id].initial}
    PROVE  /\ Freed([i \in {id} |-> b]) = b.freed \ {NULL, Moved}
           /\ Harm([i \in {id} |-> b], allocator) \subseteq stolen
<1> DEFINE new == [i \in {id} |-> b]
           a == arrays[id]
<1>0. {new[i].freed : i \in DOMAIN new} = {b.freed}
  OBVIOUS
<1>1. Freed(new) = b.freed \ {NULL, Moved}
  BY <1>0 DEF Freed
<1>2. id \in Id /\ ArrayOK(id, a, stolen)
  BY DEF ArraysInv, Live
<1>3. /\ DOMAIN heap = Others(id) \cup ({a.storage} \cap Block)
  BY <1>2, OthersFacts
<1>4. a.storage \in Block => heap[a.storage] = Real(allocator[id])
  BY DEF ArraysInv, HeapOK, LiveIn, Live
<1>5. DOMAIN heap \subseteq Block
  BY DEF ArraysInv, HeapOK
<1>6. \A l \in Freed(new) : l = a.storage /\ l # NULL /\ l # a.initial
  BY <1>1
<1>7. \A l \in Freed(new) : l \notin DOMAIN heap => l \in stolen
  <2> SUFFICES ASSUME NEW l \in Freed(new), l \notin DOMAIN heap PROVE l \in stolen
    OBVIOUS
  <2>1. l = a.storage /\ l # NULL /\ l # a.initial /\ l \notin Block
    BY <1>3, <1>6
  <2>2. a.storage \in Storage
    BY <1>2 DEF ArrayOK
  <2>3. l \in Id
    BY <2>1, <2>2 DEF Storage
  <2> QED
    BY <1>2, <2>1, <2>3 DEF ArrayOK
<1>8. ASSUME NEW l \in b.freed, l \in DOMAIN heap
      PROVE  heap[l] = Real(allocator[id])
  <2>1. l # NULL /\ l # Moved /\ l \in Block
    BY <1>5, <1>8, Constants
  <2>2. l = a.storage
    BY <1>1, <1>6, <1>8, <2>1
  <2> QED
    BY <1>4, <2>1, <2>2
<1>9. UNION {{l \in new[i].freed : l \in DOMAIN heap /\ heap[l] # Real(allocator[i])} :
                        i \in DOMAIN new} = {}
  BY <1>8
<1> QED
  BY <1>1, <1>7, <1>9 DEF Harm

(* An enumerator over the array is dropped, unless nothing has changed.    *)
LEMMA RoverFacts ==
    ASSUME ArraysInv, NEW id \in Live, NEW b, b.mutations > 0 \/ b = arrays[id],
           b.mutations \in Nat, arrays[id].mutations = 0,
           rover' = Enumerating([i \in {id} |-> b]),
           NEW g, \A i \in Id : i # id => g[i] = arrays[i],
           b = arrays[id] => g[id] = arrays[id]
    PROVE  RoverOK(rover', g)
<1> DEFINE new == [i \in {id} |-> b]
<1>1. DOMAIN new = {id} /\ new[id] = b
  OBVIOUS
<1> HIDE DEF new
<1>2. rover' = (IF rover # None /\ rover.array = id /\ b.mutations > 0 THEN None ELSE rover)
  BY <1>1 DEF Enumerating, new
<1>3. RoverOK(rover, arrays)
  BY DEF ArraysInv
<1>4. CASE rover' = None
  BY <1>4 DEF RoverOK
<1>5. CASE rover' # None
  <2>1. rover' = rover /\ rover # None /\ (rover.array = id => b.mutations = 0)
    BY <1>2, <1>5
  <2>2. rover \in RoverRecord /\ rover.array \in LiveIn(arrays)
    BY <1>3, <2>1 DEF RoverOK
  <2>3. g[rover.array] = arrays[rover.array]
    BY <2>1, <2>2 DEF RoverRecord
  <2>4. rover.array \in LiveIn(g)
    BY <2>2, <2>3 DEF LiveIn
  <2>5. RoverOK(rover, g)
    BY <1>3, <2>1, <2>2, <2>3, <2>4 DEF RoverOK
  <2> QED
    BY <2>1, <2>5
<1> QED
  BY <1>4, <1>5

(* What an array becomes, and the heap, when only this array frees and     *)
(* mallocs.                                                                *)
LEMMA CommitOne ==
    ASSUME ArraysInv, NEW id \in Live, NEW b, Stage(arrays[id], b), NEW new,
           Freed(new) = b.freed \ {NULL, Moved},
           Moving(new) = (IF b.storage = Moved THEN {id} ELSE {}),
           NEW blk, blk = Unused(DOMAIN heap \ Freed(new)),
           NEW h2, h2 = HeapAfter(new, allocator, blk),
           NEW g, g[id] = Settled(b, blk), \A i \in Id : i # id => g[i] = arrays[i]
    PROVE  /\ ArrayOK(id, Settled(b, blk), stolen) /\ Settled(b, blk).items = b.items
           /\ Settled(b, blk) # None
           /\ (b = arrays[id] => Settled(b, blk) = arrays[id])
           /\ (Stays(arrays[id], b) => Settled(b, blk).storage = arrays[id].storage)
           /\ HeapOK(g, h2, allocator)
<1> DEFINE a == arrays[id]
           T == Others(id)
           c == Settled(b, blk)
           M == (IF b.storage = Moved THEN {blk} ELSE {a.storage} \cap {b.storage}) \cap Block
<1>1. id \in Id /\ ArrayOK(id, a, stolen) /\ Clean(a) /\ a.storage \in Storage
  BY DEF ArraysInv, ArrayOK, Live
<1>2. b \in Raw /\ b.storage \in Maybe /\ b.mutations \in Nat
  BY DEF Stage, Raw
<1>5. b.freed \ {NULL, Moved} = IF Stays(a, b) THEN {} ELSE {a.storage} \ {NULL, a.initial}
  BY <1>1 DEF Stage, Moves, Stays
<1>6. Freed(new) = b.freed \ {NULL, Moved}
  OBVIOUS
<1>7. DOMAIN heap = T \cup ({a.storage} \cap Block) /\ a.storage \notin T
  BY <1>1, OthersFacts
<1>8. T \subseteq Block /\ a.initial \notin Block
  BY <1>1, Constants DEF Others, ArrayOK
<1>9. /\ Stays(a, b) => DOMAIN heap \ Freed(new) = T \cup M /\ Moving(new) = {}
      /\ ~ Stays(a, b) => DOMAIN heap \ Freed(new) = T
  <2>1. CASE Stays(a, b)
    <3>1. b.storage = a.storage /\ b.storage # Moved
      BY <1>1, <2>1 DEF Stays, Clean
    <3>2. Moving(new) = {}
      BY <3>1
    <3> QED
      BY <1>5, <1>6, <1>7, <2>1, <3>1, <3>2
  <2>2. CASE ~ Stays(a, b)
    BY <1>5, <1>6, <1>7, <1>8, <2>2, Constants
  <2> QED
    BY <2>1, <2>2
<1>10. \A i \in Live \ {id} : arrays[i].storage \in Block => arrays[i].storage \in T
  BY DEF Others
<1>11. /\ b.storage = Moved => ~ Stays(a, b) /\ blk \in Block /\ blk \notin T /\ Moving(new) = {id}
       /\ b.storage # Moved => Moving(new) = {} /\ (Stays(a, b) \/ b.storage = NULL)
  <2>1. CASE b.storage = Moved
    <3>1. ~ Stays(a, b)
      BY <1>1, <2>1 DEF Stays, Clean
    <3>2. DOMAIN heap \ Freed(new) = T
      BY <1>9, <3>1
    <3>3. Moving(new) = {id}
      BY <2>1
    <3>4. blk \in Block /\ blk \notin T
      BY <1>1, <3>2, OthersFacts, UnusedFacts
    <3> QED
      BY <2>1, <3>1, <3>3, <3>4
  <2>2. CASE b.storage # Moved
    <3>1. Moving(new) = {}
      BY <2>2
    <3> QED
      BY <2>2, <3>1 DEF Stage, Moves
  <2> QED
    BY <2>1, <2>2
<1>12. /\ Clean(c) /\ c.storage = (IF b.storage = Moved THEN blk ELSE b.storage)
       /\ c.initial = b.initial /\ c.storage \in Storage /\ c.items = b.items
  <2>1. CASE b.storage = Moved
    BY <1>11, <2>1, SettledFacts
  <2>2. CASE b.storage # Moved
    <3>1. PICK l \in Block : TRUE
      BY <1>1, UnusedFacts
    <3>2. c = Settled(b, l)
      BY <2>2 DEF Settled
    <3> HIDE DEF c
    <3> QED
      BY <2>2, <3>1, <3>2, SettledFacts
  <2> QED
    BY <2>1, <2>2
<1>13. c # None
  BY <1>12, CleanIsLive DEF ArraysInv
<1> HIDE DEF c
<1>15. /\ DOMAIN h2 = T \cup M
       /\ \A l \in T : h2[l] = heap[l]
       /\ \A l \in M : h2[l] = Real(allocator[id])
       /\ M = {c.storage} \cap Block
  <2>1. CASE b.storage = Moved
    <3>1. DOMAIN heap \ Freed(new) = T /\ Moving(new) = {id}
      BY <1>9, <1>11, <2>1
    <3>2. h2 = [l \in T \cup {blk} |-> IF l \in T THEN heap[l] ELSE Real(allocator[id])]
      BY <3>1 DEF HeapAfter
    <3>3. M = {blk}
      BY <1>11, <2>1
    <3>4. {c.storage} \cap Block = {blk}
      BY <1>11, <1>12, <2>1
    <3>5. blk \notin T
      BY <1>11, <2>1
    <3> HIDE DEF M, T
    <3>6. DOMAIN h2 = T \cup M
      BY <3>2, <3>3
    <3>7. \A l \in T : h2[l] = heap[l]
      BY <3>2
    <3>8. \A l \in M : h2[l] = Real(allocator[id])
      BY <3>2, <3>3, <3>5
    <3> QED
      BY <3>3, <3>4, <3>6, <3>7, <3>8
  <2>2. CASE b.storage # Moved /\ Stays(a, b)
    <3>1. DOMAIN heap \ Freed(new) = T \cup M /\ Moving(new) = {}
      BY <1>9, <2>2
    <3>2. h2 = [l \in T \cup M |-> heap[l]]
      BY <3>1 DEF HeapAfter
    <3>3. b.storage = a.storage /\ M = {a.storage} \cap Block
      BY <2>2 DEF Stays
    <3>4. a.storage \in Block => heap[a.storage] = Real(allocator[id])
      BY DEF ArraysInv, HeapOK, LiveIn, Live
    <3> QED
      BY <1>12, <2>2, <3>2, <3>3, <3>4
  <2>3. CASE b.storage # Moved /\ ~ Stays(a, b)
    <3>1. DOMAIN heap \ Freed(new) = T /\ Moving(new) = {} /\ b.storage = NULL
      BY <1>9, <1>11, <2>3
    <3>2. h2 = [l \in T |-> heap[l]]
      BY <3>1 DEF HeapAfter
    <3>3. M = {} /\ {c.storage} \cap Block = {}
      BY <1>12, <2>3, <3>1, Constants
    <3> QED
      BY <3>2, <3>3
  <2> QED
    BY <2>1, <2>2, <2>3
<1> HIDE DEF M
<1>16. HeapOK(g, h2, allocator)
  <2>1. \A i \in LiveIn(arrays) \ {id} : arrays[i].storage = c.storage => c.storage = NULL
    <3> SUFFICES ASSUME NEW i \in Live \ {id}, arrays[i].storage = c.storage, c.storage # NULL
                 PROVE  FALSE
      BY DEF LiveIn, Live
    <3>1. CASE b.storage = Moved
      BY <1>10, <1>11, <1>12, <3>1
    <3>2. CASE b.storage # Moved /\ Stays(a, b)
      <4>1. c.storage = a.storage
        BY <1>12, <3>2 DEF Stays
      <4> QED
        BY <4>1 DEF ArraysInv, HeapOK, Live, LiveIn
    <3>3. CASE b.storage # Moved /\ ~ Stays(a, b)
      BY <1>11, <1>12, <3>3
    <3> QED
      BY <3>1, <3>2, <3>3
  <2>2. T = OthersOf(arrays, id)
    BY DEF Others, Live, LiveIn, OthersOf
  <2>3. HeapOK(arrays, heap, allocator)
    BY DEF ArraysInv
  <2>4. M = BlockOf(g, id)
    BY <1>13, <1>15 DEF BlockOf, c
  <2>5. g[id] = c
    BY DEF c
  <2> HIDE DEF T
  <2>6. OneChanges(arrays, g, heap, h2, allocator, allocator, id)
    BY <1>1, <1>15, <2>1, <2>2, <2>3, <2>4, <2>5 DEF OneChanges
  <2> QED
    BY <2>6, HeapOne
<1>17. ArrayOK(id, c, stolen)
  <2>1. b.initial \in {a.initial, NULL}
    BY DEF Stage, Stays, Moves
  <2>2. c.storage \in Id => c.storage = a.storage /\ c.initial = a.initial
    BY <1>11, <1>12, Constants DEF Stays
  <2> QED
    BY <1>1, <1>12, <2>1, <2>2 DEF ArrayOK
<1>18. /\ (b = a => c = a)
       /\ (Stays(a, b) => c.storage = a.storage)
  BY <1>1, <1>11, <1>12, SettledSame DEF c, Stays
<1> QED
  BY <1>12, <1>13, <1>16, <1>17, <1>18 DEF c

LEMMA UpdateInv ==
    ASSUME ArraysInv, NEW id \in Live, NEW b, Stage(arrays[id], b), Update(id, b),
           refs' \in [Object -> Int]
    PROVE  /\ ArraysInv' /\ arrays'[id] # None /\ arrays'[id].items = b.items
           /\ \A i \in Id : i # id => arrays'[i] = arrays[i]
<1> DEFINE a == arrays[id]
           new == [i \in {id} |-> b]
           blk == Unused(DOMAIN heap \ Freed(new))
           c == Settled(b, blk)
<1>1. id \in Id /\ Clean(a)
  BY DEF ArraysInv, ArrayOK, Live
<1>2. b \in Raw /\ b.mutations \in Nat
  BY DEF Stage, Raw
<1>3. /\ arrays' = [i \in Id |-> IF i \in DOMAIN new THEN Settled(new[i], blk) ELSE arrays[i]]
      /\ heap' = HeapAfter(new, allocator, blk)
      /\ misfreed' = misfreed \cup Harm(new, allocator)
      /\ rover' = Enumerating(new)
      /\ kind' = kind /\ allocator' = allocator /\ stolen' = stolen
  BY DEF Update, Commit, CommitTo
<1>4. DOMAIN new = {id} /\ new[id] = b
  OBVIOUS
<1>5. b.freed \ {NULL, Moved} = IF Stays(a, b) THEN {} ELSE {a.storage} \ {NULL, a.initial}
  BY <1>1 DEF Stage, Moves, Stays
<1>6. Freed(new) = b.freed \ {NULL, Moved} /\ Harm(new, allocator) \subseteq stolen
  BY <1>5, FreedFacts
<1>7. Moving(new) = (IF b.storage = Moved THEN {id} ELSE {})
  BY <1>4 DEF Moving
<1>14. /\ DOMAIN arrays' = Id /\ arrays' = [i \in Id |-> arrays'[i]] /\ arrays'[id] = c
       /\ \A i \in Id : i # id => arrays'[i] = arrays[i]
  BY <1>1, <1>3, <1>4
<1> HIDE DEF c, blk, new
<1>15. /\ ArrayOK(id, c, stolen) /\ (b = a => c = a) /\ c # None /\ c.items = b.items
       /\ HeapOK(arrays', heap', allocator)
  <2>1. /\ Freed(new) = b.freed \ {NULL, Moved}
        /\ blk = Unused(DOMAIN heap \ Freed(new)) /\ heap' = HeapAfter(new, allocator, blk)
        /\ arrays'[id] = Settled(b, blk)
    BY <1>3, <1>6, <1>14 DEF blk, c
  <2> QED
    BY <1>7, <1>14, <2>1, CommitOne DEF c
<1>16. HeapOK(arrays', heap', allocator')
  BY <1>3, <1>15
<1>18. RoverOK(rover', arrays')
  <2>1. b = a => c = a
    BY <1>15
  <2>2. a.mutations = 0 /\ (b.mutations > 0 \/ b = a)
    BY <1>1 DEF Clean, Stage
  <2>3. rover' = Enumerating([i \in {id} |-> b])
    BY <1>3 DEF new
  <2>4. b = arrays[id] => arrays'[id] = arrays[id]
    BY <1>14, <2>1
  <2>5. \A i \in Id : i # id => arrays'[i] = arrays[i]
    BY <1>14
  <2>6. b.mutations \in Nat /\ arrays[id].mutations = 0 /\ (b.mutations > 0 \/ b = arrays[id])
    BY <1>2, <2>2
  <2> QED
    BY <2>3, <2>4, <2>5, <2>6, RoverFacts
<1>19. \A i \in Live : ArrayOK(i, arrays[i], stolen')
  BY <1>3 DEF ArraysInv
<1>20. /\ stolen' \subseteq Id /\ misfreed' \subseteq stolen' /\ allocator' \in [Id -> AnyAllocator]
  BY <1>3, <1>6 DEF ArraysInv, new
<1>21. \A i \in Id : i # id => /\ arrays'[i] = arrays[i] /\ allocator'[i] = allocator[i]
                               /\ (i \in Live => ArrayOK(i, arrays[i], stolen'))
  BY <1>3, <1>14, <1>19
<1>22. ArrayOK(id, c, stolen') /\ UNCHANGED kind
  BY <1>3, <1>15
<1>23. ArraysInv'
  BY <1>1, <1>14, <1>16, <1>18, <1>20, <1>21, <1>22, InvOne
<1> QED
  BY <1>14, <1>15, <1>23

-----------------------------------------------------------------------------
(* An array comes, an array goes *)

LEMMA EstablishInv ==
    ASSUME ArraysInv, misfreed = {}, NEW id \in Id, NEW b \in Raw, NEW al \in AnyAllocator,
           Establish(id, b, al), refs' \in [Object -> Int],
           Fits2(b), b.freed \subseteq {NULL, Moved}, b.storage = NULL => b.size = 0,
           \/ b.storage \in {NULL, Moved} /\ b.initial = NULL
           \/ b.storage = id /\ b.initial = id /\ MayLend(id)
    PROVE  /\ ArraysInv' /\ arrays'[id] # None /\ arrays'[id].items = b.items
           /\ \A i \in Id : i # id => arrays'[i] = arrays[i]
<1> DEFINE new == [i \in {id} |-> b]
           T == Others(id)
           blk == Unused(DOMAIN heap \ Freed(new))
           c == Settled(b, blk)
           M == (IF b.storage = Moved THEN {blk} ELSE {}) \cap Block
<1>1. arrays[id] = None /\ id \notin Live
  BY DEF Establish, Live
<1>2. /\ arrays' = [i \in Id |-> IF i \in DOMAIN new THEN Settled(new[i], blk) ELSE arrays[i]]
      /\ heap' = HeapAfter(new, allocator', blk)
      /\ misfreed' = misfreed \cup Harm(new, allocator')
      /\ allocator' = [allocator EXCEPT ![id] = al]
      /\ rover' = rover /\ kind' = kind /\ stolen' = stolen \ {b.storage}
  BY DEF Establish, CommitTo
<1>3. DOMAIN new = {id} /\ new[id] = b
  OBVIOUS
<1>4. Freed(new) = {}
  <2>1. {new[i].freed : i \in DOMAIN new} = {b.freed}
    OBVIOUS
  <2> QED
    BY <2>1 DEF Freed
<1>5. DOMAIN heap = T /\ T \subseteq Block
  BY <1>1, OthersFacts DEF Others
<1>6. Harm(new, allocator') = {}
  <2>1. \A l \in b.freed : l \notin DOMAIN heap
    BY <1>5, Constants
  <2>2. UNION {{l \in new[i].freed : l \in DOMAIN heap /\ heap[l] # Real(allocator'[i])} :
                        i \in DOMAIN new} = {}
    BY <2>1
  <2> HIDE DEF new
  <2> QED
    BY <1>4, <2>2 DEF Harm
<1>7. blk \in Block /\ blk \notin T
  <2>1. DOMAIN heap \ Freed(new) = T
    BY <1>4, <1>5
  <2> QED
    BY <2>1, OthersFacts, UnusedFacts
<1>8. Moving(new) = (IF b.storage = Moved THEN {id} ELSE {})
  BY <1>3 DEF Moving
<1>9. /\ Clean(c) /\ c.storage = (IF b.storage = Moved THEN blk ELSE b.storage)
      /\ c.initial = b.initial /\ c.storage \in Storage /\ c.items = b.items
  BY <1>7, Constants, SettledRaw
<1>10. c # None
  BY <1>9, CleanIsLive DEF ArraysInv
<1>11. /\ DOMAIN arrays' = Id /\ arrays' = [i \in Id |-> arrays'[i]] /\ arrays'[id] = c
       /\ \A i \in Id : i # id => arrays'[i] = arrays[i]
  BY <1>2, <1>3
<1>12. /\ \A i \in Id : i # id => allocator'[i] = allocator[i]
       /\ allocator' \in [Id -> AnyAllocator] /\ allocator'[id] = al
  BY <1>2 DEF ArraysInv
<1> HIDE DEF c, blk, new, T, M
<1>13. /\ DOMAIN heap' = T \cup M
       /\ M = {c.storage} \cap Block
  <2>1. heap' = [l \in T \cup (IF b.storage = Moved THEN {blk} ELSE {}) |->
                    IF l \in T THEN heap[l] ELSE Real(allocator'[CHOOSE i \in Moving(new) : TRUE])]
    BY <1>2, <1>4, <1>5, <1>8, Constants DEF HeapAfter
  <2> QED
    BY <1>7, <1>9, <2>1, Constants DEF M
<1>14. \A l \in T : heap'[l] = heap[l]
  BY <1>2, <1>4, <1>5 DEF HeapAfter
<1>15. \A l \in M : heap'[l] = Real(allocator'[id])
  <2>1. ASSUME b.storage = Moved PROVE (CHOOSE i \in Moving(new) : TRUE) = id
    BY <1>8, <2>1
  <2>2. ASSUME b.storage = Moved PROVE heap'[blk] = Real(allocator'[id])
    BY <1>2, <1>4, <1>5, <1>7, <1>8, <2>1, <2>2 DEF HeapAfter
  <2> QED
    BY <2>2 DEF M
<1>16. HeapOK(arrays', heap', allocator')
  <2>1. ASSUME NEW i \in LiveIn(arrays) \ {id}, arrays[i].storage = c.storage, c.storage # NULL
        PROVE  FALSE
    <3>1. i \in Live
      BY <2>1 DEF LiveIn, Live
    <3>2. CASE b.storage = Moved
      <4>1. c.storage \in Block /\ c.storage \notin T
        BY <1>7, <1>9, <3>2
      <4> QED
        BY <2>1, <3>1, <4>1 DEF T, Others
    <3>3. CASE b.storage = id /\ MayLend(id)
      BY <1>9, <2>1, <3>1, <3>3, Constants DEF MayLend
    <3>4. CASE b.storage = NULL
      BY <1>9, <2>1, <3>4, Constants
    <3> QED
      BY <3>2, <3>3, <3>4
  <2>2. T = {arrays[i].storage : i \in LiveIn(arrays) \ {id}} \cap Block
    BY DEF Others, Live, LiveIn, T
  <2>3. HeapOK(arrays, heap, allocator)
    BY DEF ArraysInv
  <2>4. M = (IF arrays'[id] = None THEN {} ELSE {arrays'[id].storage}) \cap Block
    BY <1>10, <1>11, <1>13
  <2>5. \A i \in Id : i # id => arrays'[i] = arrays[i] /\ allocator'[i] = allocator[i]
    BY <1>11, <1>12
  <2>6. arrays'[id] # None => \A i \in LiveIn(arrays) \ {id} :
           arrays[i].storage = arrays'[id].storage => arrays'[id].storage = NULL
    BY <1>11, <2>1
  <2>7. DOMAIN heap' = T \cup M
    BY <1>13
  <2>8. \A l \in T : heap'[l] = heap[l]
    BY <1>14
  <2>9. \A l \in M : heap'[l] = Real(allocator'[id])
    BY <1>15
  <2>10. id \in Id
    OBVIOUS
  <2> QED
    BY <2>3, <2>4, <2>5, <2>6, <2>7, <2>8, <2>9, HeapStep DEF T
<1>17. ArrayOK(id, c, stolen')
  BY <1>7, <1>9, Constants DEF ArrayOK
<1>18. RoverOK(rover', arrays')
  <2>1. CASE rover = None
    BY <1>2, <2>1 DEF RoverOK
  <2>2. CASE rover # None
    <3>1. rover.array \in LiveIn(arrays) /\ rover.array # id
      BY <1>1, <2>2 DEF ArraysInv, RoverOK, LiveIn
    <3>2. arrays'[rover.array] = arrays[rover.array] /\ rover.array \in LiveIn(arrays')
      BY <1>11, <3>1 DEF LiveIn
    <3> QED
      BY <1>2, <2>2, <3>1, <3>2 DEF ArraysInv, RoverOK
  <2> QED
    BY <2>1, <2>2
<1>19. \A i \in Live : ArrayOK(i, arrays[i], stolen')
  <2> SUFFICES ASSUME NEW i \in Live PROVE ArrayOK(i, arrays[i], stolen')
    OBVIOUS
  <2>1. ArrayOK(i, arrays[i], stolen) /\ i \in Id
    BY DEF ArraysInv, Live
  <2>2. arrays[i].storage \in Id => arrays[i].storage # b.storage \/ i = id
    BY Constants DEF MayLend
  <2> QED
    BY <1>1, <1>2, <2>1, <2>2 DEF ArrayOK
<1>20. stolen' \subseteq Id /\ misfreed' \subseteq stolen'
  BY <1>2, <1>6 DEF ArraysInv
<1>21. \A i \in Id : i # id => /\ arrays'[i] = arrays[i] /\ allocator'[i] = allocator[i]
                               /\ (i \in Live => ArrayOK(i, arrays[i], stolen'))
  BY <1>11, <1>12, <1>19
<1>22. allocator' \in [Id -> AnyAllocator] /\ UNCHANGED kind
  BY <1>2, <1>12
<1>23. ArraysInv'
  BY <1>11, <1>16, <1>17, <1>18, <1>20, <1>21, <1>22, InvOne
<1> QED
  BY <1>9, <1>10, <1>11, <1>23

LEMMA DissolveInv ==
    ASSUME ArraysInv, NEW id \in Live, NEW b, Dissolve(id, b), refs' \in [Object -> Int],
           b.freed \ {NULL, Moved} = {arrays[id].storage} \ {NULL, arrays[id].initial},
           b.mutations > 0, b.mutations \in Nat
    PROVE  /\ ArraysInv' /\ arrays'[id] = None
           /\ \A i \in Id : i # id => arrays'[i] = arrays[i]
<1> DEFINE new == [i \in {id} |-> b]
           T == Others(id)
           a == arrays[id]
<1>1. id \in Id /\ ArrayOK(id, a, stolen) /\ Clean(a)
  BY DEF ArraysInv, ArrayOK, Live
<1>2. /\ arrays' = [arrays EXCEPT ![id] = None]
      /\ heap' = [l \in DOMAIN heap \ Freed(new) |-> heap[l]]
      /\ misfreed' = misfreed \cup Harm(new, allocator)
      /\ rover' = Enumerating(new)
      /\ kind' = kind /\ allocator' = allocator /\ stolen' = stolen
  BY DEF Dissolve
<1>3. Freed(new) = {a.storage} \ {NULL, a.initial} /\ Harm(new, allocator) \subseteq stolen
  BY FreedFacts
<1>4. DOMAIN heap \ Freed(new) = T
  <2>1. DOMAIN heap = T \cup ({a.storage} \cap Block) /\ a.storage \notin T
    BY <1>1, OthersFacts
  <2>2. a.initial \notin Block /\ NULL \notin Block
    BY <1>1, Constants DEF ArrayOK
  <2>3. T \subseteq Block
    BY DEF Others
  <2> HIDE DEF T, new
  <2> QED
    BY <1>3, <2>1, <2>2, <2>3
<1>5. /\ DOMAIN arrays' = Id /\ arrays' = [i \in Id |-> arrays'[i]] /\ arrays'[id] = None
      /\ \A i \in Id : i # id => arrays'[i] = arrays[i]
  BY <1>1, <1>2 DEF ArraysInv
<1>6. heap' = [l \in T |-> heap[l]]
  BY <1>2, <1>4
<1>7. HeapOK(arrays', heap', allocator')
  <2>1. T = {arrays[i].storage : i \in LiveIn(arrays) \ {id}} \cap Block
    BY DEF Others, Live, LiveIn
  <2>2. HeapOK(arrays, heap, allocator)
    BY DEF ArraysInv
  <2>3. \A i \in Id : i # id => arrays'[i] = arrays[i] /\ allocator'[i] = allocator[i]
    BY <1>2, <1>5
  <2> DEFINE M == (IF arrays'[id] = None THEN {} ELSE {arrays'[id].storage}) \cap Block
  <2>4. M = {}
    BY <1>5
  <2>5. DOMAIN heap' = T \cup M
    BY <1>6, <2>4
  <2>9. \A l \in T : heap'[l] = heap[l]
    BY <1>6
  <2>6. arrays'[id] # None => \A i \in LiveIn(arrays) \ {id} :
           arrays[i].storage = arrays'[id].storage => arrays'[id].storage = NULL
    BY <1>5
  <2>7. \A l \in M : heap'[l] = Real(allocator'[id])
    BY <2>4
  <2>8. M = (IF arrays'[id] = None THEN {} ELSE {arrays'[id].storage}) \cap Block
    OBVIOUS
  <2> HIDE DEF M
  <2> QED
    BY <1>1, <2>2, <2>3, <2>5, <2>6, <2>7, <2>8, <2>9, HeapStep
<1>8. RoverOK(rover', arrays')
  <2>1. a.mutations = 0
    BY <1>1 DEF Clean
  <2>2. b = arrays[id] => arrays'[id] = arrays[id]
    BY <2>1
  <2>3. \A i \in Id : i # id => arrays'[i] = arrays[i]
    BY <1>5
  <2>4. rover' = Enumerating([i \in {id} |-> b])
    BY <1>2
  <2>5. arrays[id].mutations = 0
    BY <2>1
  <2> HIDE DEF new, a
  <2> QED
    BY <2>2, <2>3, <2>4, <2>5, RoverFacts
<1>9. \A i \in Id : i # id => /\ arrays'[i] = arrays[i] /\ allocator'[i] = allocator[i]
                              /\ (i \in Live => ArrayOK(i, arrays[i], stolen'))
  BY <1>2, <1>5 DEF ArraysInv
<1>10. /\ stolen' \subseteq Id /\ misfreed' \subseteq stolen' /\ allocator' \in [Id -> AnyAllocator]
       /\ UNCHANGED kind
  BY <1>2, <1>3 DEF ArraysInv
<1>11. ArraysInv'
  BY <1>1, <1>5, <1>7, <1>8, <1>9, <1>10, InvOne
<1> QED
  BY <1>5, <1>11

LEMMA DoneFacts ==
    ASSUME NEW a, Clean(a)
    PROVE  /\ (kind # "structs" => Done(a).freed \ {NULL, Moved} = {a.storage} \ {NULL, a.initial})
           /\ Done(a).mutations = 1 /\ DoneStructs(a).mutations = 1
           /\ (kind = "structs" => DoneStructs(a).freed \ {NULL, Moved} = {a.storage} \ {NULL, a.initial})
<1> DEFINE d == [a EXCEPT !.freed = @ \cup {a.storage}]
<1>1. /\ a \in Raw /\ a.freed = {} /\ a.mutations = 0 /\ a.storage # Moved
      /\ kind = "structs" => a.initial \in {NULL, a.storage}
  BY DEF Clean
<1>2. /\ d.freed = {a.storage} /\ d.mutations = 0 /\ d = [a EXCEPT !.freed = {a.storage}]
  BY <1>1 DEF Raw
<1>3. d \in Raw
  BY <1>1, <1>2, Constants DEF Raw
<1> HIDE DEF d
<1>4. /\ Bump(d).mutations = 1 /\ Bump(d).freed = {a.storage}
      /\ Bump(a).mutations = 1 /\ Bump(a).freed = {}
  BY <1>1, <1>2, <1>3 DEF Bump, Raw
<1>5. Done(a) = IF a.storage = a.initial THEN Bump(a) ELSE Bump(d)
  BY DEF Done, d
<1>6. DoneStructs(a) = IF a.initial = NULL THEN Bump(d) ELSE Bump(a)
  BY DEF DoneStructs, d
<1> QED
  BY <1>1, <1>4, <1>5, <1>6

LEMMA ExtractedFacts ==
    ASSUME NEW a, Clean(a)
    PROVE  LET b == Extracted(a)
           IN  /\ b \in Raw /\ b.items = <<>> /\ b.mutations = 1 /\ b.freed = {}
               /\ IF a.storage # NULL /\ a.storage = a.initial
                  THEN b.storage = a.storage /\ b.initial = a.initial /\ b.size = a.size
                  ELSE b.storage = NULL /\ b.initial = NULL /\ b.size = 0
<1> DEFINE d == [a EXCEPT !.items = <<>>]
           e == [a EXCEPT !.items = <<>>, !.size = 0, !.storage = NULL, !.initial = NULL]
<1>1. a \in Raw /\ a.mutations = 0 /\ a.freed = {} /\ <<>> \in Seq(Item)
  BY DEF Clean
<1>2. /\ d \in Raw /\ d.items = <<>> /\ d.mutations = 0 /\ d.freed = {}
      /\ d.storage = a.storage /\ d.initial = a.initial /\ d.size = a.size
  BY <1>1 DEF Raw
<1>3. /\ e \in Raw /\ e.items = <<>> /\ e.mutations = 0 /\ e.freed = {}
      /\ e.storage = NULL /\ e.initial = NULL /\ e.size = 0
  BY <1>1, Constants DEF Raw
<1> HIDE DEF d, e
<1>4. /\ Bump(d) \in Raw /\ Bump(d).items = <<>> /\ Bump(d).mutations = 1 /\ Bump(d).freed = {}
      /\ Bump(d).storage = a.storage /\ Bump(d).initial = a.initial /\ Bump(d).size = a.size
  BY <1>2 DEF Bump, Raw
<1>5. /\ Bump(e) \in Raw /\ Bump(e).items = <<>> /\ Bump(e).mutations = 1 /\ Bump(e).freed = {}
      /\ Bump(e).storage = NULL /\ Bump(e).initial = NULL /\ Bump(e).size = 0
  BY <1>3 DEF Bump, Raw
<1>6. Extracted(a) = IF a.storage # NULL /\ a.storage = a.initial THEN Bump(d) ELSE Bump(e)
  BY DEF Extracted, d, e
<1> QED
  BY <1>4, <1>5, <1>6

LEMMA ExtractInv ==
    ASSUME ArraysInv, NEW id \in Live, Extract(id, Extracted(arrays[id])),
           refs' \in [Object -> Int]
    PROVE  ArraysInv' /\ arrays'[id] # None /\ arrays'[id].items = <<>>
<1> DEFINE a == arrays[id]
           b == Extracted(a)
           new == [i \in {id} |-> b]
           T == Others(id)
           handed == IF a.storage = a.initial THEN {} ELSE {a.storage} \ {NULL}
           c == Settled(b, NULL)
           lent == a.storage # NULL /\ a.storage = a.initial
<1>1. id \in Id /\ ArrayOK(id, a, stolen) /\ Clean(a) /\ a.storage \in Storage
  BY DEF ArraysInv, ArrayOK, Live
<1>2. /\ b \in Raw /\ b.items = <<>> /\ b.mutations = 1 /\ b.freed = {}
      /\ lent => b.storage = a.storage /\ b.initial = a.initial /\ b.size = a.size
      /\ ~ lent => b.storage = NULL /\ b.initial = NULL /\ b.size = 0
  BY <1>1, ExtractedFacts
<1>3. /\ heap' = [l \in DOMAIN heap \ handed |-> heap[l]]
      /\ misfreed' = misfreed \cup (handed \ DOMAIN heap)
      /\ arrays' = [arrays EXCEPT ![id] = c]
      /\ rover' = Enumerating(new)
      /\ kind' = kind /\ allocator' = allocator /\ stolen' = stolen
  BY DEF Extract
<1>4. Fits2(b) /\ b.storage \in Storage /\ b.storage # Moved
  <2>1. b.size \in Nat
    BY <1>2 DEF Raw
  <2>2. Len(b.items) = 0
    BY <1>2
  <2> QED
    BY <1>1, <1>2, <2>1, <2>2, Constants DEF Fits2, Clean
<1>5. /\ Clean(c) /\ c.items = b.items /\ c.storage = b.storage /\ c.initial = b.initial
  <2>1. PICK l \in Block : TRUE
    BY <1>1, UnusedFacts
  <2>2. c = Settled(b, l)
    BY <1>4 DEF Settled
  <2>3. b.storage = NULL => b.size = 0
    BY <1>2
  <2>4. kind = "structs" => b.initial = NULL \/ (b.initial = b.storage /\ b.storage # Moved)
    BY <1>2, <1>4
  <2> HIDE DEF b, c
  <2> QED
    BY <1>2, <1>4, <2>1, <2>2, <2>3, <2>4, SettledRaw
<1>6. c # None
  BY <1>4, <1>5, CleanIsLive DEF ArraysInv
<1>7. /\ DOMAIN arrays' = Id /\ arrays' = [i \in Id |-> arrays'[i]] /\ arrays'[id] = c
      /\ \A i \in Id : i # id => arrays'[i] = arrays[i]
  BY <1>1, <1>3 DEF ArraysInv
<1> HIDE DEF b, c
<1>8. DOMAIN heap \ handed = T /\ {b.storage} \cap Block = {}
  <2>1. DOMAIN heap = T \cup ({a.storage} \cap Block) /\ a.storage \notin T
    BY <1>1, OthersFacts
  <2>2. a.initial \notin Block /\ NULL \notin Block
    BY <1>1, Constants DEF ArrayOK
  <2>3. T \subseteq Block
    BY DEF Others
  <2> HIDE DEF T
  <2> QED
    BY <1>2, <2>1, <2>2, <2>3
<1>9. handed \ DOMAIN heap \subseteq stolen
  <2>1. DOMAIN heap = T \cup ({a.storage} \cap Block)
    BY <1>1, OthersFacts
  <2>2. a.storage \in Id => a.storage = a.initial \/ a.storage \in stolen
    BY <1>1 DEF ArrayOK
  <2>3. a.storage = NULL \/ a.storage \in Id \/ a.storage \in Block
    BY <1>1 DEF Storage
  <2> HIDE DEF T
  <2> QED
    BY <2>1, <2>2, <2>3
<1>10. HeapOK(arrays', heap', allocator')
  <2>2. HeapOK(arrays, heap, allocator)
    BY DEF ArraysInv
  <2>3. \A i \in Id : i # id => arrays'[i] = arrays[i] /\ allocator'[i] = allocator[i]
    BY <1>3, <1>7
  <2> DEFINE M == (IF arrays'[id] = None THEN {} ELSE {arrays'[id].storage}) \cap Block
  <2>4. M = {}
    BY <1>5, <1>7, <1>8
  <2>5. DOMAIN heap' = T \cup M
    BY <1>3, <1>8, <2>4
  <2>6. arrays'[id] # None => \A i \in LiveIn(arrays) \ {id} :
           arrays[i].storage = arrays'[id].storage => arrays'[id].storage = NULL
    <3>1. lent => \A i \in LiveIn(arrays) \ {id} : arrays[i].storage # a.storage
      BY DEF ArraysInv, HeapOK, Live, LiveIn
    <3> HIDE DEF a
    <3> QED
      BY <1>2, <1>5, <1>7, <3>1
  <2>7. \A l \in M : heap'[l] = Real(allocator'[id])
    BY <2>4
  <2>8. M = (IF arrays'[id] = None THEN {} ELSE {arrays'[id].storage}) \cap Block
    OBVIOUS
  <2>9. \A l \in T : heap'[l] = heap[l]
    BY <1>3, <1>8
  <2> HIDE DEF M
  <2> QED
    BY <1>1, <2>2, <2>3, <2>5, <2>6, <2>7, <2>8, <2>9, HeapStep
<1>11. RoverOK(rover', arrays')
  <2>1. a.mutations = 0 /\ b.mutations > 0 /\ b.mutations \in Nat
    BY <1>1, <1>2 DEF Clean
  <2>2. b = arrays[id] => arrays'[id] = arrays[id]
    BY <2>1
  <2>3. \A i \in Id : i # id => arrays'[i] = arrays[i]
    BY <1>7
  <2>4. rover' = Enumerating([i \in {id} |-> b])
    BY <1>3
  <2>5. arrays[id].mutations = 0 /\ (b.mutations > 0 \/ b = arrays[id])
    BY <2>1
  <2> HIDE DEF new, a
  <2> QED
    BY <2>1, <2>2, <2>3, <2>4, <2>5, RoverFacts
<1>12. \A i \in Id : i # id => /\ arrays'[i] = arrays[i] /\ allocator'[i] = allocator[i]
                               /\ (i \in Live => ArrayOK(i, arrays[i], stolen'))
  BY <1>3, <1>7 DEF ArraysInv
<1>13. ArrayOK(id, c, stolen')
  BY <1>1, <1>2, <1>3, <1>4, <1>5, Constants DEF ArrayOK
<1>14. /\ stolen' \subseteq Id /\ misfreed' \subseteq stolen' /\ allocator' \in [Id -> AnyAllocator]
       /\ UNCHANGED kind
  BY <1>3, <1>9 DEF ArraysInv
<1>15. ArraysInv'
  BY <1>1, <1>7, <1>10, <1>11, <1>12, <1>13, <1>14, InvOne
<1> QED
  BY <1>2, <1>5, <1>6, <1>7, <1>15

-----------------------------------------------------------------------------
(* absorb_array: two arrays change *)

LEMMA InvAll ==
    ASSUME ArraysInv,
           DOMAIN arrays' = Id, arrays' = [i \in Id |-> arrays'[i]],
           \A i \in Id : arrays'[i] # None => ArrayOK(i, arrays'[i], stolen'),
           allocator' \in [Id -> AnyAllocator],
           HeapOK(arrays', heap', allocator'),
           stolen' \subseteq Id, misfreed' \subseteq stolen',
           refs' \in [Object -> Int], RoverOK(rover', arrays'), UNCHANGED kind
    PROVE  ArraysInv'
<1>1. /\ kind' \in Kinds /\ Item' = Item
      /\ (\A i, b, st : ArrayOK(i, b, st)' <=> ArrayOK(i, b, st))
  BY DEF ArraysInv, Item, ArrayOK, Clean, Raw, Fits2
<1>2. ASSUME NEW i \in Live' PROVE ArrayOK(i, arrays'[i], stolen')
  BY DEF Live
<1> QED
  BY <1>1, <1>2 DEF ArraysInv, HeapOK, LiveIn, RoverOK

(* Only where the storage is matters to the heap.                          *)
LEMMA HeapSame ==
    ASSUME NEW f, NEW g, NEW h, NEW al, HeapOK(f, h, al),
           \A i \in Id : f[i] = None <=> g[i] = None,
           \A i \in Id : f[i] # None => g[i].storage = f[i].storage
    PROVE  HeapOK(g, h, al)
<1>1. LiveIn(g) = LiveIn(f)
  BY DEF LiveIn
<1>2. \A i \in LiveIn(f) : g[i].storage = f[i].storage
  BY DEF LiveIn
<1>3. {g[i].storage : i \in LiveIn(g)} = {f[i].storage : i \in LiveIn(f)}
  BY <1>1, <1>2
<1> QED
  BY <1>1, <1>2, <1>3 DEF HeapOK

(* The storage of one array goes to another that has none.                 *)
LEMMA HeapMoves ==
    ASSUME NEW f, NEW g, NEW h, NEW al, HeapOK(f, h, al),
           NEW i \in LiveIn(f), NEW j \in LiveIn(f), i # j,
           f[i].storage = NULL, Real(al[i]) = Real(al[j]),
           LiveIn(g) = LiveIn(f), g[i].storage = f[j].storage, g[j].storage = NULL,
           \A k \in LiveIn(f) : k # i /\ k # j => g[k] = f[k]
    PROVE  HeapOK(g, h, al)
<1>1. {g[k].storage : k \in LiveIn(g)} = {f[k].storage : k \in LiveIn(f)}
  <2>1. ASSUME NEW k \in LiveIn(g) PROVE \E m \in LiveIn(f) : g[k].storage = f[m].storage
    OBVIOUS
  <2>2. ASSUME NEW k \in LiveIn(f) PROVE \E m \in LiveIn(g) : f[k].storage = g[m].storage
    OBVIOUS
  <2>3. {g[k].storage : k \in LiveIn(g)} \subseteq {f[k].storage : k \in LiveIn(f)}
    BY <2>1
  <2>4. {f[k].storage : k \in LiveIn(f)} \subseteq {g[k].storage : k \in LiveIn(g)}
    BY <2>2
  <2> QED
    BY <2>3, <2>4
<1>2. ASSUME NEW k \in LiveIn(g), NEW m \in LiveIn(g), g[k].storage = g[m].storage, k # m
      PROVE  g[k].storage = NULL
  BY <1>2 DEF HeapOK
<1>3. ASSUME NEW k \in LiveIn(g), g[k].storage \in Block
      PROVE  h[g[k].storage] = Real(al[k])
  BY <1>3, Constants DEF HeapOK
<1> QED
  BY <1>1, <1>2, <1>3 DEF HeapOK

LEMMA RobbedFacts ==
    ASSUME NEW a, NEW v, Clean(a), Clean(v), kind = "pointers", a.storage = NULL
    PROVE  LET na == Absorb(a, v, TRUE)
               nv == Absorbed(a, v, TRUE)
           IN  /\ na \in Raw /\ na.items = v.items /\ na.size = v.size /\ na.storage = v.storage
               /\ na.initial = NULL /\ na.freed = {} /\ na.mutations = 1
               /\ nv \in Raw /\ nv.items = <<>> /\ nv.size = 0 /\ nv.storage = NULL
               /\ nv.initial = v.initial /\ nv.freed = {} /\ nv.mutations = 0
<1> DEFINE d == [a EXCEPT !.items = v.items, !.size = v.size, !.storage = v.storage, !.initial = NULL]
           nv == Absorbed(a, v, TRUE)
<1>1. /\ a \in Raw /\ a.mutations = 0 /\ a.freed = {} /\ <<>> \in Seq(Item)
      /\ v \in Raw /\ v.mutations = 0 /\ v.freed = {}
  BY DEF Clean
<1>2. /\ d \in Raw /\ d.items = v.items /\ d.size = v.size /\ d.storage = v.storage
      /\ d.initial = NULL /\ d.freed = {} /\ d.mutations = 0
  BY <1>1, Constants DEF Raw
<1>3. Absorb(a, v, TRUE) = Bump(d)
  BY DEF Absorb, Steals
<1> HIDE DEF d
<1>4. /\ Bump(d) \in Raw /\ Bump(d).items = v.items /\ Bump(d).size = v.size
      /\ Bump(d).storage = v.storage
      /\ Bump(d).initial = NULL /\ Bump(d).freed = {} /\ Bump(d).mutations = 1
  BY <1>2 DEF Bump, Raw
<1>5. nv = [v EXCEPT !.items = <<>>, !.size = 0, !.storage = NULL]
  BY DEF Absorbed, Steals
<1>6. /\ nv \in Raw /\ nv.items = <<>> /\ nv.size = 0 /\ nv.storage = NULL
      /\ nv.initial = v.initial /\ nv.freed = {} /\ nv.mutations = 0
  BY <1>1, <1>5, Constants DEF Raw
<1> QED
  BY <1>3, <1>4, <1>6

LEMMA AbsorbStealsInv ==
    ASSUME ArraysInv, NEW id \in Live, NEW victim \in Live, kind = "pointers", UNCHANGED kind,
           AbsorbArray(id, victim), refs' \in [Object -> Int],
           arrays[id].storage = NULL, Real(allocator[id]) = Real(allocator[victim])
    PROVE  ArraysInv' /\ arrays'[id] # None /\ arrays'[victim] # None
<1> DEFINE a == arrays[id]
           v == arrays[victim]
           na == Absorb(a, v, TRUE)
           nv == Absorbed(a, v, TRUE)
           new == [i \in {id, victim} |-> IF i = id THEN na ELSE nv]
           blk == Unused(DOMAIN heap \ Freed(new))
<1>1. /\ id \in Id /\ victim \in Id /\ ArrayOK(id, a, stolen) /\ ArrayOK(victim, v, stolen)
      /\ Clean(a) /\ Clean(v) /\ id # victim
  BY DEF ArraysInv, ArrayOK, Live, AbsorbArray
<1>2. /\ na \in Raw /\ na.items = v.items /\ na.size = v.size /\ na.storage = v.storage
      /\ na.initial = NULL /\ na.freed = {} /\ na.mutations = 1
      /\ nv \in Raw /\ nv.items = <<>> /\ nv.size = 0 /\ nv.storage = NULL
      /\ nv.initial = v.initial /\ nv.freed = {} /\ nv.mutations = 0
  BY <1>1, RobbedFacts
<1>3. /\ arrays' = [i \in Id |-> IF i \in DOMAIN new THEN Settled(new[i], blk) ELSE arrays[i]]
      /\ heap' = HeapAfter(new, allocator, blk)
      /\ misfreed' = misfreed \cup Harm(new, allocator)
      /\ rover' = (IF rover # None /\ rover.array = victim THEN [rover EXCEPT !.robbed = TRUE]
                   ELSE Enumerating(new))
      /\ stolen' = stolen \cup ({v.storage} \cap Id)
      /\ allocator' = allocator
  BY DEF AbsorbArray, CommitTo, Steals
<1>4. DOMAIN new = {id, victim} /\ new[id] = na /\ new[victim] = nv
  BY <1>1
<1> HIDE DEF na, nv
<1>5. Freed(new) = {} /\ Moving(new) = {}
  <2>1. \A i \in DOMAIN new : new[i].freed = {} /\ new[i].storage # Moved
    BY <1>1, <1>2, <1>4, Constants DEF Clean
  <2> HIDE DEF new
  <2> QED
    BY <2>1 DEF Freed, Moving
<1>6. Harm(new, allocator) = {}
  <2>1. \A i \in DOMAIN new : new[i].freed = {}
    BY <1>2, <1>4
  <2> HIDE DEF new
  <2>2. UNION {{l \in new[i].freed : l \in DOMAIN heap /\ heap[l] # Real(allocator[i])} :
                        i \in DOMAIN new} = {}
    <3>1. \A i \in DOMAIN new :
             {l \in new[i].freed : l \in DOMAIN heap /\ heap[l] # Real(allocator[i])} = {}
      BY <2>1
    <3> QED
      BY <3>1
  <2> QED
    BY <1>5, <2>2 DEF Harm
<1>7. /\ DOMAIN arrays' = Id /\ arrays' = [i \in Id |-> arrays'[i]]
      /\ arrays'[id] = Settled(na, blk) /\ arrays'[victim] = Settled(nv, blk)
      /\ \A i \in Id : i # id /\ i # victim => arrays'[i] = arrays[i]
  BY <1>1, <1>3, <1>4
<1>8. DOMAIN heap' = DOMAIN heap /\ \A l \in DOMAIN heap : heap'[l] = heap[l]
  <2>1. DOMAIN heap \ Freed(new) = DOMAIN heap
    BY <1>5
  <2>2. heap' = [l \in DOMAIN heap |-> heap[l]]
    BY <1>3, <1>5, <2>1 DEF HeapAfter
  <2> QED
    BY <2>2
<1> HIDE DEF new, blk
<1>9. PICK l \in Block : TRUE
  BY <1>1, UnusedFacts
<1> DEFINE ca == Settled(na, blk)
           cv == Settled(nv, blk)
<1>10. na.storage \in Storage /\ na.storage # Moved
  BY <1>1, <1>2 DEF ArrayOK, Clean
<1>11. /\ Clean(ca) /\ ca.items = na.items /\ ca.storage = na.storage /\ ca.initial = NULL
  <2>1. ca = Settled(na, l)
    BY <1>10 DEF Settled
  <2>2. Fits2(na) /\ (na.storage = NULL => na.size = 0)
    BY <1>1, <1>2 DEF Clean, Fits2
  <2> HIDE DEF ca
  <2> QED
    BY <1>2, <1>9, <1>10, <2>1, <2>2, SettledRaw
<1>12. /\ Clean(cv) /\ cv.items = nv.items /\ cv.storage = NULL /\ cv.initial = v.initial
  <2>1. cv = Settled(nv, l)
    BY <1>2, Constants DEF Settled
  <2>2. Fits2(nv)
    BY <1>2 DEF Fits2
  <2> HIDE DEF cv
  <2> QED
    BY <1>2, <1>9, <2>1, <2>2, Constants, SettledRaw
<1>13. ca # None /\ cv # None
  BY <1>10, <1>11, <1>12, Constants, CleanIsLive DEF ArraysInv
<1>14. ArrayOK(id, ca, stolen')
  BY <1>2, <1>3, <1>10, <1>11 DEF ArrayOK
<1>15. ArrayOK(victim, cv, stolen')
  BY <1>1, <1>3, <1>12, Constants DEF ArrayOK
<1> HIDE DEF ca, cv
<1>16. arrays'[id] = ca /\ arrays'[victim] = cv
  BY <1>7 DEF ca, cv
<1>17. LiveIn(arrays') = LiveIn(arrays) /\ id \in LiveIn(arrays) /\ victim \in LiveIn(arrays)
  BY <1>1, <1>7, <1>13, <1>16 DEF LiveIn, Live
<1>18. HeapOK(arrays', heap', allocator')
  <2>1. HeapOK(arrays, heap, allocator)
    BY DEF ArraysInv
  <2>2. \A k \in LiveIn(arrays) : k # id /\ k # victim => arrays'[k] = arrays[k]
    BY <1>7 DEF LiveIn
  <2>3. arrays'[id].storage = arrays[victim].storage /\ arrays'[victim].storage = NULL
    BY <1>2, <1>11, <1>12, <1>16
  <2>4. HeapOK(arrays', heap, allocator)
    BY <1>1, <1>17, <2>1, <2>2, <2>3, HeapMoves
  <2> QED
    BY <1>3, <1>8, <2>4 DEF HeapOK
<1>19. RoverOK(rover', arrays')
  <2>1. CASE rover = None \/ (rover # None /\ rover.array = id)
    <3>1. rover' = None
      BY <1>1, <1>2, <1>3, <1>4, <2>1 DEF Enumerating
    <3> QED
      BY <3>1 DEF RoverOK
  <2>2. CASE rover # None /\ rover.array = victim
    <3>1. rover \in RoverRecord /\ rover' = [rover EXCEPT !.robbed = TRUE]
      BY <1>3, <2>2 DEF ArraysInv, RoverOK
    <3>2. rover' \in RoverRecord /\ rover'.robbed /\ rover'.array = victim
      BY <2>2, <3>1 DEF RoverRecord
    <3> QED
      BY <1>17, <3>2 DEF RoverOK
  <2>3. CASE rover # None /\ rover.array # victim /\ rover.array # id
    <3>1. rover' = rover
      BY <1>3, <1>4, <2>3 DEF Enumerating
    <3>2. rover.array \in LiveIn(arrays) /\ arrays'[rover.array] = arrays[rover.array]
      BY <1>7, <2>3 DEF ArraysInv, RoverOK, LiveIn
    <3> QED
      BY <1>17, <2>3, <3>1, <3>2 DEF ArraysInv, RoverOK
  <2> QED
    BY <2>1, <2>2, <2>3
<1>20. \A i \in Id : arrays'[i] # None => ArrayOK(i, arrays'[i], stolen')
  <2> SUFFICES ASSUME NEW i \in Id, arrays'[i] # None, i # id, i # victim
               PROVE  ArrayOK(i, arrays'[i], stolen')
    BY <1>14, <1>15, <1>16
  <2>1. arrays'[i] = arrays[i] /\ i \in Live
    BY <1>7 DEF Live
  <2>2. ArrayOK(i, arrays[i], stolen)
    BY <2>1 DEF ArraysInv
  <2> QED
    BY <1>3, <2>1, <2>2 DEF ArrayOK
<1>21. /\ stolen' \subseteq Id /\ misfreed' \subseteq stolen' /\ allocator' \in [Id -> AnyAllocator]
  BY <1>3, <1>6 DEF ArraysInv
<1> QED
  BY <1>7, <1>13, <1>16, <1>18, <1>19, <1>20, <1>21, InvAll

(* The victim is robbed of nothing: its items are copied.                  *)
LEMMA AbsorbCopiesInv ==
    ASSUME ArraysInv, NEW id \in Live, NEW victim \in Live, kind = "pointers", UNCHANGED kind,
           AbsorbArray(id, victim), refs' \in [Object -> Int],
           ~ Steals(arrays[id], Real(allocator[id]) = Real(allocator[victim]))
    PROVE  ArraysInv' /\ arrays'[id] # None /\ arrays'[victim] # None
<1> DEFINE a == arrays[id]
           v == arrays[victim]
           na == Advance(Bump(a), v.items)
           nv == Reset(v)
           new == [i \in {id, victim} |-> IF i = id THEN na ELSE nv]
           blk == Unused(DOMAIN heap \ Freed(new))
           ca == Settled(na, blk)
           cv == Settled(nv, blk)
           g == [i \in Id |-> IF i = id THEN ca ELSE arrays[i]]
<1>1. /\ id \in Id /\ victim \in Id /\ ArrayOK(id, a, stolen) /\ ArrayOK(victim, v, stolen)
      /\ Clean(a) /\ Clean(v) /\ id # victim
  BY DEF ArraysInv, ArrayOK, Live, AbsorbArray
<1>2. /\ arrays' = [i \in Id |-> IF i \in DOMAIN new THEN Settled(new[i], blk) ELSE arrays[i]]
      /\ heap' = HeapAfter(new, allocator, blk)
      /\ misfreed' = misfreed \cup Harm(new, allocator)
      /\ rover' = Enumerating(new) /\ stolen' = stolen /\ allocator' = allocator
  BY DEF AbsorbArray, CommitTo, Absorb, Absorbed
<1>3. Stage(a, na) /\ Stage(v, nv) /\ na.mutations > 0 /\ nv.mutations > 0
  <2>1. Stage(a, a) /\ Stage(v, v)
    BY <1>1, StageSame
  <2>2. Stage(a, Bump(a)) /\ v.items \in Seq(Item)
    BY <2>1, StageBump, StageNumbers
  <2>3. Stage(a, na) /\ na.mutations > 0
    BY <2>2, StageAdvance
  <2>4. Stage(v, nv) /\ nv.mutations > 0
    BY <2>1, StageReset
  <2> QED
    BY <2>3, <2>4
<1>4. DOMAIN new = {id, victim} /\ new[id] = na /\ new[victim] = nv
  BY <1>1
<1>5. nv.storage = v.storage /\ nv.initial = v.initial /\ nv.freed = {} /\ nv.storage # Moved
  BY <1>1 DEF Reset, Bump, Clean, Raw
<1> HIDE DEF na, nv
<1>6. na \in Raw /\ na.storage \in Maybe /\ na.freed \subseteq Maybe /\ na.mutations \in Nat
  BY <1>3 DEF Stage, Raw
<1>7. na.freed \ {NULL, Moved} = IF Stays(a, na) THEN {} ELSE {a.storage} \ {NULL, a.initial}
  BY <1>1, <1>3 DEF Stage, Moves, Stays
<1>8. /\ Freed(new) = na.freed \ {NULL, Moved}
      /\ Moving(new) = (IF na.storage = Moved THEN {id} ELSE {})
  <2>1. {new[i].freed : i \in DOMAIN new} = {na.freed, {}}
    BY <1>4, <1>5
  <2>2. Freed(new) = na.freed \ {NULL, Moved}
    BY <2>1 DEF Freed
  <2>3. \A i \in DOMAIN new : new[i].storage = Moved <=> i = id /\ na.storage = Moved
    BY <1>1, <1>4, <1>5
  <2> HIDE DEF new
  <2> QED
    BY <1>4, <2>2, <2>3 DEF Moving
<1>9. Harm(new, allocator) \subseteq stolen
  <2> DEFINE one == [i \in {id} |-> na]
  <2>1. Freed(one) = Freed(new) /\ Harm(one, allocator) \subseteq stolen
    BY <1>7, <1>8, FreedFacts
  <2>2. ASSUME NEW l, l \in Harm(new, allocator) PROVE l \in Harm(one, allocator)
    <3>1. CASE l \in Freed(new) /\ l \notin DOMAIN heap
      BY <2>1, <3>1 DEF Harm
    <3>2. CASE \E i \in DOMAIN new : l \in {k \in new[i].freed : k \in DOMAIN heap
                                               /\ heap[k] # Real(allocator[i])}
      <4>1. l \in na.freed /\ l \in DOMAIN heap /\ heap[l] # Real(allocator[id])
        BY <1>4, <1>5, <3>2
      <4>2. DOMAIN one = {id} /\ one[id] = na
        OBVIOUS
      <4> HIDE DEF one
      <4> QED
        BY <4>1, <4>2 DEF Harm
    <3> HIDE DEF new, one
    <3> QED
      BY <2>2, <3>1, <3>2 DEF Harm
  <2> QED
    BY <2>1, <2>2
<1>10. /\ DOMAIN arrays' = Id /\ arrays' = [i \in Id |-> arrays'[i]]
       /\ arrays'[id] = ca /\ arrays'[victim] = cv
       /\ \A i \in Id : i # id /\ i # victim => arrays'[i] = arrays[i]
  BY <1>1, <1>2, <1>4
<1> HIDE DEF new
<1>11. g[id] = ca /\ \A i \in Id : i # id => g[i] = arrays[i]
  BY <1>1
<1> HIDE DEF g, blk
<1>12. /\ ArrayOK(id, ca, stolen) /\ ca # None /\ HeapOK(g, heap', allocator)
  <2>1. blk = Unused(DOMAIN heap \ Freed(new)) /\ heap' = HeapAfter(new, allocator, blk)
        /\ g[id] = Settled(na, blk)
    BY <1>2, <1>11 DEF blk, ca
  <2> QED
    BY <1>3, <1>8, <1>11, <2>1, CommitOne DEF ca
<1>13. ArrayOK(victim, cv, stolen) /\ cv # None /\ cv.storage = v.storage
  <2>1. PICK l \in Block : TRUE
    BY <1>1, UnusedFacts
  <2>2. cv = Settled(nv, l)
    BY <1>5 DEF Settled
  <2> HIDE DEF cv
  <2>3. Clean(cv) /\ cv.storage = v.storage /\ cv.initial = v.initial /\ cv.storage \in Storage
    BY <1>3, <1>5, <2>2, SettledFacts
  <2>4. cv # None
    BY <2>3, CleanIsLive DEF ArraysInv
  <2> QED
    BY <1>1, <2>3, <2>4 DEF ArrayOK
<1> HIDE DEF ca, cv
<1>14. HeapOK(arrays', heap', allocator')
  <2>1. \A i \in Id : g[i] = None <=> arrays'[i] = None
    BY <1>10, <1>11, <1>12, <1>13 DEF Live
  <2>2. \A i \in Id : g[i] # None => arrays'[i].storage = g[i].storage
    BY <1>1, <1>10, <1>11, <1>13
  <2>3. HeapOK(arrays', heap', allocator)
    BY <1>12, <2>1, <2>2, HeapSame
  <2> QED
    BY <1>2, <2>3
<1>15. RoverOK(rover', arrays')
  <2>1. CASE rover = None \/ (rover # None /\ rover.array \in {id, victim})
    <3>1. rover' = None
      BY <1>2, <1>3, <1>4, <2>1 DEF Enumerating
    <3> QED
      BY <3>1 DEF RoverOK
  <2>3. CASE rover # None /\ rover.array # victim /\ rover.array # id
    <3>1. rover' = rover
      BY <1>2, <1>4, <2>3 DEF Enumerating
    <3>2. rover.array \in LiveIn(arrays) /\ arrays'[rover.array] = arrays[rover.array]
      BY <1>10, <2>3 DEF ArraysInv, RoverOK, LiveIn
    <3>3. rover.array \in LiveIn(arrays')
      BY <3>2 DEF LiveIn
    <3> QED
      BY <2>3, <3>1, <3>2, <3>3 DEF ArraysInv, RoverOK
  <2> QED
    BY <2>1, <2>3
<1>16. \A i \in Id : arrays'[i] # None => ArrayOK(i, arrays'[i], stolen')
  <2> SUFFICES ASSUME NEW i \in Id, arrays'[i] # None, i # id, i # victim
               PROVE  ArrayOK(i, arrays'[i], stolen')
    BY <1>2, <1>10, <1>12, <1>13
  <2>1. arrays'[i] = arrays[i] /\ i \in Live
    BY <1>10 DEF Live
  <2> QED
    BY <1>2, <2>1 DEF ArraysInv
<1>17. /\ stolen' \subseteq Id /\ misfreed' \subseteq stolen' /\ allocator' \in [Id -> AnyAllocator]
  BY <1>2, <1>9 DEF ArraysInv
<1> QED
  BY <1>10, <1>12, <1>13, <1>14, <1>15, <1>16, <1>17, InvAll

LEMMA AbsorbInv ==
    ASSUME ArraysInv, NEW id \in Live, NEW victim \in Live, kind = "pointers",
           AbsorbArray(id, victim)
    PROVE  ArraysInv' /\ arrays'[id] # None /\ arrays'[victim] # None
<1>1. refs' \in [Object -> Int] /\ UNCHANGED kind
  BY DEF ArraysInv, AbsorbArray
<1>2. CASE Steals(arrays[id], Real(allocator[id]) = Real(allocator[victim]))
  <2>1. arrays[id].storage = NULL /\ Real(allocator[id]) = Real(allocator[victim])
    BY <1>2 DEF Steals
  <2> QED
    BY <1>1, <2>1, AbsorbStealsInv
<1>3. CASE ~ Steals(arrays[id], Real(allocator[id]) = Real(allocator[victim]))
  BY <1>1, <1>3, AbsorbCopiesInv
<1> QED
  BY <1>2, <1>3

-----------------------------------------------------------------------------
(* Enumerators *)

LEMMA RoverInv ==
    ASSUME ArraysInv, UNCHANGED <<kind, arrays, allocator, memory, refs>>, RoverOK(rover', arrays)
    PROVE  ArraysInv'
<1>1. /\ Item' = Item /\ kind' = kind /\ arrays' = arrays /\ allocator' = allocator
      /\ heap' = heap /\ misfreed' = misfreed /\ stolen' = stolen /\ refs' = refs
  BY DEF Item, memory
<1>2. \A i, b, st : ArrayOK(i, b, st)' <=> ArrayOK(i, b, st)
  BY <1>1 DEF ArrayOK, Clean, Raw, Fits2
<1> QED
  BY <1>1, <1>2 DEF ArraysInv, Live, LiveIn, HeapOK, RoverOK

LEMMA LiveFacts ==
    ASSUME ArraysInv, NEW id \in Live
    PROVE  /\ id \in Id /\ id \in LiveIn(arrays) /\ arrays[id] # None
           /\ Clean(arrays[id]) /\ arrays[id].storage \in Storage
           /\ arrays[id].items \in Seq(Item) /\ Len(arrays[id].items) \in Nat
           /\ arrays[id].size \in Nat /\ Len(arrays[id].items) <= arrays[id].size
           /\ Stage(arrays[id], arrays[id]) /\ ArrayOK(id, arrays[id], stolen)
<1>1. id \in Id /\ id \in LiveIn(arrays) /\ arrays[id] # None
  BY DEF Live, LiveIn
<1>2. ArrayOK(id, arrays[id], stolen) /\ Clean(arrays[id]) /\ arrays[id].storage \in Storage
  BY DEF ArraysInv, ArrayOK
<1>3. Stage(arrays[id], arrays[id])
  BY <1>2, StageSame
<1> QED
  BY <1>1, <1>2, <1>3, StageNumbers

LEMMA EnumerateInv ==
    ASSUME ArraysInv, NEW id \in Live, UNCHANGED <<kind, arrays, allocator, memory, refs>>,
           Enumerate(id) \/ ReverseEnumerate(id)
    PROVE  ArraysInv'
<1>1. /\ id \in Id /\ id \in LiveIn(arrays) /\ arrays[id].storage \in Storage
      /\ Len(arrays[id].items) \in Nat
  BY LiveFacts
<1>2. PICK n \in Nat : n = Len(arrays[id].items)
  BY <1>1
<1>3. CASE Enumerate(id)
  <2>1. rover' = [array |-> id, forward |-> TRUE, at |-> 0, end |-> n,
                  storage |-> arrays[id].storage, robbed |-> FALSE]
    BY <1>2, <1>3 DEF Enumerate, Count
  <2>2. rover' \in RoverRecord
    BY <1>1, <1>2, <2>1 DEF RoverRecord
  <2>3. RoverOK(rover', arrays)
    BY <1>1, <1>2, <2>1, <2>2 DEF RoverOK
  <2> QED
    BY <2>3, RoverInv
<1>4. CASE ReverseEnumerate(id)
  <2>1. rover' = [array |-> id, forward |-> FALSE, at |-> n, end |-> 0,
                  storage |-> arrays[id].storage, robbed |-> FALSE]
    BY <1>2, <1>4 DEF ReverseEnumerate, Count
  <2>2. rover' \in RoverRecord
    BY <1>1, <1>2, <2>1 DEF RoverRecord
  <2>3. RoverOK(rover', arrays)
    BY <1>1, <1>2, <2>1, <2>2 DEF RoverOK
  <2> QED
    BY <2>3, RoverInv
<1> QED
  BY <1>3, <1>4

LEMMA EnumeratorNextInv ==
    ASSUME ArraysInv, UNCHANGED <<kind, arrays, allocator, memory, refs>>,
           EnumeratorNext \/ ReverseEnumeratorNext
    PROVE  ArraysInv'
<1>1. rover # None /\ rover \in RoverRecord /\ RoverOK(rover, arrays)
  BY DEF ArraysInv, RoverOK, EnumeratorNext, ReverseEnumeratorNext
<1>2. rover.at \in Nat /\ rover.end \in Nat /\ rover.array \in Live
  BY <1>1 DEF RoverRecord, RoverOK, Live, LiveIn
<1>3. Len(arrays[rover.array].items) \in Nat
  BY <1>2, LiveFacts
<1>4. CASE rover' = None
  BY <1>4, RoverInv DEF RoverOK
<1>5. CASE EnumeratorNext /\ rover.at < rover.end
  <2>1. rover' = [rover EXCEPT !.at = rover.at + 1] /\ rover.forward
    BY <1>1, <1>5 DEF EnumeratorNext, RoverRecord
  <2>2. PICK k \in Nat : k = rover.at + 1 /\ k <= rover.end
    BY <1>2, <1>5
  <2>3. rover' = [rover EXCEPT !.at = k]
    BY <2>1, <2>2
  <2>4. /\ rover' \in RoverRecord /\ rover'.at = k /\ rover'.array = rover.array
        /\ rover'.storage = rover.storage /\ rover'.forward /\ rover'.end = rover.end
        /\ rover'.robbed = rover.robbed
    BY <1>1, <2>1, <2>3 DEF RoverRecord
  <2>5. RoverOK(rover', arrays)
    BY <1>1, <1>2, <1>3, <2>1, <2>2, <2>4 DEF RoverOK
  <2> QED
    BY <2>5, RoverInv
<1>6. CASE ReverseEnumeratorNext /\ rover.at > rover.end
  <2>1. rover' = [rover EXCEPT !.at = rover.at - 1] /\ ~ rover.forward
    BY <1>1, <1>6 DEF ReverseEnumeratorNext, RoverRecord
  <2>2. PICK k \in Nat : k = rover.at - 1 /\ k <= rover.at
    BY <1>2, <1>6
  <2>3. rover' = [rover EXCEPT !.at = k]
    BY <2>1, <2>2
  <2>4. /\ rover' \in RoverRecord /\ rover'.at = k /\ rover'.array = rover.array
        /\ rover'.storage = rover.storage /\ ~ rover'.forward /\ rover'.end = rover.end
        /\ rover'.robbed = rover.robbed
    BY <1>1, <2>1, <2>3 DEF RoverRecord
  <2>6. rover.robbed \/ k <= Len(arrays[rover.array].items)
    BY <1>1, <1>2, <1>3, <2>2 DEF RoverOK
  <2>5. RoverOK(rover', arrays)
    BY <1>1, <2>1, <2>4, <2>6 DEF RoverOK
  <2> QED
    BY <2>5, RoverInv
<1> QED
  BY <1>4, <1>5, <1>6 DEF EnumeratorNext, ReverseEnumeratorNext

-----------------------------------------------------------------------------
(* The invariant is inductive: arrays of pointers *)

LEMMA ChangeInv ==
    ASSUME ArraysInv, NEW id \in Live, NEW b, Stage(arrays[id], b), Update(id, b), UNCHANGED refs
    PROVE  ArraysInv'
<1>1. refs' \in [Object -> Int]
  BY DEF ArraysInv
<1> QED
  BY <1>1, UpdateInv

LEMMA FewFacts ==
    ASSUME Values \subseteq Item
    PROVE  Few \subseteq Seq(Item) /\ \A p \in Values : <<p>> \in Seq(Item)
<1>1. \A p, q \in Item : <<p>> \in Seq(Item) /\ <<p, q>> \in Seq(Item)
  OBVIOUS
<1>2. <<>> \in Seq(Item) /\ NULL \in Item /\ Pointer \subseteq Item
  BY DEF Values
<1> QED
  BY <1>1, <1>2 DEF Few

LEMMA FreshFacts ==
    ASSUME NEW n \in Nat, NEW b, b = Fresh(n)
    PROVE  /\ b \in Raw /\ Fits2(b) /\ b.freed = {} /\ b.mutations = 0 /\ b.items = <<>>
           /\ b.storage \in {NULL, Moved} /\ b.initial = NULL /\ b.size = n
           /\ b.storage = NULL => b.size = 0
<1>1. <<>> \in Seq(Item) /\ Len(<<>>) = 0
  OBVIOUS
<1> QED
  BY <1>1, Constants DEF Fresh, Raw, Fits2

LEMMA FreshStaticFacts ==
    ASSUME NEW id \in Id, NEW b, b = FreshStatic(id, LentCapacity)
    PROVE  /\ b \in Raw /\ Fits2(b) /\ b.freed = {} /\ b.mutations = 0 /\ b.items = <<>>
           /\ b.storage = id /\ b.initial = id /\ b.storage # NULL
<1>1. <<>> \in Seq(Item) /\ Len(<<>>) = 0
  OBVIOUS
<1> QED
  BY <1>1, Constants DEF FreshStatic, Raw, Fits2

LEMMA InitInv ==
    ASSUME ArraysInv, misfreed = {}, NEW id \in Id, NEW al \in AnyAllocator, UNCHANGED refs,
           NEW n \in Nat,
           Establish(id, Fresh(n), al)
               \/ (MayLend(id) /\ Establish(id, FreshStatic(id, LentCapacity), al))
    PROVE  ArraysInv'
<1>1. refs' \in [Object -> Int]
  BY DEF ArraysInv
<1>2. CASE Establish(id, Fresh(n), al)
  <2>1. PICK b : b = Fresh(n)
    OBVIOUS
  <2>2. /\ b \in Raw /\ Fits2(b) /\ b.freed = {}
        /\ b.storage \in {NULL, Moved} /\ b.initial = NULL /\ (b.storage = NULL => b.size = 0)
    BY <2>1, FreshFacts
  <2>3. Establish(id, b, al)
    BY <1>2, <2>1
  <2> QED
    BY <1>1, <2>2, <2>3, EstablishInv
<1>3. CASE MayLend(id) /\ Establish(id, FreshStatic(id, LentCapacity), al)
  <2>1. PICK b : b = FreshStatic(id, LentCapacity)
    OBVIOUS
  <2>2. /\ b \in Raw /\ Fits2(b) /\ b.freed = {}
        /\ b.storage = id /\ b.initial = id /\ b.storage # NULL
    BY <2>1, FreshStaticFacts
  <2>3. Establish(id, b, al) /\ MayLend(id)
    BY <1>3, <2>1
  <2> QED
    BY <1>1, <2>2, <2>3, EstablishInv
<1> QED
  BY <1>2, <1>3

LEMMA PointerInv ==
    ASSUME ArraysInv, misfreed = {}, kind = "pointers", PointerNext
    PROVE  ArraysInv'
<1>1. Item = Values /\ NULL \in Item /\ kind # "structs" /\ Values \subseteq Item
  BY ItemFacts DEF ArraysInv
<1>2. \A i \in Live : /\ i \in Id /\ arrays[i].items \in Seq(Item) /\ Stage(arrays[i], arrays[i])
                      /\ Len(arrays[i].items) \in Nat /\ Count(arrays[i]) = Len(arrays[i].items)
                      /\ Clean(arrays[i])
  BY LiveFacts DEF Count
<1>3. Few \subseteq Seq(Item) /\ \A p \in Values : <<p>> \in Seq(Item)
  BY <1>1, FewFacts
<1>4. \A i \in Live : RangesOf(i) \subseteq AnyRange /\ \A k \in Indices(i) :
          k \in Nat /\ Make(k, 1) \in AnyRange /\ k \in 0 .. Len(arrays[i].items) - 1
  BY <1>2 DEF RangesOf, AnyRange, Indices, Make
<1>5. ASSUME NEW id \in Id, NEW al \in Allocator[id],
             InitWithStaticPointer(id, al) \/ \E n \in Capacities : InitArray(id, n, al)
      PROVE  ArraysInv'
  <2>1. al \in AnyAllocator /\ UNCHANGED refs
    BY <1>5 DEF AnyAllocator, InitWithStaticPointer, InitArray
  <2>2. \E n \in Nat : Establish(id, Fresh(n), al)
               \/ (MayLend(id) /\ Establish(id, FreshStatic(id, LentCapacity), al))
    BY <1>5, Constants DEF InitWithStaticPointer, InitArray
  <2> QED
    BY <2>1, <2>2, InitInv
<1>6. ASSUME NEW id \in Live, DoneArray(id) PROVE ArraysInv'
  <2>1. PICK b : b = Done(arrays[id])
    OBVIOUS
  <2>2. b.freed \ {NULL, Moved} = {arrays[id].storage} \ {NULL, arrays[id].initial} /\ b.mutations = 1
    BY <1>1, <1>2, <2>1, DoneFacts
  <2>3. Dissolve(id, b) /\ refs' \in [Object -> Int]
    BY <1>6, <2>1 DEF DoneArray, ArraysInv
  <2> QED
    BY <2>2, <2>3, DissolveInv
<1>7. ASSUME NEW id \in Live, NEW b, Stage(arrays[id], b), Change(id, b) PROVE ArraysInv'
  BY <1>7, ChangeInv DEF Change
<1>8. ASSUME NEW id \in Live, NEW n \in 0 .. 2, GuaranteeRoom(id, n) PROVE ArraysInv'
  <2>1. Stage(arrays[id], Guarantee(arrays[id], n))
    BY <1>1, <1>2, StageGuarantee
  <2> QED
    BY <1>7, <1>8, <2>1 DEF GuaranteeRoom
<1>9. ASSUME NEW id \in Live, GrowArray(id) PROVE ArraysInv'
  <2>1. PICK z \in Nat : z = arrays[id].size /\ z >= Len(arrays[id].items)
    BY <1>2, LiveFacts
  <2>2. PICK n \in Nat : n = 2 * z /\ n >= z
    OBVIOUS
  <2>3. n >= Len(arrays[id].items)
    BY <1>2, <2>1, <2>2
  <2>4. Stage(arrays[id], Realloc(arrays[id], n))
    BY <1>1, <1>2, <2>3, StageRealloc
  <2> QED
    BY <1>7, <1>9, <2>1, <2>2, <2>4 DEF GrowArray, Grow
<1>10. ASSUME NEW id \in Live, NEW ps \in Few, AdvanceArray(id, ps) PROVE ArraysInv'
  <2>1. Stage(arrays[id], Advance(arrays[id], ps))
    BY <1>1, <1>2, <1>3, StageAdvance
  <2> QED
    BY <1>7, <1>10, <2>1 DEF AdvanceArray
<1>11. ASSUME NEW id \in Live, NEW p \in Values, CompactArray(id, p) PROVE ArraysInv'
  <2>1. Stage(arrays[id], Compact(arrays[id], p))
    BY <1>2, StageCompact
  <2> QED
    BY <1>7, <1>11, <2>1 DEF CompactArray
<1>12. ASSUME NEW id \in Live, NEW p \in Values, AddGuaranteedPointer(id, p) PROVE ArraysInv'
  <2>1. Len(arrays[id].items) < arrays[id].size
    BY <1>12 DEF AddGuaranteedPointer, Count
  <2>2. Stage(arrays[id], AddGuaranteed(arrays[id], p))
    BY <1>1, <1>2, <2>1, StageAddGuaranteed
  <2> QED
    BY <1>7, <1>12, <2>2 DEF AddGuaranteedPointer
<1>13. ASSUME NEW id \in Live, NEW p \in Values, AddPointer(id, p) PROVE ArraysInv'
  <2>1. Stage(arrays[id], Add(arrays[id], p))
    BY <1>1, <1>2, StageAdd
  <2> QED
    BY <1>7, <1>13, <2>1 DEF AddPointer
<1>14. ASSUME NEW id \in Live, NEW other \in Live, NEW r \in RangesOf(other),
              AddArrayOfPointers(id, other, r)
       PROVE  ArraysInv'
  <2>1. Stage(arrays[id], AddPointerarray(arrays[id], arrays[other], r))
    BY <1>1, <1>2, <1>4, StageAddPointerarray
  <2> QED
    BY <1>7, <1>14, <2>1 DEF AddArrayOfPointers
<1>15. ASSUME NEW id \in Live, PopPointer(id) \/ RemoveLast(id) PROVE ArraysInv'
  <2>1. Stage(arrays[id], Pop(arrays[id]))
    BY <1>2, StagePop
  <2> QED
    BY <1>15, <2>1, ChangeInv DEF PopPointer, RemoveLast, Change
<1>16. ASSUME NEW id \in Live, NEW r \in RangesOf(id), RemovePointersInRange(id, r)
       PROVE  ArraysInv'
  <2>1. Stage(arrays[id], RemoveInRange(arrays[id], r))
    BY <1>2, <1>4, StageRemoveInRange
  <2> QED
    BY <1>7, <1>16, <2>1 DEF RemovePointersInRange
<1>17. ASSUME NEW id \in Live, NEW i \in Indices(id), RemoveAtIndex(id, i) PROVE ArraysInv'
  <2>1. Stage(arrays[id], RemoveInRange(arrays[id], Make(i, 1)))
    BY <1>2, <1>4, StageRemoveInRange
  <2> QED
    BY <1>7, <1>17, <2>1 DEF RemoveAtIndex
<1>18. ASSUME NEW id \in Live, NEW p \in Values, RemovePointer(id, p) PROVE ArraysInv'
  <2>1. Stage(arrays[id], Remove(arrays[id], p))
    BY <1>2, StageRemove
  <2> QED
    BY <1>7, <1>18, <2>1 DEF RemovePointer
<1>19. ASSUME NEW id \in Live, NEW i \in 0 .. Count(arrays[id]), NEW ps \in Few,
              InsertPointersInRange(id, i, ps)
       PROVE  ArraysInv'
  <2>1. Stage(arrays[id], InsertInRange(arrays[id], i, ps))
    BY <1>1, <1>2, <1>3, StageInsert
  <2> QED
    BY <1>7, <1>19, <2>1 DEF InsertPointersInRange
<1>20. ASSUME NEW id \in Live, NEW i \in 0 .. Count(arrays[id]), NEW p \in Values,
              InsertPointer(id, i, p)
       PROVE  ArraysInv'
  <2>1. Stage(arrays[id], InsertInRange(arrays[id], i, <<p>>))
    BY <1>1, <1>2, <1>3, StageInsert
  <2> QED
    BY <1>7, <1>20, <2>1 DEF InsertPointer
<1>21. ASSUME NEW id \in Live, NEW p \in Values, RemoveUniquePointer(id, p) PROVE ArraysInv'
  <2>1. Stage(arrays[id], RemoveUnique(arrays[id], p))
    BY <1>2, StageRemoveUnique
  <2> QED
    BY <1>21, <2>1, ChangeInv DEF RemoveUniquePointer
<1>22. ASSUME NEW id \in Live, QsortPointers(id) PROVE ArraysInv'
  <2>1. PICK t \in Sortings(arrays[id].items, Rank) : Change(id, Sorted(arrays[id], t))
    BY <1>22 DEF QsortPointers
  <2>2. Stage(arrays[id], Sorted(arrays[id], t))
    BY <1>2, StageSorted
  <2> QED
    BY <1>7, <2>1, <2>2
<1>23. ASSUME NEW id \in Live, NEW i \in Indices(id), NEW p \in Values, SetPointer(id, i, p)
       PROVE  ArraysInv'
  <2>1. Stage(arrays[id], Set(arrays[id], i, p))
    BY <1>1, <1>2, <1>4, StageSet
  <2> QED
    BY <1>23, <2>1, ChangeInv DEF SetPointer
<1>24. ASSUME NEW id \in Live, NEW i \in 0 .. MaxItems, NEW p \in Values,
              SetZeroingPointer(id, i, p)
       PROVE  ArraysInv'
  <2>1. i \in Nat
    BY Constants
  <2>3. PICK m : m = i + 1
    OBVIOUS
  <2>2. Stage(arrays[id], SetZeroing(arrays[id], i, p))
    BY <1>1, <1>2, <2>1, <2>3, StageSetZeroing
  <2> QED
    BY <1>7, <1>24, <2>2 DEF SetZeroingPointer
<1>25. ASSUME NEW id \in Live, NEW i \in 0 .. MaxItems, GetZeroingAddressOf(id, i)
       PROVE  ArraysInv'
  <2>1. i \in Nat
    BY Constants
  <2>3. PICK m : m = i + 1
    OBVIOUS
  <2>2. Stage(arrays[id], GetZeroingAddress(arrays[id], i))
    BY <1>1, <1>2, <2>1, <2>3, StageGetZeroingAddress
  <2> QED
    BY <1>25, <2>2, ChangeInv DEF GetZeroingAddressOf
<1>26. ASSUME NEW id \in Live, ResetPointers(id) PROVE ArraysInv'
  <2>1. Stage(arrays[id], Reset(arrays[id]))
    BY <1>2, StageReset
  <2> QED
    BY <1>7, <1>26, <2>1 DEF ResetPointers
<1>27. ASSUME NEW id \in Live, ExtractPointers(id) PROVE ArraysInv'
  <2>1. Extract(id, Extracted(arrays[id])) /\ refs' \in [Object -> Int]
    BY <1>27 DEF ExtractPointers, ArraysInv
  <2> QED
    BY <2>1, ExtractInv
<1>28. ASSUME NEW id \in Live, NEW victim \in Live, AbsorbArray(id, victim) PROVE ArraysInv'
  BY <1>28, AbsorbInv
<1>29. ASSUME NEW id \in Live, OpenEnumerator(id) \/ OpenReverseEnumerator(id) PROVE ArraysInv'
  BY <1>29, EnumerateInv DEF OpenEnumerator, OpenReverseEnumerator
<1>30. ASSUME PointerEnumeratorNext \/ PointerReverseEnumeratorNext PROVE ArraysInv'
  BY <1>30, EnumeratorNextInv DEF PointerEnumeratorNext, PointerReverseEnumeratorNext
<1>31. CASE \E id \in Live : \E other \in Live : \E r \in RangesOf(other) :
                AddArrayOfPointers(id, other, r)
  BY <1>14, <1>31
<1>32. CASE \E id \in Live :
          \/ \E i \in 0 .. Count(arrays[id]), ps \in Few : InsertPointersInRange(id, i, ps)
          \/ \E i \in 0 .. Count(arrays[id]), p \in Values : InsertPointer(id, i, p)
          \/ \E i \in Indices(id), p \in Values : SetPointer(id, i, p)
          \/ \E i \in 0 .. MaxItems, p \in Values : SetZeroingPointer(id, i, p)
          \/ \E i \in 0 .. MaxItems : GetZeroingAddressOf(id, i)
  BY <1>19, <1>20, <1>23, <1>24, <1>25, <1>32
<1>33. CASE \E id \in Live :
          \/ \E r \in RangesOf(id) : RemovePointersInRange(id, r)
          \/ \E i \in Indices(id) : RemoveAtIndex(id, i)
          \/ \E n \in 0 .. 2 : GuaranteeRoom(id, n)
          \/ \E ps \in Few : AdvanceArray(id, ps)
          \/ \E victim \in Live : AbsorbArray(id, victim)
  BY <1>8, <1>10, <1>16, <1>17, <1>28, <1>33
<1>34. CASE \E id \in Live : \E p \in Values :
          \/ CompactArray(id, p) \/ AddGuaranteedPointer(id, p) \/ AddPointer(id, p)
          \/ RemovePointer(id, p) \/ RemoveUniquePointer(id, p)
  BY <1>11, <1>12, <1>13, <1>18, <1>21, <1>34
<1>35. CASE \E id \in Live :
          \/ DoneArray(id) \/ GrowArray(id) \/ PopPointer(id) \/ RemoveLast(id)
          \/ QsortPointers(id) \/ ResetPointers(id) \/ ExtractPointers(id)
          \/ OpenEnumerator(id) \/ OpenReverseEnumerator(id)
  BY <1>6, <1>9, <1>15, <1>22, <1>26, <1>27, <1>29, <1>35
<1> QED
  BY <1>5, <1>30, <1>31, <1>32, <1>33, <1>34, <1>35 DEF PointerNext

-----------------------------------------------------------------------------
(* Arrays of structs *)

LEMMA FreshStructsFacts ==
    ASSUME NEW n \in Nat, NEW b, b = FreshStructs(n)
    PROVE  /\ b \in Raw /\ Fits2(b) /\ b.freed \subseteq {NULL, Moved} /\ b.items = <<>>
           /\ b.storage \in {NULL, Moved} /\ b.initial = NULL
           /\ b.storage = NULL => b.size = 0
<1> DEFINE z == Fresh(0)
           s == IF n = 0 THEN NULL ELSE Moved
           d == [z EXCEPT !.size = n, !.initial = NULL, !.storage = s, !.freed = {NULL}]
           e == Bump(d)
<1>1. /\ z \in Raw /\ z.freed = {} /\ z.items = <<>> /\ z.initial = NULL /\ z.storage = NULL
  BY FreshFacts DEF Fresh
<1>2. Resize(z, n) = e
  BY <1>1 DEF Resize, Raw
<1>3. s \in {NULL, Moved} /\ s \in Maybe /\ {NULL} \in SUBSET Maybe /\ NULL \in Storage
      /\ (s = NULL => n = 0)
  BY Constants
<1> HIDE DEF z, s
<1>4. /\ d \in Raw /\ d.items = <<>> /\ d.initial = NULL /\ d.storage = s /\ d.size = n
      /\ d.freed = {NULL}
  BY <1>1, <1>3 DEF Raw
<1> HIDE DEF d
<1>5. /\ e \in Raw /\ e.items = <<>> /\ e.initial = NULL /\ e.storage = s /\ e.size = n
      /\ e.freed = {NULL}
  BY <1>4, BumpFacts
<1> HIDE DEF e
<1>6. b = [e EXCEPT !.mutations = 0]
  BY <1>2 DEF FreshStructs, z
<1>7. /\ b \in Raw /\ b.items = <<>> /\ b.initial = NULL /\ b.storage = s /\ b.size = n
      /\ b.freed = {NULL}
  BY <1>5, <1>6 DEF Raw
<1>8. Len(b.items) = 0
  BY <1>7
<1> QED
  BY <1>3, <1>7, <1>8 DEF Fits2

LEMMA InitStructsInv ==
    ASSUME ArraysInv, misfreed = {}, NEW id \in Id, NEW al \in AnyAllocator, UNCHANGED refs,
           NEW n \in Nat, Establish(id, FreshStructs(n), al)
    PROVE  ArraysInv'
<1>1. refs' \in [Object -> Int]
  BY DEF ArraysInv
<1>2. PICK b : b = FreshStructs(n)
  OBVIOUS
<1>3. /\ b \in Raw /\ Fits2(b) /\ b.freed \subseteq {NULL, Moved}
      /\ b.storage \in {NULL, Moved} /\ b.initial = NULL /\ (b.storage = NULL => b.size = 0)
  BY <1>2, FreshStructsFacts
<1>4. Establish(id, b, al)
  BY <1>2
<1> QED
  BY <1>1, <1>3, <1>4, EstablishInv

(* A copy is a new array, to which the structs of the other are added.     *)
LEMMA CopyStructsInv ==
    ASSUME ArraysInv, misfreed = {}, kind = "structs", NEW id \in Id, NEW al \in AnyAllocator,
           NEW other \in Live, CopyStructArray(id, other, al)
    PROVE  ArraysInv'
<1> DEFINE a == Fresh(0)
           b == AddStructarray(a, arrays[other], Make(0, All))
<1>1. refs' \in [Object -> Int] /\ Establish(id, b, al)
  BY DEF ArraysInv, CopyStructArray
<1>2. Clean(a) /\ a.storage = NULL /\ a.initial = NULL
  BY FreshFacts, Constants DEF Clean, Fresh
<1>3. Stage(a, a)
  BY <1>2, StageSame
<1>4. Make(0, All) \in AnyRange
  BY DEF AnyRange, Make
<1>5. arrays[other].items \in Seq(Item)
  BY LiveFacts
<1> HIDE DEF a
<1>6. Stage(a, b)
  BY <1>3, <1>4, <1>5, StageAddStructarray
<1> HIDE DEF b
<1>7. b \in Raw /\ Fits2(b)
  BY <1>6 DEF Stage
<1>8. /\ b.storage \in {NULL, Moved} /\ b.initial = NULL /\ (b.storage = NULL => b.size = 0)
      /\ b.freed \subseteq {NULL, Moved}
  <2>1. CASE Stays(a, b)
    BY <1>2, <2>1 DEF Stays, Clean
  <2>2. CASE Moves(a, b)
    BY <1>2, <2>2 DEF Moves
  <2> QED
    BY <1>6, <2>1, <2>2 DEF Stage
<1> QED
  BY <1>1, <1>7, <1>8, EstablishInv

LEMMA StructInv ==
    ASSUME ArraysInv, misfreed = {}, kind = "structs", StructNext
    PROVE  ArraysInv'
<1>1. Item = Values /\ NULL \in Item /\ Values \subseteq Item
  BY ItemFacts DEF ArraysInv
<1>2. \A i \in Live : /\ i \in Id /\ arrays[i].items \in Seq(Item) /\ Stage(arrays[i], arrays[i])
                      /\ Len(arrays[i].items) \in Nat /\ Count(arrays[i]) = Len(arrays[i].items)
                      /\ Clean(arrays[i])
  BY LiveFacts DEF Count
<1>3. Few \subseteq Seq(Item) /\ \A p \in Values : <<p>> \in Seq(Item)
  BY <1>1, FewFacts
<1>4. \A i \in Live : RangesOf(i) \subseteq AnyRange /\ \A k \in Indices(i) :
          k \in Nat /\ Make(k, 1) \in AnyRange /\ k \in 0 .. Len(arrays[i].items) - 1
  BY <1>2 DEF RangesOf, AnyRange, Indices, Make
<1>5. ASSUME NEW id \in Id, NEW al \in Allocator[id], NEW other \in Live,
             CopyStructArray(id, other, al)
      PROVE  ArraysInv'
  BY <1>5, CopyStructsInv DEF AnyAllocator
<1>6. ASSUME NEW id \in Id, NEW al \in Allocator[id], InitStructsWithStaticStorage(id, al)
      PROVE  ArraysInv'
  BY <1>6, InitInv DEF AnyAllocator, InitStructsWithStaticStorage, FreshStaticStructs
<1>7. ASSUME NEW id \in Id, NEW al \in Allocator[id], NEW n \in Capacities,
             InitStructs(id, n, al)
      PROVE  ArraysInv'
  BY <1>7, InitStructsInv, Constants DEF AnyAllocator, InitStructs
<1>8. ASSUME NEW id \in Live, DoneStructArray(id) PROVE ArraysInv'
  <2>1. PICK b : b = DoneStructs(arrays[id])
    OBVIOUS
  <2>2. b.freed \ {NULL, Moved} = {arrays[id].storage} \ {NULL, arrays[id].initial} /\ b.mutations = 1
    BY <1>2, <2>1, DoneFacts
  <2>3. Dissolve(id, b) /\ refs' \in [Object -> Int]
    BY <1>8, <2>1 DEF DoneStructArray, ArraysInv
  <2> QED
    BY <2>2, <2>3, DissolveInv
<1>9. ASSUME NEW id \in Live, NEW b, Stage(arrays[id], b), ChangeStructs(id, b) PROVE ArraysInv'
  BY <1>9, ChangeInv DEF ChangeStructs
<1>10. ASSUME NEW id \in Live, ResetStructArray(id) PROVE ArraysInv'
  <2>1. Stage(arrays[id], ResetStructs(arrays[id]))
    BY <1>2, StageReset DEF ResetStructs
  <2> QED
    BY <1>9, <1>10, <2>1 DEF ResetStructArray
<1>11. ASSUME NEW id \in Live, NEW x \in Values, AddStructTo(id, x) PROVE ArraysInv'
  <2>1. Stage(arrays[id], AddStruct(arrays[id], x))
    BY <1>1, <1>2, StageAddStruct
  <2> QED
    BY <1>9, <1>11, <2>1 DEF AddStructTo
<1>12. ASSUME NEW id \in Live, NEW x \in Values, AddStructGuaranteed(id, x) PROVE ArraysInv'
  <2>1. Len(arrays[id].items) < arrays[id].size
    BY <1>12 DEF AddStructGuaranteed, Count
  <2>2. Stage(arrays[id], AddGuaranteedStruct(arrays[id], x))
    BY <1>1, <1>2, <2>1, StageAddGuaranteed DEF AddGuaranteedStruct
  <2> QED
    BY <1>9, <1>12, <2>2 DEF AddStructGuaranteed
<1>13. ASSUME NEW id \in Live, NEW x \in Values, ReserveStruct(id, x) PROVE ArraysInv'
  <2>1. Stage(arrays[id], AdvanceStructs(arrays[id], <<x>>))
    BY <1>2, <1>3, StageAdvanceStructs
  <2> QED
    BY <1>9, <1>13, <2>1 DEF ReserveStruct
<1>14. ASSUME NEW id \in Live, PopStructFrom(id) \/ RemoveLastStruct(id) PROVE ArraysInv'
  <2>1. Stage(arrays[id], PopStruct(arrays[id]))
    BY <1>2, StagePop DEF PopStruct
  <2> QED
    BY <1>14, <2>1, ChangeInv DEF PopStructFrom, RemoveLastStruct, ChangeStructs
<1>15. ASSUME NEW id \in Live, NEW i \in 0 .. MaxItems, NEW x \in Values, SetStructAt(id, i, x)
       PROVE  ArraysInv'
  <2>1. i \in Nat
    BY Constants
  <2>2. Stage(arrays[id], SetStruct(arrays[id], i, x))
    BY <1>1, <1>2, <2>1, StageSetStruct
  <2> QED
    BY <1>9, <1>15, <2>2 DEF SetStructAt
<1>16. ASSUME NEW id \in Live, NEW n \in 0 .. 2, GuaranteeStructRoom(id, n) PROVE ArraysInv'
  <2>1. Stage(arrays[id], GuaranteeStructs(arrays[id], n))
    BY <1>2, StageGuaranteeStructs
  <2> QED
    BY <1>9, <1>16, <2>1 DEF GuaranteeStructRoom
<1>17. ASSUME NEW id \in Live, GrowStructArray(id) PROVE ArraysInv'
  <2>1. Stage(arrays[id], GrowStructs(arrays[id]))
    BY <1>2, StageGrowStructs
  <2> QED
    BY <1>9, <1>17, <2>1 DEF GrowStructArray
<1>18. ASSUME NEW id \in Live, NEW xs \in Few, AdvanceStructArray(id, xs) PROVE ArraysInv'
  <2>1. Stage(arrays[id], AdvanceStructs(arrays[id], xs))
    BY <1>2, <1>3, StageAdvanceStructs
  <2> QED
    BY <1>9, <1>18, <2>1 DEF AdvanceStructArray
<1>19. ASSUME NEW id \in Live, NEW other \in Live, NEW r \in RangesOf(other),
              AddArrayOfStructs(id, other, r)
       PROVE  ArraysInv'
  <2>1. Stage(arrays[id], AddStructarray(arrays[id], arrays[other], r))
    BY <1>2, <1>4, StageAddStructarray
  <2> QED
    BY <1>9, <1>19, <2>1 DEF AddArrayOfStructs
<1>20. ASSUME NEW id \in Live, NEW n \in 0 .. MaxItems, NEW xs \in Few, SetCountOf(id, n, xs)
       PROVE  ArraysInv'
  <2>1. n \in Nat
    BY Constants
  <2>3. Fills(arrays[id].items, n, xs)
    BY <1>20 DEF Fills, SetCountOf, Count
  <2>2. Stage(arrays[id], SetCount(arrays[id], n, xs))
    BY <1>2, <1>3, <2>1, <2>3, StageSetCount
  <2> QED
    BY <1>9, <1>20, <2>2 DEF SetCountOf
<1>21. ASSUME NEW id \in Live, NEW n \in 0 .. MaxItems, ZeroToCountOf(id, n) PROVE ArraysInv'
  <2>1. n \in Nat
    BY Constants
  <2>2. Stage(arrays[id], ZeroToCount(arrays[id], n))
    BY <1>1, <1>2, <2>1, StageZeroToCount
  <2> QED
    BY <1>9, <1>21, <2>2 DEF ZeroToCountOf
<1>22. ASSUME NEW id \in Live, SizeStructsToFit(id) PROVE ArraysInv'
  <2>1. Stage(arrays[id], SizeToFit(arrays[id]))
    BY <1>2, StageSizeToFit
  <2> QED
    BY <1>9, <1>22, <2>1 DEF SizeStructsToFit
<1>23. ASSUME NEW id \in Live, QsortStructs(id) PROVE ArraysInv'
  <2>1. PICK t \in Sortings(arrays[id].items, Rank) : ChangeStructs(id, Sorted(arrays[id], t))
    BY <1>23 DEF QsortStructs
  <2>2. Stage(arrays[id], Sorted(arrays[id], t))
    BY <1>2, StageSorted
  <2> QED
    BY <1>9, <2>1, <2>2
<1>24. ASSUME NEW id \in Live, NEW r \in RangesOf(id), RemoveStructs(id, r) PROVE ArraysInv'
  <2>1. Stage(arrays[id], RemoveStructsInRange(arrays[id], r))
    BY <1>2, <1>4, StageRemoveInRange DEF RemoveStructsInRange
  <2> QED
    BY <1>9, <1>24, <2>1 DEF RemoveStructs
<1>25. ASSUME NEW id \in Live, NEW i \in Indices(id), RemoveStructAtIndex(id, i) PROVE ArraysInv'
  <2>1. Stage(arrays[id], RemoveStructsInRange(arrays[id], Make(i, 1)))
    BY <1>2, <1>4, StageRemoveInRange DEF RemoveStructsInRange
  <2> QED
    BY <1>9, <1>25, <2>1 DEF RemoveStructAtIndex
<1>26. ASSUME NEW id \in Live, NEW i \in 0 .. Count(arrays[id]), NEW xs \in Few,
              InsertStructs(id, i, xs)
       PROVE  ArraysInv'
  <2>1. Stage(arrays[id], InsertStructsInRange(arrays[id], i, xs))
    BY <1>2, <1>3, StageInsertStructs
  <2> QED
    BY <1>9, <1>26, <2>1 DEF InsertStructs
<1>27. ASSUME NEW id \in Live, ExtractStructs(id) PROVE ArraysInv'
  <2>1. Extract(id, Extracted(arrays[id])) /\ refs' \in [Object -> Int]
    BY <1>27 DEF ExtractStructs, ExtractedStructs, ArraysInv
  <2> QED
    BY <2>1, ExtractInv
<1>28. ASSUME NEW id \in Live, OpenStructEnumerator(id) \/ OpenStructReverseEnumerator(id)
       PROVE  ArraysInv'
  BY <1>28, EnumerateInv DEF OpenStructEnumerator, OpenStructReverseEnumerator
<1>29. ASSUME StructEnumeratorNext \/ StructReverseEnumeratorNext PROVE ArraysInv'
  BY <1>29, EnumeratorNextInv DEF StructEnumeratorNext, StructReverseEnumeratorNext
<1>30. CASE \E id \in Id : \E al \in Allocator[id] :
          \/ InitStructsWithStaticStorage(id, al)
          \/ \E n \in Capacities : InitStructs(id, n, al)
          \/ \E other \in Live : CopyStructArray(id, other, al)
  BY <1>5, <1>6, <1>7, <1>30
<1>31. CASE \E id \in Live : \E other \in Live : \E r \in RangesOf(other) :
          AddArrayOfStructs(id, other, r)
  BY <1>19, <1>31
<1>32. CASE \E id \in Live :
          \/ \E i \in 0 .. MaxItems, x \in Values : SetStructAt(id, i, x)
          \/ \E n \in 0 .. MaxItems, xs \in Few : SetCountOf(id, n, xs)
          \/ \E n \in 0 .. MaxItems : ZeroToCountOf(id, n)
          \/ \E i \in 0 .. Count(arrays[id]), xs \in Few : InsertStructs(id, i, xs)
  BY <1>15, <1>20, <1>21, <1>26, <1>32
<1>33. CASE \E id \in Live :
          \/ \E x \in Values : \/ AddStructTo(id, x) \/ AddStructGuaranteed(id, x)
                               \/ ReserveStruct(id, x)
          \/ \E n \in 0 .. 2 : GuaranteeStructRoom(id, n)
          \/ \E xs \in Few : AdvanceStructArray(id, xs)
          \/ \E r \in RangesOf(id) : RemoveStructs(id, r)
          \/ \E i \in Indices(id) : RemoveStructAtIndex(id, i)
  BY <1>11, <1>12, <1>13, <1>16, <1>18, <1>24, <1>25, <1>33
<1>34. CASE \E id \in Live :
          \/ DoneStructArray(id) \/ ResetStructArray(id) \/ PopStructFrom(id)
          \/ GrowStructArray(id) \/ SizeStructsToFit(id) \/ QsortStructs(id)
          \/ RemoveLastStruct(id) \/ ExtractStructs(id)
          \/ OpenStructEnumerator(id) \/ OpenStructReverseEnumerator(id)
  BY <1>8, <1>10, <1>14, <1>17, <1>22, <1>23, <1>27, <1>28, <1>34
<1> QED
  BY <1>29, <1>30, <1>31, <1>32, <1>33, <1>34 DEF StructNext

-----------------------------------------------------------------------------
(* What an owning operation makes of the reference counts *)

RefCounts == [Object -> Int]

(* retained, and released, as often as in s                                *)
Plus(R, s)  == [p \in Object |-> R[p] + HitCount(s, {p})]
Minus(R, s) == [p \in Object |-> R[p] - HitCount(s, {p})]

(* From the items s with the counts R to the items t with the counts Q:    *)
(* what has been retained is what has come.                                *)
Balanced(s, R, t, Q) ==
    \A p \in Object : Q[p] - HitCount(t, {p}) = R[p] - HitCount(s, {p})

HStage(a, s, R, h) ==
    /\ Stage(a, h.array) /\ h = Holding(h.array, h.refs) /\ h.refs \in RefCounts
    /\ Balanced(s, R, h.array.items, h.refs)

LEMMA HoldingFacts ==
    ASSUME NEW a, NEW R \in RefCounts, NEW s \in Seq(Object)
    PROVE  /\ Holding(a, R).array = a /\ Holding(a, R).refs = R
           /\ Retained(Holding(a, R), s) = Holding(a, Plus(R, s))
           /\ Released(Holding(a, R), s) = Holding(a, Minus(R, s))
           /\ Plus(R, s) \in RefCounts /\ Minus(R, s) \in RefCounts
<1>1. \A p : Occurrences(s, p) = HitCount(s, {p}) /\ HitCount(s, {p}) \in Nat
  <2> SUFFICES ASSUME NEW p PROVE Occurrences(s, p) = HitCount(s, {p}) /\ HitCount(s, {p}) \in Nat
    OBVIOUS
  <2>1. {i \in DOMAIN s : s[i] = p} = {i \in DOMAIN s : s[i] \in {p}}
    OBVIOUS
  <2>2. HitCount(s, {p}) \in Nat
    BY HitsFinite
  <2> QED
    BY <2>1, <2>2 DEF Occurrences, HitCount, Hits
<1>2. \A p \in Object : R[p] \in Int /\ R[p] + HitCount(s, {p}) \in Int
                                     /\ R[p] - HitCount(s, {p}) \in Int
  <2> SUFFICES ASSUME NEW p \in Object
               PROVE  R[p] \in Int /\ R[p] + HitCount(s, {p}) \in Int
                                   /\ R[p] - HitCount(s, {p}) \in Int
    OBVIOUS
  <2>1. PICK r \in Int, n \in Nat : r = R[p] /\ n = HitCount(s, {p})
    BY <1>1 DEF RefCounts
  <2> QED
    BY <2>1
<1>3. Retained(Holding(a, R), s) = Holding(a, [p \in Object |-> R[p] + Occurrences(s, p)])
  BY DEF Retained, Holding
<1>4. Released(Holding(a, R), s) = Holding(a, [p \in Object |-> R[p] - Occurrences(s, p)])
  BY DEF Released, Holding
<1>5. Plus(R, s) \in RefCounts /\ Minus(R, s) \in RefCounts
  BY <1>2 DEF RefCounts, Plus, Minus
<1>6. Holding(a, R).array = a /\ Holding(a, R).refs = R
  BY DEF Holding
<1> QED
  BY <1>1, <1>3, <1>4, <1>5, <1>6 DEF Plus, Minus

LEMMA OwningItems ==
    ASSUME kind = "objects"
    PROVE  Item = Object /\ kind # "structs"
BY DEF Item

(* The items and the counts change, and they agree.                        *)
LEMMA HStageNext ==
    ASSUME NEW a, NEW s, NEW R, NEW h, HStage(a, s, R, h), NEW b, Stage(a, b),
           NEW Q \in RefCounts, Balanced(h.array.items, h.refs, b.items, Q)
    PROVE  HStage(a, s, R, Holding(b, Q))
<1>1. Balanced(s, R, b.items, Q)
  BY DEF HStage, Balanced
<1>2. Holding(b, Q).array = b /\ Holding(b, Q).refs = Q
  BY DEF Holding
<1> QED
  BY <1>1, <1>2 DEF HStage

LEMMA HStageSame ==
    ASSUME NEW a, Stage(a, a), NEW R \in RefCounts
    PROVE  HStage(a, a.items, R, Holding(a, R))
<1>1. Holding(a, R).array = a /\ Holding(a, R).refs = R
  BY DEF Holding
<1> QED
  BY <1>1 DEF HStage, Balanced

(* retained and added *)
LEMMA BalancedAdd ==
    ASSUME NEW s \in Seq(Object), NEW t \in Seq(Object), NEW R \in RefCounts
    PROVE  Balanced(s, R, s \o t, Plus(R, t))
<1> SUFFICES ASSUME NEW p \in Object
             PROVE  (R[p] + HitCount(t, {p})) - HitCount(s \o t, {p}) = R[p] - HitCount(s, {p})
  BY DEF Balanced, Plus, Minus
<1>1. PICK r \in Int, m \in Nat, n \in Nat :
         r = R[p] /\ m = HitCount(s, {p}) /\ n = HitCount(t, {p})
  BY HitsFinite DEF RefCounts
<1>2. HitCount(s \o t, {p}) = m + n
  BY <1>1, HitsConcat
<1> QED
  BY <1>1, <1>2

(* released and removed: t is what is left of s without u                  *)
LEMMA BalancedRemove ==
    ASSUME NEW s \in Seq(Object), NEW t \in Seq(Object), NEW u \in Seq(Object),
           NEW R \in RefCounts,
           \A A : HitCount(s, A) = HitCount(t, A) + HitCount(u, A)
    PROVE  Balanced(s, R, t, Minus(R, u))
<1> SUFFICES ASSUME NEW p \in Object
             PROVE  (R[p] - HitCount(u, {p})) - HitCount(t, {p}) = R[p] - HitCount(s, {p})
  BY DEF Balanced, Plus, Minus
<1>1. PICK r \in Int, m \in Nat, n \in Nat :
         r = R[p] /\ m = HitCount(t, {p}) /\ n = HitCount(u, {p})
  BY HitsFinite DEF RefCounts
<1>2. HitCount(s, {p}) = m + n
  BY <1>1
<1> QED
  BY <1>1, <1>2

LEMMA AppendConcat ==
    ASSUME NEW S, NEW s \in Seq(S), NEW p \in S
    PROVE  Append(s, p) = s \o <<p>> /\ <<p>> \in Seq(S)
OBVIOUS

(* A range and what is left without it                                     *)
LEMMA HitsWithout ==
    ASSUME NEW S, NEW s \in Seq(S), NEW r, r.location \in Nat, r.length \in Nat,
           r.location + r.length <= Len(s), NEW A
    PROVE  HitCount(s, A) = HitCount(Without(s, r), A) + HitCount(Slice(s, r), A)
<1>1. PICK l, e, n : l = r.location /\ e = r.location + r.length /\ n = Len(s)
  OBVIOUS
<1>2. l \in Nat /\ e \in Nat /\ n \in Nat /\ l <= e /\ e <= n
  <2>1. Len(s) \in Nat
    OBVIOUS
  <2> QED
    BY <1>1, <2>1
<1> DEFINE a == SubSeq(s, 1, l)
           b == SubSeq(s, l + 1, e)
           c == SubSeq(s, e + 1, n)
<1>3. Slice(s, r) = b /\ Without(s, r) = a \o c
  BY <1>1 DEF Slice, Without
<1>4. a \in Seq(S) /\ b \in Seq(S) /\ c \in Seq(S)
  <2>1. 0 + 1 = 1 /\ 0 <= l /\ l <= n
    BY <1>2
  <2>2. a \in Seq(S)
    BY <1>1, <1>2, <2>1, PartFacts
  <2> QED
    BY <1>1, <1>2, <2>2, PartFacts
<1>5. s = a \o SubSeq(s, l + 1, n)
  <2>1. /\ 1 \in 1 .. Len(s) + 1 /\ l \in 1 - 1 .. Len(s) /\ n \in l .. Len(s)
    BY <1>1, <1>2
  <2>2. SubSeq(s, 1, l) \o SubSeq(s, l + 1, n) = SubSeq(s, 1, n)
    BY <2>1, ConcatAdjacentSubSeq
  <2> QED
    BY <1>1, <2>2, SubSeqFull
<1>6. SubSeq(s, l + 1, n) = b \o c
  <2>1. l + 1 \in 1 .. Len(s) + 1 /\ e \in (l + 1) - 1 .. Len(s) /\ n \in e .. Len(s)
    BY <1>1, <1>2
  <2> QED
    BY <2>1, ConcatAdjacentSubSeq
<1> HIDE DEF a, b, c
<1>7. PICK i, j, k : i = HitCount(a, A) /\ j = HitCount(b, A) /\ k = HitCount(c, A)
  OBVIOUS
<1>8. i \in Nat /\ j \in Nat /\ k \in Nat
  BY <1>4, <1>7, HitsFinite
<1>9. b \o c \in Seq(S) /\ HitCount(b \o c, A) = j + k
  BY <1>4, <1>7, HitsConcat, ConcatFacts
<1>10. HitCount(a \o (b \o c), A) = i + (j + k)
  <2>1. \A d \in Seq(S) : HitCount(a \o d, A) = HitCount(a, A) + HitCount(d, A)
    BY <1>4, HitsConcat
  <2> QED
    BY <1>7, <1>9, <2>1
<1>11. HitCount(a \o c, A) = i + k
  BY <1>4, <1>7, HitsConcat
<1>12. i + (j + k) = (i + k) + j
  BY <1>8
<1> QED
  BY <1>3, <1>5, <1>6, <1>7, <1>10, <1>11, <1>12

LEMMA HStageOpen ==
    ASSUME NEW a, NEW s, NEW R, NEW h, HStage(a, s, R, h), kind = "objects"
    PROVE  /\ h = Holding(h.array, h.refs) /\ h.refs \in RefCounts /\ Stage(a, h.array)
           /\ h.array.items \in Seq(Object)
BY StageNumbers, OwningItems DEF HStage

(* The arrays of holdings                                                  *)
LEMMA OwnedArrays ==
    ASSUME NEW a, NEW s, NEW R, NEW h, HStage(a, s, R, h)
    PROVE  /\ \A u : Retained(h, u).array = h.array /\ Released(h, u).array = h.array
           /\ \A u, y : On(Retained(h, u), y).array = y /\ On(Released(h, u), y).array = y
           /\ \A u, w, y : On(Released(Retained(h, u), w), y).array = y
           /\ \A y : On(h, y).array = y
<1>1. PICK x, Q : h = Holding(x, Q) /\ x = h.array
  BY DEF HStage
<1>2. \A P : Holding(x, P).array = x /\ \A y : On(Holding(x, P), y).array = y
  BY DEF Holding, On
<1>3. \A P, u : /\ \E T : Retained(Holding(x, P), u) = Holding(x, T)
                /\ \E T : Released(Holding(x, P), u) = Holding(x, T)
  <2> SUFFICES ASSUME NEW P, NEW u
               PROVE  /\ \E T : Retained(Holding(x, P), u) = Holding(x, T)
                      /\ \E T : Released(Holding(x, P), u) = Holding(x, T)
    OBVIOUS
  <2>1. Retained(Holding(x, P), u) = Holding(x, [p \in Object |-> P[p] + Occurrences(u, p)])
    BY DEF Retained, Holding
  <2>2. Released(Holding(x, P), u) = Holding(x, [p \in Object |-> P[p] - Occurrences(u, p)])
    BY DEF Released, Holding
  <2> QED
    BY <2>1, <2>2
<1>4. ASSUME NEW u, NEW w, NEW y
      PROVE  /\ Retained(h, u).array = h.array /\ Released(h, u).array = h.array
             /\ On(Retained(h, u), y).array = y /\ On(Released(h, u), y).array = y
             /\ On(Released(Retained(h, u), w), y).array = y /\ On(h, y).array = y
  <2>1. PICK T1 : Retained(h, u) = Holding(x, T1)
    BY <1>1, <1>3
  <2>2. PICK T2 : Released(h, u) = Holding(x, T2)
    BY <1>1, <1>3
  <2>3. PICK T3 : Released(Holding(x, T1), w) = Holding(x, T3)
    BY <1>3
  <2> QED
    BY <1>1, <1>2, <2>1, <2>2, <2>3
<1> QED
  BY <1>4

LEMMA HStageGuaranteed ==
    ASSUME NEW a, NEW s, NEW R, NEW h, HStage(a, s, R, h), kind = "objects", NEW p \in Object,
           Len(h.array.items) < h.array.size, NEW u, u = <<p>>,
           NEW g, g = On(Retained(h, u), AddGuaranteed(h.array, p))
    PROVE  /\ HStage(a, s, R, g) /\ Retained(h, u).array = h.array
           /\ g.array.items = Append(h.array.items, p) /\ g.array.size = h.array.size
<1>1. PICK x, Q : x = h.array /\ Q = h.refs
  OBVIOUS
<1>2. h = Holding(x, Q) /\ Q \in RefCounts /\ Stage(a, x) /\ x.items \in Seq(Object)
  BY <1>1, HStageOpen
<1>3. <<p>> \in Seq(Object) /\ Append(x.items, p) = x.items \o <<p>>
  BY <1>2, AppendConcat
<1>4. PICK P : P = Plus(Q, <<p>>)
  OBVIOUS
<1>5. P \in RefCounts /\ Retained(h, <<p>>) = Holding(x, P)
  <2>1. PICK w : w = <<p>>
    OBVIOUS
  <2>2. w \in Seq(Object) /\ P = Plus(Q, w)
    BY <1>3, <1>4, <2>1
  <2>3. P \in RefCounts /\ Retained(h, w) = Holding(x, P)
    BY <1>2, <2>2, HoldingFacts
  <2> QED
    BY <2>1, <2>3
<1>6. PICK y : y = AddGuaranteed(x, p)
  OBVIOUS
<1>7. Stage(a, y) /\ y.items = Append(x.items, p) /\ y.size = x.size
  <2>1. Item = Object /\ Len(x.items) < x.size
    BY <1>1, OwningItems
  <2> QED
    BY <1>2, <1>6, <2>1, StageAddGuaranteed
<1>8. Balanced(x.items, Q, y.items, P)
  BY <1>2, <1>3, <1>4, <1>7, BalancedAdd
<1>9. HStage(a, s, R, Holding(y, P))
  BY <1>1, <1>5, <1>7, <1>8, HStageNext
<1>10. On(Holding(x, P), y) = Holding(y, P) /\ Holding(y, P).array = y /\ Holding(x, P).array = x
  BY DEF On, Holding
<1> QED
  BY <1>1, <1>5, <1>6, <1>7, <1>9, <1>10

LEMMA HStageAdd ==
    ASSUME NEW a, NEW s, NEW R, NEW h, HStage(a, s, R, h), kind = "objects", NEW p \in Object
    PROVE  HStage(a, s, R, AddOwned(h, p))
<1>1. PICK x, Q : x = h.array /\ Q = h.refs
  OBVIOUS
<1>2. h = Holding(x, Q) /\ Q \in RefCounts /\ Stage(a, x) /\ x.items \in Seq(Object)
  BY <1>1, HStageOpen
<1>3. <<p>> \in Seq(Object) /\ Append(x.items, p) = x.items \o <<p>>
  BY <1>2, AppendConcat
<1>4. PICK P : P = Plus(Q, <<p>>)
  OBVIOUS
<1>5. P \in RefCounts /\ Retained(h, <<p>>) = Holding(x, P)
  <2>1. PICK w : w = <<p>>
    OBVIOUS
  <2>2. w \in Seq(Object) /\ P = Plus(Q, w)
    BY <1>3, <1>4, <2>1
  <2>3. P \in RefCounts /\ Retained(h, w) = Holding(x, P)
    BY <1>2, <2>2, HoldingFacts
  <2> QED
    BY <2>1, <2>3
<1>6. PICK y : y = Add(x, p)
  OBVIOUS
<1>7. Stage(a, y) /\ y.items = Append(x.items, p)
  BY <1>2, <1>6, StageAdd, OwningItems
<1>8. Balanced(x.items, Q, y.items, P)
  BY <1>2, <1>3, <1>4, <1>7, BalancedAdd
<1>9. HStage(a, s, R, Holding(y, P))
  BY <1>1, <1>5, <1>7, <1>8, HStageNext
<1>10. AddOwned(h, p) = Holding(y, P)
  <2>1. On(Holding(x, P), y) = Holding(y, P)
    BY DEF On, Holding
  <2> QED
    BY <1>1, <1>5, <1>6, <2>1 DEF AddOwned
<1> QED
  BY <1>9, <1>10

LEMMA HStageSet ==
    ASSUME NEW a, NEW s, NEW R, NEW h, HStage(a, s, R, h), kind = "objects", NEW p \in Object,
           NEW i \in 0 .. Len(h.array.items) - 1
    PROVE  HStage(a, s, R, SetOwned(h, i, p))
<1>1. PICK x, Q : x = h.array /\ Q = h.refs
  OBVIOUS
<1>2. h = Holding(x, Q) /\ Q \in RefCounts /\ Stage(a, x) /\ x.items \in Seq(Object)
  BY <1>1, HStageOpen
<1>3. PICK k \in 1 .. Len(x.items) : k = i + 1
  <2>1. Len(x.items) \in Nat
    BY <1>2
  <2> QED
    BY <1>1, <2>1
<1>4. PICK o \in Object : o = x.items[k] /\ o = Get(x, i)
  <2>1. x.items[k] \in Object
    BY <1>2, ElementOfSeq
  <2> QED
    BY <1>3, <2>1 DEF Get
<1>5. <<p>> \in Seq(Object) /\ <<o>> \in Seq(Object)
  OBVIOUS
<1>6. PICK P, N : P = Plus(Q, <<p>>) /\ N = Minus(P, <<o>>)
  OBVIOUS
<1>14. PICK u \in Seq(Object), v \in Seq(Object) : u = <<p>> /\ v = <<o>>
  BY <1>5
<1>7. P \in RefCounts /\ Retained(h, <<p>>) = Holding(x, P)
  <2>1. Plus(Q, u) \in RefCounts /\ Retained(h, u) = Holding(x, Plus(Q, u))
    BY <1>2, HoldingFacts
  <2> QED
    BY <1>6, <1>14, <2>1
<1>8. N \in RefCounts /\ Released(Holding(x, P), <<o>>) = Holding(x, N)
  <2>1. Minus(P, v) \in RefCounts /\ Released(Holding(x, P), v) = Holding(x, Minus(P, v))
    BY <1>7, HoldingFacts
  <2> QED
    BY <1>6, <1>14, <2>1
<1>9. PICK y : y = Set(x, i, p)
  OBVIOUS
<1>10. Stage(a, y) /\ y.items = [x.items EXCEPT ![k] = p]
  <2>1. Item = Object /\ i \in 0 .. Len(x.items) - 1
    BY <1>1, OwningItems
  <2>2. Stage(a, Set(x, i, p)) /\ Set(x, i, p).items = [x.items EXCEPT ![i + 1] = p]
    BY <1>2, <2>1, StageSet
  <2> QED
    BY <1>3, <1>9, <2>2
<1>11. Balanced(x.items, Q, y.items, N)
  <2> SUFFICES ASSUME NEW q \in Object
               PROVE  N[q] - HitCount(y.items, {q}) = Q[q] - HitCount(x.items, {q})
    BY DEF Balanced
  <2>1. y.items \in Seq(Object)
    BY <1>10, StageNumbers, OwningItems
  <2>2. PICK b, c, d, e : /\ b = HitCount(y.items, {q}) /\ c = HitCount(x.items, {q})
                          /\ d = HitCount(<<p>>, {q}) /\ e = HitCount(<<o>>, {q})
    OBVIOUS
  <2>3. b \in Nat /\ c \in Nat /\ d \in Nat /\ e \in Nat
    BY <1>2, <1>5, <2>1, <2>2, HitsFinite
  <2>4. b + e = c + d
    <3>1. HitCount([x.items EXCEPT ![k] = p], {q}) + HitCount(<<x.items[k]>>, {q})
              = HitCount(x.items, {q}) + HitCount(<<p>>, {q})
      BY <1>2, HitsReplaced
    <3> QED
      BY <1>4, <1>10, <2>2, <3>1
  <2>5. PICK r \in Int : r = Q[q]
    BY <1>2 DEF RefCounts
  <2>6. N[q] = (r + d) - e
    BY <1>6, <2>2, <2>5 DEF Plus, Minus
  <2>7. ((r + d) - e) - b = r - c
    BY <2>3, <2>4
  <2> QED
    BY <2>2, <2>5, <2>6, <2>7
<1>12. HStage(a, s, R, Holding(y, N))
  BY <1>1, <1>8, <1>10, <1>11, HStageNext
<1>13. SetOwned(h, i, p) = Holding(y, N)
  <2>1. On(Holding(x, N), y) = Holding(y, N)
    BY DEF On, Holding
  <2> QED
    BY <1>1, <1>4, <1>7, <1>8, <1>9, <2>1 DEF SetOwned
<1> QED
  BY <1>12, <1>13

(* what is released is what goes *)
LEMMA HStageRelease ==
    ASSUME NEW a, NEW s, NEW R, NEW h, HStage(a, s, R, h), kind = "objects",
           NEW y, Stage(a, y), NEW u \in Seq(Object),
           \A A : HitCount(h.array.items, A) = HitCount(y.items, A) + HitCount(u, A)
    PROVE  HStage(a, s, R, On(Released(h, u), y))
<1>1. PICK x, Q : x = h.array /\ Q = h.refs
  OBVIOUS
<1>2. h = Holding(x, Q) /\ Q \in RefCounts /\ Stage(a, x) /\ x.items \in Seq(Object)
  BY <1>1, HStageOpen
<1>3. y.items \in Seq(Object)
  BY StageNumbers, OwningItems
<1>4. PICK P : P = Minus(Q, u)
  OBVIOUS
<1>5. P \in RefCounts /\ Released(h, u) = Holding(x, P)
  BY <1>2, <1>4, HoldingFacts
<1>6. Balanced(x.items, Q, y.items, P)
  <2>1. \A A : HitCount(x.items, A) = HitCount(y.items, A) + HitCount(u, A)
    BY <1>1
  <2> QED
    BY <1>2, <1>3, <1>4, <2>1, BalancedRemove
<1>7. HStage(a, s, R, Holding(y, P))
  BY <1>1, <1>5, <1>6, HStageNext
<1>8. On(Holding(x, P), y) = Holding(y, P)
  BY DEF On, Holding
<1> QED
  BY <1>5, <1>7, <1>8

LEMMA HitsNone ==
    ASSUME NEW A
    PROVE  HitCount(<<>>, A) = 0
<1>1. Hits(<<>>, A) = {}
  BY DEF Hits
<1> QED
  BY <1>1, FS_EmptySet DEF HitCount

(* a range that is validated lies in the array *)
LEMMA IntersectionSame ==
    ASSUME NEW n \in Nat, NEW v \in AnyRange, v.length \in Nat, v.location + v.length <= n,
           NEW w, w = Intersection(v, n)
    PROVE  w.length = v.length /\ (w.length # 0 => w.location = v.location)
<1>1. PICK l \in Nat, k \in Nat : l = v.location /\ k = v.length /\ l + k <= n /\ k # All
  BY DEF AnyRange, All
<1>2. w = IF l >= l + k THEN Make(0, 0) ELSE Make(l, (l + k) - l)
  BY <1>1 DEF Intersection
<1>3. (l + k) - l = k /\ (l >= l + k <=> k = 0)
  BY <1>1
<1> QED
  BY <1>1, <1>2, <1>3 DEF Make

LEMMA HStageRange ==
    ASSUME NEW a, NEW s, NEW R, NEW h, HStage(a, s, R, h), kind = "objects", NEW r \in AnyRange
    PROVE  HStage(a, s, R, RemoveOwnedInRange(h, r))
<1>1. Stage(a, h.array) /\ h.array.items \in Seq(Object)
  BY HStageOpen
<1>2. PICK x, n : x = h.array.items /\ n = Len(x) /\ x \in Seq(Object) /\ n \in Nat
  <2>1. Len(h.array.items) \in Nat
    BY <1>1
  <2> QED
    BY <1>1, <2>1
<1>3. PICK v : v = Validated(r, n)
  OBVIOUS
<1>4. v \in AnyRange /\ v.location \in Nat /\ v.length \in Nat /\ v.location + v.length <= n
  BY <1>2, <1>3, ValidatedFacts
<1>5. PICK w : w = Intersection(v, n)
  OBVIOUS
<1>6. w.length = v.length /\ (w.length # 0 => w.location = v.location)
  BY <1>2, <1>4, <1>5, IntersectionSame
<1>7. PICK y, u : y = RemoveInRange(h.array, v) /\ u = Slice(x, v)
  OBVIOUS
<1>8. Stage(a, y) /\ y.items = IF w.length = 0 THEN x ELSE Without(x, w)
  <2>1. n = Len(h.array.items) /\ w = Intersection(v, Len(h.array.items))
    BY <1>2, <1>5
  <2> QED
    BY <1>1, <1>2, <1>4, <1>7, <2>1, StageRemoveInRange
<1>9. u \in Seq(Object) /\ Len(u) = v.length
  BY <1>2, <1>4, <1>7, SliceFacts
<1>10. \A A : HitCount(x, A) = HitCount(y.items, A) + HitCount(u, A)
  <2>1. CASE v.length = 0
    <3>1. u = <<>> /\ y.items = x
      BY <1>6, <1>8, <1>9, <2>1, EmptySeq
    <3>2. \A A : HitCount(x, A) \in Nat /\ HitCount(<<>>, A) = 0
      BY <1>2, HitsFinite, HitsNone
    <3>3. \A A : HitCount(x, A) = HitCount(x, A) + HitCount(<<>>, A)
      BY <3>2
    <3> QED
      BY <3>1, <3>3
  <2>2. CASE v.length # 0
    <3>1. y.items = Without(x, v)
      BY <1>6, <1>8, <2>2 DEF Without
    <3>2. \A A : HitCount(x, A) = HitCount(Without(x, v), A) + HitCount(Slice(x, v), A)
      BY <1>2, <1>4, HitsWithout
    <3> QED
      BY <1>7, <3>1, <3>2
  <2> QED
    BY <2>1, <2>2
<1>11. RemoveOwnedInRange(h, r) = On(Released(h, u), y)
  BY <1>2, <1>3, <1>7 DEF RemoveOwnedInRange, Count
<1>12. HStage(a, s, R, On(Released(h, u), y))
  BY <1>2, <1>8, <1>9, <1>10, HStageRelease
<1> QED
  BY <1>11, <1>12

LEMMA HStageLast ==
    ASSUME NEW a, NEW s, NEW R, NEW h, HStage(a, s, R, h), kind = "objects"
    PROVE  HStage(a, s, R, RemoveLastOwned(h))
<1>1. PICK x, Q : x = h.array /\ Q = h.refs
  OBVIOUS
<1>2. h = Holding(x, Q) /\ Q \in RefCounts /\ Stage(a, x) /\ x.items \in Seq(Object)
  BY <1>1, HStageOpen
<1>3. PICK y : y = Pop(x)
  OBVIOUS
<1>4. /\ Stage(a, y)
      /\ y.items = IF x.items = <<>> THEN <<>> ELSE SubSeq(x.items, 1, Len(x.items) - 1)
  BY <1>2, <1>3, StagePop
<1>5. ASSUME x.items = <<>> PROVE HStage(a, s, R, RemoveLastOwned(h))
  <2>1. \A p \in Object : Occurrences(<<NULL>>, p) = 0
    <3>1. \A p \in Object : {i \in DOMAIN <<NULL>> : <<NULL>>[i] = p} = {}
      BY OwningArrayAssumption
    <3> QED
      BY <3>1, FS_EmptySet DEF Occurrences
  <2>2. Released(h, <<NULL>>) = Holding(x, [p \in Object |-> Q[p] - Occurrences(<<NULL>>, p)])
    BY <1>2 DEF Released, Holding
  <2>3. [p \in Object |-> Q[p] - Occurrences(<<NULL>>, p)] = Q
    <3>1. \A p \in Object : Q[p] \in Int /\ Q[p] - Occurrences(<<NULL>>, p) = Q[p]
      <4> SUFFICES ASSUME NEW p \in Object
                   PROVE  Q[p] \in Int /\ Q[p] - Occurrences(<<NULL>>, p) = Q[p]
        OBVIOUS
      <4>1. PICK q \in Int : q = Q[p]
        BY <1>2 DEF RefCounts
      <4>2. PICK k : k = Occurrences(<<NULL>>, p) /\ k = 0
        BY <2>1
      <4> QED
        BY <4>1, <4>2
    <3> QED
      BY <1>2, <3>1 DEF RefCounts
  <2>4. RemoveLastOwned(h) = Holding(y, Q)
    BY <1>1, <1>3, <1>5, <2>2, <2>3 DEF RemoveLastOwned, GetLast, On, Holding
  <2>5. Balanced(x.items, Q, y.items, Q)
    BY <1>4, <1>5 DEF Balanced
  <2> QED
    BY <1>1, <1>2, <1>4, <2>4, <2>5, HStageNext
<1>6. ASSUME x.items # <<>> PROVE HStage(a, s, R, RemoveLastOwned(h))
  <2>1. PICK t, n : t = x.items /\ n = Len(t) /\ n \in Nat \ {0} /\ t \in Seq(Object)
    <3>1. Len(x.items) \in Nat \ {0}
      BY <1>2, <1>6
    <3> QED
      BY <1>2, <3>1
  <2>2. t = SubSeq(t, 1, n - 1) \o <<t[n]>>
    <3>1. 1 \in 1 .. Len(t) /\ n \in 1 .. Len(t)
      BY <2>1
    <3>2. SubSeq(t, 1, n) = SubSeq(t, 1, n - 1) \o <<t[n]>>
      BY <2>1, <3>1, SubSeqRecursiveSecond
    <3> QED
      BY <2>1, <3>2, SubSeqFull
  <2>3. PICK u : u = <<t[n]>> /\ u \in Seq(Object)
    <3>1. t[n] \in Object
      BY <2>1, ElementOfSeq
    <3>2. <<t[n]>> \in Seq(Object)
      BY <3>1
    <3> QED
      BY <3>2
  <2>4. y.items = SubSeq(t, 1, n - 1) /\ y.items \in Seq(Object)
    BY <1>4, <1>6, <2>1, StageNumbers, OwningItems
  <2>5. \A A : HitCount(t, A) = HitCount(y.items, A) + HitCount(u, A)
    <3>1. t = y.items \o u
      BY <2>2, <2>3, <2>4
    <3> QED
      <4>1. \A A : HitCount(y.items \o u, A) = HitCount(y.items, A) + HitCount(u, A)
        <5>1. PICK v : v = y.items
          OBVIOUS
        <5>2. v \in Seq(Object) /\ u \in Seq(Object)
          BY <2>3, <2>4, <5>1
        <5>3. \A A : HitCount(v \o u, A) = HitCount(v, A) + HitCount(u, A)
          BY <5>2, HitsConcat
        <5> QED
          BY <5>1, <5>3
      <4> QED
        BY <3>1, <4>1
  <2>6. RemoveLastOwned(h) = On(Released(h, u), y)
    BY <1>1, <1>3, <1>6, <2>1, <2>3 DEF RemoveLastOwned, GetLast, Count
  <2>7. HStage(a, s, R, On(Released(h, u), y))
    BY <1>1, <1>4, <2>1, <2>3, <2>5, HStageRelease
  <2> QED
    BY <2>6, <2>7
<1> QED
  BY <1>5, <1>6

(* the array changes and holds the same objects *)
LEMMA HStageKept ==
    ASSUME NEW a, Stage(a, a), NEW R \in RefCounts, NEW b, Stage(a, b), NEW Q \in RefCounts,
           \A A : HitCount(b.items, A) = HitCount(a.items, A), Q = R
    PROVE  HStage(a, a.items, R, Holding(b, Q))
<1>1. Holding(b, Q).array = b /\ Holding(b, Q).refs = Q
  BY DEF Holding
<1>2. Balanced(a.items, R, b.items, Q)
  BY DEF Balanced
<1> QED
  BY <1>1, <1>2 DEF HStage

LEMMA HStageReset ==
    ASSUME NEW a, NEW s, NEW R, NEW h, HStage(a, s, R, h), kind = "objects"
    PROVE  HStage(a, s, R, ResetOwned(h))
<1>1. Stage(a, h.array) /\ h.array.items \in Seq(Object)
  BY HStageOpen
<1>2. PICK x, y : x = h.array.items /\ y = Reset(h.array)
  OBVIOUS
<1>3. Stage(a, y) /\ y.items = <<>>
  BY <1>1, <1>2, StageReset
<1>4. \A A : HitCount(x, A) = HitCount(y.items, A) + HitCount(x, A)
  <2>1. \A A : HitCount(x, A) \in Nat /\ HitCount(<<>>, A) = 0
    BY <1>1, <1>2, HitsFinite, HitsNone
  <2>2. \A A : HitCount(x, A) = HitCount(<<>>, A) + HitCount(x, A)
    BY <2>1
  <2> QED
    BY <1>3, <2>2
<1>5. HStage(a, s, R, On(Released(h, x), y))
  BY <1>1, <1>2, <1>3, <1>4, HStageRelease
<1> QED
  BY <1>2, <1>5 DEF ResetOwned

LEMMA HStageUnique ==
    ASSUME NEW a, NEW s, NEW R, NEW h, HStage(a, s, R, h), kind = "objects", NEW p
    PROVE  HStage(a, s, R, RemoveUniqueOwned(h, p))
<1>1. PICK n \in Nat : n = Count(h.array)
  <2>1. h.array.items \in Seq(Object)
    BY HStageOpen
  <2>2. Len(h.array.items) \in Nat
    BY <2>1
  <2> QED
    BY <2>2 DEF Count
<1> DEFINE hits == {i \in 0 .. n - 1 : Class[Get(h.array, i)] = Class[p]}
           i == CHOOSE k \in hits : \A j \in hits : k >= j
<1>2. RemoveUniqueOwned(h, p) = IF hits = {} THEN h ELSE RemoveOwnedInRange(h, Make(i, 1))
  BY <1>1 DEF RemoveUniqueOwned
<1>3. CASE hits = {}
  BY <1>2, <1>3
<1>4. CASE hits # {}
  <2>1. i \in Nat
    <3>1. hits \subseteq 0 .. n - 1
      OBVIOUS
    <3> HIDE DEF hits
    <3> QED
      BY <1>4, <3>1, LastHit
  <2> HIDE DEF i
  <2>2. Make(i, 1) \in AnyRange
    BY <2>1 DEF Make, AnyRange
  <2>3. HStage(a, s, R, RemoveOwnedInRange(h, Make(i, 1)))
    BY <2>2, HStageRange
  <2> QED
    BY <1>2, <1>4, <2>3
<1> QED
  BY <1>3, <1>4

Holdings == [array : Raw, refs : RefCounts]

LEMMA HoldingsFacts ==
    ASSUME NEW a, NEW s, NEW R, NEW h, HStage(a, s, R, h)
    PROVE  h \in Holdings
<1>1. h.array \in Raw /\ h.refs \in RefCounts /\ h = Holding(h.array, h.refs)
  BY DEF HStage, Stage
<1> QED
  BY <1>1 DEF Holdings, Holding

(* what is equal to p                                                      *)
Equals(p) == {x \in Object : Class[x] = Class[p]}

(* One place of an owning array goes.                                      *)
LEMMA OneRemoved ==
    ASSUME NEW a, NEW s, NEW R, NEW h, HStage(a, s, R, h), kind = "objects", NEW i \in Nat,
           i + 1 <= Len(h.array.items)
    PROVE  /\ HStage(a, s, R, RemoveOwnedInRange(h, Make(i, 1)))
           /\ RemoveOwnedInRange(h, Make(i, 1)).array.items = Without(h.array.items, Make(i, 1))
<1>1. PICK n : n = Len(h.array.items) /\ n \in Nat
  <2>1. h.array.items \in Seq(Object)
    BY HStageOpen
  <2>2. Len(h.array.items) \in Nat
    BY <2>1
  <2> QED
    BY <2>2
<1>2. PICK r : r = Make(i, 1)
  OBVIOUS
<1>3. r \in AnyRange
  BY <1>2 DEF Make, AnyRange
<1>4. Validated(r, n) = r
  BY <1>1, <1>2 DEF Validated, Make, All
<1>5. HStage(a, s, R, RemoveOwnedInRange(h, r))
  BY <1>3, HStageRange
<1>6. RemoveOwnedInRange(h, r).array = RemoveInRange(h.array, r)
  BY <1>1, <1>4, OwnedArrays DEF RemoveOwnedInRange, Count
<1>7. Stage(a, h.array)
  BY HStageOpen
<1>8. RemoveInRange(h.array, r).items = Without(h.array.items, r)
  BY <1>2, <1>7, RemoveOne
<1> QED
  BY <1>2, <1>5, <1>6, <1>8

LEMMA HStageRemove ==
    ASSUME NEW a, NEW s, NEW R, NEW h, HStage(a, s, R, h), kind = "objects", NEW p
    PROVE  /\ HStage(a, s, R, RemoveOwned(h, p))
           /\ Abstract!Cut(h.array.items, Lost(h.array.items, Equals(p)),
                           RemoveOwned(h, p).array.items)
<1>1. PICK n \in Nat : n = Count(h.array)
  <2>1. h.array.items \in Seq(Object)
    BY HStageOpen
  <2>2. Len(h.array.items) \in Nat
    BY <2>1
  <2> QED
    BY <2>2 DEF Count
<1> DEFINE X       == {x \in Holdings : HStage(a, s, R, x)}
           At(k)   == n - k
           next(x, k) == IF Class[Get(x.array, At(k))] = Class[p]
                         THEN RemoveOwnedInRange(x, Make(At(k), 1)) ELSE x
           step    == [x \in X |-> [k \in Nat |-> IF k \in 1 .. n THEN next(x, k) ELSE x]]
           Eq(g)   == g = [k \in 0 .. n |-> IF k = 0 THEN h ELSE next(g[k - 1], k)]
           left    == CHOOSE g : Eq(g)
<1>2. h \in X
  BY HoldingsFacts
<1>3. \A c \in X, k \in 1 .. n : next(c, k) \in X
  <2> SUFFICES ASSUME NEW c \in X, NEW k \in 1 .. n PROVE next(c, k) \in X
    OBVIOUS
  <2>1. Make(At(k), 1) \in AnyRange
    BY DEF Make, AnyRange
  <2> HIDE DEF At
  <2>2. HStage(a, s, R, RemoveOwnedInRange(c, Make(At(k), 1)))
    BY <2>1, HStageRange
  <2>3. RemoveOwnedInRange(c, Make(At(k), 1)) \in X
    BY <2>2, HoldingsFacts
  <2> QED
    BY <2>3
<1> HIDE DEF next
<1>4. PICK f \in [0 .. n -> X] : IsRun(f, n, h, step)
  <2>1. step \in [X -> [Nat -> X]]
    BY <1>3
  <2> HIDE DEF step, X
  <2> QED
    BY <1>2, <2>1, RunExists
<1>5. Eq(f)
  <2>1. ASSUME NEW k \in 1 .. n PROVE f[k] = next(f[k - 1], k)
    <3>1. k - 1 \in 0 .. n /\ k \in Nat /\ f[k - 1] \in X
      OBVIOUS
    <3>2. f[k] = step[f[k - 1]][k]
      BY <1>4 DEF IsRun
    <3> QED
      BY <3>1, <3>2
  <2>2. f[0] = h
    BY <1>4 DEF IsRun
  <2>3. \A k \in 0 .. n : k = 0 \/ k \in 1 .. n
    OBVIOUS
  <2> HIDE DEF step, X
  <2> QED
    BY <2>1, <2>2, <2>3
<1>6. Eq(left)
  BY <1>5
<1> HIDE DEF left
<1>7. \A k \in 0 .. n : left[k] \in X
  <2> DEFINE T == {k \in 0 .. n : left[k] \in X}
  <2>1. 0 \in T
    BY <1>2, <1>6
  <2>2. ASSUME NEW k \in 1 .. n, k - 1 \in T PROVE k \in T
    <3>1. k \in 0 .. n /\ k # 0
      OBVIOUS
    <3>2. left[k] = next(left[k - 1], k) /\ left[k - 1] \in X
      BY <1>6, <2>2, <3>1
    <3>3. left[k] \in X
      <4> HIDE DEF X
      <4> QED
        BY <1>3, <3>2
    <3> QED
      BY <3>1, <3>3
  <2> HIDE DEF T
  <2>3. \A k \in 0 .. n : k \in T
    BY <2>1, <2>2, UpTo
  <2> QED
    BY <2>3 DEF T
<1>8. RemoveOwned(h, p) = left[n]
  BY <1>1 DEF RemoveOwned, left, next
<1>9. n \in 0 .. n
  OBVIOUS
<1> DEFINE t == [k \in 0 .. n |-> left[k].array.items]
           B == Equals(p)
<1>10. ASSUME NEW k \in 1 .. n, n - k + 1 <= Len(t[k - 1])
       PROVE  t[k] = IF t[k - 1][n - k + 1] \in B THEN Without(t[k - 1], Make(n - k, 1))
                     ELSE t[k - 1]
  <2>1. PICK c, d : c = left[k - 1] /\ d = left[k]
    OBVIOUS
  <2>2. k \in 0 .. n /\ k - 1 \in 0 .. n /\ k # 0
    OBVIOUS
  <2>3. t[k] = d.array.items /\ t[k - 1] = c.array.items
    BY <2>1, <2>2
  <2>4. d = next(c, k) /\ HStage(a, s, R, c)
    BY <1>6, <1>7, <2>1, <2>2
  <2>5. PICK i \in Nat : i = n - k /\ At(k) = i /\ i + 1 = n - k + 1
    OBVIOUS
  <2>6. i + 1 <= Len(c.array.items)
    BY <1>10, <2>3, <2>5
  <2>7. c.array.items \in Seq(Object)
    BY <2>4, HStageOpen
  <2>8. Get(c.array, i) = c.array.items[n - k + 1] /\ Get(c.array, i) \in Object
    <3>1. PICK j : j = i + 1
      OBVIOUS
    <3>2. j \in 1 .. Len(c.array.items)
      BY <2>6, <2>7, <3>1
    <3>3. c.array.items[j] \in Object
      BY <2>7, <3>2, ElementOfSeq
    <3> QED
      BY <2>5, <3>1, <3>3 DEF Get
  <2>9. Get(c.array, i) \in B <=> Class[Get(c.array, i)] = Class[p]
    BY <2>8 DEF Equals
  <2> HIDE DEF t, At, B
  <2>10. CASE ~ (Get(c.array, i) \in B)
    BY <2>3, <2>4, <2>5, <2>8, <2>9, <2>10 DEF next
  <2>11. CASE Get(c.array, i) \in B
    <3>1. d = RemoveOwnedInRange(c, Make(i, 1))
      BY <2>4, <2>5, <2>9, <2>11 DEF next
    <3>2. d.array.items = Without(c.array.items, Make(i, 1))
      BY <2>4, <2>6, <3>1, OneRemoved
    <3> QED
      BY <2>3, <2>5, <2>8, <2>11, <3>2
  <2> QED
    BY <2>10, <2>11
<1>11. t[0] = h.array.items /\ t[n] = left[n].array.items
  BY <1>6, <1>9
<1> HIDE DEF t, B
<1>12. Abstract!Cut(h.array.items, Lost(h.array.items, B), t[n])
  <2>1. PICK x \in Seq(Object) : x = h.array.items /\ n = Len(x)
    BY <1>1, HStageOpen DEF Count
  <2>2. Downward(n, B, t)
    BY <1>10 DEF Downward
  <2>4. Abstract!Cut(x, Lost(x, B), t[n])
    BY <1>11, <2>1, <2>2, CutDown
  <2> QED
    BY <2>1, <2>4
<1>13. HStage(a, s, R, left[n])
  BY <1>7, <1>9
<1> QED
  BY <1>8, <1>11, <1>12, <1>13 DEF B

LEMMA AddGuaranteedRaw ==
    ASSUME NEW b \in Raw, NEW p \in Item
    PROVE  AddGuaranteed(b, p) \in Raw
<1>1. PICK s : s = Append(b.items, p) /\ s \in Seq(Item)
  <2>1. b.items \in Seq(Item)
    BY DEF Raw
  <2>2. Append(b.items, p) \in Seq(Item)
    BY <2>1
  <2> QED
    BY <2>2
<1>2. PICK d : d = [b EXCEPT !.items = s]
  OBVIOUS
<1>3. d \in Raw
  BY <1>1, <1>2 DEF Raw
<1>4. AddGuaranteed(b, p) = Bump(d)
  BY <1>1, <1>2 DEF AddGuaranteed, Raw
<1> QED
  BY <1>3, <1>4, BumpFacts

(* the first k of the items                                                *)
Begun(ps, k)       == SubSeq(ps, 1, k)
Reached(u, ps, k, w) == w = u \o Begun(ps, k)

LEMMA BegunFacts ==
    ASSUME NEW S, NEW ps \in Seq(S)
    PROVE  Begun(ps, 0) = <<>> /\ Begun(ps, Len(ps)) = ps
BY DEF Begun

LEMMA BegunNext ==
    ASSUME NEW S, NEW u \in Seq(S), NEW ps \in Seq(S), NEW n, n = Len(ps), NEW k \in 1 .. n,
           NEW p \in S, p = ps[k], NEW w, NEW j, j = k - 1, Reached(u, ps, j, w)
    PROVE  Reached(u, ps, k, Append(w, p))
<1>1. k \in 1 .. Len(ps) /\ 1 \in 1 .. Len(ps)
  OBVIOUS
<1>2. PICK v : v = SubSeq(ps, 1, k - 1)
  OBVIOUS
<1>3. SubSeq(ps, 1, k) = v \o <<p>>
  BY <1>1, <1>2, SubSeqRecursiveSecond
<1>4. v \in Seq(S)
  <2>1. PICK m \in Nat : m = k - 1 /\ m <= Len(ps)
    <3>1. k - 1 \in Nat /\ k - 1 <= Len(ps)
      OBVIOUS
    <3> QED
      BY <3>1
  <2>2. 0 + 1 = 1 /\ 0 <= m
    BY <2>1
  <2> QED
    BY <1>2, <2>1, <2>2, PartFacts
<1>5. Append(v, p) = v \o <<p>>
  BY <1>4, AppendConcat
<1>6. <<p>> \in Seq(S) /\ u \o v \in Seq(S)
  BY <1>4, ConcatFacts
<1>7. (u \o v) \o <<p>> = u \o (v \o <<p>>)
  BY <1>4, <1>6, ConcatAssociative
<1>8. Append(u \o v, p) = (u \o v) \o <<p>>
  BY <1>6, AppendConcat
<1> QED
  BY <1>2, <1>3, <1>7, <1>8 DEF Begun, Reached

LEMMA HStageAddArray ==
    ASSUME NEW a, NEW s, NEW R, NEW h, HStage(a, s, R, h), kind = "objects",
           NEW o, o.items \in Seq(Object), NEW r \in AnyRange
    PROVE  /\ HStage(a, s, R, AddArray(h, o, r))
           /\ Joined(AddArray(h, o, r).array.items, h.array.items, o, r)
<1>1. PICK x, Q : x = h.array /\ Q = h.refs
  OBVIOUS
<1>2. h = Holding(x, Q) /\ Q \in RefCounts /\ Stage(a, x) /\ x.items \in Seq(Object)
  BY <1>1, HStageOpen
<1>3. PICK v : v = Validated(r, Count(o))
  OBVIOUS
<1>4. PICK n \in Nat : n = v.length /\ v.location \in Nat /\ v.location + n <= Len(o.items)
  <2>1. Len(o.items) \in Nat
    OBVIOUS
  <2> QED
    BY <1>3, <2>1, ValidatedFacts DEF Count
<1>5. PICK ps : ps = Slice(o.items, v)
  OBVIOUS
<1>6. ps \in Seq(Object) /\ Len(ps) = n /\ \A k \in 1 .. n : ps[k] \in Object
  <2>1. ps \in Seq(Object) /\ Len(ps) = n
    BY <1>4, <1>5, SliceFacts
  <2> QED
    BY <2>1, ElementOfSeq
<1> DEFINE base       == On(h, Guarantee(x, n))
           next(y, k) == On(Retained(y, <<ps[k]>>),
                            AddGuaranteed(Retained(y, <<ps[k]>>).array, ps[k]))
           step    == [y \in Holdings |->
                          [k \in Nat |-> IF k \in 1 .. n THEN next(y, k) ELSE y]]
           Eq(g)   == g = [k \in 0 .. n |-> IF k = 0 THEN base ELSE next(g[k - 1], k)]
           after   == CHOOSE g : Eq(g)
<1>7. AddArray(h, o, r) = IF n = 0 THEN h ELSE after[n]
  BY <1>1, <1>3, <1>4, <1>5 DEF AddArray, after, next
<1>8. PICK b : b = Guarantee(x, n)
  OBVIOUS
<1>9. /\ Stage(a, b) /\ b.items = x.items /\ b.size >= Len(x.items) + n /\ b.size \in Nat
  BY <1>2, <1>8, StageGuarantee, OwningItems
<1>10. base = Holding(b, Q)
  BY <1>2, <1>8 DEF On, Holding
<1>11. HStage(a, s, R, base) /\ base.array = b
  <2>1. Balanced(x.items, Q, b.items, Q)
    BY <1>9 DEF Balanced
  <2>2. HStage(a, s, R, Holding(b, Q)) /\ Holding(b, Q).array = b
    BY <1>1, <1>2, <1>9, <2>1, HStageNext DEF Holding
  <2> HIDE DEF base
  <2> QED
    BY <1>10, <2>2
<1>12. \A y \in Holdings, k \in 1 .. n : next(y, k) \in Holdings
  <2> SUFFICES ASSUME NEW y \in Holdings, NEW k \in 1 .. n PROVE next(y, k) \in Holdings
    OBVIOUS
  <2>1. PICK z, P : z = y.array /\ P = y.refs /\ y = Holding(z, P) /\ z \in Raw /\ P \in RefCounts
    BY DEF Holdings, Holding
  <2>2. PICK u \in Seq(Object) : \E p \in Object : p = ps[k] /\ u = <<p>>
    <3>1. \A p \in Object : <<p>> \in Seq(Object)
      OBVIOUS
    <3> QED
      BY <1>6, <3>1
  <2>7. PICK p \in Object : p = ps[k] /\ u = <<p>>
    BY <2>2
  <2>3. Retained(y, u) = Holding(z, Plus(P, u)) /\ Plus(P, u) \in RefCounts
    BY <2>1, HoldingFacts
  <2>4. AddGuaranteed(z, p) \in Raw
    BY <2>1, AddGuaranteedRaw, OwningItems
  <2>5. Holding(z, Plus(P, u)).array = z /\ On(Holding(z, Plus(P, u)), AddGuaranteed(z, p))
                                               = Holding(AddGuaranteed(z, p), Plus(P, u))
    BY DEF Holding, On
  <2>6. next(y, k) = Holding(AddGuaranteed(z, p), Plus(P, u))
    BY <2>7, <2>3, <2>5
  <2> HIDE DEF next
  <2> QED
    BY <2>3, <2>4, <2>6 DEF Holdings, Holding
<1>13. base \in Holdings
  BY <1>11, HoldingsFacts
<1> HIDE DEF next, base
<1>14. PICK f \in [0 .. n -> Holdings] : IsRun(f, n, base, step)
  <2>1. step \in [Holdings -> [Nat -> Holdings]]
    BY <1>12
  <2> HIDE DEF step
  <2> QED
    BY <1>13, <2>1, RunExists
<1>15. Eq(f)
  <2>1. ASSUME NEW k \in 1 .. n PROVE f[k] = next(f[k - 1], k)
    <3>1. k - 1 \in 0 .. n /\ k \in Nat /\ f[k - 1] \in Holdings
      OBVIOUS
    <3>2. f[k] = step[f[k - 1]][k]
      BY <1>14 DEF IsRun
    <3> QED
      BY <3>1, <3>2
  <2>2. f[0] = base
    BY <1>14 DEF IsRun
  <2>3. \A k \in 0 .. n : k = 0 \/ k \in 1 .. n
    OBVIOUS
  <2> HIDE DEF step
  <2> QED
    BY <2>1, <2>2, <2>3
<1>16. Eq(after)
  BY <1>15
<1> HIDE DEF after
<1>17. PICK l, z : l = Len(x.items) /\ l \in Nat /\ z = b.size /\ z \in Nat /\ l + n <= z
  <2>1. Len(x.items) \in Nat
    BY <1>2
  <2> QED
    BY <1>9, <2>1
<1>18. \A k \in 0 .. n : /\ HStage(a, s, R, after[k])
                         /\ Reached(x.items, ps, k, after[k].array.items)
  <2> DEFINE T == {k \in 0 .. n : /\ HStage(a, s, R, after[k])
                                  /\ Len(after[k].array.items) = l + k
                                  /\ Reached(x.items, ps, k, after[k].array.items)
                                  /\ after[k].array.size = z}
  <2>1. 0 \in T
    <3>1. after[0] = base
      BY <1>16
    <3>2. l + 0 = l /\ Len(b.items) = l
      BY <1>9, <1>17
    <3>4. Begun(ps, 0) = <<>>
      BY <1>6, BegunFacts
    <3>5. x.items \o <<>> = x.items
      BY <1>2, ConcatEmptySeq
    <3>3. Reached(x.items, ps, 0, x.items)
      BY <3>4, <3>5 DEF Reached
    <3> QED
      BY <1>9, <1>11, <1>17, <3>1, <3>2, <3>3
  <2>2. ASSUME NEW k \in 1 .. n, k - 1 \in T PROVE k \in T
    <3>1. k \in 0 .. n /\ k # 0 /\ k - 1 \in 0 .. n
      OBVIOUS
    <3>2. PICK y : y = after[k - 1]
      OBVIOUS
    <3>3. /\ HStage(a, s, R, y) /\ Len(y.array.items) = l + (k - 1) /\ y.array.size = z
          /\ Reached(x.items, ps, k - 1, y.array.items)
      BY <2>2, <3>2
    <3>4. after[k] = next(y, k)
      BY <1>16, <3>1, <3>2
    <3>5. l + (k - 1) < z /\ (l + (k - 1)) + 1 = l + k
      BY <1>17, <3>1
    <3>6. PICK p \in Object : p = ps[k]
      BY <1>6
    <3>7. Len(y.array.items) < y.array.size
      BY <3>3, <3>5
    <3>11. PICK u, g : u = <<p>> /\ g = On(Retained(y, u), AddGuaranteed(y.array, p))
      OBVIOUS
    <3>8. /\ Retained(y, u).array = y.array /\ HStage(a, s, R, g)
          /\ g.array.items = Append(y.array.items, p) /\ g.array.size = y.array.size
      BY <3>3, <3>7, <3>11, HStageGuaranteed
    <3>9. next(y, k) = g
      BY <3>6, <3>8, <3>11 DEF next
    <3>10. Len(Append(y.array.items, p)) = (l + (k - 1)) + 1
      <4>1. y.array.items \in Seq(Object)
        BY <3>3, HStageOpen
      <4> QED
        BY <3>3, <4>1
    <3>12. Reached(x.items, ps, k, Append(y.array.items, p))
      <4>1. PICK j, w, e : j = k - 1 /\ w = y.array.items /\ e = x.items
        OBVIOUS
      <4>2. e \in Seq(Object) /\ Reached(e, ps, j, w) /\ p = ps[k] /\ n = Len(ps)
        BY <1>2, <1>6, <3>3, <3>6, <4>1
      <4>3. Reached(e, ps, k, Append(w, p))
        BY <1>6, <4>1, <4>2, BegunNext
      <4> QED
        BY <4>1, <4>3
    <3> QED
      BY <3>1, <3>3, <3>4, <3>5, <3>8, <3>9, <3>10, <3>12
  <2> HIDE DEF T
  <2>3. \A k \in 0 .. n : k \in T
    BY <2>1, <2>2, UpTo
  <2> QED
    BY <2>3 DEF T
<1>19. n \in 0 .. n
  OBVIOUS
<1>20. Begun(ps, n) = ps
  BY <1>6, BegunFacts
<1>21. CASE n = 0
  <2>1. ps = <<>>
    BY <1>6, <1>21, EmptySeq
  <2>2. x.items \o <<>> = x.items
    BY <1>2, ConcatEmptySeq
  <2> QED
    BY <1>1, <1>3, <1>5, <1>7, <1>21, <2>1, <2>2 DEF Count, Joined
<1>22. CASE n # 0
  BY <1>1, <1>3, <1>5, <1>7, <1>18, <1>19, <1>20, <1>22 DEF Count, Reached, Joined
<1> QED
  BY <1>21, <1>22

-----------------------------------------------------------------------------
(* The reference counts are those of the items *)

ItemsIn(f) == [i \in LiveIn(f) |-> f[i].items]

RefsOK ==
    /\ kind = "objects" => IsFiniteSet(PlacesIn(ItemsIn(arrays)))
    /\ \A p \in Object :
          refs[p] = IF kind = "objects" THEN Cardinality(HitPlacesIn(ItemsIn(arrays), {p})) ELSE 0

LEMMA RefsStep ==
    ASSUME RefsOK, kind = "objects", kind' = kind, refs \in RefCounts, NEW id \in Id,
           \A i \in Id : i # id => arrays'[i] = arrays[i],
           NEW s \in Seq(Object), s = ItemsOf(ItemsIn(arrays), id),
           NEW t \in Seq(Object), t = ItemsOf(ItemsIn(arrays'), id),
           refs' \in RefCounts, Balanced(s, refs, t, refs')
    PROVE  RefsOK'
<1> DEFINE F == ItemsIn(arrays)
           G == ItemsIn(arrays')
<1>1. DOMAIN F \ {id} = DOMAIN G \ {id} /\ \A i \in DOMAIN F \ {id} : G[i] = F[i]
  BY DEF ItemsIn, LiveIn
<1>2. IsFiniteSet(PlacesIn(F)) /\ \A p \in Object : refs[p] = Cardinality(HitPlacesIn(F, {p}))
  BY DEF RefsOK
<1> HIDE DEF F, G
<1>3. \A A : /\ IsFiniteSet(PlacesIn(G))
             /\ Cardinality(HitPlacesIn(G, A)) - HitCount(t, A)
                    = Cardinality(HitPlacesIn(F, A)) - HitCount(s, A)
             /\ Cardinality(HitPlacesIn(F, A)) \in Nat /\ Cardinality(HitPlacesIn(G, A)) \in Nat
  <2>1. s = ItemsOf(F, id) /\ t = ItemsOf(G, id)
    BY DEF F, G
  <2>2. ItemsOf(F, id) \in Seq(Object) /\ ItemsOf(G, id) \in Seq(Object)
    BY <2>1
  <2>3. \A A : /\ IsFiniteSet(PlacesIn(G))
               /\ Cardinality(HitPlacesIn(G, A)) - HitCount(ItemsOf(G, id), A)
                      = Cardinality(HitPlacesIn(F, A)) - HitCount(ItemsOf(F, id), A)
               /\ Cardinality(HitPlacesIn(F, A)) \in Nat
               /\ Cardinality(HitPlacesIn(G, A)) \in Nat
    BY <1>1, <1>2, <2>2, PlacesChange
  <2> QED
    BY <2>1, <2>3
<1>4. ASSUME NEW p \in Object PROVE refs'[p] = Cardinality(HitPlacesIn(G, {p}))
  <2>1. PICK m, n, x, y : /\ m = HitCount(s, {p}) /\ n = HitCount(t, {p})
                          /\ x = Cardinality(HitPlacesIn(F, {p}))
                          /\ y = Cardinality(HitPlacesIn(G, {p}))
    OBVIOUS
  <2>2. m \in Nat /\ n \in Nat /\ x \in Nat /\ y \in Nat /\ y - n = x - m
    BY <1>3, <2>1, HitsFinite
  <2>3. PICK r \in Int : r = refs'[p] /\ r - n = x - m
    <3>1. refs'[p] - n = refs[p] - m /\ refs[p] = x /\ refs'[p] \in Int
      BY <1>2, <2>1 DEF Balanced, RefCounts
    <3> QED
      BY <3>1
  <2>4. r = y
    BY <2>2, <2>3
  <2> QED
    BY <2>1, <2>3, <2>4
<1> QED
  BY <1>3, <1>4 DEF RefsOK, G

LEMMA RefsSame ==
    ASSUME RefsOK, kind' = kind, arrays' = arrays, refs' = refs
    PROVE  RefsOK'
BY DEF RefsOK

LEMMA RefsElsewhere ==
    ASSUME RefsOK, kind # "objects", kind' = kind, refs' = refs
    PROVE  RefsOK'
BY DEF RefsOK

LEMMA OwnChange ==
    ASSUME ArraysInv, RefsOK, kind = "objects", NEW id \in Live, NEW h,
           HStage(arrays[id], arrays[id].items, refs, h), Update(id, h.array), refs' = h.refs
    PROVE  ArraysInv' /\ RefsOK'
<1>1. h.refs \in RefCounts /\ Stage(arrays[id], h.array) /\ h.array.items \in Seq(Object)
  BY HStageOpen
<1>2. PICK b : b = h.array
  OBVIOUS
<1>3. Stage(arrays[id], b) /\ Update(id, b) /\ refs' \in [Object -> Int]
  BY <1>1, <1>2 DEF RefCounts
<1>4. /\ ArraysInv' /\ arrays'[id] # None /\ arrays'[id].items = b.items
      /\ \A i \in Id : i # id => arrays'[i] = arrays[i]
  BY <1>3, UpdateInv
<1>5. kind' = kind
  BY DEF Update, Commit
<1>6. id \in Id /\ arrays[id] # None /\ arrays[id].items \in Seq(Object)
  BY LiveFacts, OwningItems
<1>7. /\ arrays[id].items = ItemsOf(ItemsIn(arrays), id)
      /\ b.items = ItemsOf(ItemsIn(arrays'), id)
  BY <1>4, <1>6 DEF ItemsOf, ItemsIn, LiveIn
<1>8. Balanced(arrays[id].items, refs, b.items, refs') /\ refs' \in RefCounts /\ refs \in RefCounts
  BY <1>1, <1>2 DEF HStage, ArraysInv, RefCounts
<1>9. PICK s \in Seq(Object), t \in Seq(Object) : s = arrays[id].items /\ t = b.items
  BY <1>1, <1>2, <1>6
<1>10. /\ s = ItemsOf(ItemsIn(arrays), id) /\ t = ItemsOf(ItemsIn(arrays'), id)
       /\ Balanced(s, refs, t, refs')
  BY <1>7, <1>8, <1>9
<1>11. \A i \in Id : i # id => arrays'[i] = arrays[i]
  BY <1>4
<1>12. RefsOK'
  BY <1>5, <1>6, <1>8, <1>10, <1>11, RefsStep
<1> QED
  BY <1>4, <1>12

LEMMA PlusNone ==
    ASSUME NEW R \in RefCounts
    PROVE  Plus(R, <<>>) = R
<1>1. \A p \in Object : R[p] \in Int /\ R[p] + HitCount(<<>>, {p}) = R[p]
  <2> SUFFICES ASSUME NEW p \in Object PROVE R[p] \in Int /\ R[p] + HitCount(<<>>, {p}) = R[p]
    OBVIOUS
  <2>1. PICK r \in Int : r = R[p]
    BY DEF RefCounts
  <2>2. PICK k : k = HitCount(<<>>, {p}) /\ k = 0
    BY HitsNone
  <2> QED
    BY <2>1, <2>2
<1> QED
  BY <1>1 DEF Plus, RefCounts

LEMMA OwnEstablish ==
    ASSUME ArraysInv, RefsOK, misfreed = {}, kind = "objects", NEW id \in Id, NEW b \in Raw,
           NEW al \in AnyAllocator, Establish(id, b, al), refs' = Plus(refs, b.items),
           Fits2(b), b.freed \subseteq {NULL, Moved}, b.storage = NULL => b.size = 0,
           \/ b.storage \in {NULL, Moved} /\ b.initial = NULL
           \/ b.storage = id /\ b.initial = id /\ MayLend(id)
    PROVE  ArraysInv' /\ RefsOK'
<1>1. PICK t \in Seq(Object) : t = b.items
  BY OwningItems DEF Raw
<1>2. refs \in RefCounts
  BY DEF ArraysInv, RefCounts
<1>3. refs' \in RefCounts
  <2>1. Plus(refs, t) \in RefCounts
    BY <1>2, HoldingFacts
  <2> QED
    BY <1>1, <2>1
<1>4. /\ ArraysInv' /\ arrays'[id] # None /\ arrays'[id].items = b.items
      /\ \A i \in Id : i # id => arrays'[i] = arrays[i]
  <2>1. refs' \in [Object -> Int]
    BY <1>3 DEF RefCounts
  <2> QED
    BY <2>1, EstablishInv
<1>5. kind' = kind /\ arrays[id] = None
  BY DEF Establish
<1>6. PICK s \in Seq(Object) : s = <<>>
  <2>1. <<>> \in Seq(Object)
    OBVIOUS
  <2> QED
    BY <2>1
<1>7. s = ItemsOf(ItemsIn(arrays), id) /\ t = ItemsOf(ItemsIn(arrays'), id)
  BY <1>1, <1>4, <1>5, <1>6 DEF ItemsOf, ItemsIn, LiveIn
<1>8. Balanced(s, refs, t, refs')
  <2>1. Balanced(s, refs, s \o t, Plus(refs, t))
    BY <1>2, BalancedAdd
  <2>2. s \o t = t
    BY <1>6, ConcatEmptySeq
  <2> QED
    BY <1>1, <2>1, <2>2
<1>9. \A i \in Id : i # id => arrays'[i] = arrays[i]
  BY <1>4
<1>10. RefsOK'
  BY <1>2, <1>3, <1>5, <1>7, <1>8, <1>9, RefsStep
<1> QED
  BY <1>4, <1>10

-----------------------------------------------------------------------------
(* The invariant is inductive: owning arrays *)

(* The copy has what the source has, in a storage that just fits.          *)
LEMMA CopiedFacts ==
    ASSUME kind = "objects", NEW src, src.items \in Seq(Object), refs \in RefCounts,
           NEW n \in Nat, n = Len(src.items), NEW a, a = Fresh(n),
           NEW h, h = CopyItems(Holding(a, refs), src)
    PROVE  /\ h.refs = Plus(refs, src.items) /\ h.array \in Raw /\ h.array.items = src.items
           /\ Fits2(h.array) /\ h.array.freed = {} /\ h.array.storage = a.storage
           /\ h.array.initial = NULL /\ h.array.size = n
<1>1. /\ a \in Raw /\ Fits2(a) /\ a.freed = {} /\ a.mutations = 0 /\ a.items = <<>>
      /\ a.storage \in {NULL, Moved} /\ a.initial = NULL /\ a.size = n
      /\ a.storage = NULL => a.size = 0
  BY FreshFacts
<1>2. CASE n = 0
  <2>1. h = Holding(a, refs) /\ src.items = <<>>
    BY <1>2, EmptySeq DEF CopyItems, Count
  <2>2. h.array = a /\ h.refs = refs
    BY <2>1 DEF Holding
  <2> QED
    BY <1>1, <2>1, <2>2, PlusNone
<1>3. CASE n # 0
  <2>1. PICK g : g = Guarantee(a, n)
    OBVIOUS
  <2>2. g = Bump(a)
    <3>1. Len(a.items) = 0 /\ n - 0 = n /\ ~ (n < n)
      BY <1>1
    <3> QED
      BY <1>1, <2>1, <3>1 DEF Guarantee, Count
  <2>3. /\ g \in Raw /\ g.items = <<>> /\ g.size = n /\ g.storage = a.storage
        /\ g.initial = NULL /\ g.freed = {}
    BY <1>1, <2>2, BumpFacts
  <2>4. PICK y : y = [g EXCEPT !.items = src.items]
    OBVIOUS
  <2>5. [g EXCEPT !.items = @ \o src.items] = y
    <3>1. g.items \o src.items = src.items
      BY <2>3, ConcatEmptySeq
    <3> QED
      BY <2>3, <2>4, <3>1 DEF Raw
  <2>6. h = Holding(y, Plus(refs, src.items))
    <3>1. Retained(Holding(a, refs), src.items) = Holding(a, Plus(refs, src.items))
      BY HoldingFacts
    <3>2. h = On(Retained(Holding(a, refs), src.items), [g EXCEPT !.items = @ \o src.items])
      BY <1>3, <2>1 DEF CopyItems, Count, Holding
    <3>3. \A P : On(Holding(a, P), y) = Holding(y, P)
      BY DEF On, Holding
    <3> QED
      BY <2>5, <3>1, <3>2, <3>3
  <2>7. /\ y \in Raw /\ y.items = src.items /\ y.size = n /\ y.storage = a.storage
        /\ y.initial = NULL /\ y.freed = {}
    BY <2>3, <2>4, OwningItems DEF Raw
  <2>8. h.array = y /\ h.refs = Plus(refs, src.items)
    BY <2>6 DEF Holding
  <2> QED
    BY <2>7, <2>8 DEF Fits2
<1> QED
  BY <1>2, <1>3

LEMMA CopyInv ==
    ASSUME ArraysInv, RefsOK, misfreed = {}, kind = "objects", NEW id \in Id, NEW other \in Live,
           CopyArray(id, other)
    PROVE  ArraysInv' /\ RefsOK'
<1>1. PICK src : src = arrays[other]
  OBVIOUS
<1>2. src.items \in Seq(Object) /\ refs \in RefCounts
  BY <1>1, LiveFacts, OwningItems DEF ArraysInv, RefCounts
<1>3. PICK n \in Nat : n = Len(src.items)
  <2>1. Len(src.items) \in Nat
    BY <1>2
  <2> QED
    BY <2>1
<1>4. PICK a : a = Fresh(n)
  OBVIOUS
<1>5. /\ a \in Raw /\ Fits2(a) /\ a.freed = {} /\ a.mutations = 0 /\ a.items = <<>>
      /\ a.storage \in {NULL, Moved} /\ a.initial = NULL /\ a.size = n
      /\ a.storage = NULL => a.size = 0
  BY <1>4, FreshFacts
<1>6. PICK h : h = CopyItems(Holding(a, refs), src)
  OBVIOUS
<1>7. Establish(id, h.array, allocator[other]) /\ refs' = h.refs
  BY <1>1, <1>3, <1>4, <1>6 DEF CopyArray, Count
<1>8. /\ h.refs = Plus(refs, src.items) /\ h.array \in Raw /\ h.array.items = src.items
      /\ Fits2(h.array) /\ h.array.freed = {} /\ h.array.storage = a.storage
      /\ h.array.initial = NULL /\ h.array.size = n
  BY <1>2, <1>3, <1>4, <1>6, CopiedFacts
<1>9. allocator[other] \in AnyAllocator
  <2>1. other \in Id
    BY DEF Live
  <2> QED
    BY <2>1 DEF ArraysInv
<1>10. PICK b \in Raw : b = h.array
  BY <1>8
<1>11. /\ Establish(id, b, allocator[other]) /\ refs' = Plus(refs, b.items) /\ Fits2(b)
       /\ b.freed \subseteq {NULL, Moved} /\ (b.storage = NULL => b.size = 0)
       /\ b.storage \in {NULL, Moved} /\ b.initial = NULL
  BY <1>5, <1>7, <1>8, <1>10
<1> QED
  BY <1>9, <1>11, OwnEstablish

LEMMA OwnInit ==
    ASSUME ArraysInv, RefsOK, misfreed = {}, kind = "objects", NEW id \in Id,
           NEW al \in AnyAllocator, UNCHANGED refs, NEW n \in Nat,
           Establish(id, Fresh(n), al)
               \/ (MayLend(id) /\ Establish(id, FreshStatic(id, LentCapacity), al))
    PROVE  ArraysInv' /\ RefsOK'
<1>1. refs' = Plus(refs, <<>>)
  BY PlusNone DEF ArraysInv, RefCounts
<1>2. CASE Establish(id, Fresh(n), al)
  <2>1. PICK b : b = Fresh(n)
    OBVIOUS
  <2>2. /\ b \in Raw /\ Fits2(b) /\ b.freed = {} /\ b.items = <<>>
        /\ b.storage \in {NULL, Moved} /\ b.initial = NULL /\ (b.storage = NULL => b.size = 0)
    BY <2>1, FreshFacts
  <2>3. Establish(id, b, al) /\ refs' = Plus(refs, b.items)
    BY <1>1, <1>2, <2>1, <2>2
  <2> QED
    BY <2>2, <2>3, OwnEstablish
<1>3. CASE MayLend(id) /\ Establish(id, FreshStatic(id, LentCapacity), al)
  <2>1. PICK b : b = FreshStatic(id, LentCapacity)
    OBVIOUS
  <2>2. /\ b \in Raw /\ Fits2(b) /\ b.freed = {} /\ b.items = <<>>
        /\ b.storage = id /\ b.initial = id /\ b.storage # NULL
    BY <2>1, FreshStaticFacts
  <2>3. Establish(id, b, al) /\ MayLend(id) /\ refs' = Plus(refs, b.items)
    BY <1>1, <1>3, <2>1, <2>2
  <2> QED
    BY <2>2, <2>3, OwnEstablish
<1> QED
  BY <1>2, <1>3

LEMMA OwnDone ==
    ASSUME ArraysInv, RefsOK, kind = "objects", NEW id \in Live, DoneOwning(id)
    PROVE  ArraysInv' /\ RefsOK'
<1>1. PICK a, s : a = arrays[id] /\ s = a.items
  OBVIOUS
<1>2. id \in Id /\ a # None /\ s \in Seq(Object) /\ Clean(a)
  BY <1>1, LiveFacts, OwningItems
<1>3. refs \in RefCounts
  BY DEF ArraysInv, RefCounts
<1>4. Released(Holding(a, refs), s) = Holding(a, Minus(refs, s)) /\ Minus(refs, s) \in RefCounts
  BY <1>2, <1>3, HoldingFacts
<1>5. PICK b : b = Done(a)
  OBVIOUS
<1>6. DoneOwned(OwningOf(id)) = Holding(b, Minus(refs, s))
  <2>1. Holding(a, refs).array = a
    BY DEF Holding
  <2> QED
    BY <1>1, <1>4, <1>5, <2>1 DEF DoneOwned, OwningOf, On, Holding
<1>7. Dissolve(id, b) /\ refs' = Minus(refs, s)
  BY <1>6 DEF DoneOwning, Holding
<1>8. b.freed \ {NULL, Moved} = {arrays[id].storage} \ {NULL, arrays[id].initial} /\ b.mutations = 1
  BY <1>1, <1>2, <1>5, DoneFacts, OwningItems
<1>9. /\ ArraysInv' /\ arrays'[id] = None
      /\ \A i \in Id : i # id => arrays'[i] = arrays[i]
  <2>1. refs' \in [Object -> Int]
    BY <1>4, <1>7 DEF RefCounts
  <2> QED
    BY <1>7, <1>8, <2>1, DissolveInv
<1>10. kind' = kind
  BY <1>7 DEF Dissolve
<1>11. PICK t \in Seq(Object) : t = <<>>
  <2>1. <<>> \in Seq(Object)
    OBVIOUS
  <2> QED
    BY <2>1
<1>12. s = ItemsOf(ItemsIn(arrays), id) /\ t = ItemsOf(ItemsIn(arrays'), id)
  BY <1>1, <1>2, <1>9, <1>11 DEF ItemsOf, ItemsIn, LiveIn
<1>13. Balanced(s, refs, t, refs')
  <2>1. \A A : HitCount(s, A) \in Nat /\ HitCount(<<>>, A) = 0
    BY <1>2, HitsFinite, HitsNone
  <2>2. \A A : HitCount(s, A) = HitCount(<<>>, A) + HitCount(s, A)
    BY <2>1
  <2>3. \A A : HitCount(s, A) = HitCount(t, A) + HitCount(s, A)
    BY <1>11, <2>2
  <2> QED
    BY <1>2, <1>3, <1>7, <2>3, BalancedRemove
<1>14. refs' \in RefCounts /\ \A i \in Id : i # id => arrays'[i] = arrays[i]
  BY <1>4, <1>7, <1>9
<1>15. RefsOK'
  BY <1>2, <1>3, <1>10, <1>12, <1>13, <1>14, RefsStep
<1> QED
  BY <1>9, <1>15

LEMMA OwningInv ==
    ASSUME ArraysInv, RefsOK, misfreed = {}, kind = "objects", OwningNext
    PROVE  ArraysInv' /\ RefsOK'
<1>1. Item = Object /\ kind # "structs" /\ refs \in RefCounts
  BY OwningItems DEF ArraysInv, RefCounts
<1>2. \A i \in Live : /\ i \in Id /\ arrays[i].items \in Seq(Object) /\ Stage(arrays[i], arrays[i])
                      /\ Len(arrays[i].items) \in Nat /\ Count(arrays[i]) = Len(arrays[i].items)
  BY <1>1, LiveFacts DEF Count
<1>3. \A i \in Live : RangesOf(i) \subseteq AnyRange /\ \A k \in Indices(i) :
          k \in 0 .. Len(arrays[i].items) - 1
  BY <1>2 DEF RangesOf, AnyRange, Indices
<1>4. \A i \in Live : /\ HStage(arrays[i], arrays[i].items, refs, OwningOf(i))
                      /\ OwningOf(i).array = arrays[i] /\ OwningOf(i).refs = refs
  BY <1>1, <1>2, HStageSame DEF OwningOf, Holding
<1>5. ASSUME NEW id \in Id, NEW al \in Allocator[id],
             InitOwningOnStack(id) \/ \E n \in Capacities : InitOwning(id, n, al)
      PROVE  ArraysInv' /\ RefsOK'
  <2>1. al \in AnyAllocator /\ NULL \in AnyAllocator /\ UNCHANGED refs
    BY <1>5 DEF AnyAllocator, InitOwningOnStack, InitOwning
  <2>2. CASE InitOwningOnStack(id)
    <3>1. MayLend(id) /\ Establish(id, FreshStatic(id, LentCapacity), NULL) /\ 0 \in Nat
      BY <2>2 DEF InitOwningOnStack
    <3> QED
      BY <2>1, <3>1, OwnInit
  <2>3. CASE \E n \in Capacities : InitOwning(id, n, al)
    <3>1. PICK n \in Nat : Establish(id, Fresh(n), al)
      BY <2>3, Constants DEF InitOwning
    <3> QED
      BY <2>1, <3>1, OwnInit
  <2> QED
    BY <1>5, <2>2, <2>3
<1>6. ASSUME NEW id \in Live, NEW h, HStage(arrays[id], arrays[id].items, refs, h),
             ChangeOwning(id, h)
      PROVE  ArraysInv' /\ RefsOK'
  BY <1>6, OwnChange DEF ChangeOwning
<1>7. ASSUME NEW id \in Live, NEW b, Stage(arrays[id], b), b.items = arrays[id].items,
             Update(id, b), UNCHANGED refs
      PROVE  ArraysInv' /\ RefsOK'
  <2>1. HStage(arrays[id], arrays[id].items, refs, Holding(b, refs))
    BY <1>1, <1>2, <1>7, HStageKept
  <2>2. Holding(b, refs).array = b /\ Holding(b, refs).refs = refs
    BY DEF Holding
  <2> QED
    BY <1>7, <2>1, <2>2, OwnChange
<1>8. ASSUME NEW id \in Live, NEW n \in 0 .. 2, GuaranteeOwning(id, n)
      PROVE  ArraysInv' /\ RefsOK'
  <2>1. n \in Nat
    OBVIOUS
  <2>2. Stage(arrays[id], arrays[id])
    BY <1>2
  <2>3. /\ Stage(arrays[id], Guarantee(arrays[id], n))
        /\ Guarantee(arrays[id], n).items = arrays[id].items
    BY <2>1, <2>2, <1>1, StageGuarantee
  <2> QED
    BY <1>7, <1>8, <2>3 DEF GuaranteeOwning
<1>9. ASSUME NEW id \in Live, GrowOwning(id) PROVE ArraysInv' /\ RefsOK'
  <2>1. PICK z \in Nat : z = arrays[id].size /\ z >= Len(arrays[id].items)
    BY <1>2, LiveFacts
  <2>2. PICK n \in Nat : n = 2 * z /\ n >= z
    OBVIOUS
  <2>3. n >= Len(arrays[id].items)
    BY <1>2, <2>1, <2>2
  <2>4. /\ Stage(arrays[id], Realloc(arrays[id], n))
        /\ Realloc(arrays[id], n).items = arrays[id].items
    BY <1>1, <1>2, <2>3, StageRealloc
  <2> QED
    BY <1>7, <1>9, <2>1, <2>2, <2>4 DEF GrowOwning, Grow
<1>10. ASSUME NEW id \in Live, NEW p \in Object,
              AddObject(id, p) \/ RemoveObject(id, p) \/ RemoveUniqueObject(id, p)
       PROVE  ArraysInv' /\ RefsOK'
  <2>1. /\ HStage(arrays[id], arrays[id].items, refs, AddOwned(OwningOf(id), p))
        /\ HStage(arrays[id], arrays[id].items, refs, RemoveOwned(OwningOf(id), p))
        /\ HStage(arrays[id], arrays[id].items, refs, RemoveUniqueOwned(OwningOf(id), p))
    BY <1>4, HStageAdd, HStageRemove, HStageUnique
  <2> QED
    BY <1>6, <1>10, <2>1 DEF AddObject, RemoveObject, RemoveUniqueObject
<1>11. ASSUME NEW id \in Live, NEW p \in Object, AddObjectGuaranteed(id, p)
       PROVE  ArraysInv' /\ RefsOK'
  <2>1. PICK u, g : /\ u = <<p>>
                    /\ g = On(Retained(OwningOf(id), u), AddGuaranteed(OwningOf(id).array, p))
    OBVIOUS
  <2>2. Len(OwningOf(id).array.items) < OwningOf(id).array.size
    BY <1>4, <1>11 DEF AddObjectGuaranteed, Count
  <2>3. HStage(arrays[id], arrays[id].items, refs, g)
    BY <1>4, <2>1, <2>2, HStageGuaranteed
  <2>4. ChangeOwning(id, g)
    BY <1>4, <1>11, <2>1 DEF AddObjectGuaranteed
  <2> QED
    BY <1>6, <2>3, <2>4
<1>12. ASSUME NEW id \in Live, NEW i \in Indices(id), NEW p \in Object, SetObject(id, i, p)
       PROVE  ArraysInv' /\ RefsOK'
  <2>1. i \in 0 .. Len(OwningOf(id).array.items) - 1
    BY <1>3, <1>4
  <2>2. HStage(arrays[id], arrays[id].items, refs, SetOwned(OwningOf(id), i, p))
    BY <1>4, <2>1, HStageSet
  <2> QED
    BY <1>6, <1>12, <2>2 DEF SetObject
<1>13. ASSUME NEW id \in Live, NEW other \in Live, NEW r \in RangesOf(other),
              AddArrayOfObjects(id, other, r)
       PROVE  ArraysInv' /\ RefsOK'
  <2>1. HStage(arrays[id], arrays[id].items, refs, AddArray(OwningOf(id), arrays[other], r))
    BY <1>2, <1>3, <1>4, HStageAddArray
  <2> QED
    BY <1>6, <1>13, <2>1 DEF AddArrayOfObjects
<1>14. ASSUME NEW id \in Live, NEW r \in RangesOf(id), RemoveObjectsInRange(id, r)
       PROVE  ArraysInv' /\ RefsOK'
  <2>1. HStage(arrays[id], arrays[id].items, refs, RemoveOwnedInRange(OwningOf(id), r))
    BY <1>3, <1>4, HStageRange
  <2> QED
    BY <1>6, <1>14, <2>1 DEF RemoveObjectsInRange
<1>15. ASSUME NEW id \in Live, RemoveLastObject(id) \/ ResetObjects(id)
       PROVE  ArraysInv' /\ RefsOK'
  <2>1. /\ HStage(arrays[id], arrays[id].items, refs, RemoveLastOwned(OwningOf(id)))
        /\ HStage(arrays[id], arrays[id].items, refs, ResetOwned(OwningOf(id)))
    BY <1>4, HStageLast, HStageReset
  <2> QED
    BY <1>6, <1>15, <2>1 DEF RemoveLastObject, ResetObjects
<1>16. ASSUME NEW id \in Live, QsortObjects(id) PROVE ArraysInv' /\ RefsOK'
  <2>1. PICK t \in Sortings(arrays[id].items, Rank) :
           ChangeOwning(id, On(OwningOf(id), Sorted(arrays[id], t)))
    BY <1>16 DEF QsortObjects
  <2>2. PICK b : b = Sorted(arrays[id], t)
    OBVIOUS
  <2>3. Stage(arrays[id], b) /\ b.items = t
    BY <1>2, <2>2, StageSorted
  <2>4. \A A : HitCount(t, A) = HitCount(arrays[id].items, A)
    <3>1. PICK f \in [DOMAIN arrays[id].items -> DOMAIN arrays[id].items] :
             /\ \A i, j \in DOMAIN arrays[id].items : f[i] = f[j] => i = j
             /\ t = [i \in DOMAIN arrays[id].items |-> arrays[id].items[f[i]]]
      BY <1>2, SortingFacts
    <3> QED
      BY <1>2, <3>1, HitsPermuted
  <2>5. HStage(arrays[id], arrays[id].items, refs, Holding(b, refs))
    BY <1>1, <1>2, <2>3, <2>4, HStageKept
  <2>6. On(OwningOf(id), b) = Holding(b, refs)
    BY DEF On, OwningOf, Holding
  <2> QED
    BY <1>6, <2>1, <2>2, <2>5, <2>6
<1>17. ASSUME NEW id \in Live, OpenOwningEnumerator(id) \/ OpenOwningReverseEnumerator(id)
       PROVE  ArraysInv' /\ RefsOK'
  BY <1>17, EnumerateInv, RefsSame DEF OpenOwningEnumerator, OpenOwningReverseEnumerator
<1>18. ASSUME OwningEnumeratorNext \/ OwningReverseEnumeratorNext PROVE ArraysInv' /\ RefsOK'
  BY <1>18, EnumeratorNextInv, RefsSame DEF OwningEnumeratorNext, OwningReverseEnumeratorNext
<1>19. CASE \E id \in Id, other \in Live : CopyArray(id, other)
  BY <1>19, CopyInv
<1>20. CASE \E id \in Live : \E other \in Live : \E r \in RangesOf(other) :
                AddArrayOfObjects(id, other, r)
  BY <1>13, <1>20
<1>21. CASE \E id \in Live : \E p \in Object :
          \/ AddObject(id, p) \/ AddObjectGuaranteed(id, p)
          \/ RemoveObject(id, p) \/ RemoveUniqueObject(id, p)
          \/ \E i \in Indices(id) : SetObject(id, i, p)
  BY <1>10, <1>11, <1>12, <1>21
<1>22. CASE \E id \in Live :
          \/ \E n \in 0 .. 2 : GuaranteeOwning(id, n)
          \/ \E r \in RangesOf(id) : RemoveObjectsInRange(id, r)
  BY <1>8, <1>14, <1>22
<1>23. CASE \E id \in Live :
          \/ DoneOwning(id) \/ GrowOwning(id) \/ RemoveLastObject(id) \/ ResetObjects(id)
          \/ QsortObjects(id) \/ OpenOwningEnumerator(id) \/ OpenOwningReverseEnumerator(id)
  BY <1>9, <1>15, <1>16, <1>17, <1>23, OwnDone
<1> QED
  BY <1>5, <1>18, <1>19, <1>20, <1>21, <1>22, <1>23 DEF OwningNext

-----------------------------------------------------------------------------
(* Arrays that do not own their items leave the reference counts alone.    *)
LEMMA PointerKeepsRefs == ASSUME PointerNext PROVE kind' = kind /\ refs' = refs
<1>1. \A id, a : Change(id, a) \/ (Update(id, a) /\ UNCHANGED refs) => kind' = kind /\ refs' = refs
  BY DEF Change, Update, Commit
<1>2. \A id, a, al : Establish(id, a, al) /\ UNCHANGED refs => kind' = kind /\ refs' = refs
  BY DEF Establish
<1>3. \A id, a : (Dissolve(id, a) \/ Extract(id, a)) /\ UNCHANGED refs
                    => kind' = kind /\ refs' = refs
  BY DEF Dissolve, Extract
<1>4. ASSUME NEW id, DoneArray(id) \/ ExtractPointers(id) \/ PopPointer(id) \/ GrowArray(id)
                        \/ ResetPointers(id) \/ RemoveLast(id) \/ QsortPointers(id)
      PROVE  kind' = kind /\ refs' = refs
  BY <1>1, <1>3, <1>4 DEF DoneArray, ExtractPointers, PopPointer, GrowArray, ResetPointers,
     RemoveLast, QsortPointers
<1>5. ASSUME NEW id, NEW n, GuaranteeRoom(id, n) \/ AdvanceArray(id, n) \/ CompactArray(id, n)
                        \/ AddGuaranteedPointer(id, n) \/ AddPointer(id, n)
                        \/ RemovePointersInRange(id, n) \/ RemoveAtIndex(id, n)
                        \/ RemovePointer(id, n) \/ RemoveUniquePointer(id, n)
                        \/ GetZeroingAddressOf(id, n) \/ AbsorbArray(id, n)
      PROVE  kind' = kind /\ refs' = refs
  BY <1>1, <1>5 DEF GuaranteeRoom, AdvanceArray, CompactArray, AddGuaranteedPointer, AddPointer,
     RemovePointersInRange, RemoveAtIndex, RemovePointer, RemoveUniquePointer,
     GetZeroingAddressOf, AbsorbArray
<1>6. ASSUME NEW id, NEW i, NEW p,
             AddArrayOfPointers(id, i, p) \/ InsertPointersInRange(id, i, p)
                        \/ InsertPointer(id, i, p) \/ SetPointer(id, i, p)
                        \/ SetZeroingPointer(id, i, p)
      PROVE  kind' = kind /\ refs' = refs
  BY <1>1, <1>6 DEF AddArrayOfPointers, InsertPointersInRange, InsertPointer, SetPointer,
     SetZeroingPointer
<1>7. ASSUME NEW id, NEW n, NEW al, InitWithStaticPointer(id, al) \/ InitArray(id, n, al)
      PROVE  kind' = kind /\ refs' = refs
  BY <1>2, <1>7 DEF InitWithStaticPointer, InitArray
<1>8. ASSUME NEW id, \/ OpenEnumerator(id) \/ OpenReverseEnumerator(id)
                     \/ PointerEnumeratorNext \/ PointerReverseEnumeratorNext
      PROVE  kind' = kind /\ refs' = refs
  BY <1>8 DEF OpenEnumerator, OpenReverseEnumerator, PointerEnumeratorNext,
     PointerReverseEnumeratorNext
<1> QED
  BY <1>4, <1>5, <1>6, <1>7, <1>8 DEF PointerNext

LEMMA StructsKeepRefs == ASSUME StructNext PROVE kind' = kind /\ refs' = refs
<1>1. \A id, a : ChangeStructs(id, a) \/ (Update(id, a) /\ UNCHANGED refs)
                    => kind' = kind /\ refs' = refs
  BY DEF ChangeStructs, Update, Commit
<1>2. \A id, a, al : Establish(id, a, al) /\ UNCHANGED refs => kind' = kind /\ refs' = refs
  BY DEF Establish
<1>3. \A id, a : (Dissolve(id, a) \/ Extract(id, a)) /\ UNCHANGED refs
                    => kind' = kind /\ refs' = refs
  BY DEF Dissolve, Extract
<1>4. ASSUME NEW id, DoneStructArray(id) \/ ExtractStructs(id) \/ PopStructFrom(id)
                        \/ GrowStructArray(id) \/ ResetStructArray(id) \/ RemoveLastStruct(id)
                        \/ QsortStructs(id) \/ SizeStructsToFit(id)
      PROVE  kind' = kind /\ refs' = refs
  BY <1>1, <1>3, <1>4 DEF DoneStructArray, ExtractStructs, PopStructFrom, GrowStructArray,
     ResetStructArray, RemoveLastStruct, QsortStructs, SizeStructsToFit
<1>5. ASSUME NEW id, NEW n, GuaranteeStructRoom(id, n) \/ AdvanceStructArray(id, n)
                        \/ AddStructTo(id, n) \/ AddStructGuaranteed(id, n)
                        \/ ReserveStruct(id, n) \/ ZeroToCountOf(id, n)
                        \/ RemoveStructs(id, n) \/ RemoveStructAtIndex(id, n)
      PROVE  kind' = kind /\ refs' = refs
  BY <1>1, <1>5 DEF GuaranteeStructRoom, AdvanceStructArray, AddStructTo, AddStructGuaranteed,
     ReserveStruct, ZeroToCountOf, RemoveStructs, RemoveStructAtIndex
<1>6. ASSUME NEW id, NEW i, NEW p,
             AddArrayOfStructs(id, i, p) \/ InsertStructs(id, i, p)
                        \/ SetStructAt(id, i, p) \/ SetCountOf(id, i, p)
      PROVE  kind' = kind /\ refs' = refs
  BY <1>1, <1>6 DEF AddArrayOfStructs, InsertStructs, SetStructAt, SetCountOf
<1>7. ASSUME NEW id, NEW n, NEW al, \/ InitStructsWithStaticStorage(id, al)
                                    \/ InitStructs(id, n, al) \/ CopyStructArray(id, n, al)
      PROVE  kind' = kind /\ refs' = refs
  BY <1>2, <1>7 DEF InitStructsWithStaticStorage, InitStructs, CopyStructArray
<1>8. ASSUME NEW id, \/ OpenStructEnumerator(id) \/ OpenStructReverseEnumerator(id)
                     \/ StructEnumeratorNext \/ StructReverseEnumeratorNext
      PROVE  kind' = kind /\ refs' = refs
  BY <1>8 DEF OpenStructEnumerator, OpenStructReverseEnumerator, StructEnumeratorNext,
     StructReverseEnumeratorNext
<1> QED
  BY <1>4, <1>5, <1>6, <1>7, <1>8 DEF StructNext

(* ---- the specification ----                                             *)
AllInv == ArraysInv /\ RefsOK

(* At first there is no array, and no block is in use.                     *)
LEMMA AllInit == ASSUME Init PROVE AllInv
<1>1. Live = {} /\ arrays = [i \in Id |-> None] /\ DOMAIN arrays = Id
  BY DEF Init, Live
<1>2. LiveIn(arrays) = {}
  BY <1>1 DEF LiveIn
<1>3. kind \in Kinds /\ rover = None /\ stolen = {} /\ misfreed = {} /\ DOMAIN heap = {}
  BY DEF Init
<1>4. allocator \in [Id -> AnyAllocator] /\ refs \in [Object -> Int]
  BY DEF Init, AnyAllocator
<1>5. HeapOK(arrays, heap, allocator)
  BY <1>2, <1>3 DEF HeapOK
<1>6. RoverOK(rover, arrays)
  BY <1>3 DEF RoverOK
<1>7. ArraysInv
  BY <1>1, <1>3, <1>4, <1>5, <1>6 DEF ArraysInv
<1>8. PlacesIn(ItemsIn(arrays)) = {} /\ \A A : HitPlacesIn(ItemsIn(arrays), A) = {}
  BY <1>2 DEF PlacesIn, HitPlacesIn, ItemsIn
<1>9. IsFiniteSet({}) /\ Cardinality({}) = 0
  BY FS_EmptySet
<1>10. \A p \in Object : refs[p] = 0
  BY DEF Init
<1>11. RefsOK
  BY <1>8, <1>9, <1>10 DEF RefsOK
<1> QED
  BY <1>7, <1>11 DEF AllInv

LEMMA AllStep == ASSUME AllInv, [Next]_vars PROVE AllInv'
<1>1. CASE misfreed = {} /\ kind = "pointers" /\ PointerNext
  BY <1>1, PointerInv, PointerKeepsRefs, RefsElsewhere DEF AllInv
<1>2. CASE misfreed = {} /\ kind = "objects" /\ OwningNext
  BY <1>2, OwningInv DEF AllInv
<1>3. CASE misfreed = {} /\ kind = "structs" /\ StructNext
  BY <1>3, StructInv, StructsKeepRefs, RefsElsewhere DEF AllInv
<1>4. CASE UNCHANGED vars
  <2>1. /\ kind' = kind /\ arrays' = arrays /\ allocator' = allocator /\ heap' = heap
        /\ misfreed' = misfreed /\ stolen' = stolen /\ refs' = refs /\ rover' = rover
    BY <1>4 DEF vars, memory
  <2>2. ArraysInv /\ RefsOK
    BY DEF AllInv
  <2>3. \A i \in Id : arrays'[i] # None => ArrayOK(i, arrays'[i], stolen')
    BY <2>1, <2>2 DEF ArraysInv, Live
  <2>4. /\ allocator' \in [Id -> AnyAllocator] /\ HeapOK(arrays', heap', allocator')
        /\ refs' \in [Object -> Int] /\ RoverOK(rover', arrays')
        /\ DOMAIN arrays' = Id /\ arrays' = [i \in Id |-> arrays'[i]]
        /\ stolen' \subseteq Id /\ misfreed' \subseteq stolen'
    BY <2>1, <2>2 DEF ArraysInv
  <2>5. ArraysInv'
    BY <2>1, <2>2, <2>3, <2>4, InvAll
  <2>6. RefsOK'
    BY <2>1, <2>2, RefsSame
  <2> QED
    BY <2>5, <2>6 DEF AllInv
<1> QED
  BY <1>1, <1>2, <1>3, <1>4 DEF Next

-----------------------------------------------------------------------------
(* Searches *)

(* The indices within a range that the searches are given.                 *)
LEMMA WithinFacts ==
    ASSUME NEW n \in Nat, NEW r \in AnyRange, r.location <= n, r.length = All \/ r.length = 1,
           NEW v, v = Validated(r, n)
    PROVE  {k \in 0 .. n - 1 : /\ r.location <= k /\ v # Make(0, 0)
                               /\ r.length = All \/ k < r.location + r.length}
               = v.location .. v.location + v.length - 1
<1>1. PICK l \in Nat : l = r.location /\ l <= n
  BY DEF AnyRange
<1>2. CASE r.length = All
  <2>1. v = Make(l, n - l)
    BY <1>1, <1>2 DEF Validated, All, Make
  <2>2. v.location = l /\ v.location + v.length - 1 = n - 1 /\ (v = Make(0, 0) => n = 0)
    BY <1>1, <2>1 DEF Make
  <2> QED
    BY <1>1, <1>2, <2>2
<1>3. CASE r.length = 1 /\ l < n
  <2>1. v = r /\ r.length # All
    BY <1>1, <1>3 DEF Validated, All, AnyRange
  <2>2. v.location = l /\ v.location + v.length - 1 = l /\ v # Make(0, 0)
    BY <1>1, <1>3, <2>1 DEF Make
  <2> QED
    BY <1>1, <1>3, <2>1, <2>2
<1>4. CASE r.length = 1 /\ ~ (l < n)
  <2>1. v = Make(0, 0)
    BY <1>1, <1>4 DEF Validated, All, AnyRange
  <2>2. v.location .. v.location + v.length - 1 = {}
    BY <2>1 DEF Make
  <2> QED
    BY <2>1, <2>2
<1> QED
  BY <1>1, <1>2, <1>3, <1>4

HitsOf(a, p, v)       == {j \in v.location .. v.location + v.length - 1 : a.items[j + 1] = p}
EqualHitsOf(a, p, v)  ==
    {j \in v.location .. (v.location + v.length) - 1 : Class[a.items[j + 1]] = Class[p]}

LEMMA FirstFacts ==
    ASSUME NEW hits, hits \subseteq Nat, hits # {}
    PROVE  First(hits) \in hits /\ First(hits) \in Nat /\ \A j \in hits : First(hits) <= j
<1>1. PICK i : i = First(hits)
  OBVIOUS
<1>2. i \in hits /\ i \in Nat /\ \A j \in hits : i <= j
  BY <1>1, FirstHit DEF First
<1> QED
  BY <1>1, <1>2

LEMMA HitsAreNat ==
    ASSUME NEW n \in Nat, NEW r \in AnyRange, NEW a, NEW p
    PROVE  HitsOf(a, p, Validated(r, n)) \subseteq Nat /\ EqualHitsOf(a, p, Validated(r, n)) \subseteq Nat
<1>1. PICK v : v = Validated(r, n)
  OBVIOUS
<1>2. v.location \in Nat /\ v.length \in Nat
  BY <1>1, ValidatedFacts
<1>3. HitsOf(a, p, v) \subseteq Nat /\ EqualHitsOf(a, p, v) \subseteq Nat
  BY <1>2 DEF HitsOf, EqualHitsOf
<1> QED
  BY <1>1, <1>3

LEMMA FindFacts ==
    ASSUME NEW a, Len(a.items) \in Nat, NEW r \in AnyRange, NEW p,
           NEW same, same = HitsOf(a, p, Validated(r, Len(a.items)))
    PROVE  /\ same = {} => FindInRange(a, p, r) = NotFound
           /\ same # {} => /\ FindInRange(a, p, r) \in same /\ FindInRange(a, p, r) \in Nat
                           /\ \A j \in same : FindInRange(a, p, r) <= j
<1>1. FindInRange(a, p, r) = IF same = {} THEN NotFound ELSE First(same)
  BY DEF FindInRange, Get, Count, HitsOf
<1>2. same \subseteq Nat
  BY HitsAreNat
<1> QED
  BY <1>1, <1>2, FirstFacts

(* The range of the quick check is within the one that is searched.        *)
LEMMA QuickFacts ==
    ASSUME NEW n \in Nat, NEW r \in AnyRange, NEW v, v = Validated(r, n),
           NEW q, q = [v EXCEPT !.length = IF @ < QuickWindow THEN @ ELSE QuickWindow]
    PROVE  /\ q \in AnyRange /\ Validated(q, n) = q /\ q.location = v.location
           /\ q.length = IF v.length < QuickWindow THEN v.length ELSE QuickWindow
           /\ q.length \in Nat
<1>1. v.location \in Nat /\ v.length \in Nat /\ v.location + v.length <= n /\ v \in AnyRange
  BY ValidatedFacts
<1>2. QuickWindow \in Nat
  BY OwningArrayAssumption
<1>3. /\ q \in AnyRange /\ q.location = v.location /\ q.length \in Nat
      /\ q.length = IF v.length < QuickWindow THEN v.length ELSE QuickWindow
  BY <1>1, <1>2 DEF AnyRange
<1>4. q.location \in Nat /\ q.length \in Nat /\ q.location + q.length <= n /\ q.length # All
  BY <1>1, <1>2, <1>3 DEF All
<1> QED
  BY <1>3, <1>4 DEF Validated

LEMMA FindOwnedFacts ==
    ASSUME NEW a, Len(a.items) \in Nat, NEW r \in AnyRange, NEW p,
           NEW v, v = Validated(r, Len(a.items))
    PROVE  /\ EqualHitsOf(a, p, v) = {} => FindOwnedInRange(a, p, r) = NotFound
           /\ EqualHitsOf(a, p, v) # {} => FindOwnedInRange(a, p, r) \in EqualHitsOf(a, p, v)
           /\ \A j \in HitsOf(a, p, v) : j < FindOwnedInRange(a, p, r)
                                  => FindOwnedInRange(a, p, r) \in HitsOf(a, p, v)
           /\ HitsOf(a, p, v) # {}
                 /\ Cardinality(v.location .. v.location + v.length - 1) <= QuickWindow
                 => FindOwnedInRange(a, p, r) \in HitsOf(a, p, v)
<1>0. PICK same, equal, k : /\ same = HitsOf(a, p, v) /\ equal = EqualHitsOf(a, p, v)
                            /\ k = FindOwnedInRange(a, p, r)
  OBVIOUS
<1> SUFFICES /\ equal = {} => k = NotFound
             /\ equal # {} => k \in equal
             /\ \A j \in same : j < k => k \in same
             /\ same # {} /\ Cardinality(v.location .. v.location + v.length - 1) <= QuickWindow
                   => k \in same
  BY <1>0
<1>1. PICK q : q = [v EXCEPT !.length = IF @ < QuickWindow THEN @ ELSE QuickWindow]
  OBVIOUS
<1>2. PICK near, quick : near = HitsOf(a, p, q) /\ quick = FindInRange(a, p, q)
  OBVIOUS
<1>3. k = IF quick # NotFound THEN quick ELSE IF equal = {} THEN NotFound ELSE First(equal)
  <2>1. k = LET u     == Validated(r, Count(a))
                fast  == FindInRange(a, p, [u EXCEPT !.length = IF @ < QuickWindow THEN @
                                                                ELSE QuickWindow])
            IN  IF fast # NotFound THEN fast
                ELSE IF EqualHitsOf(a, p, u) = {} THEN NotFound
                ELSE First(EqualHitsOf(a, p, u))
    BY <1>0 DEF FindOwnedInRange, EqualHitsOf, Get
  <2>2. Validated(r, Count(a)) = v
    BY DEF Count
  <2> QED
    BY <1>0, <1>1, <1>2, <2>1, <2>2
<1>4. v.location \in Nat /\ v.length \in Nat /\ QuickWindow \in Nat
  BY ValidatedFacts, OwningArrayAssumption
<1>5. /\ q \in AnyRange /\ Validated(q, Len(a.items)) = q /\ q.location = v.location
      /\ q.length = IF v.length < QuickWindow THEN v.length ELSE QuickWindow
      /\ q.length \in Nat
  BY <1>1, QuickFacts
<1>6. /\ near = {} => quick = NotFound
      /\ near # {} => quick \in near /\ quick \in Nat
  BY <1>2, <1>5, FindFacts
<1>7. near \subseteq same /\ same \subseteq equal
  BY <1>0, <1>2, <1>4, <1>5 DEF HitsOf, EqualHitsOf
<1>8. equal \subseteq Nat
  BY <1>0, HitsAreNat
<1>9. NotFound \notin Nat
  BY PointerArrayAssumption
<1>10. Cardinality(v.location .. v.location + v.length - 1) <= QuickWindow => near = same
  <2>1. PICK x, y, l : x = v.location /\ y = v.location + v.length - 1 /\ l = v.length
    OBVIOUS
  <2>2. x \in Nat /\ l \in Nat /\ y = x + l - 1 /\ y \in Int /\ x \in Int
    BY <1>4, <2>1
  <2>3. Cardinality(x .. y) = IF x > y THEN 0 ELSE y - x + 1
    BY <2>2, FS_Interval
  <2>4. Cardinality(x .. y) = l
    BY <2>2, <2>3
  <2>5. l <= QuickWindow => q.length = l /\ q.location = x
    BY <1>4, <1>5, <2>1
  <2> QED
    BY <1>0, <1>2, <2>1, <2>4, <2>5 DEF HitsOf
<1>11. CASE quick # NotFound
  BY <1>3, <1>6, <1>7, <1>11
<1>12. CASE quick = NotFound /\ equal = {}
  BY <1>3, <1>7, <1>12
<1>13. CASE quick = NotFound /\ equal # {}
  <2>1. k = First(equal)
    BY <1>3, <1>13
  <2>2. k \in equal /\ k \in Nat /\ \A j \in equal : k <= j
    BY <1>8, <1>13, <2>1, FirstFacts
  <2>3. near = {}
    BY <1>6, <1>9, <1>13
  <2>4. \A j \in same : ~ (j < k)
    BY <1>7, <1>8, <2>2
  <2> QED
    BY <1>10, <1>13, <2>2, <2>3, <2>4
<1> QED
  BY <1>11, <1>12, <1>13

LEMMA SearchesHold == ASSUME ArraysInv PROVE SearchesExact
<1> SUFFICES ASSUME NEW i \in Live, NEW r \in RangesOf(i)
             PROVE  LET a      == arrays[i]
                        within == {k \in Indices(i) :
                                      /\ r.location <= k /\ Validated(r, Count(a)) # Make(0, 0)
                                      /\ r.length = All \/ k < r.location + r.length}
                        At(k)  == a.items[k + 1]
                        Found(k, hits) == IF hits = {} THEN k = NotFound ELSE k \in hits
                    IN  IF kind = "objects"
                        THEN \A p \in Object :
                            LET equal == {k \in within : Class[At(k)] = Class[p]}
                                same  == {k \in within : At(k) = p}
                                k     == FindOwnedInRange(a, p, r)
                            IN  /\ Found(k, equal)
                                /\ same # {} /\ Cardinality(within) <= QuickWindow => k \in same
                                /\ \A k2 \in same : k2 < k => k \in same
                                /\ r = Make(0, All) => (Member(a, p) <=> equal # {})
                        ELSE \A p \in Values :
                            LET same == {k \in within : At(k) = p}
                                k    == FindInRange(a, p, r)
                            IN  /\ Found(k, same) /\ \A j \in same : k <= j
                                /\ r = Make(0, All) /\ p # NULL
                                      => (MemberPointer(a, p) <=> same # {})
  BY DEF SearchesExact
<1> DEFINE a == arrays[i]
           v == Validated(r, Count(a))
           within == {k \in Indices(i) : /\ r.location <= k /\ v # Make(0, 0)
                                         /\ r.length = All \/ k < r.location + r.length}
<1>1. Len(a.items) \in Nat /\ Count(a) = Len(a.items) /\ DOMAIN a.items = 1 .. Len(a.items)
  BY LiveFacts DEF Count
<1>2. r \in AnyRange /\ r.location \in Nat /\ r.location <= Len(a.items)
        /\ (r.length = All \/ r.length = 1)
  BY <1>1 DEF RangesOf, AnyRange
<1>3. within = v.location .. v.location + v.length - 1
  BY <1>1, <1>2, WithinFacts DEF Indices
<1>4. r = Make(0, All) => within = 0 .. Len(a.items) - 1
  BY <1>1 DEF Indices, Make, Validated, All
<1> HIDE DEF a, within, v
<1>5. ASSUME NEW p \in Object
      PROVE  LET equal == {k \in within : Class[a.items[k + 1]] = Class[p]}
                 same  == {k \in within : a.items[k + 1] = p}
                 k     == FindOwnedInRange(a, p, r)
             IN  /\ IF equal = {} THEN k = NotFound ELSE k \in equal
                 /\ same # {} /\ Cardinality(within) <= QuickWindow => k \in same
                 /\ \A k2 \in same : k2 < k => k \in same
                 /\ r = Make(0, All) => (Member(a, p) <=> equal # {})
  <2>1. v = Validated(r, Len(a.items))
    BY <1>1 DEF v
  <2>0. PICK same, equal, k : /\ same = HitsOf(a, p, v) /\ equal = EqualHitsOf(a, p, v)
                              /\ k = FindOwnedInRange(a, p, r)
    OBVIOUS
  <2>2. /\ same = {j \in within : a.items[j + 1] = p}
        /\ equal = {j \in within : Class[a.items[j + 1]] = Class[p]}
        /\ k = FindOwnedInRange(a, p, r)
    <3>1. v.location \in Nat /\ v.length \in Nat
      BY <1>1, <1>2, <2>1, ValidatedFacts
    <3>2. (v.location + v.length) - 1 = v.location + v.length - 1
      BY <3>1
    <3> QED
      BY <1>3, <2>0, <3>2 DEF HitsOf, EqualHitsOf
  <2>3. /\ equal = {} => k = NotFound
        /\ equal # {} => k \in equal
        /\ \A j \in same : j < k => k \in same
        /\ same # {} /\ Cardinality(v.location .. v.location + v.length - 1) <= QuickWindow
              => k \in same
    BY <1>1, <1>2, <2>0, <2>1, FindOwnedFacts
  <2>4. r = Make(0, All) => (Member(a, p) <=> equal # {})
    <3>1. ASSUME r = Make(0, All), Member(a, p) PROVE equal # {}
      <4>1. PICK j \in 1 .. Len(a.items) : Class[a.items[j]] = Class[p]
        BY <1>1, <3>1 DEF Member
      <4>2. j - 1 \in within /\ (j - 1) + 1 = j
        BY <1>1, <1>4, <3>1
      <4> QED
        BY <2>2, <4>1, <4>2
    <3>2. ASSUME r = Make(0, All), equal # {} PROVE Member(a, p)
      <4>1. PICK j \in within : Class[a.items[j + 1]] = Class[p]
        BY <2>2, <3>2
      <4>2. j + 1 \in DOMAIN a.items
        BY <1>1, <1>4, <3>2
      <4> QED
        BY <4>1, <4>2 DEF Member
    <3> QED
      BY <3>1, <3>2
  <2> QED
    BY <1>3, <2>2, <2>3, <2>4
<1>6. ASSUME NEW p \in Values
      PROVE  LET same == {k \in within : a.items[k + 1] = p}
                 k    == FindInRange(a, p, r)
             IN  /\ IF same = {} THEN k = NotFound ELSE k \in same
                 /\ \A j \in same : k <= j
                 /\ r = Make(0, All) /\ p # NULL => (MemberPointer(a, p) <=> same # {})
  <2>1. v = Validated(r, Len(a.items))
    BY <1>1 DEF v
  <2>0. PICK same, k : same = HitsOf(a, p, v) /\ k = FindInRange(a, p, r)
    OBVIOUS
  <2>2. /\ same = {j \in within : a.items[j + 1] = p}
        /\ k = FindInRange(a, p, r)
    BY <1>3, <2>0 DEF HitsOf
  <2>3. /\ same = {} => k = NotFound
        /\ same # {} => k \in same /\ k \in Nat /\ \A j \in same : k <= j
    BY <1>1, <1>2, <2>0, <2>1, FindFacts
  <2>4. r = Make(0, All) /\ p # NULL => (MemberPointer(a, p) <=> same # {})
    <3>1. ASSUME r = Make(0, All), p # NULL, MemberPointer(a, p) PROVE same # {}
      <4>1. PICK j \in 1 .. Len(a.items) : a.items[j] = p
        BY <1>1, <3>1 DEF MemberPointer
      <4>2. j - 1 \in within /\ (j - 1) + 1 = j
        BY <1>1, <1>4, <3>1
      <4> QED
        BY <2>2, <4>1, <4>2
    <3>2. ASSUME r = Make(0, All), same # {} PROVE MemberPointer(a, p)
      <4>1. PICK j \in within : a.items[j + 1] = p
        BY <2>2, <3>2
      <4>2. j + 1 \in DOMAIN a.items
        BY <1>1, <1>4, <3>2
      <4> QED
        BY <4>1, <4>2 DEF MemberPointer
    <3> QED
      BY <3>1, <3>2
  <2> QED
    BY <2>2, <2>3, <2>4
<1> QED
  BY <1>5, <1>6 DEF a, within, v

-----------------------------------------------------------------------------
(* Whatever a program does with its arrays, each of them is what its type  *)
(* allows, the blocks in use are their storages, an enumerator that is     *)
(* valid stands within the array it was opened on, and the objects are     *)
(* retained once per place.                                                *)
THEOREM ArraysAreSound == Spec => []AllInv
<1>1. Init => AllInv
  BY AllInit
<1>2. AllInv /\ [Next]_vars => AllInv'
  BY AllStep
<1> QED
  BY <1>1, <1>2, PTL DEF Spec

(* The items of an array are of its kind and fit into its capacity; no     *)
(* operation leaves a storage unallocated or something still to be freed.  *)
THEOREM ArraysTyped == Spec => []TypeOK
<1>1. AllInv => TypeOK
  <2> SUFFICES ASSUME AllInv PROVE TypeOK
    OBVIOUS
  <2>1. ArraysInv
    BY DEF AllInv
  <2>2. ASSUME NEW i \in Live
        PROVE  /\ arrays[i].items \in Seq(Item)
               /\ arrays[i].size \in Nat /\ Count(arrays[i]) <= arrays[i].size
               /\ arrays[i].storage \in Storage
               /\ arrays[i].initial \in Id \cup {NULL}
               /\ arrays[i].mutations = 0 /\ arrays[i].freed = {}
    <3>1. ArrayOK(i, arrays[i], stolen) /\ i \in Id
      BY <2>1 DEF ArraysInv, Live
    <3> QED
      BY <3>1 DEF ArrayOK, Clean, Raw, Fits2, Count
  <2> QED
    BY <2>1, <2>2 DEF ArraysInv, TypeOK, AnyAllocator
<1> QED
  BY <1>1, ArraysAreSound, PTL

(* Nothing leaks and nothing is freed twice: each block in use is the      *)
(* storage of exactly one array and was allocated with its allocator, and  *)
(* only a storage that absorb_array has passed on is ever freed wrongly.   *)
THEOREM ArraysHeapExact == Spec => []HeapExact
<1>1. AllInv => HeapExact
  <2> SUFFICES ASSUME AllInv PROVE HeapExact
    OBVIOUS
  <2>1. /\ ArraysInv /\ misfreed \subseteq stolen /\ LiveIn(arrays) = Live
        /\ HeapOK(arrays, heap, allocator)
    BY DEF AllInv, ArraysInv, LiveIn, Live
  <2>2. /\ DOMAIN heap = {arrays[i].storage : i \in Live} \cap Block
        /\ \A i, j \in Live : arrays[i].storage = arrays[j].storage /\ i # j
                                 => arrays[i].storage = NULL
        /\ \A i \in Live : arrays[i].storage \in Block
                              => heap[arrays[i].storage] = Real(allocator[i])
    BY <2>1 DEF HeapOK
  <2>3. ASSUME NEW i \in Live
        PROVE  /\ arrays[i].storage = NULL => arrays[i].size = 0
               /\ arrays[i].storage \in DOMAIN heap
                     => heap[arrays[i].storage] = Real(allocator[i])
               /\ arrays[i].storage \in Id
                     => \/ arrays[i].storage = i /\ arrays[i].initial = i
                        \/ arrays[i].storage \in stolen
    <3>1. ArrayOK(i, arrays[i], stolen)
      BY <2>1 DEF ArraysInv
    <3> QED
      BY <2>2, <3>1 DEF ArrayOK, Clean
  <2> QED
    BY <2>1, <2>2, <2>3 DEF HeapExact
<1> QED
  BY <1>1, ArraysAreSound, PTL

(* An enumerator that no operation has invalidated reads the storage its   *)
(* array has, within its items, unless absorb_array has robbed the array.  *)
THEOREM EnumeratorsSound == Spec => []EnumeratorSound
<1>1. AllInv => EnumeratorSound
  <2> SUFFICES ASSUME AllInv, rover # None, ~ rover.robbed
               PROVE  /\ rover.array \in Live
                      /\ rover.storage = arrays[rover.array].storage
                      /\ Count(arrays[rover.array]) >= rover.at
    BY DEF EnumeratorSound
  <2>1. RoverOK(rover, arrays) /\ LiveIn(arrays) = Live /\ ArraysInv
    BY DEF AllInv, ArraysInv, LiveIn, Live
  <2>2. /\ rover.array \in Live /\ rover.storage = arrays[rover.array].storage
        /\ rover.at <= Len(arrays[rover.array].items) /\ rover.at \in Nat
    BY <2>1 DEF RoverOK, RoverRecord
  <2>3. Len(arrays[rover.array].items) \in Nat
    BY <2>1, <2>2, LiveFacts
  <2> QED
    BY <2>2, <2>3 DEF Count
<1> QED
  BY <1>1, ArraysAreSound, PTL

(* Every object is retained exactly as often as the owning arrays hold it, *)
(* after any mix of adds, sets, copies, removals of equals and resets.     *)
THEOREM ArraysOwnershipExact == Spec => []OwnershipExact
<1>1. AllInv => OwnershipExact
  <2> SUFFICES ASSUME AllInv PROVE OwnershipExact
    OBVIOUS
  <2>1. RefsOK
    BY DEF AllInv
  <2>2. ASSUME NEW p \in Object
        PROVE  HitPlacesIn(ItemsIn(arrays), {p}) = {w \in Places : ItemAt(w) = p}
    <3>1. DOMAIN ItemsIn(arrays) = Live /\ \A i \in Live : ItemsIn(arrays)[i] = arrays[i].items
      BY DEF ItemsIn, LiveIn, Live
    <3>2. PlacesIn(ItemsIn(arrays)) = Places
      BY <3>1 DEF PlacesIn, Places
    <3>3. \A w \in Places : w[1] \in Live
      BY DEF Places
    <3>4. \A w \in Places : ItemsIn(arrays)[w[1]][w[2]] = ItemAt(w)
      BY <3>1, <3>3 DEF ItemAt
    <3> QED
      BY <3>2, <3>4 DEF HitPlacesIn
  <2> QED
    BY <2>1, <2>2 DEF RefsOK, OwnershipExact
<1> QED
  BY <1>1, ArraysAreSound, PTL

(* The searches find what they promise in every range: the first of the    *)
(* identical pointers, and an equal object if there is one; the quick      *)
(* check for identity neither hides an equal nor finds one outside.        *)
THEOREM ArraysSearchesExact == Spec => []SearchesExact
<1>1. AllInv => SearchesExact
  BY SearchesHold DEF AllInv
<1> QED
  BY <1>1, ArraysAreSound, PTL

-----------------------------------------------------------------------------
(* The items that owning operations leave *)

LEMMA OwnedItems ==
    ASSUME NEW a, NEW s, NEW R, NEW h, HStage(a, s, R, h), kind = "objects"
    PROVE  /\ \A p : AddOwned(h, p).array = Add(h.array, p)
           /\ \A i, p : SetOwned(h, i, p).array = Set(h.array, i, p)
           /\ RemoveLastOwned(h).array = Pop(h.array)
           /\ ResetOwned(h).array = Reset(h.array)
BY OwnedArrays DEF AddOwned, SetOwned, RemoveLastOwned, ResetOwned

LEMMA OwnedRangeItems ==
    ASSUME NEW a, NEW s, NEW R, NEW h, HStage(a, s, R, h), kind = "objects", NEW r \in AnyRange,
           NEW x, x = h.array.items, NEW y, y = RemoveOwnedInRange(h, r).array.items
    PROVE  /\ Abstract!Fits(r, Len(x)) => Abstract!Cut(x, InRange(x, r), y)
           /\ ~ Abstract!Fits(r, Len(x)) => y = x
<1>1. Stage(a, h.array) /\ x \in Seq(Object)
  BY HStageOpen
<1>2. PICK v : v = Validated(r, Len(x))
  OBVIOUS
<1>3. /\ v \in AnyRange
      /\ Abstract!Fits(r, Len(x)) => InRange(x, v) = InRange(x, r)
      /\ ~ Abstract!Fits(r, Len(x)) => v.location = 0 /\ v.length = 0
  BY <1>1, <1>2, InValidated
<1>4. y = RemoveInRange(h.array, v).items
  BY <1>2, OwnedArrays DEF RemoveOwnedInRange, Count
<1>5. Abstract!Cut(x, InRange(x, v), y)
  BY <1>1, <1>3, <1>4, StageCutRange
<1>6. ASSUME ~ Abstract!Fits(r, Len(x)) PROVE y = x
  <2>1. v.location = 0 /\ v.length = 0
    BY <1>3, <1>6
  <2>2. PICK n \in Nat : n = Len(x)
    BY <1>1, SeqFacts
  <2>3. Intersection(v, n).length = 0
    BY <2>1 DEF Intersection, Make, All
  <2>4. RemoveInRange(h.array, v) = h.array
    BY <2>2, <2>3 DEF RemoveInRange, Count
  <2> QED
    BY <1>4, <2>4
<1> QED
  BY <1>3, <1>5, <1>6

LEMMA OwnedUniqueItems ==
    ASSUME NEW a, NEW s, NEW R, NEW h, HStage(a, s, R, h), kind = "objects", NEW p,
           NEW x, x = h.array.items
    PROVE  Abstract!Cut(x, LastLost(x, Equals(p)), RemoveUniqueOwned(h, p).array.items)
<1>1. x \in Seq(Object)
  BY HStageOpen
<1>2. PICK n \in Nat : n = Len(x) /\ \A k \in 1 .. n : x[k] \in Object
  <2>1. PICK n \in Nat : n = Len(x) /\ x \in [1 .. n -> Object]
    BY <1>1, SeqFacts
  <2> QED
    BY <2>1
<1> DEFINE hits == {i \in 0 .. n - 1 : Class[Get(h.array, i)] = Class[p]}
           i == CHOOSE k \in hits : \A j \in hits : k >= j
<1>3. RemoveUniqueOwned(h, p) = IF hits = {} THEN h ELSE RemoveOwnedInRange(h, Make(i, 1))
  BY <1>2 DEF RemoveUniqueOwned, Count
<1>4. PICK B : B = Equals(p)
  OBVIOUS
<1>5. \A j \in 0 .. n - 1 : j \in hits <=> x[j + 1] \in B
  <2> SUFFICES ASSUME NEW j \in 0 .. n - 1 PROVE j \in hits <=> x[j + 1] \in B
    OBVIOUS
  <2>1. j + 1 \in 1 .. n
    OBVIOUS
  <2>2. x[j + 1] \in Object
    BY <1>2, <2>1
  <2> QED
    BY <1>4, <2>2 DEF Get, Equals
<1>6. CASE hits = {}
  <2>1. \A j \in 0 .. n - 1 : x[j + 1] \notin B
    BY <1>5, <1>6
  <2>2. Abstract!Cut(x, LastLost(x, B), x)
    BY <1>1, <1>2, <2>1, CutNoLast
  <2> QED
    BY <1>3, <1>4, <1>6, <2>2
<1>7. CASE hits # {}
  <2>1. i \in hits /\ i \in Nat /\ \A j \in hits : i >= j
    <3>1. hits \subseteq 0 .. n - 1
      OBVIOUS
    <3> HIDE DEF hits
    <3> QED
      BY <1>7, <3>1, LastHit
  <2>2. i \in 0 .. n - 1
    BY <2>1
  <2> HIDE DEF i, hits
  <2>3. i + 1 <= n
    BY <2>2
  <2>4. x[i + 1] \in B
    BY <1>5, <2>1, <2>2
  <2>5. \A j \in 0 .. n - 1 : x[j + 1] \in B => i >= j
    BY <1>5, <2>1
  <2>6. Abstract!Cut(x, LastLost(x, B), Without(x, Make(i, 1)))
    BY <1>1, <1>2, <2>1, <2>3, <2>4, <2>5, CutLast
  <2>7. i + 1 <= Len(h.array.items)
    BY <1>2, <2>3
  <2>8. RemoveOwnedInRange(h, Make(i, 1)).array.items = Without(x, Make(i, 1))
    BY <2>1, <2>7, OneRemoved
  <2> QED
    BY <1>3, <1>4, <1>7, <2>6, <2>8
<1> QED
  BY <1>6, <1>7

-----------------------------------------------------------------------------
(* What a step does to the sequences and to the enumeration *)

(* One array becomes s.                                                    *)
Becoming(id, s) ==
    /\ Lists' = [Lists EXCEPT ![id] = s] /\ Lists'[id] = s
    /\ Rest' \in {Rest, None}

LEMMA ListAt ==
    ASSUME NEW id \in Live
    PROVE  id \in Id /\ Lists[id] = arrays[id].items
BY DEF Live, Lists

(* Nobody hears from an enumerator over what has changed.                  *)
LEMMA RestKept ==
    ASSUME NEW id, NEW b, b.mutations > 0 \/ arrays'[id].items = arrays[id].items,
           rover' = Enumerating([i \in {id} |-> b]), RoverOK(rover, arrays),
           \A i \in Id : i # id => arrays'[i] = arrays[i]
    PROVE  Rest' \in {Rest, None}
<1> DEFINE new == [i \in {id} |-> b]
<1>1. DOMAIN new = {id} /\ new[id] = b
  OBVIOUS
<1> HIDE DEF new
<1>2. rover' = (IF rover # None /\ rover.array = id /\ b.mutations > 0 THEN None ELSE rover)
  BY <1>1 DEF Enumerating, new
<1>3. CASE rover' = None
  BY <1>3 DEF Rest
<1>4. CASE rover' # None
  <2>1. rover' = rover /\ rover # None /\ (rover.array = id => ~ (b.mutations > 0))
    BY <1>2, <1>4
  <2>2. rover.array \in Id
    BY <2>1 DEF RoverOK, LiveIn
  <2>3. arrays'[rover.array].items = arrays[rover.array].items
    BY <2>1, <2>2
  <2> QED
    BY <2>1, <2>3 DEF Rest
<1> QED
  BY <1>3, <1>4

(* The lists change as the arrays do.                                      *)
LEMMA ListsChange ==
    ASSUME NEW id \in Id, \A i \in Id : i # id => arrays'[i] = arrays[i],
           NEW s, s = IF arrays'[id] = None THEN None ELSE arrays'[id].items
    PROVE  Lists' = [Lists EXCEPT ![id] = s] /\ Lists'[id] = s
<1>1. Lists' = [i \in Id |-> IF arrays'[i] = None THEN None ELSE arrays'[i].items]
  BY DEF Lists
<1>2. [Lists EXCEPT ![id] = s] = [i \in Id |-> IF i = id THEN s ELSE Lists[i]]
  BY DEF Lists
<1>3. \A i \in Id : (IF arrays'[i] = None THEN None ELSE arrays'[i].items)
                        = IF i = id THEN s ELSE Lists[i]
  BY DEF Lists
<1> QED
  BY <1>1, <1>2, <1>3

LEMMA UpdateBecomes ==
    ASSUME ArraysInv, NEW id \in Live, NEW b, Stage(arrays[id], b), Update(id, b),
           refs' \in [Object -> Int]
    PROVE  Becoming(id, b.items)
<1>1. /\ arrays'[id] # None /\ arrays'[id].items = b.items
      /\ \A i \in Id : i # id => arrays'[i] = arrays[i]
  BY UpdateInv
<1>2. rover' = Enumerating([i \in {id} |-> b])
  BY DEF Update, Commit
<1>3. b.mutations > 0 \/ arrays'[id].items = arrays[id].items
  BY <1>1 DEF Stage
<1>4. id \in Id
  BY DEF Live
<1>5. Lists' = [Lists EXCEPT ![id] = b.items] /\ Lists'[id] = b.items
  BY <1>1, <1>4, ListsChange
<1>6. RoverOK(rover, arrays)
  BY DEF ArraysInv
<1>7. Rest' \in {Rest, None}
  BY <1>1, <1>2, <1>3, <1>6, RestKept
<1> QED
  BY <1>5, <1>7 DEF Becoming

-----------------------------------------------------------------------------
(* What the calls of an abstract step are *)

LEMMA Becomes ==
    ASSUME NEW id, NEW s, Becoming(id, s), ret' = None, call'[2] = id
    PROVE  Abstract!Becomes(s) /\ Abstract!Self = id
BY DEF Becoming, Abstract!Becomes, Abstract!Self, Abstract!Enumeration

LEMMA Loses ==
    ASSUME NEW id \in Live, NEW s, Becoming(id, s), ret' = None, call'[2] = id,
           NEW gone, Abstract!Cut(arrays[id].items, gone, s)
    PROVE  Abstract!Loses(gone)
<1>1. Abstract!Becomes(s) /\ Abstract!Self = id /\ Lists'[id] = s
  BY Becomes DEF Becoming
<1>2. Abstract!List = arrays[id].items
  BY <1>1, ListAt DEF Abstract!List
<1> QED
  BY <1>1, <1>2 DEF Abstract!Loses

LEMMA CreateStep ==
    ASSUME NEW id \in Id, arrays[id] = None, Becoming(id, <<>>), ret' = None, call' = <<"init", id>>
    PROVE  Abstract!Next
<1>1. call'[1] = "init" /\ call'[2] = id
  OBVIOUS
<1>2. Abstract!Becomes(<<>>) /\ Abstract!Self = id
  BY <1>1, Becomes
<1>3. Abstract!List = None
  BY <1>2 DEF Abstract!List, Lists
<1>4. Abstract!Create
  BY <1>1, <1>2, <1>3 DEF Abstract!Create, Abstract!Calls
<1> QED
  BY <1>4 DEF Abstract!Next

LEMMA CopyStep ==
    ASSUME NEW id \in Id, arrays[id] = None, NEW other \in Live,
           Becoming(id, arrays[other].items), ret' = None, call' = <<"copy", id, other>>
    PROVE  Abstract!Next
<1>1. call'[1] = "copy" /\ call'[2] = id /\ call'[3] = other
  OBVIOUS
<1>2. Abstract!Becomes(arrays[other].items) /\ Abstract!Self = id
  BY <1>1, Becomes
<1>3. Abstract!List = None /\ Lists[Abstract!Arg] = arrays[other].items
  BY <1>1, <1>2, ListAt DEF Abstract!List, Abstract!Arg, Lists
<1>4. Abstract!Copy
  BY <1>1, <1>2, <1>3 DEF Abstract!Copy, Abstract!Calls
<1> QED
  BY <1>4 DEF Abstract!Next

LEMMA DoneStep ==
    ASSUME NEW id \in Live, arrays[id].items # None, Becoming(id, None), ret' = None,
           call' = <<"done", id>>
    PROVE  Abstract!Next
<1>1. call'[1] = "done" /\ call'[2] = id
  OBVIOUS
<1>2. Abstract!Becomes(None) /\ Abstract!Self = id
  BY <1>1, Becomes
<1>3. Abstract!List # None
  BY <1>2, ListAt DEF Abstract!List
<1>4. Abstract!Done
  BY <1>1, <1>2, <1>3 DEF Abstract!Done, Abstract!Calls
<1> QED
  BY <1>4 DEF Abstract!Next

LEMMA TidyStep ==
    ASSUME NEW id \in Live, Becoming(id, arrays[id].items), ret' = None,
           NEW name \in {"guarantee", "grow", "size_to_fit"}, call' = <<name, id>>
    PROVE  Abstract!Next
<1>1. call'[1] = name
  OBVIOUS
<1>2. Lists' = [Lists EXCEPT ![id] = Lists[id]] /\ Rest' \in {Rest, None}
  BY ListAt DEF Becoming
<1>3. Lists' = Lists
  BY <1>2 DEF Lists
<1>4. Abstract!Tidy
  BY <1>1, <1>2, <1>3 DEF Abstract!Tidy, Abstract!Calls, Abstract!Enumeration
<1> QED
  BY <1>4 DEF Abstract!Next

(* Calls that make a new sequence of the one there is.                     *)
LEMMA AddStep ==
    ASSUME NEW id \in Live, NEW p, Becoming(id, Append(arrays[id].items, p)), ret' = None,
           call' = <<"add", id, p>>
    PROVE  Abstract!Next
<1>1. call'[1] = "add" /\ call'[2] = id /\ call'[3] = p
  OBVIOUS
<1>2. Abstract!Becomes(Append(arrays[id].items, p)) /\ Abstract!Self = id
  BY <1>1, Becomes
<1>3. Abstract!List = arrays[id].items /\ Abstract!Arg = p
  BY <1>1, <1>2, ListAt DEF Abstract!List, Abstract!Arg
<1>4. Abstract!Add
  BY <1>1, <1>2, <1>3 DEF Abstract!Add, Abstract!Calls
<1> QED
  BY <1>4 DEF Abstract!Next

LEMMA ExtendStep ==
    ASSUME NEW id \in Live, NEW ps, Becoming(id, arrays[id].items \o ps), ret' = None,
           call' = <<"advance", id, ps>>
    PROVE  Abstract!Next
<1>1. call'[1] = "advance" /\ call'[2] = id /\ call'[3] = ps
  OBVIOUS
<1>2. Abstract!Becomes(arrays[id].items \o ps) /\ Abstract!Self = id
  BY <1>1, Becomes
<1>3. Abstract!List = arrays[id].items /\ Abstract!Arg = ps
  BY <1>1, <1>2, ListAt DEF Abstract!List, Abstract!Arg
<1>4. Abstract!Extend
  BY <1>1, <1>2, <1>3 DEF Abstract!Extend, Abstract!Calls
<1> QED
  BY <1>4 DEF Abstract!Next

LEMMA ConcatStep ==
    ASSUME NEW id \in Live, NEW other \in Live, NEW r \in AnyRange,
           NEW a, NEW o, a = arrays[id], o = arrays[other], o.items \in Seq(Item),
           NEW s, Becoming(id, s), Joined(s, a.items, o, r),
           ret' = None, call' = <<"add_array", id, other, r>>
    PROVE  Abstract!Next
<1>1. call'[1] = "add_array" /\ call'[2] = id /\ call'[3] = other /\ call'[4] = r
  OBVIOUS
<1>2. PICK v : v = Validated(r, Len(o.items))
  OBVIOUS
<1>3. Abstract!Part(o.items, r) = Slice(o.items, v)
  BY <1>2, InValidated
<1>4. s = arrays[id].items \o Abstract!Part(arrays[other].items, r)
  BY <1>2, <1>3 DEF Joined
<1>5. Abstract!Becomes(s) /\ Abstract!Self = id
  BY <1>1, Becomes
<1>6. Abstract!List = arrays[id].items /\ Lists[Abstract!Arg] = arrays[other].items
      /\ Abstract!Other = r
  BY <1>1, <1>5, ListAt DEF Abstract!List, Abstract!Arg, Abstract!Other
<1>7. Abstract!Concat
  BY <1>1, <1>4, <1>5, <1>6 DEF Abstract!Concat, Abstract!Calls
<1> QED
  BY <1>7 DEF Abstract!Next

LEMMA InsertStep ==
    ASSUME NEW id \in Live, NEW i, NEW ps, Becoming(id, With(arrays[id].items, i, ps)),
           ret' = None, call' = <<"insert", id, i, ps>>
    PROVE  Abstract!Next
<1>1. call'[1] = "insert" /\ call'[2] = id /\ call'[3] = i /\ call'[4] = ps
  OBVIOUS
<1>2. Abstract!Becomes(With(arrays[id].items, i, ps)) /\ Abstract!Self = id
  BY <1>1, Becomes
<1>3. Abstract!List = arrays[id].items /\ Abstract!Arg = i /\ Abstract!Other = ps
  BY <1>1, <1>2, ListAt DEF Abstract!List, Abstract!Arg, Abstract!Other
<1>4. Abstract!Insert
  BY <1>1, <1>2, <1>3 DEF Abstract!Insert, Abstract!Calls, With
<1> QED
  BY <1>4 DEF Abstract!Next

LEMMA ClearStep ==
    ASSUME NEW id, Becoming(id, <<>>), ret' = None, call' = <<"reset", id>>
    PROVE  Abstract!Next
<1>1. call'[1] = "reset" /\ call'[2] = id
  OBVIOUS
<1>2. Abstract!Becomes(<<>>)
  BY <1>1, Becomes
<1>3. Abstract!Clear
  BY <1>1, <1>2 DEF Abstract!Clear, Abstract!Calls
<1> QED
  BY <1>3 DEF Abstract!Next

LEMMA DropLastStep ==
    ASSUME NEW id \in Live, NEW s, s = arrays[id].items,
           Becoming(id, IF s = <<>> THEN <<>> ELSE SubSeq(s, 1, Len(s) - 1)), ret' = None,
           call' = <<"remove_last", id>>
    PROVE  Abstract!Next
<1>1. call'[1] = "remove_last" /\ call'[2] = id
  OBVIOUS
<1>2. PICK t : t = IF s = <<>> THEN <<>> ELSE SubSeq(s, 1, Len(s) - 1)
  OBVIOUS
<1>3. Abstract!Becomes(t) /\ Abstract!Self = id
  BY <1>1, <1>2, Becomes
<1>4. Abstract!List = s
  BY <1>3, ListAt DEF Abstract!List
<1>5. Abstract!DropLast
  BY <1>1, <1>2, <1>3, <1>4 DEF Abstract!DropLast, Abstract!Calls, Abstract!Seqs!Front
<1> QED
  BY <1>5 DEF Abstract!Next

(* Calls that take something out.                                          *)
LEMMA RemoveRangeStep ==
    ASSUME NEW id \in Live, NEW r, NEW s, NEW x, x = arrays[id].items,
           Abstract!Cut(x, InRange(x, r), s), Becoming(id, s), ret' = None,
           NEW name, \/ name = "remove_in_range"
                     \/ name = "remove_objects_in_range" /\ Abstract!Fits(r, Len(x)),
           call' = <<name, id, r>>
    PROVE  Abstract!Next
<1>1. call'[1] = name /\ call'[2] = id /\ call'[3] = r
  OBVIOUS
<1>2. Abstract!Loses(InRange(x, r)) /\ Abstract!Self = id
  BY <1>1, Loses, Becomes
<1>3. Abstract!List = x /\ Abstract!Arg = r
  BY <1>1, <1>2, ListAt DEF Abstract!List, Abstract!Arg
<1>4. Abstract!RemoveRange
  BY <1>1, <1>2, <1>3 DEF Abstract!RemoveRange, Abstract!Calls, InRange
<1> QED
  BY <1>4 DEF Abstract!Next

LEMMA RemoveNothingStep ==
    ASSUME NEW id \in Live, NEW r, NEW x, x = arrays[id].items, ~ Abstract!Fits(r, Len(x)),
           Becoming(id, x), ret' = None, call' = <<"remove_objects_in_range", id, r>>
    PROVE  Abstract!Next
<1>1. call'[1] = "remove_objects_in_range" /\ call'[2] = id /\ call'[3] = r
  OBVIOUS
<1>2. Abstract!Becomes(x) /\ Abstract!Self = id
  BY <1>1, Becomes
<1>3. Abstract!List = x /\ Abstract!Arg = r
  BY <1>1, <1>2, ListAt DEF Abstract!List, Abstract!Arg
<1>4. Abstract!RemoveRange
  BY <1>1, <1>2, <1>3 DEF Abstract!RemoveRange, Abstract!Calls
<1> QED
  BY <1>4 DEF Abstract!Next

LEMMA RemoveAllStep ==
    ASSUME NEW id \in Live, NEW p, NEW s, NEW x, x = arrays[id].items,
           Abstract!Cut(x, Lost(x, {p}), s), Becoming(id, s), ret' = None,
           NEW name \in {"remove", "compact"}, call' = <<name, id, p>>
    PROVE  Abstract!Next
<1>1. call'[1] = name /\ call'[2] = id /\ call'[3] = p
  OBVIOUS
<1>2. Abstract!Loses(Lost(x, {p})) /\ Abstract!Self = id
  BY <1>1, Loses, Becomes
<1>3. Abstract!List = x /\ Abstract!Arg = p
  BY <1>1, <1>2, ListAt DEF Abstract!List, Abstract!Arg
<1>4. Lost(x, {p}) = {i \in DOMAIN x : x[i] = p}
  BY DEF Lost
<1>5. Abstract!RemoveAll
  BY <1>1, <1>2, <1>3, <1>4 DEF Abstract!RemoveAll, Abstract!Calls
<1> QED
  BY <1>5 DEF Abstract!Next

LEMMA RemoveOneStep ==
    ASSUME NEW id \in Live, NEW p, NEW s, NEW x, x = arrays[id].items,
           Abstract!Cut(x, LastLost(x, {p}), s), Becoming(id, s),
           ret' = IF \E i \in DOMAIN x : x[i] = p THEN p ELSE NULL,
           call' = <<"remove_unique", id, p>>
    PROVE  Abstract!Next
<1>1. call'[1] = "remove_unique" /\ call'[2] = id /\ call'[3] = p
  OBVIOUS
<1>2. Abstract!Self = id /\ Abstract!Arg = p
  BY <1>1 DEF Abstract!Self, Abstract!Arg
<1>3. Abstract!List = x
  BY <1>2, ListAt DEF Abstract!List
<1>4. LastLost(x, {p}) = {i \in DOMAIN x : x[i] = p /\ \A j \in i + 1 .. Len(x) : x[j] # p}
  BY DEF LastLost
<1>5. Lists' = [Lists EXCEPT ![id] = Lists'[id]] /\ Lists'[id] = s /\ Abstract!Enumeration
  BY DEF Becoming, Abstract!Enumeration
<1>6. Abstract!Cut(x, {i \in DOMAIN x : x[i] = p /\ \A j \in i + 1 .. Len(x) : x[j] # p},
                   Lists'[id])
  BY <1>4, <1>5
<1>7. Abstract!Cut(Abstract!List,
                   {i \in DOMAIN Abstract!List : Abstract!List[i] = Abstract!Arg
                       /\ \A j \in i + 1 .. Len(Abstract!List) : Abstract!List[j] # Abstract!Arg},
                   Lists'[Abstract!Self])
  BY <1>2, <1>3, <1>6
<1>8. ret' = IF \E i \in DOMAIN Abstract!List : Abstract!List[i] = Abstract!Arg
             THEN Abstract!Arg ELSE NULL
  BY <1>2, <1>3
<1>9. Abstract!RemoveOne
  BY <1>1, <1>2, <1>5, <1>7, <1>8 DEF Abstract!RemoveOne, Abstract!Calls
<1> QED
  BY <1>9 DEF Abstract!Next

LEMMA RemoveEqualsStep ==
    ASSUME NEW id \in Live, NEW p, NEW s, NEW x, x = arrays[id].items, x \in Seq(Object),
           Abstract!Cut(x, Lost(x, Equals(p)), s), Becoming(id, s), ret' = None,
           call' = <<"remove_object", id, p>>
    PROVE  Abstract!Next
<1>1. call'[1] = "remove_object" /\ call'[2] = id /\ call'[3] = p
  OBVIOUS
<1>2. Abstract!Loses(Lost(x, Equals(p))) /\ Abstract!Self = id
  BY <1>1, Loses, Becomes
<1>3. Abstract!List = x /\ Abstract!Arg = p
  BY <1>1, <1>2, ListAt DEF Abstract!List, Abstract!Arg
<1>4. \A i \in DOMAIN x : x[i] \in Object
  OBVIOUS
<1>5. Lost(x, Equals(p)) = {i \in DOMAIN x : Class[x[i]] = Class[p]}
  BY <1>4 DEF Lost, Equals
<1>6. Abstract!RemoveEquals
  BY <1>1, <1>2, <1>3, <1>5 DEF Abstract!RemoveEquals, Abstract!Calls
<1> QED
  BY <1>6 DEF Abstract!Next

LEMMA RemoveOneEqualStep ==
    ASSUME NEW id \in Live, NEW p, NEW s, NEW x, x = arrays[id].items, x \in Seq(Object),
           Abstract!Cut(x, LastLost(x, Equals(p)), s), Becoming(id, s), ret' = None,
           call' = <<"remove_unique_object", id, p>>
    PROVE  Abstract!Next
<1>1. call'[1] = "remove_unique_object" /\ call'[2] = id /\ call'[3] = p
  OBVIOUS
<1>2. Abstract!Loses(LastLost(x, Equals(p))) /\ Abstract!Self = id
  BY <1>1, Loses, Becomes
<1>3. Abstract!List = x /\ Abstract!Arg = p
  BY <1>1, <1>2, ListAt DEF Abstract!List, Abstract!Arg
<1>4. PICK n \in Nat : n = Len(x) /\ DOMAIN x = 1 .. n /\ x \in [1 .. n -> Object]
  BY SeqFacts
<1>5. \A i \in DOMAIN x : x[i] \in Equals(p) <=> Class[x[i]] = Class[p]
  BY <1>4 DEF Equals
<1>6. \A i \in DOMAIN x : \A j \in i + 1 .. Len(x) : j \in DOMAIN x
  BY <1>4
<1>7. LastLost(x, Equals(p)) = {i \in DOMAIN x : Class[x[i]] = Class[p]
                     /\ \A j \in i + 1 .. Len(x) : Class[x[j]] # Class[p]}
  BY <1>5, <1>6 DEF LastLost
<1>8. Abstract!RemoveOneEqual
  BY <1>1, <1>2, <1>3, <1>7 DEF Abstract!RemoveOneEqual, Abstract!Calls
<1> QED
  BY <1>8 DEF Abstract!Next

(* Calls that change what is there.                                        *)
LEMMA PutStep ==
    ASSUME NEW id \in Live, NEW i, NEW p, NEW x, x = arrays[id].items,
           Becoming(id, PutIn(x, i, p)),
           NEW name, \/ name = "set" /\ ret' = x[i + 1]
                     \/ name = "set_only" /\ ret' = None,
           call' = <<name, id, i, p>>
    PROVE  Abstract!Next
<1>1. call'[1] = name /\ call'[2] = id /\ call'[3] = i /\ call'[4] = p
  OBVIOUS
<1>2. Abstract!Self = id /\ Abstract!Arg = i /\ Abstract!Other = p
  BY <1>1 DEF Abstract!Self, Abstract!Arg, Abstract!Other
<1>3. Abstract!List = x
  BY <1>2, ListAt DEF Abstract!List
<1>4. Lists' = [Lists EXCEPT ![id] = PutIn(x, i, p)] /\ Abstract!Enumeration
  BY DEF Becoming, Abstract!Enumeration
<1>5. Abstract!Put
  BY <1>1, <1>2, <1>3, <1>4 DEF Abstract!Put, Abstract!Calls, PutIn
<1> QED
  BY <1>5 DEF Abstract!Next

LEMMA PutZeroingStep ==
    ASSUME NEW id \in Live, NEW i, NEW p, NEW x, x = arrays[id].items, NEW m, m = i + 1,
           Becoming(id, [Abstract!Padded(x, m) EXCEPT ![m] = p]), ret' = None,
           call' = <<"set_zeroing", id, i, p>>
    PROVE  Abstract!Next
<1>1. call'[1] = "set_zeroing" /\ call'[2] = id /\ call'[3] = i /\ call'[4] = p
  OBVIOUS
<1>2. PICK t : t = [Abstract!Padded(x, m) EXCEPT ![m] = p]
  OBVIOUS
<1>3. Abstract!Becomes(t) /\ Abstract!Self = id
  BY <1>1, <1>2, Becomes
<1>4. Abstract!List = x /\ Abstract!Arg = i /\ Abstract!Other = p
  BY <1>1, <1>3, ListAt DEF Abstract!List, Abstract!Arg, Abstract!Other
<1>5. Abstract!PutZeroing
  BY <1>1, <1>2, <1>3, <1>4 DEF Abstract!PutZeroing, Abstract!Calls
<1> QED
  BY <1>5 DEF Abstract!Next

LEMMA GetZeroingStep ==
    ASSUME NEW id \in Live, NEW i, NEW x, x = arrays[id].items, NEW m, m = i + 1,
           Becoming(id, Abstract!Padded(x, m)), ret' = Abstract!Padded(x, m)[m],
           call' = <<"get_zeroing_address", id, i>>
    PROVE  Abstract!Next
<1>1. call'[1] = "get_zeroing_address" /\ call'[2] = id /\ call'[3] = i
  OBVIOUS
<1>2. Abstract!Self = id /\ Abstract!Arg = i
  BY <1>1 DEF Abstract!Self, Abstract!Arg
<1>3. Abstract!List = x
  BY <1>2, ListAt DEF Abstract!List
<1>4. Lists' = [Lists EXCEPT ![id] = Abstract!Padded(x, m)] /\ Abstract!Enumeration
  BY DEF Becoming, Abstract!Enumeration
<1>5. Abstract!GetZeroing
  BY <1>1, <1>2, <1>3, <1>4 DEF Abstract!GetZeroing, Abstract!Calls
<1> QED
  BY <1>5 DEF Abstract!Next

LEMMA SetCountStep ==
    ASSUME NEW id \in Live, NEW n, NEW ps, NEW x, x = arrays[id].items,
           Becoming(id, AtMost(x, n) \o ps), ret' = None, call' = <<"set_count", id, n, ps>>
    PROVE  Abstract!Next
<1>1. call'[1] = "set_count" /\ call'[2] = id /\ call'[3] = n /\ call'[4] = ps
  OBVIOUS
<1>2. Abstract!Becomes(AtMost(x, n) \o ps) /\ Abstract!Self = id
  BY <1>1, Becomes
<1>3. Abstract!List = x /\ Abstract!Arg = n /\ Abstract!Other = ps
  BY <1>1, <1>2, ListAt DEF Abstract!List, Abstract!Arg, Abstract!Other
<1>4. Abstract!Resize
  BY <1>1, <1>2, <1>3 DEF Abstract!Resize, Abstract!Calls, AtMost
<1> QED
  BY <1>4 DEF Abstract!Next

LEMMA ZeroToCountStep ==
    ASSUME NEW id \in Live, NEW n, NEW x, x = arrays[id].items,
           Becoming(id, AtMost(x, n) \o [k \in 1 .. n - Len(x) |-> NULL]), ret' = None,
           call' = <<"zero_to_count", id, n>>
    PROVE  Abstract!Next
<1>1. call'[1] = "zero_to_count" /\ call'[2] = id /\ call'[3] = n
  OBVIOUS
<1>2. PICK z : z = [k \in 1 .. n - Len(x) |-> NULL]
  OBVIOUS
<1>3. Abstract!Becomes(AtMost(x, n) \o z) /\ Abstract!Self = id
  BY <1>1, <1>2, Becomes
<1>4. Abstract!List = x /\ Abstract!Arg = n
  BY <1>1, <1>3, ListAt DEF Abstract!List, Abstract!Arg
<1>5. Abstract!Resize
  BY <1>1, <1>2, <1>3, <1>4 DEF Abstract!Resize, Abstract!Calls, AtMost
<1> QED
  BY <1>5 DEF Abstract!Next

LEMMA PopStep ==
    ASSUME NEW id \in Live, NEW x, x = arrays[id].items,
           Becoming(id, IF x = <<>> THEN <<>> ELSE SubSeq(x, 1, Len(x) - 1)),
           NEW name, \/ name = "pop" /\ ret' = IF x = <<>> THEN NULL ELSE x[Len(x)]
                     \/ name = "pop_struct" /\ ret' = IF x = <<>> THEN None ELSE x[Len(x)],
           call' = <<name, id>>
    PROVE  Abstract!Next
<1>1. call'[1] = name /\ call'[2] = id
  OBVIOUS
<1>2. Abstract!Self = id
  BY <1>1 DEF Abstract!Self
<1>3. Abstract!List = x /\ Lists[id] = x
  BY <1>2, ListAt DEF Abstract!List
<1>4. PICK t : t = IF x = <<>> THEN x ELSE SubSeq(x, 1, Len(x) - 1)
  OBVIOUS
<1>5. Lists' = [Lists EXCEPT ![id] = t] /\ Abstract!Enumeration
  BY <1>4 DEF Becoming, Abstract!Enumeration
<1>6. Lists' = [Lists EXCEPT ![id] = IF @ = <<>> THEN @ ELSE Abstract!Seqs!Front(@)]
  BY <1>3, <1>4, <1>5 DEF Abstract!Seqs!Front
<1>7. x # <<>> => Abstract!Seqs!Last(x) = x[Len(x)]
  BY DEF Abstract!Seqs!Last
<1>8. ret' = IF x # <<>> THEN Abstract!Seqs!Last(x)
             ELSE IF call'[1] = "pop" THEN NULL ELSE None
  BY <1>1, <1>7
<1>9. Abstract!Pop
  BY <1>1, <1>2, <1>3, <1>5, <1>6, <1>8 DEF Abstract!Pop, Abstract!Calls
<1> QED
  BY <1>9 DEF Abstract!Next

LEMMA ExtractStep ==
    ASSUME NEW id \in Live, NEW x, x = arrays[id].items, Becoming(id, <<>>),
           NEW name, \/ name = "extract_pointers" /\ ret' = x
                     \/ name = "extract_data" /\ \E n \in 0 .. Len(x) : ret' = SubSeq(x, 1, n),
           call' = <<name, id>>
    PROVE  Abstract!Next
<1>1. call'[1] = name /\ call'[2] = id
  OBVIOUS
<1>2. Abstract!Self = id
  BY <1>1 DEF Abstract!Self
<1>3. Abstract!List = x
  BY <1>2, ListAt DEF Abstract!List
<1>4. Lists' = [Lists EXCEPT ![id] = <<>>] /\ Abstract!Enumeration
  BY DEF Becoming, Abstract!Enumeration
<1>5. Abstract!Extract
  BY <1>1, <1>2, <1>3, <1>4 DEF Abstract!Extract, Abstract!Calls
<1> QED
  BY <1>5 DEF Abstract!Next

LEMMA SortedHits ==
    ASSUME NEW S, NEW s \in Seq(S), NEW rank, NEW t \in Sortings(s, rank)
    PROVE  \A A : HitCount(t, A) = HitCount(s, A)
<1>1. PICK f \in [DOMAIN s -> DOMAIN s] :
         /\ \A i, j \in DOMAIN s : f[i] = f[j] => i = j
         /\ t = [i \in DOMAIN s |-> s[f[i]]]
  BY SortingFacts
<1> QED
  BY <1>1, HitsPermuted

(* the same items as often, as the abstract specification counts them      *)
Alike(x, t) ==
    \A y : Abstract!Cardinality({i \in DOMAIN x : x[i] = y})
               = Abstract!Cardinality({i \in DOMAIN t : t[i] = y})

LEMMA SortStep ==
    ASSUME NEW id \in Live, NEW S, NEW x \in Seq(S), x = arrays[id].items, NEW t \in Sortings(x, Rank),
           Becoming(id, t), ret' = None, call' = <<"qsort", id>>
    PROVE  Abstract!Next
<1>1. call'[1] = "qsort" /\ call'[2] = id
  OBVIOUS
<1>2. Abstract!Becomes(t) /\ Abstract!Self = id /\ Lists'[id] = t
  BY <1>1, Becomes DEF Becoming
<1>3. Abstract!List = x
  BY <1>2, ListAt DEF Abstract!List
<1>4. \A A : HitCount(t, A) = HitCount(x, A)
  BY SortedHits
<1>5. \A y : Cardinality({i \in DOMAIN x : x[i] = y}) = Cardinality({i \in DOMAIN t : t[i] = y})
  <2> SUFFICES ASSUME NEW y PROVE Cardinality({i \in DOMAIN x : x[i] = y})
                                     = Cardinality({i \in DOMAIN t : t[i] = y})
    OBVIOUS
  <2>1. Hits(x, {y}) = {i \in DOMAIN x : x[i] = y} /\ Hits(t, {y}) = {i \in DOMAIN t : t[i] = y}
    BY DEF Hits
  <2>2. HitCount(t, {y}) = HitCount(x, {y})
    BY <1>4
  <2> QED
    BY <2>1, <2>2 DEF HitCount
<1>6. DOMAIN t = DOMAIN x /\ \A i, j \in DOMAIN x : i < j => Rank[t[i]] <= Rank[t[j]]
  <2>1. DOMAIN t = DOMAIN x
    BY DEF Sortings
  <2> QED
    BY <2>1 DEF Sortings
<1>8. \A M : Abstract!Cardinality(M) = Cardinality(M)
  BY DEF Abstract!Cardinality, Cardinality
<1>9. Alike(x, t)
  <2>1. ASSUME NEW y
        PROVE  Abstract!Cardinality({i \in DOMAIN x : x[i] = y})
                   = Abstract!Cardinality({i \in DOMAIN t : t[i] = y})
    <3>1. PICK M, N : M = {i \in DOMAIN x : x[i] = y} /\ N = {i \in DOMAIN t : t[i] = y}
      OBVIOUS
    <3>2. Cardinality(M) = Cardinality(N)
      BY <1>5, <3>1
    <3>3. Abstract!Cardinality(M) = Cardinality(M) /\ Abstract!Cardinality(N) = Cardinality(N)
      BY <1>8
    <3>4. Abstract!Cardinality(M) = Abstract!Cardinality(N)
      BY <3>2, <3>3
    <3> QED
      BY <3>1, <3>4
  <2> QED
    BY <2>1 DEF Alike
<1>7. Lists'[Abstract!Self] = t
  BY <1>2
<1>10. Alike(Abstract!List, Lists'[Abstract!Self])
  BY <1>3, <1>7, <1>9
<1>11. \A i, j \in DOMAIN Lists'[Abstract!Self] :
          i < j => Rank[Lists'[Abstract!Self][i]] <= Rank[Lists'[Abstract!Self][j]]
  BY <1>6, <1>7
<1>12. Abstract!Becomes(Lists'[Abstract!Self])
  BY <1>2, <1>7
<1>13. Abstract!Sort
  BY <1>1, <1>10, <1>11, <1>12 DEF Abstract!Sort, Abstract!Calls, Alike
<1> QED
  BY <1>13 DEF Abstract!Next

-----------------------------------------------------------------------------
(* Enumerators *)

LEMMA OpenStep ==
    ASSUME ArraysInv, NEW id \in Live, arrays' = arrays, ret' = None,
           \/ Enumerate(id) /\ call' = <<"enumerate", id>>
           \/ ReverseEnumerate(id) /\ call' = <<"reverse_enumerate", id>>
    PROVE  Abstract!Next
<1>1. PICK s : s = arrays[id].items
  OBVIOUS
<1>2. PICK n \in Nat : n = Len(s) /\ DOMAIN s = 1 .. n /\ s = [k \in 1 .. n |-> s[k]]
                       /\ s \in Seq(Item)
  BY <1>1, LiveFacts, SeqFacts
<1>3. Lists' = Lists
  BY DEF Lists
<1>4. CASE Enumerate(id) /\ call' = <<"enumerate", id>>
  <2>1. call'[1] = "enumerate" /\ Abstract!Self = id
    BY <1>4 DEF Abstract!Self
  <2>2. Abstract!List = s
    BY <1>1, <2>1, ListAt DEF Abstract!List
  <2>3. /\ rover' # None /\ rover'.array = id /\ ~ rover'.robbed /\ rover'.forward
        /\ rover'.at = 0 /\ rover'.end = n
    <3>1. rover' = [array |-> id, forward |-> TRUE, at |-> 0, end |-> n,
                    storage |-> arrays[id].storage, robbed |-> FALSE]
      BY <1>1, <1>2, <1>4 DEF Enumerate, Count
    <3>2. arrays[id].storage \in Storage /\ id \in Id
      BY LiveFacts
    <3>3. rover' \in RoverRecord
      BY <3>1, <3>2 DEF RoverRecord
    <3>4. rover' # None
      BY <3>3, PointerArraysAssumption DEF RoverRecord
    <3> QED
      BY <3>1, <3>4
  <2>4. Rest' = SubSeq(s, 0 + 1, n)
    BY <1>1, <2>3 DEF Rest
  <2>5. SubSeq(s, 0 + 1, n) = s
    BY <1>2
  <2>6. Abstract!Open
    BY <1>3, <2>1, <2>2, <2>4, <2>5 DEF Abstract!Open, Abstract!Calls
  <2> QED
    BY <2>6 DEF Abstract!Next
<1>5. CASE ReverseEnumerate(id) /\ call' = <<"reverse_enumerate", id>>
  <2>1. call'[1] = "reverse_enumerate" /\ Abstract!Self = id
    BY <1>5 DEF Abstract!Self
  <2>2. Abstract!List = s
    BY <1>1, <2>1, ListAt DEF Abstract!List
  <2>3. /\ rover' # None /\ rover'.array = id /\ ~ rover'.robbed /\ ~ rover'.forward
        /\ rover'.at = n
    <3>1. rover' = [array |-> id, forward |-> FALSE, at |-> n, end |-> 0,
                    storage |-> arrays[id].storage, robbed |-> FALSE]
      BY <1>1, <1>2, <1>5 DEF ReverseEnumerate, Count
    <3>2. arrays[id].storage \in Storage /\ id \in Id
      BY LiveFacts
    <3>3. rover' \in RoverRecord
      BY <3>1, <3>2 DEF RoverRecord
    <3>4. rover' # None
      BY <3>3, PointerArraysAssumption DEF RoverRecord
    <3> QED
      BY <3>1, <3>4
  <2>4. Rest' = [k \in 1 .. n |-> s[n + 1 - k]]
    BY <1>1, <2>3 DEF Rest
  <2>5. Abstract!Seqs!Reverse(s) = [k \in 1 .. n |-> s[(n - k) + 1]]
    BY <1>2 DEF Abstract!Seqs!Reverse
  <2>6. \A k \in 1 .. n : n + 1 - k = (n - k) + 1
    BY <1>2
  <2>7. Rest' = Abstract!Seqs!Reverse(s)
    BY <2>4, <2>5, <2>6
  <2>8. Abstract!Open
    BY <1>3, <2>1, <2>2, <2>7 DEF Abstract!Open, Abstract!Calls
  <2> QED
    BY <2>8 DEF Abstract!Next
<1> QED
  BY <1>4, <1>5

(* what is left to enumerate, forward and in reverse                       *)
Onward(s, k, n) == SubSeq(s, k + 1, n)
Backward(s, k)  == [i \in 1 .. k |-> s[k + 1 - i]]

HeadAndTail(t, x, u) == t # <<>> /\ Head(t) = x /\ Tail(t) = u

LEMMA HeadOfRest ==
    ASSUME NEW S, NEW s \in Seq(S), NEW n \in Nat, n = Len(s), NEW k \in Nat, k <= n,
           NEW t, t = Onward(s, k, n), NEW m, m = k + 1
    PROVE  /\ t \in Seq(S)
           /\ k < n => HeadAndTail(t, s[m], Onward(s, m, n))
           /\ ~ (k < n) => t = <<>>
<1>1. t \in Seq(S) /\ Len(t) = n - k /\ \A i \in 1 .. n - k : t[i] = s[k + i]
  BY PartFacts DEF Onward
<1>2. ASSUME k < n PROVE HeadAndTail(t, s[m], Onward(s, m, n))
  <2>1. t # <<>> /\ Head(t) = t[1] /\ t[1] = s[m]
    BY <1>1, <1>2
  <2>2. m \in Nat /\ m <= n
    BY <1>2
  <2>3. PICK u : u = Onward(s, m, n)
    OBVIOUS
  <2>4. u \in Seq(S) /\ Len(u) = n - m /\ \A i \in 1 .. n - m : u[i] = s[m + i]
    <3>1. u = SubSeq(s, m + 1, n)
      BY <2>3 DEF Onward
    <3>2. n <= Len(s)
      OBVIOUS
    <3>3. /\ SubSeq(s, m + 1, n) \in Seq(S) /\ Len(SubSeq(s, m + 1, n)) = n - m
          /\ \A i \in 1 .. n - m : SubSeq(s, m + 1, n)[i] = s[m + i]
      BY <2>2, <3>2, PartFacts
    <3> QED
      BY <3>1, <3>3
  <2>5. Tail(t) \in Seq(S) /\ Len(Tail(t)) = Len(t) - 1
        /\ \A i \in 1 .. Len(Tail(t)) : Tail(t)[i] = t[i + 1]
    BY <1>1, <2>1, HeadTailProperties
  <2>6. Len(Tail(t)) = n - m /\ \A i \in 1 .. n - m : Tail(t)[i] = t[i + 1]
    <3>1. Len(t) - 1 = n - m
      BY <1>1
    <3>2. Len(Tail(t)) = n - m
      BY <2>5, <3>1
    <3> QED
      BY <2>5, <3>2
  <2>7. \A i \in 1 .. n - m : i + 1 \in 1 .. n - k /\ k + (i + 1) = m + i
    OBVIOUS
  <2>8. ASSUME NEW i \in 1 .. n - m PROVE Tail(t)[i] = u[i]
    <3>1. i + 1 \in 1 .. n - k /\ k + (i + 1) = m + i
      BY <2>7
    <3>2. Tail(t)[i] = t[i + 1] /\ t[i + 1] = s[k + (i + 1)] /\ u[i] = s[m + i]
      BY <1>1, <2>4, <2>6, <3>1
    <3> QED
      BY <3>1, <3>2
  <2>9. Tail(t) = u
    BY <2>4, <2>5, <2>6, <2>8, SeqEqual
  <2> QED
    BY <2>1, <2>3, <2>9 DEF HeadAndTail
<1>3. ~ (k < n) => t = <<>>
  BY <1>1
<1> QED
  BY <1>1, <1>2, <1>3

Reverses(t, s, k) == Len(t) = k /\ \A i \in 1 .. k : t[i] = s[k + 1 - i]

LEMMA BackwardFacts ==
    ASSUME NEW S, NEW s \in Seq(S), NEW k \in Nat, k <= Len(s), NEW t, t = Backward(s, k)
    PROVE  t \in Seq(S) /\ Reverses(t, s, k)
<1>1. \A i \in 1 .. k : k + 1 - i \in 1 .. Len(s)
  OBVIOUS
<1>2. \A i \in 1 .. Len(s) : s[i] \in S
  OBVIOUS
<1>3. \A i \in 1 .. k : s[k + 1 - i] \in S
  BY <1>1, <1>2
<1> QED
  BY <1>3, IsASeq DEF Backward, Reverses

LEMMA HeadOfReverse ==
    ASSUME NEW S, NEW s \in Seq(S), NEW k \in Nat, k <= Len(s), NEW t, t = Backward(s, k),
           NEW m, m = k - 1
    PROVE  /\ t \in Seq(S)
           /\ k > 0 => HeadAndTail(t, s[k], Backward(s, m))
           /\ ~ (k > 0) => t = <<>>
<1>1. t \in Seq(S) /\ Len(t) = k /\ \A i \in 1 .. k : t[i] = s[k + 1 - i]
  BY BackwardFacts DEF Reverses
<1>2. ASSUME k > 0 PROVE HeadAndTail(t, s[k], Backward(s, m))
  <2>1. t # <<>> /\ Head(t) = t[1] /\ t[1] = s[k]
    <3>1. t[1] = s[k + 1 - 1] /\ k + 1 - 1 = k
      BY <1>1, <1>2
    <3> QED
      BY <1>1, <1>2, <3>1
  <2>2. m \in Nat /\ m <= Len(s)
    BY <1>2
  <2>3. PICK u : u = Backward(s, m)
    OBVIOUS
  <2>4. u \in Seq(S) /\ Len(u) = m /\ \A i \in 1 .. m : u[i] = s[m + 1 - i]
    <3>1. u \in Seq(S) /\ Reverses(u, s, m)
      BY <2>2, <2>3, BackwardFacts
    <3> QED
      BY <3>1 DEF Reverses
  <2>5. Tail(t) \in Seq(S) /\ Len(Tail(t)) = Len(t) - 1
        /\ \A i \in 1 .. Len(Tail(t)) : Tail(t)[i] = t[i + 1]
    BY <1>1, <2>1, HeadTailProperties
  <2>6. Len(Tail(t)) = m /\ \A i \in 1 .. m : Tail(t)[i] = t[i + 1]
    BY <1>1, <2>5
  <2>7. \A i \in 1 .. m : i + 1 \in 1 .. k /\ k + 1 - (i + 1) = m + 1 - i
    OBVIOUS
  <2>8. \A i \in 1 .. m : Tail(t)[i] = u[i]
    BY <1>1, <2>4, <2>6, <2>7
  <2>9. Tail(t) = u
    BY <2>4, <2>5, <2>6, <2>8, SeqEqual
  <2> QED
    BY <2>1, <2>3, <2>9 DEF HeadAndTail
<1>3. ~ (k > 0) => t = <<>>
  BY <1>1
<1> QED
  BY <1>1, <1>2, <1>3

LEMMA NextStep ==
    ASSUME ArraysInv, rover # None, ~ rover.robbed, arrays' = arrays, call' = <<"next">>,
           EnumeratorNext \/ ReverseEnumeratorNext
    PROVE  Abstract!Next
<1>1. PICK id, s, at : id = rover.array /\ s = arrays[id].items /\ at = rover.at
  OBVIOUS
<1>2. /\ rover \in RoverRecord /\ id \in Live /\ at \in Nat /\ at <= Len(s)
      /\ rover.forward => rover.end = Len(s)
      /\ ~ rover.forward => rover.end = 0
  BY <1>1 DEF ArraysInv, RoverOK, RoverRecord, LiveIn, Live
<1>3. PICK n \in Nat : n = Len(s) /\ s \in Seq(Item)
  BY <1>1, <1>2, LiveFacts
<1>4. Lists' = Lists
  BY DEF Lists
<1>5. call'[1] = "next"
  OBVIOUS
<1>6. \A t \in Seq(Item) : t # None
  <2>1. Item \subseteq Object \cup Values
    BY ItemFacts DEF ArraysInv
  <2>2. Seq(Item) \subseteq Seq(Object \cup Values)
    BY <2>1, SeqMonotonic
  <2> QED
    BY <2>2, PointerArraysAssumption
<1>7. \A r \in RoverRecord : r # None
  BY PointerArraysAssumption DEF RoverRecord
<1>8. ASSUME Rest # None, ret' = (IF Rest = <<>> THEN NULL ELSE Head(Rest)),
             Rest' = (IF Rest = <<>> THEN None ELSE Tail(Rest))
      PROVE  Abstract!Next
  <2>1. Abstract!EnumeratorNext
    BY <1>4, <1>5, <1>8 DEF Abstract!EnumeratorNext, Abstract!Calls
  <2> QED
    BY <2>1 DEF Abstract!Next
<1>9. CASE EnumeratorNext
  <2>1. rover.forward /\ rover.end = n
    BY <1>2, <1>3, <1>9 DEF EnumeratorNext
  <2>2. PICK t : t = Rest /\ t = Onward(s, at, n)
    BY <1>1, <2>1 DEF Rest, Onward
  <2>3. PICK m : m = at + 1
    OBVIOUS
  <2>4. /\ t \in Seq(Item) /\ t # None
        /\ at < n => HeadAndTail(t, s[m], Onward(s, m, n))
        /\ ~ (at < n) => t = <<>>
    <3>1. at <= n
      BY <1>2, <1>3
    <3>2. /\ t \in Seq(Item)
          /\ at < n => HeadAndTail(t, s[m], Onward(s, m, n))
          /\ ~ (at < n) => t = <<>>
      BY <1>2, <1>3, <2>2, <2>3, <3>1, HeadOfRest
    <3> QED
      BY <1>6, <3>2
  <2>5. CASE at < n
    <3>1. t # <<>> /\ Head(t) = s[m] /\ Tail(t) = Onward(s, m, n)
      BY <2>4, <2>5 DEF HeadAndTail
    <3>2. ret' = s[m] /\ rover' = [rover EXCEPT !.at = @ + 1]
      BY <1>1, <1>9, <2>1, <2>3, <2>5 DEF EnumeratorNext, Get
    <3>3. /\ rover' \in RoverRecord /\ rover'.array = id /\ rover'.forward /\ rover'.at = m
          /\ rover'.end = n /\ ~ rover'.robbed
      BY <1>1, <1>2, <2>1, <2>3, <3>2 DEF RoverRecord
    <3>4. rover' # None
      BY <1>7, <3>3
    <3>5. Rest' = Onward(s, m, n)
      BY <1>1, <3>3, <3>4 DEF Rest, Onward
    <3> QED
      BY <1>8, <2>2, <2>4, <3>1, <3>2, <3>5
  <2>6. CASE ~ (at < n)
    <3>1. t = <<>>
      BY <2>4, <2>6
    <3>2. ret' = NULL /\ rover' = None
      BY <1>1, <1>9, <2>1, <2>6 DEF EnumeratorNext
    <3>3. Rest' = None
      BY <3>2 DEF Rest
    <3> QED
      BY <1>8, <2>2, <2>4, <3>1, <3>2, <3>3
  <2> QED
    BY <2>5, <2>6
<1>10. CASE ReverseEnumeratorNext
  <2>1. ~ rover.forward /\ rover.end = 0
    BY <1>2, <1>10 DEF ReverseEnumeratorNext
  <2>2. PICK t : t = Rest /\ t = Backward(s, at)
    BY <1>1, <2>1 DEF Rest, Backward
  <2>3. PICK m : m = at - 1
    OBVIOUS
  <2>4. /\ t \in Seq(Item) /\ t # None
        /\ at > 0 => HeadAndTail(t, s[at], Backward(s, m))
        /\ ~ (at > 0) => t = <<>>
    <3>1. /\ t \in Seq(Item)
          /\ at > 0 => HeadAndTail(t, s[at], Backward(s, m))
          /\ ~ (at > 0) => t = <<>>
      BY <1>2, <1>3, <2>2, <2>3, HeadOfReverse
    <3> QED
      BY <1>6, <3>1
  <2>5. CASE at > 0
    <3>1. t # <<>> /\ Head(t) = s[at] /\ Tail(t) = Backward(s, m)
      BY <2>4, <2>5 DEF HeadAndTail
    <3>2. ret' = s[at] /\ rover' = [rover EXCEPT !.at = @ - 1]
      <4>1. ret' = s[at - 1 + 1] /\ rover' = [rover EXCEPT !.at = @ - 1]
        BY <1>1, <1>10, <2>1, <2>5 DEF ReverseEnumeratorNext, Get
      <4>2. at - 1 + 1 = at
        BY <1>2
      <4> QED
        BY <4>1, <4>2
    <3>3. /\ rover' \in RoverRecord /\ rover'.array = id /\ ~ rover'.forward /\ rover'.at = m
          /\ ~ rover'.robbed
      BY <1>1, <1>2, <2>1, <2>3, <2>5, <3>2 DEF RoverRecord
    <3>4. rover' # None
      BY <1>7, <3>3
    <3>5. Rest' = Backward(s, m)
      BY <1>1, <3>3, <3>4 DEF Rest, Backward
    <3> QED
      BY <1>8, <2>2, <2>4, <3>1, <3>2, <3>5
  <2>6. CASE ~ (at > 0)
    <3>1. t = <<>>
      BY <2>4, <2>6
    <3>2. ret' = NULL /\ rover' = None
      BY <1>1, <1>10, <2>1, <2>6 DEF ReverseEnumeratorNext
    <3>3. Rest' = None
      BY <3>2 DEF Rest
    <3> QED
      BY <1>8, <2>2, <2>4, <3>1, <3>2, <3>3
  <2> QED
    BY <2>5, <2>6
<1> QED
  BY <1>9, <1>10

-----------------------------------------------------------------------------
(* What else becomes of the sequences *)

LEMMA EstablishBecomes ==
    ASSUME ArraysInv, NEW id \in Id, NEW b, NEW al, Establish(id, b, al),
           arrays'[id] # None, arrays'[id].items = b.items,
           \A i \in Id : i # id => arrays'[i] = arrays[i]
    PROVE  Becoming(id, b.items) /\ arrays[id] = None
<1>1. arrays[id] = None /\ rover' = rover
  BY DEF Establish
<1>2. Lists' = [Lists EXCEPT ![id] = b.items] /\ Lists'[id] = b.items
  BY ListsChange
<1>3. Rest' = Rest
  <2>1. CASE rover = None
    BY <1>1, <2>1 DEF Rest
  <2>2. CASE rover # None
    <3>1. rover.array \in Id /\ rover.array # id
      BY <1>1, <2>2 DEF ArraysInv, RoverOK, LiveIn
    <3>2. arrays'[rover.array] = arrays[rover.array]
      BY <3>1
    <3> QED
      BY <1>1, <3>2 DEF Rest
  <2> QED
    BY <2>1, <2>2
<1> QED
  BY <1>1, <1>2, <1>3 DEF Becoming

LEMMA DissolveBecomes ==
    ASSUME ArraysInv, NEW id \in Live, NEW b, Dissolve(id, b), b.mutations > 0,
           arrays'[id] = None, \A i \in Id : i # id => arrays'[i] = arrays[i]
    PROVE  Becoming(id, None)
<1>1. rover' = Enumerating([i \in {id} |-> b]) /\ id \in Id
  BY DEF Dissolve, Live
<1>2. Lists' = [Lists EXCEPT ![id] = None] /\ Lists'[id] = None
  BY <1>1, ListsChange
<1>3. RoverOK(rover, arrays)
  BY DEF ArraysInv
<1>4. Rest' \in {Rest, None}
  BY <1>1, <1>3, RestKept
<1> QED
  BY <1>2, <1>4 DEF Becoming

LEMMA ExtractBecomes ==
    ASSUME ArraysInv, NEW id \in Live, Extract(id, Extracted(arrays[id])),
           refs' \in [Object -> Int]
    PROVE  Becoming(id, <<>>)
<1>1. PICK b : b = Extracted(arrays[id])
  OBVIOUS
<1>2. Clean(arrays[id]) /\ id \in Id
  BY LiveFacts
<1>3. b.mutations = 1
  BY <1>1, <1>2, ExtractedFacts
<1>4. arrays'[id].items = <<>> /\ ArraysInv'
  BY ExtractInv
<1>5. /\ arrays' = [arrays EXCEPT ![id] = Settled(b, NULL)]
      /\ rover' = Enumerating([i \in {id} |-> b])
  BY <1>1 DEF Extract
<1>6. \A i \in Id : i # id => arrays'[i] = arrays[i]
  BY <1>5 DEF ArraysInv
<1>7. arrays'[id] # None
  BY ExtractInv
<1>8. Lists' = [Lists EXCEPT ![id] = <<>>] /\ Lists'[id] = <<>>
  BY <1>2, <1>4, <1>6, <1>7, ListsChange
<1>9. RoverOK(rover, arrays) /\ b.mutations > 0
  BY <1>3 DEF ArraysInv
<1>10. Rest' \in {Rest, None}
  BY <1>5, <1>6, <1>9, RestKept
<1> QED
  BY <1>8, <1>10 DEF Becoming

(* The victim is empty, and nobody enumerates what either of them was.     *)
LEMMA AbsorbStep ==
    ASSUME ArraysInv, kind = "pointers", NEW id \in Live, NEW victim \in Live,
           AbsorbArray(id, victim), call' = <<"absorb", id, victim>>
    PROVE  Abstract!Next
<1> DEFINE same == Real(allocator[id]) = Real(allocator[victim])
           na == Absorb(arrays[id], arrays[victim], same)
           nv == Absorbed(arrays[id], arrays[victim], same)
           new == [i \in {id, victim} |-> IF i = id THEN na ELSE nv]
           blk == Unused(DOMAIN heap \ Freed(new))
<1>1. PICK s, t : s = arrays[id].items /\ t = arrays[victim].items
  OBVIOUS
<1>2. /\ id \in Id /\ victim \in Id /\ id # victim /\ s \in Seq(Item) /\ t \in Seq(Item)
      /\ Clean(arrays[id]) /\ Clean(arrays[victim])
  BY <1>1, LiveFacts DEF AbsorbArray
<1>3. /\ arrays' = [i \in Id |-> IF i \in {id, victim} THEN Settled(new[i], blk) ELSE arrays[i]]
      /\ rover' = IF rover # None /\ rover.array = victim /\ Steals(arrays[id], same)
                  THEN [rover EXCEPT !.robbed = TRUE] ELSE Enumerating(new)
      /\ ret' = None
  BY DEF AbsorbArray, CommitTo
<1>4. /\ na.items = s \o t /\ nv.items = <<>> /\ na.mutations > 0
      /\ ~ Steals(arrays[id], same) => nv.mutations > 0
  <2>1. CASE Steals(arrays[id], same)
    <3>1. arrays[id].storage = NULL /\ same = TRUE
      BY <2>1 DEF Steals
    <3>5. /\ na = Absorb(arrays[id], arrays[victim], TRUE)
          /\ nv = Absorbed(arrays[id], arrays[victim], TRUE)
      BY <2>1, <3>1 DEF Absorb, Absorbed, Steals
    <3>7. arrays[id].storage = NULL
      BY <3>1
    <3>6. /\ Absorb(arrays[id], arrays[victim], TRUE).items = arrays[victim].items
          /\ Absorb(arrays[id], arrays[victim], TRUE).mutations = 1
          /\ Absorbed(arrays[id], arrays[victim], TRUE).items = <<>>
      <4>1. PICK a, v : a = arrays[id] /\ v = arrays[victim]
        OBVIOUS
      <4>2. Clean(a) /\ Clean(v) /\ a.storage = NULL
        BY <1>2, <3>7, <4>1
      <4> DEFINE d == [a EXCEPT !.items = v.items, !.size = v.size, !.storage = v.storage,
                                !.initial = NULL]
      <4>3. Absorb(a, v, TRUE) = Bump(d)
            /\ Absorbed(a, v, TRUE) = [v EXCEPT !.items = <<>>, !.size = 0, !.storage = NULL]
        BY <4>2 DEF Absorb, Absorbed, Steals
      <4>4. Bump(d).items = v.items /\ Bump(d).mutations = 1
        BY <4>2 DEF Bump, Clean, Raw
      <4>5. [v EXCEPT !.items = <<>>, !.size = 0, !.storage = NULL].items = <<>>
        BY <4>2 DEF Clean, Raw
      <4> HIDE DEF d
      <4> QED
        BY <4>1, <4>3, <4>4, <4>5
    <3> HIDE DEF na, nv, same
    <3>2. na.items = t /\ nv.items = <<>> /\ na.mutations = 1
      BY <1>1, <3>5, <3>6
    <3>3. s = <<>>
      BY <1>1, <1>2, <3>1 DEF Clean, Fits2
    <3>4. s \o t = t
      BY <1>2, <3>3
    <3> QED
      BY <2>1, <3>2, <3>4
  <2>2. CASE ~ Steals(arrays[id], same)
    <3>1. na = Advance(Bump(arrays[id]), t) /\ nv = Reset(arrays[victim])
      BY <1>1, <2>2 DEF Absorb, Absorbed
    <3>2. /\ Stage(arrays[id], Bump(arrays[id])) /\ Bump(arrays[id]).items = s
          /\ Stage(arrays[victim], arrays[victim])
      BY <1>1, <1>2, StageSame, StageBump
    <3>3. kind # "structs"
      OBVIOUS
    <3>4. na.items = s \o t /\ na.mutations > 0
      <4>1. PICK c : c = Bump(arrays[id])
        OBVIOUS
      <4>2. Stage(arrays[id], c) /\ c.items = s /\ na = Advance(c, t)
        BY <3>1, <3>2, <4>1
      <4> QED
        BY <1>2, <3>3, <4>2, StageAdvance
    <3>5. nv.items = <<>> /\ nv.mutations > 0
      BY <3>1, <3>2, StageReset
    <3> QED
      BY <3>4, <3>5
  <2> QED
    BY <2>1, <2>2
<1>5. DOMAIN new = {id, victim} /\ new[id] = na /\ new[victim] = nv
  BY <1>2
<1> HIDE DEF na, nv, new, blk, same
<1>6. arrays'[id].items = s \o t /\ arrays'[victim].items = <<>>
  <2>1. Settled(na, blk).items = na.items /\ Settled(nv, blk).items = nv.items
    BY DEF Settled, na, nv
  <2> QED
    BY <1>2, <1>3, <1>4, <1>5, <2>1
<1>7. \A i \in Id : i # id /\ i # victim => arrays'[i] = arrays[i]
  BY <1>3
<1>8. arrays'[id] # None /\ arrays'[victim] # None
  BY AbsorbInv
<1>9. Lists' = [Lists EXCEPT ![id] = s \o t, ![victim] = <<>>]
  <2>1. Lists' = [i \in Id |-> IF arrays'[i] = None THEN None ELSE arrays'[i].items]
    BY DEF Lists
  <2>2. [Lists EXCEPT ![id] = s \o t, ![victim] = <<>>]
           = [i \in Id |-> IF i = victim THEN <<>> ELSE IF i = id THEN s \o t ELSE Lists[i]]
    BY <1>2 DEF Lists
  <2>3. \A i \in Id : (IF arrays'[i] = None THEN None ELSE arrays'[i].items)
                        = IF i = victim THEN <<>> ELSE IF i = id THEN s \o t ELSE Lists[i]
    BY <1>2, <1>6, <1>7, <1>8 DEF Lists
  <2> QED
    BY <2>1, <2>2, <2>3
<1>10. Rest' \in {Rest, None}
  <2>1. CASE rover = None \/ rover' = None
    <3>1. rover' = None
      BY <1>3, <2>1 DEF Enumerating
    <3> QED
      BY <3>1 DEF Rest
  <2>2. CASE rover # None /\ rover' # None /\ rover.array = victim
    <3>1. Steals(arrays[id], same)
      BY <1>3, <1>4, <1>5, <2>2 DEF Enumerating
    <3>2. rover' = [rover EXCEPT !.robbed = TRUE] /\ rover \in RoverRecord
      BY <1>3, <2>2, <3>1 DEF ArraysInv, RoverOK
    <3>3. rover'.robbed
      BY <3>2 DEF RoverRecord
    <3> QED
      BY <2>2, <3>3 DEF Rest
  <2>3. CASE rover # None /\ rover' # None /\ rover.array # victim
    <3>1. rover' = rover /\ rover.array # id
      BY <1>3, <1>4, <1>5, <2>3 DEF Enumerating
    <3>2. rover.array \in Id
      BY <2>3 DEF ArraysInv, RoverOK, LiveIn
    <3>3. arrays'[rover.array] = arrays[rover.array]
      BY <1>7, <2>3, <3>1, <3>2
    <3> QED
      BY <2>3, <3>1, <3>3 DEF Rest
  <2> QED
    BY <2>1, <2>2, <2>3
<1>11. call'[1] = "absorb" /\ Abstract!Self = id /\ Abstract!Arg = victim
  BY DEF Abstract!Self, Abstract!Arg
<1>12. Lists[id] = s /\ Lists[victim] = t
  BY <1>1, ListAt
<1>13. Abstract!Absorb
  BY <1>3, <1>9, <1>10, <1>11, <1>12 DEF Abstract!Absorb, Abstract!Calls, Abstract!Enumeration
<1> QED
  BY <1>13 DEF Abstract!Next

-----------------------------------------------------------------------------
(* Every call does to the sequences what its operation promises. *)

LEMMA NoneIsNoList ==
    ASSUME ArraysInv
    PROVE  \A t \in Seq(Item) : t # None
<1>1. Item \subseteq Object \cup Values
  BY ItemFacts DEF ArraysInv
<1>2. Seq(Item) \subseteq Seq(Object \cup Values)
  BY <1>1, SeqMonotonic
<1> QED
  BY <1>2, PointerArraysAssumption

LEMMA WithNothing ==
    ASSUME NEW S, NEW s \in Seq(S), NEW i \in 0 .. Len(s), NEW e, e = <<>>
    PROVE  With(s, i, e) = s
<1>1. PICK n \in Nat : n = Len(s)
  OBVIOUS
<1>2. SubSeq(s, 1, i) \in Seq(S)
  <2>1. SubSeq(s, 0 + 1, i) \in Seq(S)
    BY <1>1, PartFacts
  <2> QED
    BY <2>1
<1>3. SubSeq(s, 1, i) \o e = SubSeq(s, 1, i)
  BY <1>2, ConcatEmptySeq
<1>4. SubSeq(s, 1, i) \o SubSeq(s, i + 1, n) = SubSeq(s, 1, n)
  <2>1. PICK m : m = 1
    OBVIOUS
  <2>2. m \in 1 .. Len(s) + 1 /\ i \in m - 1 .. Len(s) /\ n \in i .. Len(s)
    BY <1>1, <2>1
  <2>3. SubSeq(s, m, i) \o SubSeq(s, i + 1, n) = SubSeq(s, m, n)
    BY <2>2, ConcatAdjacentSubSeq
  <2> QED
    BY <2>1, <2>3
<1>5. SubSeq(s, 1, n) = s
  BY <1>1, SubSeqFull
<1> QED
  BY <1>1, <1>3, <1>4, <1>5 DEF With

-----------------------------------------------------------------------------
(* Only absorb_array robs an enumerator, and only pointer arrays have it. *)

Honest(r)    == r # None => ~ r.robbed
StaysHonest  == kind' = kind /\ (Honest(rover) => Honest(rover'))

LEMMA HonestUpdates ==
    /\ \A id, a : Update(id, a) \/ Dissolve(id, a) \/ Extract(id, a) => StaysHonest
    /\ \A id, a, al : Establish(id, a, al) => StaysHonest
<1>1. \A new : rover' = Enumerating(new) => (Honest(rover) => Honest(rover'))
  BY DEF Enumerating, Honest
<1>2. \A id, a : Update(id, a) => StaysHonest
  BY <1>1 DEF Update, Commit, StaysHonest
<1>3. \A id, a : Dissolve(id, a) => StaysHonest
  BY <1>1 DEF Dissolve, StaysHonest
<1>4. \A id, a : Extract(id, a) => StaysHonest
  BY <1>1 DEF Extract, StaysHonest
<1>5. \A id, a, al : Establish(id, a, al) => StaysHonest
  BY DEF Establish, StaysHonest
<1> QED
  BY <1>2, <1>3, <1>4, <1>5

LEMMA HonestEnumerators ==
    ASSUME ArraysInv, UNCHANGED kind,
           \/ \E id : Enumerate(id) \/ ReverseEnumerate(id)
           \/ EnumeratorNext \/ ReverseEnumeratorNext
    PROVE  StaysHonest
<1>1. CASE \E id : Enumerate(id) \/ ReverseEnumerate(id)
  <2>1. rover'.robbed = FALSE
    BY <1>1 DEF Enumerate, ReverseEnumerate
  <2> QED
    BY <2>1 DEF StaysHonest, Honest
<1>2. CASE EnumeratorNext \/ ReverseEnumeratorNext
  <2>1. rover # None /\ rover \in RoverRecord
    BY <1>2 DEF EnumeratorNext, ReverseEnumeratorNext, ArraysInv, RoverOK
  <2>2. \A n : [rover EXCEPT !.at = n].robbed = rover.robbed
    BY <2>1 DEF RoverRecord
  <2>3. rover' = None \/ \E n : rover' = [rover EXCEPT !.at = n]
    BY <1>2 DEF EnumeratorNext, ReverseEnumeratorNext
  <2> QED
    BY <2>1, <2>2, <2>3 DEF StaysHonest, Honest
<1> QED
  BY <1>1, <1>2

LEMMA StructsStayHonest == ASSUME ArraysInv, StructNext PROVE StaysHonest
<1>1. \A id, a : ChangeStructs(id, a) => StaysHonest
  BY HonestUpdates DEF ChangeStructs
<1>4. ASSUME NEW id, DoneStructArray(id) \/ ExtractStructs(id) \/ PopStructFrom(id)
                        \/ GrowStructArray(id) \/ ResetStructArray(id) \/ RemoveLastStruct(id)
                        \/ QsortStructs(id) \/ SizeStructsToFit(id)
      PROVE  StaysHonest
  BY <1>1, <1>4, HonestUpdates DEF DoneStructArray, ExtractStructs, PopStructFrom, GrowStructArray,
     ResetStructArray, RemoveLastStruct, QsortStructs, SizeStructsToFit
<1>5. ASSUME NEW id, NEW n, GuaranteeStructRoom(id, n) \/ AdvanceStructArray(id, n)
                        \/ AddStructTo(id, n) \/ AddStructGuaranteed(id, n)
                        \/ ReserveStruct(id, n) \/ ZeroToCountOf(id, n)
                        \/ RemoveStructs(id, n) \/ RemoveStructAtIndex(id, n)
      PROVE  StaysHonest
  BY <1>1, <1>5 DEF GuaranteeStructRoom, AdvanceStructArray, AddStructTo, AddStructGuaranteed,
     ReserveStruct, ZeroToCountOf, RemoveStructs, RemoveStructAtIndex
<1>6. ASSUME NEW id, NEW i, NEW p,
             AddArrayOfStructs(id, i, p) \/ InsertStructs(id, i, p)
                        \/ SetStructAt(id, i, p) \/ SetCountOf(id, i, p)
      PROVE  StaysHonest
  BY <1>1, <1>6 DEF AddArrayOfStructs, InsertStructs, SetStructAt, SetCountOf
<1>7. ASSUME NEW id, NEW n, NEW al, \/ InitStructsWithStaticStorage(id, al)
                                    \/ InitStructs(id, n, al) \/ CopyStructArray(id, n, al)
      PROVE  StaysHonest
  BY <1>7, HonestUpdates DEF InitStructsWithStaticStorage, InitStructs, CopyStructArray
<1>8. ASSUME NEW id, \/ OpenStructEnumerator(id) \/ OpenStructReverseEnumerator(id)
                     \/ StructEnumeratorNext \/ StructReverseEnumeratorNext
      PROVE  StaysHonest
  BY <1>8, HonestEnumerators DEF OpenStructEnumerator, OpenStructReverseEnumerator,
     StructEnumeratorNext, StructReverseEnumeratorNext
<1> QED
  BY <1>4, <1>5, <1>6, <1>7, <1>8 DEF StructNext

LEMMA OwningStaysHonest == ASSUME ArraysInv, OwningNext PROVE StaysHonest
<1>1. \A id, h : ChangeOwning(id, h) => StaysHonest
  BY HonestUpdates DEF ChangeOwning
<1>4. ASSUME NEW id, DoneOwning(id) \/ GrowOwning(id) \/ RemoveLastObject(id)
                        \/ ResetObjects(id) \/ QsortObjects(id)
      PROVE  StaysHonest
  BY <1>1, <1>4, HonestUpdates DEF DoneOwning, GrowOwning, RemoveLastObject, ResetObjects,
     QsortObjects
<1>5. ASSUME NEW id, NEW n, GuaranteeOwning(id, n) \/ AddObject(id, n)
                        \/ AddObjectGuaranteed(id, n) \/ RemoveObject(id, n)
                        \/ RemoveUniqueObject(id, n) \/ RemoveObjectsInRange(id, n)
      PROVE  StaysHonest
  BY <1>1, <1>5, HonestUpdates DEF GuaranteeOwning, AddObject, AddObjectGuaranteed, RemoveObject,
     RemoveUniqueObject, RemoveObjectsInRange
<1>6. ASSUME NEW id, NEW i, NEW p, SetObject(id, i, p) \/ AddArrayOfObjects(id, i, p)
      PROVE  StaysHonest
  BY <1>1, <1>6 DEF SetObject, AddArrayOfObjects
<1>7. ASSUME NEW id, NEW n, NEW al,
             InitOwningOnStack(id) \/ InitOwning(id, n, al) \/ CopyArray(id, n)
      PROVE  StaysHonest
  BY <1>7, HonestUpdates DEF InitOwningOnStack, InitOwning, CopyArray
<1>8. ASSUME NEW id, \/ OpenOwningEnumerator(id) \/ OpenOwningReverseEnumerator(id)
                     \/ OwningEnumeratorNext \/ OwningReverseEnumeratorNext
      PROVE  StaysHonest
  BY <1>8, HonestEnumerators DEF OpenOwningEnumerator, OpenOwningReverseEnumerator,
     OwningEnumeratorNext, OwningReverseEnumeratorNext
<1> QED
  BY <1>4, <1>5, <1>6, <1>7, <1>8 DEF OwningNext

-----------------------------------------------------------------------------
(* Each operation does to the sequences what is promised. *)

LEMMA InitRefines ==
    ASSUME ArraysInv, misfreed = {}, NEW id \in Id, NEW al \in AnyAllocator, UNCHANGED refs,
           NEW n \in Nat, call' = <<"init", id>>,
           Establish(id, Fresh(n), al)
               \/ (MayLend(id) /\ Establish(id, FreshStatic(id, LentCapacity), al))
    PROVE  Abstract!Next
<1>1. refs' \in [Object -> Int]
  BY DEF ArraysInv
<1>2. CASE Establish(id, Fresh(n), al)
  <2>1. PICK b : b = Fresh(n)
    OBVIOUS
  <2>2. /\ b \in Raw /\ Fits2(b) /\ b.freed = {} /\ b.items = <<>>
        /\ b.storage \in {NULL, Moved} /\ b.initial = NULL /\ (b.storage = NULL => b.size = 0)
    BY <2>1, FreshFacts
  <2>3. Establish(id, b, al)
    BY <1>2, <2>1
  <2>4. /\ arrays'[id] # None /\ arrays'[id].items = b.items
        /\ \A i \in Id : i # id => arrays'[i] = arrays[i]
    BY <1>1, <2>2, <2>3, EstablishInv
  <2>5. Becoming(id, b.items) /\ arrays[id] = None
    BY <2>3, <2>4, EstablishBecomes
  <2>6. ret' = None
    BY <2>3 DEF Establish
  <2> QED
    BY <2>2, <2>5, <2>6, CreateStep
<1>3. CASE MayLend(id) /\ Establish(id, FreshStatic(id, LentCapacity), al)
  <2>1. PICK b : b = FreshStatic(id, LentCapacity)
    OBVIOUS
  <2>2. /\ b \in Raw /\ Fits2(b) /\ b.freed = {} /\ b.items = <<>>
        /\ b.storage = id /\ b.initial = id /\ b.storage # NULL
    BY <2>1, FreshStaticFacts
  <2>3. Establish(id, b, al) /\ MayLend(id)
    BY <1>3, <2>1
  <2>4. /\ arrays'[id] # None /\ arrays'[id].items = b.items
        /\ \A i \in Id : i # id => arrays'[i] = arrays[i]
    BY <1>1, <2>2, <2>3, EstablishInv
  <2>5. Becoming(id, b.items) /\ arrays[id] = None
    BY <2>3, <2>4, EstablishBecomes
  <2>6. ret' = None
    BY <2>3 DEF Establish
  <2> QED
    BY <2>2, <2>5, <2>6, CreateStep
<1> QED
  BY <1>2, <1>3

LEMMA DoneRefines ==
    ASSUME ArraysInv, NEW id \in Live, NEW b, Dissolve(id, b), refs' \in [Object -> Int],
           b.freed \ {NULL, Moved} = {arrays[id].storage} \ {NULL, arrays[id].initial},
           b.mutations = 1, call' = <<"done", id>>
    PROVE  Abstract!Next
<1>1. b.mutations > 0 /\ b.mutations \in Nat
  OBVIOUS
<1>2. arrays'[id] = None /\ \A i \in Id : i # id => arrays'[i] = arrays[i]
  BY <1>1, DissolveInv
<1>3. Becoming(id, None)
  BY <1>1, <1>2, DissolveBecomes
<1>4. ret' = None
  BY DEF Dissolve
<1>5. arrays[id].items # None
  BY LiveFacts, NoneIsNoList
<1> QED
  BY <1>3, <1>4, <1>5, DoneStep

(* grow doubles the storage.                                               *)
LEMMA ReallocDoubled ==
    ASSUME ArraysInv, NEW id \in Live, kind # "structs"
    PROVE  Stage(arrays[id], Grow(arrays[id])) /\ Grow(arrays[id]).items = arrays[id].items
<1>1. PICK a : a = arrays[id]
  OBVIOUS
<1>2. Stage(a, a) /\ a.size \in Nat /\ Len(a.items) \in Nat /\ Len(a.items) <= a.size
  BY <1>1, LiveFacts
<1>3. PICK z \in Nat : z = a.size /\ z >= Len(a.items)
  BY <1>2
<1>4. PICK n \in Nat : n = 2 * z /\ n >= z
  OBVIOUS
<1>5. n >= Len(a.items)
  BY <1>2, <1>3, <1>4
<1>6. Stage(a, Realloc(a, n)) /\ Realloc(a, n).items = a.items
  BY <1>2, <1>5, StageRealloc
<1> QED
  BY <1>1, <1>3, <1>4, <1>6 DEF Grow

LEMMA ListsOK ==
    ASSUME ArraysInv, NEW id \in Live
    PROVE  /\ id \in Id /\ arrays[id].items \in Seq(Item) /\ Stage(arrays[id], arrays[id])
           /\ Len(arrays[id].items) \in Nat /\ Count(arrays[id]) = Len(arrays[id].items)
           /\ Clean(arrays[id])
           /\ RangesOf(id) \subseteq AnyRange
           /\ \A k \in Indices(id) : k \in Nat /\ Make(k, 1) \in AnyRange
                                     /\ k \in 0 .. Len(arrays[id].items) - 1
           /\ refs \in [Object -> Int]
<1>1. /\ id \in Id /\ arrays[id].items \in Seq(Item) /\ Stage(arrays[id], arrays[id])
      /\ Len(arrays[id].items) \in Nat /\ Count(arrays[id]) = Len(arrays[id].items)
      /\ Clean(arrays[id])
  BY LiveFacts DEF Count
<1>2. RangesOf(id) \subseteq AnyRange /\ \A k \in Indices(id) :
          k \in Nat /\ Make(k, 1) \in AnyRange /\ k \in 0 .. Len(arrays[id].items) - 1
  BY <1>1 DEF RangesOf, AnyRange, Indices, Make
<1> QED
  BY <1>1, <1>2 DEF ArraysInv

(* Arrays of pointers *)
LEMMA PointerRefines ==
    ASSUME ArraysInv, misfreed = {}, kind = "pointers", PointerNext
    PROVE  Abstract!Next
<1>1. Item = Values /\ NULL \in Item /\ kind # "structs" /\ Values \subseteq Item
  BY ItemFacts DEF ArraysInv
<1>2. Few \subseteq Seq(Item) /\ \A p \in Values : <<p>> \in Seq(Item)
  BY <1>1, FewFacts
<1>3. ASSUME NEW id \in Live, NEW b, Stage(arrays[id], b), Update(id, b), UNCHANGED refs
      PROVE  Becoming(id, b.items)
  <2>1. refs' \in [Object -> Int]
    BY <1>3, ListsOK
  <2> QED
    BY <1>3, <2>1, UpdateBecomes
<1>4. ASSUME NEW id \in Live, NEW b, Stage(arrays[id], b), Change(id, b)
      PROVE  Becoming(id, b.items) /\ ret' = None
  BY <1>3, <1>4 DEF Change
<1>5. ASSUME NEW id \in Id, NEW al \in Allocator[id], call' = <<"init", id>>,
             InitWithStaticPointer(id, al) \/ \E n \in Capacities : InitArray(id, n, al)
      PROVE  Abstract!Next
  <2>1. al \in AnyAllocator /\ UNCHANGED refs
    BY <1>5 DEF AnyAllocator, InitWithStaticPointer, InitArray
  <2>2. \E n \in Nat : Establish(id, Fresh(n), al)
               \/ (MayLend(id) /\ Establish(id, FreshStatic(id, LentCapacity), al))
    BY <1>5, Constants DEF InitWithStaticPointer, InitArray
  <2> QED
    BY <1>5, <2>1, <2>2, InitRefines
<1>6. ASSUME NEW id \in Live, DoneArray(id), call' = <<"done", id>> PROVE Abstract!Next
  <2>1. PICK b : b = Done(arrays[id])
    OBVIOUS
  <2>2. b.freed \ {NULL, Moved} = {arrays[id].storage} \ {NULL, arrays[id].initial} /\ b.mutations = 1
    BY <1>1, <2>1, ListsOK, DoneFacts
  <2>3. Dissolve(id, b) /\ refs' \in [Object -> Int]
    BY <1>6, <2>1, ListsOK DEF DoneArray
  <2> QED
    BY <1>6, <2>2, <2>3, DoneRefines
<1>7. ASSUME NEW id \in Live, NEW n \in 0 .. 2, GuaranteeRoom(id, n), call' = <<"guarantee", id>>
      PROVE  Abstract!Next
  <2>1. PICK b : b = Guarantee(arrays[id], n)
    OBVIOUS
  <2>4. Stage(arrays[id], arrays[id]) /\ n \in Nat
    BY ListsOK
  <2>2. Stage(arrays[id], b) /\ b.items = arrays[id].items
    BY <1>1, <2>1, <2>4, StageGuarantee
  <2>3. Becoming(id, arrays[id].items) /\ ret' = None
    BY <1>4, <1>7, <2>1, <2>2 DEF GuaranteeRoom
  <2> QED
    BY <1>7, <2>3, TidyStep
<1>8. ASSUME NEW id \in Live, GrowArray(id), call' = <<"grow", id>> PROVE Abstract!Next
  <2>1. PICK b : b = Grow(arrays[id])
    OBVIOUS
  <2>2. Stage(arrays[id], b) /\ b.items = arrays[id].items
    BY <1>1, <2>1, ReallocDoubled
  <2>3. Becoming(id, arrays[id].items) /\ ret' = None
    BY <1>4, <1>8, <2>1, <2>2 DEF GrowArray
  <2> QED
    BY <1>8, <2>3, TidyStep
<1>9. ASSUME NEW id \in Live, NEW ps \in Few, AdvanceArray(id, ps), call' = <<"advance", id, ps>>
      PROVE  Abstract!Next
  <2>1. PICK b : b = Advance(arrays[id], ps)
    OBVIOUS
  <2>2. Stage(arrays[id], b) /\ b.items = arrays[id].items \o ps
    BY <1>1, <1>2, <2>1, ListsOK, StageAdvance
  <2>3. Becoming(id, arrays[id].items \o ps) /\ ret' = None
    BY <1>4, <1>9, <2>1, <2>2 DEF AdvanceArray
  <2> QED
    BY <1>9, <2>3, ExtendStep
<1>10. ASSUME NEW id \in Live, NEW p \in Values, CompactArray(id, p), call' = <<"compact", id, p>>
       PROVE  Abstract!Next
  <2>1. PICK b, x, name : b = Compact(arrays[id], p) /\ x = arrays[id].items /\ name = "compact"
    OBVIOUS
  <2>2. Stage(arrays[id], b) /\ Abstract!Cut(x, Lost(x, {p}), b.items)
    BY <2>1, ListsOK, StageCompact
  <2>3. Becoming(id, b.items) /\ ret' = None
    BY <1>4, <1>10, <2>1, <2>2 DEF CompactArray
  <2>4. name \in {"remove", "compact"} /\ call' = <<name, id, p>>
    BY <1>10, <2>1
  <2> QED
    BY <2>1, <2>2, <2>3, <2>4, RemoveAllStep
<1>11. ASSUME NEW id \in Live, NEW p \in Values, AddGuaranteedPointer(id, p), call' = <<"add", id, p>>
       PROVE  Abstract!Next
  <2>1. PICK b : b = AddGuaranteed(arrays[id], p)
    OBVIOUS
  <2>2. Len(arrays[id].items) < arrays[id].size
    BY <1>11 DEF AddGuaranteedPointer, Count
  <2>3. Stage(arrays[id], b) /\ b.items = Append(arrays[id].items, p)
    BY <1>1, <2>1, <2>2, ListsOK, StageAddGuaranteed
  <2>4. Becoming(id, Append(arrays[id].items, p)) /\ ret' = None
    BY <1>4, <1>11, <2>1, <2>3 DEF AddGuaranteedPointer
  <2> QED
    BY <1>11, <2>4, AddStep
<1>12. ASSUME NEW id \in Live, NEW p \in Values, AddPointer(id, p), call' = <<"add", id, p>>
       PROVE  Abstract!Next
  <2>1. PICK b : b = Add(arrays[id], p)
    OBVIOUS
  <2>2. Stage(arrays[id], b) /\ b.items = Append(arrays[id].items, p)
    BY <1>1, <2>1, ListsOK, StageAdd
  <2>3. Becoming(id, Append(arrays[id].items, p)) /\ ret' = None
    BY <1>4, <1>12, <2>1, <2>2 DEF AddPointer
  <2> QED
    BY <1>12, <2>3, AddStep
<1>13. ASSUME NEW id \in Live, NEW other \in Live, NEW r \in RangesOf(other),
              AddArrayOfPointers(id, other, r), call' = <<"add_array", id, other, r>>
       PROVE  Abstract!Next
  <2>1. PICK a, o, b : a = arrays[id] /\ o = arrays[other] /\ b = AddPointerarray(a, o, r)
    OBVIOUS
  <2>2. r \in AnyRange /\ o.items \in Seq(Item) /\ Stage(a, a)
    BY <2>1, ListsOK
  <2>3. Stage(a, b) /\ Joined(b.items, a.items, o, r)
    BY <1>1, <2>1, <2>2, StageAddPointerarray
  <2>4. Becoming(id, b.items) /\ ret' = None
    BY <1>4, <1>13, <2>1, <2>3 DEF AddArrayOfPointers
  <2> QED
    BY <1>13, <2>1, <2>2, <2>3, <2>4, ConcatStep
<1>14. ASSUME NEW id \in Live, PopPointer(id), call' = <<"pop", id>> PROVE Abstract!Next
  <2>1. PICK b, x, name : b = Pop(arrays[id]) /\ x = arrays[id].items /\ name = "pop"
    OBVIOUS
  <2>2. Stage(arrays[id], b) /\ b.items = IF x = <<>> THEN <<>> ELSE SubSeq(x, 1, Len(x) - 1)
    BY <2>1, ListsOK, StagePop
  <2>3. Becoming(id, IF x = <<>> THEN <<>> ELSE SubSeq(x, 1, Len(x) - 1))
    BY <1>3, <1>14, <2>1, <2>2 DEF PopPointer
  <2>4. ret' = IF x = <<>> THEN NULL ELSE x[Len(x)]
    BY <1>14, <2>1 DEF PopPointer, GetLast, Count
  <2>5. call' = <<name, id>>
    BY <1>14, <2>1
  <2> QED
    BY <2>1, <2>3, <2>4, <2>5, PopStep
<1>15. ASSUME NEW id \in Live, RemoveLast(id), call' = <<"remove_last", id>> PROVE Abstract!Next
  <2>1. PICK b, x : b = Pop(arrays[id]) /\ x = arrays[id].items
    OBVIOUS
  <2>2. Stage(arrays[id], b) /\ b.items = IF x = <<>> THEN <<>> ELSE SubSeq(x, 1, Len(x) - 1)
    BY <2>1, ListsOK, StagePop
  <2>3. Becoming(id, IF x = <<>> THEN <<>> ELSE SubSeq(x, 1, Len(x) - 1)) /\ ret' = None
    BY <1>4, <1>15, <2>1, <2>2 DEF RemoveLast
  <2> QED
    BY <1>15, <2>1, <2>3, DropLastStep
<1>16. ASSUME NEW id \in Live, NEW r \in AnyRange, Change(id, RemoveInRange(arrays[id], r)),
              call' = <<"remove_in_range", id, r>>
       PROVE  Abstract!Next
  <2>1. PICK b, x, name : /\ b = RemoveInRange(arrays[id], r) /\ x = arrays[id].items
                          /\ name = "remove_in_range"
    OBVIOUS
  <2>2. Stage(arrays[id], b) /\ Abstract!Cut(x, InRange(x, r), b.items)
    BY <2>1, ListsOK, StageCutRange
  <2>3. Becoming(id, b.items) /\ ret' = None
    BY <1>4, <1>16, <2>1, <2>2
  <2>4. call' = <<name, id, r>>
    BY <1>16, <2>1
  <2> QED
    BY <2>1, <2>2, <2>3, <2>4, RemoveRangeStep
<1>17. ASSUME NEW id \in Live, NEW r \in RangesOf(id), RemovePointersInRange(id, r),
              call' = <<"remove_in_range", id, r>>
       PROVE  Abstract!Next
  BY <1>16, <1>17, ListsOK DEF RemovePointersInRange
<1>18. ASSUME NEW id \in Live, NEW i \in Indices(id), RemoveAtIndex(id, i),
              call' = <<"remove_in_range", id, Make(i, 1)>>
       PROVE  Abstract!Next
  <2>1. PICK r \in AnyRange : r = Make(i, 1)
    BY ListsOK
  <2> QED
    BY <1>16, <1>18, <2>1 DEF RemoveAtIndex
<1>19. ASSUME NEW id \in Live, NEW p \in Values, RemovePointer(id, p), call' = <<"remove", id, p>>
       PROVE  Abstract!Next
  <2>1. PICK b, x, name : b = Remove(arrays[id], p) /\ x = arrays[id].items /\ name = "remove"
    OBVIOUS
  <2>2. Stage(arrays[id], b) /\ Abstract!Cut(x, Lost(x, {p}), b.items)
    BY <2>1, ListsOK, StageRemove
  <2>3. Becoming(id, b.items) /\ ret' = None
    BY <1>4, <1>19, <2>1, <2>2 DEF RemovePointer
  <2>4. name \in {"remove", "compact"} /\ call' = <<name, id, p>>
    BY <1>19, <2>1
  <2> QED
    BY <2>1, <2>2, <2>3, <2>4, RemoveAllStep
<1>20. ASSUME NEW id \in Live, NEW i \in 0 .. Count(arrays[id]), NEW ps \in Seq(Item),
              Change(id, InsertInRange(arrays[id], i, ps)), call' = <<"insert", id, i, ps>>
       PROVE  Abstract!Next
  <2>1. PICK b, x : b = InsertInRange(arrays[id], i, ps) /\ x = arrays[id].items
    OBVIOUS
  <2>2. x \in Seq(Item) /\ i \in 0 .. Len(x)
    BY <2>1, ListsOK
  <2>3. Stage(arrays[id], b) /\ b.items = IF ps = <<>> THEN x ELSE With(x, i, ps)
    BY <1>1, <2>1, <2>2, ListsOK, StageInsert
  <2>4. b.items = With(x, i, ps)
    BY <2>2, <2>3, WithNothing
  <2>5. Becoming(id, With(arrays[id].items, i, ps)) /\ ret' = None
    BY <1>4, <1>20, <2>1, <2>3, <2>4
  <2> QED
    BY <1>20, <2>5, InsertStep
<1>21. ASSUME NEW id \in Live, NEW i \in 0 .. Count(arrays[id]), NEW ps \in Few,
              InsertPointersInRange(id, i, ps), call' = <<"insert", id, i, ps>>
       PROVE  Abstract!Next
  <2>1. ps \in Seq(Item)
    BY <1>2
  <2> QED
    BY <1>20, <1>21, <2>1 DEF InsertPointersInRange
<1>22. ASSUME NEW id \in Live, NEW i \in 0 .. Count(arrays[id]), NEW p \in Values,
              InsertPointer(id, i, p), call' = <<"insert", id, i, <<p>> >>
       PROVE  Abstract!Next
  <2>1. PICK ps \in Seq(Item) : ps = <<p>>
    BY <1>2
  <2> QED
    BY <1>20, <1>22, <2>1 DEF InsertPointer
<1>23. ASSUME NEW id \in Live, NEW p \in Values, RemoveUniquePointer(id, p),
              call' = <<"remove_unique", id, p>>
       PROVE  Abstract!Next
  <2>1. PICK b, x : b = RemoveUnique(arrays[id], p) /\ x = arrays[id].items
    OBVIOUS
  <2>2. Stage(arrays[id], b) /\ Abstract!Cut(x, LastLost(x, {p}), b.items)
    BY <2>1, ListsOK, StageRemoveUnique
  <2>3. Becoming(id, b.items)
    BY <1>3, <1>23, <2>1, <2>2 DEF RemoveUniquePointer
  <2>4. ret' = IF \E i \in DOMAIN x : x[i] = p THEN p ELSE NULL
    BY <1>23, <2>1 DEF RemoveUniquePointer
  <2> QED
    BY <1>23, <2>1, <2>2, <2>3, <2>4, RemoveOneStep
<1>24. ASSUME NEW id \in Live, QsortPointers(id), call' = <<"qsort", id>> PROVE Abstract!Next
  <2>1. PICK x \in Seq(Item) : x = arrays[id].items
    BY ListsOK
  <2>2. PICK t \in Sortings(x, Rank) : Change(id, Sorted(arrays[id], t))
    BY <1>24, <2>1 DEF QsortPointers
  <2>5. Stage(arrays[id], arrays[id]) /\ t \in Sortings(arrays[id].items, Rank)
    BY <2>1, ListsOK
  <2>3. Stage(arrays[id], Sorted(arrays[id], t)) /\ Sorted(arrays[id], t).items = t
    BY <2>5, StageSorted
  <2>4. Becoming(id, t) /\ ret' = None
    BY <1>4, <2>2, <2>3
  <2> QED
    BY <1>24, <2>1, <2>4, SortStep
<1>25. ASSUME NEW id \in Live, NEW i \in Indices(id), NEW p \in Values, SetPointer(id, i, p),
              call' = <<"set", id, i, p>>
       PROVE  Abstract!Next
  <2>1. PICK b, x, name : b = Set(arrays[id], i, p) /\ x = arrays[id].items /\ name = "set"
    OBVIOUS
  <2>2. x \in Seq(Item) /\ i \in Nat /\ i \in 0 .. Len(x) - 1 /\ i < Len(x)
    BY <2>1, ListsOK
  <2>3. Stage(arrays[id], b) /\ b.items = [x EXCEPT ![i + 1] = p]
    BY <1>1, <2>1, <2>2, ListsOK, StageSet
  <2>4. PutIn(x, i, p) = b.items
    BY <2>2, <2>3, PutInFacts
  <2>5. Becoming(id, PutIn(x, i, p))
    BY <1>3, <1>25, <2>1, <2>3, <2>4 DEF SetPointer
  <2>6. ret' = x[i + 1] /\ call' = <<name, id, i, p>>
    BY <1>25, <2>1 DEF SetPointer, Get
  <2> QED
    BY <2>1, <2>5, <2>6, PutStep
<1>26. ASSUME NEW id \in Live, NEW i \in 0 .. MaxItems, NEW p \in Values,
              SetZeroingPointer(id, i, p), call' = <<"set_zeroing", id, i, p>>
       PROVE  Abstract!Next
  <2>1. PICK b, x, m : b = SetZeroing(arrays[id], i, p) /\ x = arrays[id].items /\ m = i + 1
    OBVIOUS
  <2>2. i \in Nat
    BY Constants
  <2>3. Stage(arrays[id], b) /\ b.items = [Abstract!Padded(x, m) EXCEPT ![m] = p]
    BY <1>1, <2>1, <2>2, ListsOK, StageSetZeroing
  <2>4. Becoming(id, [Abstract!Padded(x, m) EXCEPT ![m] = p]) /\ ret' = None
    BY <1>4, <1>26, <2>1, <2>3 DEF SetZeroingPointer
  <2> QED
    BY <1>26, <2>1, <2>4, PutZeroingStep
<1>27. ASSUME NEW id \in Live, NEW i \in 0 .. MaxItems, GetZeroingAddressOf(id, i),
              call' = <<"get_zeroing_address", id, i>>
       PROVE  Abstract!Next
  <2>1. PICK b, x, m : b = GetZeroingAddress(arrays[id], i) /\ x = arrays[id].items /\ m = i + 1
    OBVIOUS
  <2>2. i \in Nat /\ Stage(arrays[id], arrays[id])
    BY Constants, ListsOK
  <2>3. Stage(arrays[id], b) /\ b.items = Abstract!Padded(x, m)
    <3>1. PICK a : a = arrays[id]
      OBVIOUS
    <3>2. Stage(a, a) /\ m = i + 1 /\ i \in Nat /\ NULL \in Item /\ kind # "structs"
      BY <1>1, <2>1, <2>2, <3>1
    <3>3. /\ Stage(a, GetZeroingAddress(a, i))
          /\ GetZeroingAddress(a, i).items = Abstract!Padded(a.items, m)
      BY <3>2, StageGetZeroingAddress
    <3> QED
      BY <2>1, <3>1, <3>3
  <2>4. Becoming(id, Abstract!Padded(x, m))
    BY <1>3, <1>27, <2>1, <2>3 DEF GetZeroingAddressOf
  <2>5. ret' = Abstract!Padded(x, m)[m]
    <3>1. PICK n \in Nat : n = Len(x) /\ DOMAIN x = 1 .. n
      BY <2>1, ListsOK, LenProperties
    <3>2. ret' = IF i < n THEN x[m] ELSE NULL
      BY <1>27, <2>1, <3>1, ListsOK DEF GetZeroingAddressOf, GetZeroing, Get
    <3>3. m \in 1 .. (IF m > n THEN m ELSE n) /\ (m \in DOMAIN x <=> i < n)
      BY <2>1, <2>2, <3>1
    <3> QED
      BY <3>1, <3>2, <3>3 DEF Abstract!Padded
  <2> QED
    BY <1>27, <2>1, <2>4, <2>5, GetZeroingStep
<1>28. ASSUME NEW id \in Live, ResetPointers(id), call' = <<"reset", id>> PROVE Abstract!Next
  <2>1. Stage(arrays[id], Reset(arrays[id])) /\ Reset(arrays[id]).items = <<>>
    BY ListsOK, StageReset
  <2>2. Becoming(id, <<>>) /\ ret' = None
    BY <1>4, <1>28, <2>1 DEF ResetPointers
  <2> QED
    BY <1>28, <2>2, ClearStep
<1>29. ASSUME NEW id \in Live, ExtractPointers(id), call' = <<"extract_pointers", id>>
       PROVE  Abstract!Next
  <2>1. PICK x, name : x = arrays[id].items /\ name = "extract_pointers"
    OBVIOUS
  <2>2. Extract(id, Extracted(arrays[id])) /\ refs' \in [Object -> Int]
    BY <1>29, ListsOK DEF ExtractPointers
  <2>3. Becoming(id, <<>>)
    BY <2>2, ExtractBecomes
  <2>4. ret' = x /\ call' = <<name, id>>
    BY <1>29, <2>1 DEF ExtractPointers
  <2> QED
    BY <2>1, <2>3, <2>4, ExtractStep
<1>30. ASSUME NEW id \in Live, NEW victim \in Live, AbsorbArray(id, victim),
              call' = <<"absorb", id, victim>>
       PROVE  Abstract!Next
  BY <1>30, AbsorbStep
<1>31. ASSUME NEW id \in Live, \/ OpenEnumerator(id) /\ call' = <<"enumerate", id>>
                               \/ OpenReverseEnumerator(id) /\ call' = <<"reverse_enumerate", id>>
       PROVE  Abstract!Next
  BY <1>31, OpenStep DEF OpenEnumerator, OpenReverseEnumerator
<1>32. ASSUME rover # None, PointerEnumeratorNext \/ PointerReverseEnumeratorNext, call' = <<"next">>
       PROVE  Abstract!Next
  BY <1>32, NextStep DEF PointerEnumeratorNext, PointerReverseEnumeratorNext
<1>33. CASE \E id \in Live : \E other \in Live : \E r \in RangesOf(other) :
          AddArrayOfPointers(id, other, r) /\ call' = <<"add_array", id, other, r>>
  BY <1>13, <1>33
<1>34. CASE \E id \in Live :
          \/ \E i \in 0 .. Count(arrays[id]), ps \in Few :
                InsertPointersInRange(id, i, ps) /\ call' = <<"insert", id, i, ps>>
          \/ \E i \in 0 .. Count(arrays[id]), p \in Values :
                InsertPointer(id, i, p) /\ call' = <<"insert", id, i, <<p>> >>
          \/ \E i \in Indices(id), p \in Values :
                SetPointer(id, i, p) /\ call' = <<"set", id, i, p>>
          \/ \E i \in 0 .. MaxItems, p \in Values :
                SetZeroingPointer(id, i, p) /\ call' = <<"set_zeroing", id, i, p>>
          \/ \E i \in 0 .. MaxItems :
                GetZeroingAddressOf(id, i) /\ call' = <<"get_zeroing_address", id, i>>
  BY <1>21, <1>22, <1>25, <1>26, <1>27, <1>34
<1>35. CASE \E id \in Live :
          \/ \E r \in RangesOf(id) :
                RemovePointersInRange(id, r) /\ call' = <<"remove_in_range", id, r>>
          \/ \E i \in Indices(id) :
                RemoveAtIndex(id, i) /\ call' = <<"remove_in_range", id, Make(i, 1)>>
          \/ \E n \in 0 .. 2 : GuaranteeRoom(id, n) /\ call' = <<"guarantee", id>>
          \/ \E ps \in Few : AdvanceArray(id, ps) /\ call' = <<"advance", id, ps>>
          \/ \E victim \in Live : AbsorbArray(id, victim) /\ call' = <<"absorb", id, victim>>
  BY <1>7, <1>9, <1>17, <1>18, <1>30, <1>35
<1>36. CASE \E id \in Live : \E p \in Values :
          \/ CompactArray(id, p) /\ call' = <<"compact", id, p>>
          \/ AddGuaranteedPointer(id, p) /\ call' = <<"add", id, p>>
          \/ AddPointer(id, p) /\ call' = <<"add", id, p>>
          \/ RemovePointer(id, p) /\ call' = <<"remove", id, p>>
          \/ RemoveUniquePointer(id, p) /\ call' = <<"remove_unique", id, p>>
  BY <1>10, <1>11, <1>12, <1>19, <1>23, <1>36
<1>37. CASE \E id \in Live :
          \/ DoneArray(id) /\ call' = <<"done", id>>
          \/ GrowArray(id) /\ call' = <<"grow", id>>
          \/ PopPointer(id) /\ call' = <<"pop", id>>
          \/ RemoveLast(id) /\ call' = <<"remove_last", id>>
          \/ QsortPointers(id) /\ call' = <<"qsort", id>>
          \/ ResetPointers(id) /\ call' = <<"reset", id>>
          \/ ExtractPointers(id) /\ call' = <<"extract_pointers", id>>
          \/ OpenEnumerator(id) /\ call' = <<"enumerate", id>>
          \/ OpenReverseEnumerator(id) /\ call' = <<"reverse_enumerate", id>>
  BY <1>6, <1>8, <1>14, <1>15, <1>24, <1>28, <1>29, <1>31, <1>37
<1> QED
  BY <1>5, <1>32, <1>33, <1>34, <1>35, <1>36, <1>37 DEF PointerNext

(* A copy of an array of structs *)
LEMMA CopyStructsRefines ==
    ASSUME ArraysInv, misfreed = {}, kind = "structs", NEW id \in Id, NEW al \in AnyAllocator,
           NEW other \in Live, CopyStructArray(id, other, al), call' = <<"copy", id, other>>
    PROVE  Abstract!Next
<1>1. PICK a, o, b, r : /\ a = Fresh(0) /\ o = arrays[other] /\ r = Make(0, All)
                        /\ b = AddStructarray(a, o, r)
  OBVIOUS
<1>2. refs' \in [Object -> Int] /\ Establish(id, b, al)
  BY <1>1 DEF ArraysInv, CopyStructArray
<1>3. Clean(a) /\ a.storage = NULL /\ a.initial = NULL /\ a.items = <<>>
  BY <1>1, FreshFacts, Constants DEF Clean, Fresh
<1>4. Stage(a, a) /\ r \in AnyRange /\ o.items \in Seq(Item)
  BY <1>1, <1>3, StageSame, LiveFacts DEF AnyRange, Make
<1>5. Stage(a, b) /\ Joined(b.items, a.items, o, r)
  BY <1>1, <1>4, StageAddStructarray
<1>6. b \in Raw /\ Fits2(b)
  BY <1>5 DEF Stage
<1>7. /\ b.storage \in {NULL, Moved} /\ b.initial = NULL /\ (b.storage = NULL => b.size = 0)
      /\ b.freed \subseteq {NULL, Moved}
  <2>1. CASE Stays(a, b)
    BY <1>3, <2>1 DEF Stays, Clean
  <2>2. CASE Moves(a, b)
    BY <1>3, <2>2 DEF Moves
  <2> QED
    BY <1>5, <2>1, <2>2 DEF Stage
<1>8. b.items = o.items
  <2>6. PICK s \in Seq(Item) : s = o.items
    BY <1>4
  <2>1. PICK n \in Nat : s = o.items /\ n = Len(s)
    BY <2>6
  <2>2. Validated(r, n) = r \/ Validated(r, n) = Make(0, n)
    BY <1>1 DEF Validated, Make, All
  <2>3. Validated(r, n) = Make(0, n)
    BY <1>1, <2>1 DEF Validated, Make, All
  <2>4. Slice(s, Make(0, n)) = s
    <3>1. s \in Seq(Item) /\ n = Len(s) /\ 0 + 1 = 1 /\ 0 + n = n
      BY <1>4, <2>1
    <3>2. SubSeq(s, 1, n) = s
      BY <3>1, SubSeqFull
    <3> QED
      BY <3>1, <3>2 DEF Slice, Make
  <2>5. <<>> \o s = s
    BY <1>4, <2>1, ConcatEmptySeq
  <2> QED
    BY <1>3, <1>5, <2>1, <2>3, <2>4, <2>5 DEF Joined
<1>9. /\ arrays'[id] # None /\ arrays'[id].items = b.items
      /\ \A i \in Id : i # id => arrays'[i] = arrays[i]
  BY <1>2, <1>6, <1>7, EstablishInv
<1>10. Becoming(id, arrays[other].items) /\ arrays[id] = None
  BY <1>1, <1>2, <1>8, <1>9, EstablishBecomes
<1>11. ret' = None
  BY <1>2 DEF Establish
<1> QED
  BY <1>10, <1>11, CopyStep

(* Arrays of structs *)
LEMMA StructRefines ==
    ASSUME ArraysInv, misfreed = {}, kind = "structs", Honest(rover), StructNext
    PROVE  Abstract!Next
<1>1. Item = Values /\ NULL \in Item /\ Values \subseteq Item
  BY ItemFacts DEF ArraysInv
<1>2. Few \subseteq Seq(Item) /\ \A p \in Values : <<p>> \in Seq(Item)
  BY <1>1, FewFacts
<1>3. ASSUME NEW id \in Live, NEW b, Stage(arrays[id], b), Update(id, b), UNCHANGED refs
      PROVE  Becoming(id, b.items)
  <2>1. refs' \in [Object -> Int]
    BY <1>3, ListsOK
  <2> QED
    BY <1>3, <2>1, UpdateBecomes
<1>4. ASSUME NEW id \in Live, NEW b, Stage(arrays[id], b), ChangeStructs(id, b)
      PROVE  Becoming(id, b.items) /\ ret' = None
  BY <1>3, <1>4 DEF ChangeStructs
<1>5. ASSUME NEW id \in Id, NEW al \in Allocator[id], NEW other \in Live,
             CopyStructArray(id, other, al), call' = <<"copy", id, other>>
      PROVE  Abstract!Next
  BY <1>5, CopyStructsRefines DEF AnyAllocator
<1>6. ASSUME NEW id \in Id, NEW al \in Allocator[id], call' = <<"init", id>>,
             InitStructsWithStaticStorage(id, al)
      PROVE  Abstract!Next
  BY <1>6, InitRefines DEF AnyAllocator, InitStructsWithStaticStorage, FreshStaticStructs
<1>7. ASSUME NEW id \in Id, NEW al \in Allocator[id], call' = <<"init", id>>,
             NEW n \in Capacities, InitStructs(id, n, al)
      PROVE  Abstract!Next
  <2>1. PICK b : b = FreshStructs(n)
    OBVIOUS
  <2>2. /\ b \in Raw /\ Fits2(b) /\ b.freed \subseteq {NULL, Moved} /\ b.items = <<>>
        /\ b.storage \in {NULL, Moved} /\ b.initial = NULL /\ (b.storage = NULL => b.size = 0)
    BY <2>1, FreshStructsFacts, Constants
  <2>3. al \in AnyAllocator /\ Establish(id, b, al) /\ refs' \in [Object -> Int]
    BY <1>7, <2>1 DEF AnyAllocator, InitStructs, ArraysInv
  <2>4. /\ arrays'[id] # None /\ arrays'[id].items = b.items
        /\ \A i \in Id : i # id => arrays'[i] = arrays[i]
    BY <2>2, <2>3, EstablishInv
  <2>5. Becoming(id, b.items) /\ arrays[id] = None
    BY <2>3, <2>4, EstablishBecomes
  <2>6. ret' = None
    BY <2>3 DEF Establish
  <2> QED
    BY <1>7, <2>2, <2>5, <2>6, CreateStep
<1>8. ASSUME NEW id \in Live, DoneStructArray(id), call' = <<"done", id>> PROVE Abstract!Next
  <2>1. PICK b : b = DoneStructs(arrays[id])
    OBVIOUS
  <2>2. b.freed \ {NULL, Moved} = {arrays[id].storage} \ {NULL, arrays[id].initial} /\ b.mutations = 1
    BY <1>1, <2>1, ListsOK, DoneFacts
  <2>3. Dissolve(id, b) /\ refs' \in [Object -> Int]
    BY <1>8, <2>1, ListsOK DEF DoneStructArray
  <2> QED
    BY <1>8, <2>2, <2>3, DoneRefines
<1>9. ASSUME NEW id \in Live, ResetStructArray(id), call' = <<"reset", id>> PROVE Abstract!Next
  <2>1. Stage(arrays[id], ResetStructs(arrays[id])) /\ ResetStructs(arrays[id]).items = <<>>
    BY ListsOK, StageReset DEF ResetStructs
  <2>2. Becoming(id, <<>>) /\ ret' = None
    BY <1>4, <1>9, <2>1 DEF ResetStructArray
  <2> QED
    BY <1>9, <2>2, ClearStep
<1>10. ASSUME NEW id \in Live, NEW b, NEW p, Stage(arrays[id], b), ChangeStructs(id, b),
              b.items = Append(arrays[id].items, p), call' = <<"add", id, p>>
       PROVE  Abstract!Next
  <2>1. Becoming(id, Append(arrays[id].items, p)) /\ ret' = None
    BY <1>4, <1>10
  <2> QED
    BY <1>10, <2>1, AddStep
<1>11. ASSUME NEW id \in Live, NEW x \in Values, AddStructTo(id, x), call' = <<"add", id, x>>
       PROVE  Abstract!Next
  <2>1. Stage(arrays[id], AddStruct(arrays[id], x))
        /\ AddStruct(arrays[id], x).items = Append(arrays[id].items, x)
    BY <1>1, ListsOK, StageAddStruct
  <2> QED
    BY <1>10, <1>11, <2>1 DEF AddStructTo
<1>12. ASSUME NEW id \in Live, NEW x \in Values, AddStructGuaranteed(id, x), call' = <<"add", id, x>>
       PROVE  Abstract!Next
  <2>1. Len(arrays[id].items) < arrays[id].size
    BY <1>12 DEF AddStructGuaranteed, Count
  <2>2. Stage(arrays[id], AddGuaranteedStruct(arrays[id], x))
        /\ AddGuaranteedStruct(arrays[id], x).items = Append(arrays[id].items, x)
    BY <1>1, <2>1, ListsOK, StageAddGuaranteed DEF AddGuaranteedStruct
  <2> QED
    BY <1>10, <1>12, <2>2 DEF AddStructGuaranteed
<1>13. ASSUME NEW id \in Live, NEW x \in Values, ReserveStruct(id, x), call' = <<"add", id, x>>
       PROVE  Abstract!Next
  <2>5. PICK ps \in Seq(Item) : ps = <<x>>
    BY <1>2
  <2>1. PICK a, s : a = arrays[id] /\ s = a.items /\ ps = <<x>>
    BY <2>5
  <2>2. Stage(a, a) /\ s \in Seq(Item) /\ x \in Item
    BY <1>1, <2>1, ListsOK
  <2>3. Stage(a, AdvanceStructs(a, ps)) /\ AdvanceStructs(a, ps).items = s \o ps
    BY <2>1, <2>2, StageAdvanceStructs
  <2>4. s \o ps = Append(s, x)
    BY <2>1, <2>2, AppendConcat
  <2> QED
    BY <1>10, <1>13, <2>1, <2>3, <2>4 DEF ReserveStruct
<1>14. ASSUME NEW id \in Live, PopStructFrom(id), call' = <<"pop_struct", id>> PROVE Abstract!Next
  <2>1. PICK b, x, name : b = PopStruct(arrays[id]) /\ x = arrays[id].items /\ name = "pop_struct"
    OBVIOUS
  <2>2. Stage(arrays[id], b) /\ b.items = IF x = <<>> THEN <<>> ELSE SubSeq(x, 1, Len(x) - 1)
    BY <2>1, ListsOK, StagePop DEF PopStruct
  <2>3. Becoming(id, IF x = <<>> THEN <<>> ELSE SubSeq(x, 1, Len(x) - 1))
    BY <1>3, <1>14, <2>1, <2>2 DEF PopStructFrom
  <2>4. ret' = IF x = <<>> THEN None ELSE x[Len(x)]
    BY <1>14, <2>1 DEF PopStructFrom, GetLastStruct, GetLast, Count
  <2>5. call' = <<name, id>>
    BY <1>14, <2>1
  <2> QED
    BY <2>1, <2>3, <2>4, <2>5, PopStep
<1>15. ASSUME NEW id \in Live, RemoveLastStruct(id), call' = <<"remove_last", id>>
       PROVE  Abstract!Next
  <2>1. PICK b, x : b = PopStruct(arrays[id]) /\ x = arrays[id].items
    OBVIOUS
  <2>2. Stage(arrays[id], b) /\ b.items = IF x = <<>> THEN <<>> ELSE SubSeq(x, 1, Len(x) - 1)
    BY <2>1, ListsOK, StagePop DEF PopStruct
  <2>3. Becoming(id, IF x = <<>> THEN <<>> ELSE SubSeq(x, 1, Len(x) - 1)) /\ ret' = None
    BY <1>4, <1>15, <2>1, <2>2 DEF RemoveLastStruct
  <2> QED
    BY <1>15, <2>1, <2>3, DropLastStep
<1>16. ASSUME NEW id \in Live, NEW i \in 0 .. MaxItems, NEW p \in Values, SetStructAt(id, i, p),
              call' = <<"set_only", id, i, p>>
       PROVE  Abstract!Next
  <2>1. PICK b, x, name : b = SetStruct(arrays[id], i, p) /\ x = arrays[id].items /\ name = "set_only"
    OBVIOUS
  <2>2. i \in Nat
    BY Constants
  <2>3. Stage(arrays[id], b) /\ b.items = PutIn(x, i, p)
    <3>1. PICK a : a = arrays[id]
      OBVIOUS
    <3>2. Stage(a, a) /\ p \in Item
      BY <1>1, <3>1, ListsOK
    <3>3. Stage(a, SetStruct(a, i, p)) /\ SetStruct(a, i, p).items = PutIn(a.items, i, p)
      BY <2>2, <3>2, StageSetStruct
    <3> QED
      BY <2>1, <3>1, <3>3
  <2>4. Becoming(id, PutIn(x, i, p)) /\ ret' = None
    BY <1>4, <1>16, <2>1, <2>3 DEF SetStructAt
  <2>5. call' = <<name, id, i, p>>
    BY <1>16, <2>1
  <2> QED
    BY <2>1, <2>4, <2>5, PutStep
<1>17. ASSUME NEW id \in Live, NEW b, Stage(arrays[id], b), b.items = arrays[id].items,
              ChangeStructs(id, b), NEW name \in {"guarantee", "grow", "size_to_fit"},
              call' = <<name, id>>
       PROVE  Abstract!Next
  <2>1. Becoming(id, arrays[id].items) /\ ret' = None
    BY <1>4, <1>17
  <2> QED
    BY <1>17, <2>1, TidyStep
<1>18. ASSUME NEW id \in Live, NEW n \in 0 .. 2, GuaranteeStructRoom(id, n), call' = <<"guarantee", id>>
       PROVE  Abstract!Next
  <2>1. Stage(arrays[id], arrays[id]) /\ n \in Nat
    BY ListsOK
  <2>2. Stage(arrays[id], GuaranteeStructs(arrays[id], n))
        /\ GuaranteeStructs(arrays[id], n).items = arrays[id].items
    BY <2>1, StageGuaranteeStructs
  <2> QED
    BY <1>17, <1>18, <2>2 DEF GuaranteeStructRoom
<1>19. ASSUME NEW id \in Live, GrowStructArray(id), call' = <<"grow", id>> PROVE Abstract!Next
  <2>1. Stage(arrays[id], GrowStructs(arrays[id])) /\ GrowStructs(arrays[id]).items = arrays[id].items
    BY ListsOK, StageGrowStructs
  <2> QED
    BY <1>17, <1>19, <2>1 DEF GrowStructArray
<1>20. ASSUME NEW id \in Live, SizeStructsToFit(id), call' = <<"size_to_fit", id>> PROVE Abstract!Next
  <2>1. Stage(arrays[id], SizeToFit(arrays[id])) /\ SizeToFit(arrays[id]).items = arrays[id].items
    BY ListsOK, StageSizeToFit
  <2> QED
    BY <1>17, <1>20, <2>1 DEF SizeStructsToFit
<1>21. ASSUME NEW id \in Live, NEW ps \in Few, AdvanceStructArray(id, ps),
              call' = <<"advance", id, ps>>
       PROVE  Abstract!Next
  <2>1. PICK b : b = AdvanceStructs(arrays[id], ps)
    OBVIOUS
  <2>2. Stage(arrays[id], b) /\ b.items = arrays[id].items \o ps
    BY <1>2, <2>1, ListsOK, StageAdvanceStructs
  <2>3. Becoming(id, arrays[id].items \o ps) /\ ret' = None
    BY <1>4, <1>21, <2>1, <2>2 DEF AdvanceStructArray
  <2> QED
    BY <1>21, <2>3, ExtendStep
<1>22. ASSUME NEW id \in Live, NEW other \in Live, NEW r \in RangesOf(other),
              AddArrayOfStructs(id, other, r), call' = <<"add_array", id, other, r>>
       PROVE  Abstract!Next
  <2>1. PICK a, o, b : a = arrays[id] /\ o = arrays[other] /\ b = AddStructarray(a, o, r)
    OBVIOUS
  <2>2. r \in AnyRange /\ o.items \in Seq(Item) /\ Stage(a, a)
    BY <2>1, ListsOK
  <2>3. Stage(a, b) /\ Joined(b.items, a.items, o, r)
    BY <1>1, <2>1, <2>2, StageAddStructarray
  <2>4. Becoming(id, b.items) /\ ret' = None
    BY <1>4, <1>22, <2>1, <2>3 DEF AddArrayOfStructs
  <2> QED
    BY <1>22, <2>1, <2>2, <2>3, <2>4, ConcatStep
<1>23. ASSUME NEW id \in Live, NEW n \in 0 .. MaxItems, NEW ps \in Few, SetCountOf(id, n, ps),
              call' = <<"set_count", id, n, ps>>
       PROVE  Abstract!Next
  <2>1. PICK b, x : b = SetCount(arrays[id], n, ps) /\ x = arrays[id].items
    OBVIOUS
  <2>2. n \in Nat /\ Stage(arrays[id], arrays[id]) /\ ps \in Seq(Item)
    BY <1>2, Constants, ListsOK
  <2>3. Fills(arrays[id].items, n, ps)
    BY <1>23 DEF Fills, SetCountOf, Count
  <2>4. Stage(arrays[id], b) /\ b.items = AtMost(x, n) \o ps
    BY <2>1, <2>2, <2>3, StageSetCount
  <2>5. Becoming(id, AtMost(x, n) \o ps) /\ ret' = None
    BY <1>4, <1>23, <2>1, <2>4 DEF SetCountOf
  <2> QED
    BY <1>23, <2>1, <2>5, SetCountStep
<1>24. ASSUME NEW id \in Live, NEW n \in 0 .. MaxItems, ZeroToCountOf(id, n),
              call' = <<"zero_to_count", id, n>>
       PROVE  Abstract!Next
  <2>1. PICK b, x : b = ZeroToCount(arrays[id], n) /\ x = arrays[id].items
    OBVIOUS
  <2>2. n \in Nat /\ Stage(arrays[id], arrays[id])
    BY Constants, ListsOK
  <2>3. Stage(arrays[id], b) /\ b.items = AtMost(x, n) \o [k \in 1 .. n - Len(x) |-> NULL]
    BY <1>1, <2>1, <2>2, StageZeroToCount
  <2>4. Becoming(id, AtMost(x, n) \o [k \in 1 .. n - Len(x) |-> NULL]) /\ ret' = None
    BY <1>4, <1>24, <2>1, <2>3 DEF ZeroToCountOf
  <2> QED
    BY <1>24, <2>1, <2>4, ZeroToCountStep
<1>25. ASSUME NEW id \in Live, QsortStructs(id), call' = <<"qsort", id>> PROVE Abstract!Next
  <2>1. PICK x \in Seq(Item) : x = arrays[id].items
    BY ListsOK
  <2>2. PICK t \in Sortings(x, Rank) : ChangeStructs(id, Sorted(arrays[id], t))
    BY <1>25, <2>1 DEF QsortStructs
  <2>4. Stage(arrays[id], Sorted(arrays[id], t)) /\ Sorted(arrays[id], t).items = t
    <3>1. PICK a, rank : a = arrays[id] /\ rank = Rank
      OBVIOUS
    <3>2. Stage(a, a) /\ t \in Sortings(a.items, rank)
      BY <2>1, <3>1, ListsOK
    <3>3. Stage(a, Sorted(a, t)) /\ Sorted(a, t).items = t
      BY <3>2, StageSorted
    <3> QED
      BY <3>1, <3>3
  <2>5. Becoming(id, t) /\ ret' = None
    BY <1>4, <2>2, <2>4
  <2> QED
    BY <1>25, <2>1, <2>5, SortStep
<1>26. ASSUME NEW id \in Live, NEW r \in AnyRange,
              ChangeStructs(id, RemoveStructsInRange(arrays[id], r)),
              call' = <<"remove_in_range", id, r>>
       PROVE  Abstract!Next
  <2>1. PICK b, x, name : /\ b = RemoveStructsInRange(arrays[id], r) /\ x = arrays[id].items
                          /\ name = "remove_in_range"
    OBVIOUS
  <2>2. Stage(arrays[id], b) /\ Abstract!Cut(x, InRange(x, r), b.items)
    BY <2>1, ListsOK, StageCutRange DEF RemoveStructsInRange
  <2>3. Becoming(id, b.items) /\ ret' = None
    BY <1>4, <1>26, <2>1, <2>2
  <2>4. call' = <<name, id, r>>
    BY <1>26, <2>1
  <2> QED
    BY <2>1, <2>2, <2>3, <2>4, RemoveRangeStep
<1>27. ASSUME NEW id \in Live, NEW r \in RangesOf(id), RemoveStructs(id, r),
              call' = <<"remove_in_range", id, r>>
       PROVE  Abstract!Next
  BY <1>26, <1>27, ListsOK DEF RemoveStructs
<1>28. ASSUME NEW id \in Live, NEW i \in Indices(id), RemoveStructAtIndex(id, i),
              call' = <<"remove_in_range", id, Make(i, 1)>>
       PROVE  Abstract!Next
  <2>1. PICK r \in AnyRange : r = Make(i, 1)
    BY ListsOK
  <2> QED
    BY <1>26, <1>28, <2>1 DEF RemoveStructAtIndex
<1>29. ASSUME NEW id \in Live, NEW i \in 0 .. Count(arrays[id]), NEW ps \in Few,
              InsertStructs(id, i, ps), call' = <<"insert", id, i, ps>>
       PROVE  Abstract!Next
  <2>1. PICK b, x : b = InsertStructsInRange(arrays[id], i, ps) /\ x = arrays[id].items
    OBVIOUS
  <2>2. x \in Seq(Item) /\ i \in 0 .. Len(x) /\ ps \in Seq(Item)
    BY <1>2, <2>1, ListsOK
  <2>3. Stage(arrays[id], b) /\ b.items = IF ps = <<>> THEN x ELSE With(x, i, ps)
    BY <1>1, <2>1, <2>2, ListsOK, StageInsertStructs
  <2>4. b.items = With(x, i, ps)
    BY <2>2, <2>3, WithNothing
  <2>5. Becoming(id, With(arrays[id].items, i, ps)) /\ ret' = None
    BY <1>4, <1>29, <2>1, <2>3, <2>4 DEF InsertStructs
  <2> QED
    BY <1>29, <2>5, InsertStep
<1>30. ASSUME NEW id \in Live, ExtractStructs(id), call' = <<"extract_data", id>>
       PROVE  Abstract!Next
  <2>1. PICK x, name : x = arrays[id].items /\ name = "extract_data"
    OBVIOUS
  <2>2. Extract(id, Extracted(arrays[id])) /\ refs' \in [Object -> Int]
    BY <1>30, ListsOK DEF ExtractStructs, ExtractedStructs
  <2>3. Becoming(id, <<>>)
    BY <2>2, ExtractBecomes
  <2>4. \E n \in 0 .. Len(x) : ret' = SubSeq(x, 1, n)
    <3>1. PICK z \in Nat : z = arrays[id].size
      BY LiveFacts
    <3>2. PICK w \in Nat : w = z \div SizeofStruct
      BY StructArrayAssumption
    <3>3. PICK c \in Nat : c = Len(x)
      BY <2>1, ListsOK
    <3>4. PICK n : n = IF w < c THEN w ELSE c
      OBVIOUS
    <3>5. n \in 0 .. c
      BY <3>4
    <3>6. ret' = SubSeq(x, 1, n)
      BY <1>30, <2>1, <3>1, <3>2, <3>3, <3>4 DEF ExtractStructs, ExtractedData, Count
    <3> QED
      BY <3>3, <3>5, <3>6
  <2>5. call' = <<name, id>>
    BY <1>30, <2>1
  <2> QED
    BY <2>1, <2>3, <2>4, <2>5, ExtractStep
<1>31. ASSUME NEW id \in Live,
              \/ OpenStructEnumerator(id) /\ call' = <<"enumerate", id>>
              \/ OpenStructReverseEnumerator(id) /\ call' = <<"reverse_enumerate", id>>
       PROVE  Abstract!Next
  BY <1>31, OpenStep DEF OpenStructEnumerator, OpenStructReverseEnumerator
<1>32. ASSUME rover # None, StructEnumeratorNext \/ StructReverseEnumeratorNext, call' = <<"next">>
       PROVE  Abstract!Next
  BY <1>32, NextStep DEF StructEnumeratorNext, StructReverseEnumeratorNext, Honest
<1>33. CASE \E id \in Id : \E al \in Allocator[id] :
          \/ /\ call' = <<"init", id>>
             /\ \/ InitStructsWithStaticStorage(id, al)
                \/ \E n \in Capacities : InitStructs(id, n, al)
          \/ \E other \in Live :
                CopyStructArray(id, other, al) /\ call' = <<"copy", id, other>>
  BY <1>5, <1>6, <1>7, <1>33
<1>34. CASE \E id \in Live : \E other \in Live : \E r \in RangesOf(other) :
          AddArrayOfStructs(id, other, r) /\ call' = <<"add_array", id, other, r>>
  BY <1>22, <1>34
<1>35. CASE \E id \in Live :
          \/ \E i \in 0 .. MaxItems, x \in Values :
                SetStructAt(id, i, x) /\ call' = <<"set_only", id, i, x>>
          \/ \E n \in 0 .. MaxItems, xs \in Few :
                SetCountOf(id, n, xs) /\ call' = <<"set_count", id, n, xs>>
          \/ \E n \in 0 .. MaxItems :
                ZeroToCountOf(id, n) /\ call' = <<"zero_to_count", id, n>>
          \/ \E i \in 0 .. Count(arrays[id]), xs \in Few :
                InsertStructs(id, i, xs) /\ call' = <<"insert", id, i, xs>>
  BY <1>16, <1>23, <1>24, <1>29, <1>35
<1>36. CASE \E id \in Live :
          \/ \E x \in Values : \/ AddStructTo(id, x) /\ call' = <<"add", id, x>>
                               \/ AddStructGuaranteed(id, x) /\ call' = <<"add", id, x>>
                               \/ ReserveStruct(id, x) /\ call' = <<"add", id, x>>
          \/ \E n \in 0 .. 2 : GuaranteeStructRoom(id, n) /\ call' = <<"guarantee", id>>
          \/ \E xs \in Few : AdvanceStructArray(id, xs) /\ call' = <<"advance", id, xs>>
          \/ \E r \in RangesOf(id) : RemoveStructs(id, r) /\ call' = <<"remove_in_range", id, r>>
          \/ \E i \in Indices(id) :
                RemoveStructAtIndex(id, i) /\ call' = <<"remove_in_range", id, Make(i, 1)>>
  BY <1>11, <1>12, <1>13, <1>18, <1>21, <1>27, <1>28, <1>36
<1>37. CASE \E id \in Live :
          \/ DoneStructArray(id) /\ call' = <<"done", id>>
          \/ ResetStructArray(id) /\ call' = <<"reset", id>>
          \/ PopStructFrom(id) /\ call' = <<"pop_struct", id>>
          \/ GrowStructArray(id) /\ call' = <<"grow", id>>
          \/ SizeStructsToFit(id) /\ call' = <<"size_to_fit", id>>
          \/ QsortStructs(id) /\ call' = <<"qsort", id>>
          \/ RemoveLastStruct(id) /\ call' = <<"remove_last", id>>
          \/ ExtractStructs(id) /\ call' = <<"extract_data", id>>
          \/ OpenStructEnumerator(id) /\ call' = <<"enumerate", id>>
          \/ OpenStructReverseEnumerator(id) /\ call' = <<"reverse_enumerate", id>>
  BY <1>8, <1>9, <1>14, <1>15, <1>19, <1>20, <1>25, <1>30, <1>31, <1>37
<1> QED
  BY <1>32, <1>33, <1>34, <1>35, <1>36, <1>37 DEF StructNext

(* A copy of an owning array *)
LEMMA CopyRefines ==
    ASSUME ArraysInv, misfreed = {}, kind = "objects", NEW id \in Id, NEW other \in Live,
           CopyArray(id, other), call' = <<"copy", id, other>>
    PROVE  Abstract!Next
<1>1. PICK src : src = arrays[other]
  OBVIOUS
<1>2. src.items \in Seq(Object) /\ refs \in RefCounts
  BY <1>1, LiveFacts, OwningItems DEF ArraysInv, RefCounts
<1>3. PICK n \in Nat : n = Len(src.items)
  BY <1>2, LenProperties
<1>4. PICK a : a = Fresh(n)
  OBVIOUS
<1>5. PICK h : h = CopyItems(Holding(a, refs), src)
  OBVIOUS
<1>6. Establish(id, h.array, allocator[other]) /\ refs' = h.refs
  BY <1>1, <1>3, <1>4, <1>5 DEF CopyArray, Count
<1>7. PICK b : b = h.array
  OBVIOUS
<1>8. /\ h.refs = Plus(refs, src.items) /\ h.array \in Raw /\ h.array.items = src.items
      /\ Fits2(h.array) /\ h.array.freed = {} /\ h.array.storage = a.storage
      /\ h.array.initial = NULL /\ h.array.size = n
  BY <1>2, <1>3, <1>4, <1>5, CopiedFacts
<1>9. /\ b \in Raw /\ Fits2(b) /\ b.freed \subseteq {NULL, Moved} /\ (b.storage = NULL => b.size = 0)
      /\ b.storage \in {NULL, Moved} /\ b.initial = NULL /\ b.items = src.items
      /\ refs' \in [Object -> Int]
  <2>1. a.storage \in {NULL, Moved} /\ (a.storage = NULL => a.size = 0) /\ a.size = n
    BY <1>4, FreshFacts
  <2>2. Plus(refs, src.items) \in [Object -> Int]
    BY <1>2, HoldingFacts DEF RefCounts
  <2> QED
    BY <1>6, <1>7, <1>8, <2>1, <2>2
<1>10. allocator[other] \in AnyAllocator /\ Establish(id, b, allocator[other])
  <2>1. other \in Id
    BY DEF Live
  <2> QED
    BY <1>6, <1>7, <2>1 DEF ArraysInv
<1>11. PICK al \in AnyAllocator : Establish(id, b, al)
  BY <1>10
<1>12. /\ arrays'[id] # None /\ arrays'[id].items = b.items
       /\ \A i \in Id : i # id => arrays'[i] = arrays[i]
  BY <1>9, <1>11, EstablishInv
<1>13. Becoming(id, arrays[other].items) /\ arrays[id] = None
  BY <1>1, <1>9, <1>11, <1>12, EstablishBecomes
<1>14. ret' = None
  BY <1>11 DEF Establish
<1> QED
  BY <1>13, <1>14, CopyStep

(* Owning arrays *)
LEMMA OwningRefines ==
    ASSUME ArraysInv, misfreed = {}, kind = "objects", Honest(rover), OwningNext
    PROVE  Abstract!Next
<1>1. Item = Object /\ kind # "structs" /\ refs \in RefCounts
  BY OwningItems DEF ArraysInv, RefCounts
<1>2. \A i \in Live : /\ HStage(arrays[i], arrays[i].items, refs, OwningOf(i))
                      /\ OwningOf(i).array = arrays[i] /\ OwningOf(i).refs = refs
                      /\ arrays[i].items \in Seq(Object)
  BY <1>1, ListsOK, HStageSame DEF OwningOf, Holding
<1>3. ASSUME NEW id \in Live, NEW b, Stage(arrays[id], b), Update(id, b), UNCHANGED refs
      PROVE  Becoming(id, b.items)
  <2>1. refs' \in [Object -> Int]
    BY <1>3, ListsOK
  <2> QED
    BY <1>3, <2>1, UpdateBecomes
<1>4. ASSUME NEW id \in Live, NEW h, HStage(arrays[id], arrays[id].items, refs, h),
             ChangeOwning(id, h)
      PROVE  Becoming(id, h.array.items) /\ ret' = None
  <2>1. PICK b : b = h.array
    OBVIOUS
  <2>2. h.refs \in RefCounts /\ Stage(arrays[id], b)
    BY <1>4, <2>1, HStageOpen
  <2>3. Update(id, b) /\ refs' = h.refs /\ ret' = None
    BY <1>4, <2>1 DEF ChangeOwning
  <2>4. refs' \in [Object -> Int]
    BY <2>2, <2>3 DEF RefCounts
  <2>5. Becoming(id, b.items)
    BY <2>2, <2>3, <2>4, UpdateBecomes
  <2> QED
    BY <2>1, <2>3, <2>5
<1>5. ASSUME NEW id \in Id, NEW al \in Allocator[id], call' = <<"init", id>>,
             InitOwningOnStack(id) \/ \E n \in Capacities : InitOwning(id, n, al)
      PROVE  Abstract!Next
  <2>1. al \in AnyAllocator /\ NULL \in AnyAllocator /\ UNCHANGED refs
    BY <1>5 DEF AnyAllocator, InitOwningOnStack, InitOwning
  <2>2. CASE InitOwningOnStack(id)
    <3>1. MayLend(id) /\ Establish(id, FreshStatic(id, LentCapacity), NULL) /\ 0 \in Nat
      BY <2>2 DEF InitOwningOnStack
    <3> QED
      BY <1>5, <2>1, <3>1, InitRefines
  <2>3. CASE \E n \in Capacities : InitOwning(id, n, al)
    <3>1. PICK n \in Nat : Establish(id, Fresh(n), al)
      BY <2>3, Constants DEF InitOwning
    <3> QED
      BY <1>5, <2>1, <3>1, InitRefines
  <2> QED
    BY <1>5, <2>2, <2>3
<1>6. ASSUME NEW id \in Live, DoneOwning(id), call' = <<"done", id>> PROVE Abstract!Next
  <2>1. PICK a, b : a = arrays[id] /\ b = Done(a)
    OBVIOUS
  <2>2. b.freed \ {NULL, Moved} = {a.storage} \ {NULL, a.initial} /\ b.mutations = 1
    BY <1>1, <2>1, ListsOK, DoneFacts
  <2>3. /\ DoneOwned(OwningOf(id)).array = b
        /\ DoneOwned(OwningOf(id)).refs \in RefCounts
    <3>1. OwningOf(id) = Holding(a, refs) /\ a.items \in Seq(Object)
      BY <1>2, <2>1 DEF OwningOf
    <3>2. Released(Holding(a, refs), a.items) = Holding(a, Minus(refs, a.items))
          /\ Minus(refs, a.items) \in RefCounts /\ Holding(a, refs).array = a
      BY <1>1, <3>1, HoldingFacts
    <3>3. DoneOwned(OwningOf(id)) = Holding(b, Minus(refs, a.items))
      BY <2>1, <3>1, <3>2 DEF DoneOwned, On, Holding
    <3> QED
      BY <3>2, <3>3 DEF Holding
  <2>4. Dissolve(id, b) /\ refs' \in [Object -> Int]
    BY <1>6, <2>3 DEF DoneOwning, RefCounts
  <2> QED
    BY <1>6, <2>1, <2>2, <2>4, DoneRefines
<1>7. ASSUME NEW id \in Live, NEW b, Stage(arrays[id], b), b.items = arrays[id].items,
             Update(id, b), ret' = None, UNCHANGED refs,
             NEW name \in {"guarantee", "grow", "size_to_fit"}, call' = <<name, id>>
      PROVE  Abstract!Next
  <2>1. Becoming(id, arrays[id].items)
    BY <1>3, <1>7
  <2> QED
    BY <1>7, <2>1, TidyStep
<1>8. ASSUME NEW id \in Live, NEW n \in 0 .. 2, GuaranteeOwning(id, n), call' = <<"guarantee", id>>
      PROVE  Abstract!Next
  <2>1. Stage(arrays[id], arrays[id]) /\ n \in Nat
    BY ListsOK
  <2>2. /\ Stage(arrays[id], Guarantee(arrays[id], n))
        /\ Guarantee(arrays[id], n).items = arrays[id].items
    BY <1>1, <2>1, StageGuarantee
  <2> QED
    BY <1>7, <1>8, <2>2 DEF GuaranteeOwning
<1>9. ASSUME NEW id \in Live, GrowOwning(id), call' = <<"grow", id>> PROVE Abstract!Next
  <2>1. Stage(arrays[id], Grow(arrays[id])) /\ Grow(arrays[id]).items = arrays[id].items
    BY <1>1, ReallocDoubled
  <2> QED
    BY <1>7, <1>9, <2>1 DEF GrowOwning
<1>10. ASSUME NEW id \in Live, NEW p \in Object, AddObject(id, p), call' = <<"add", id, p>>
       PROVE  Abstract!Next
  <2>1. PICK a, h : a = arrays[id] /\ h = AddOwned(OwningOf(id), p)
    OBVIOUS
  <2>2. HStage(arrays[id], arrays[id].items, refs, h)
    BY <1>2, <2>1, HStageAdd
  <2>3. h.array = Add(a, p)
    BY <1>2, <2>1, OwnedItems
  <2>4. Stage(a, a) /\ p \in Item
    BY <1>1, <2>1, ListsOK
  <2>5. Add(a, p).items = Append(a.items, p)
    BY <1>1, <2>4, StageAdd
  <2>6. Becoming(id, Append(arrays[id].items, p)) /\ ret' = None
    BY <1>4, <1>10, <2>1, <2>2, <2>3, <2>5 DEF AddObject
  <2> QED
    BY <1>10, <2>6, AddStep
<1>11. ASSUME NEW id \in Live, NEW p \in Object, AddObjectGuaranteed(id, p),
              call' = <<"add", id, p>>
       PROVE  Abstract!Next
  <2>1. PICK u, g : /\ u = <<p>>
                    /\ g = On(Retained(OwningOf(id), u), AddGuaranteed(OwningOf(id).array, p))
    OBVIOUS
  <2>2. Len(OwningOf(id).array.items) < OwningOf(id).array.size
    BY <1>2, <1>11 DEF AddObjectGuaranteed, Count
  <2>3. /\ HStage(arrays[id], arrays[id].items, refs, g)
        /\ g.array.items = Append(arrays[id].items, p)
    BY <1>2, <2>1, <2>2, HStageGuaranteed
  <2>4. ChangeOwning(id, g)
    BY <1>2, <1>11, <2>1 DEF AddObjectGuaranteed
  <2>5. Becoming(id, Append(arrays[id].items, p)) /\ ret' = None
    BY <1>4, <2>3, <2>4
  <2> QED
    BY <1>11, <2>5, AddStep
<1>12. ASSUME NEW id \in Live, NEW p \in Object, RemoveObject(id, p),
              call' = <<"remove_object", id, p>>
       PROVE  Abstract!Next
  <2>1. PICK x, h : x = arrays[id].items /\ h = RemoveOwned(OwningOf(id), p)
    OBVIOUS
  <2>2. /\ HStage(arrays[id], arrays[id].items, refs, h) /\ x \in Seq(Object)
        /\ Abstract!Cut(x, Lost(x, Equals(p)), h.array.items)
    BY <1>2, <2>1, HStageRemove
  <2>3. Becoming(id, h.array.items) /\ ret' = None
    BY <1>4, <1>12, <2>1, <2>2 DEF RemoveObject
  <2> QED
    BY <1>12, <2>1, <2>2, <2>3, RemoveEqualsStep
<1>13. ASSUME NEW id \in Live, NEW p \in Object, RemoveUniqueObject(id, p),
              call' = <<"remove_unique_object", id, p>>
       PROVE  Abstract!Next
  <2>1. PICK x, g, h : x = arrays[id].items /\ g = OwningOf(id) /\ h = RemoveUniqueOwned(g, p)
    OBVIOUS
  <2>2. HStage(arrays[id], arrays[id].items, refs, g) /\ x = g.array.items /\ x \in Seq(Object)
    BY <1>2, <2>1
  <2>3. HStage(arrays[id], arrays[id].items, refs, h)
    BY <2>1, <2>2, HStageUnique
  <2>4. Abstract!Cut(x, LastLost(x, Equals(p)), h.array.items)
    BY <2>1, <2>2, OwnedUniqueItems
  <2>5. Becoming(id, h.array.items) /\ ret' = None
    BY <1>4, <1>13, <2>1, <2>3 DEF RemoveUniqueObject
  <2> QED
    BY <1>13, <2>1, <2>2, <2>4, <2>5, RemoveOneEqualStep
<1>14. ASSUME NEW id \in Live, NEW i \in Indices(id), NEW p \in Object, SetObject(id, i, p),
              call' = <<"set_only", id, i, p>>
       PROVE  Abstract!Next
  <2>1. PICK a, x, name, h : /\ a = arrays[id] /\ x = a.items /\ name = "set_only"
                             /\ h = SetOwned(OwningOf(id), i, p)
    OBVIOUS
  <2>2. /\ x \in Seq(Object) /\ i \in Nat /\ i \in 0 .. Len(x) - 1 /\ i < Len(x) /\ p \in Item
        /\ Stage(a, a)
    BY <1>1, <1>2, <2>1, ListsOK
  <2>3. i \in 0 .. Len(OwningOf(id).array.items) - 1
    BY <1>2, <2>1, <2>2
  <2>4. HStage(arrays[id], arrays[id].items, refs, h)
    BY <1>2, <2>1, <2>3, HStageSet
  <2>5. h.array = Set(a, i, p)
    BY <1>2, <2>1, OwnedItems
  <2>6. Set(a, i, p).items = [x EXCEPT ![i + 1] = p]
    BY <2>1, <2>2, StageSet
  <2>7. PutIn(x, i, p) = h.array.items
    BY <2>2, <2>5, <2>6, PutInFacts
  <2>8. Becoming(id, PutIn(x, i, p)) /\ ret' = None
    BY <1>4, <1>14, <2>1, <2>4, <2>7 DEF SetObject
  <2>9. call' = <<name, id, i, p>>
    BY <1>14, <2>1
  <2> QED
    BY <2>1, <2>8, <2>9, PutStep
<1>15. ASSUME NEW id \in Live, NEW other \in Live, NEW r \in RangesOf(other),
              AddArrayOfObjects(id, other, r), call' = <<"add_array", id, other, r>>
       PROVE  Abstract!Next
  <2>1. PICK a, o, g, h : /\ a = arrays[id] /\ o = arrays[other] /\ g = OwningOf(id)
                          /\ h = AddArray(g, o, r)
    OBVIOUS
  <2>2. /\ r \in AnyRange /\ o.items \in Seq(Object) /\ o.items \in Seq(Item)
        /\ HStage(a, a.items, refs, g) /\ g.array = a
    BY <1>1, <1>2, <2>1, ListsOK
  <2>3. HStage(a, a.items, refs, h) /\ Joined(h.array.items, g.array.items, o, r)
    BY <2>1, <2>2, HStageAddArray
  <2>4. Becoming(id, h.array.items) /\ ret' = None
    BY <1>4, <1>15, <2>1, <2>3 DEF AddArrayOfObjects
  <2>5. PICK s : s = h.array.items
    OBVIOUS
  <2>6. Becoming(id, s) /\ Joined(s, a.items, o, r)
    BY <2>2, <2>3, <2>4, <2>5
  <2> QED
    BY <1>15, <2>1, <2>2, <2>4, <2>6, ConcatStep
<1>16. ASSUME NEW id \in Live, NEW r \in RangesOf(id), RemoveObjectsInRange(id, r),
              call' = <<"remove_objects_in_range", id, r>>
       PROVE  Abstract!Next
  <2>1. PICK x, g, y, name : /\ x = arrays[id].items /\ g = OwningOf(id)
                             /\ y = RemoveOwnedInRange(g, r).array.items
                             /\ name = "remove_objects_in_range"
    OBVIOUS
  <2>2. /\ HStage(arrays[id], arrays[id].items, refs, g) /\ x = g.array.items /\ r \in AnyRange
        /\ call' = <<name, id, r>>
    BY <1>2, <1>16, <2>1, ListsOK
  <2>3. HStage(arrays[id], arrays[id].items, refs, RemoveOwnedInRange(g, r))
    BY <2>2, HStageRange
  <2>4. /\ Abstract!Fits(r, Len(x)) => Abstract!Cut(x, InRange(x, r), y)
        /\ ~ Abstract!Fits(r, Len(x)) => y = x
    BY <2>1, <2>2, OwnedRangeItems
  <2>5. Becoming(id, y) /\ ret' = None
    BY <1>4, <1>16, <2>1, <2>3 DEF RemoveObjectsInRange
  <2>6. CASE Abstract!Fits(r, Len(x))
    BY <2>1, <2>2, <2>4, <2>5, <2>6, RemoveRangeStep
  <2>7. CASE ~ Abstract!Fits(r, Len(x))
    BY <1>16, <2>1, <2>2, <2>4, <2>5, <2>7, RemoveNothingStep
  <2> QED
    BY <2>6, <2>7
<1>17. ASSUME NEW id \in Live, RemoveLastObject(id), call' = <<"remove_last", id>>
       PROVE  Abstract!Next
  <2>1. PICK a, x, h : a = arrays[id] /\ x = a.items /\ h = RemoveLastOwned(OwningOf(id))
    OBVIOUS
  <2>2. HStage(arrays[id], arrays[id].items, refs, h) /\ h.array = Pop(a) /\ Stage(a, a)
    BY <1>1, <1>2, <2>1, HStageLast, OwnedItems, ListsOK
  <2>3. Pop(a).items = IF x = <<>> THEN <<>> ELSE SubSeq(x, 1, Len(x) - 1)
    BY <2>1, <2>2, StagePop
  <2>4. Becoming(id, IF x = <<>> THEN <<>> ELSE SubSeq(x, 1, Len(x) - 1)) /\ ret' = None
    BY <1>4, <1>17, <2>1, <2>2, <2>3 DEF RemoveLastObject
  <2> QED
    BY <1>17, <2>1, <2>4, DropLastStep
<1>18. ASSUME NEW id \in Live, ResetObjects(id), call' = <<"reset", id>> PROVE Abstract!Next
  <2>1. PICK a, h : a = arrays[id] /\ h = ResetOwned(OwningOf(id))
    OBVIOUS
  <2>2. HStage(arrays[id], arrays[id].items, refs, h) /\ h.array = Reset(a) /\ Stage(a, a)
    BY <1>1, <1>2, <2>1, HStageReset, OwnedItems, ListsOK
  <2>3. Reset(a).items = <<>>
    BY <2>2, StageReset
  <2>4. Becoming(id, <<>>) /\ ret' = None
    BY <1>4, <1>18, <2>1, <2>2, <2>3 DEF ResetObjects
  <2> QED
    BY <1>18, <2>4, ClearStep
<1>19. ASSUME NEW id \in Live, QsortObjects(id), call' = <<"qsort", id>> PROVE Abstract!Next
  <2>1. PICK x \in Seq(Object) : x = arrays[id].items
    BY <1>2
  <2>2. PICK t \in Sortings(x, Rank) : ChangeOwning(id, On(OwningOf(id), Sorted(arrays[id], t)))
    BY <1>19, <2>1 DEF QsortObjects
  <2>3. PICK b : b = Sorted(arrays[id], t)
    OBVIOUS
  <2>4. Stage(arrays[id], b) /\ b.items = t
    <3>1. PICK a, rank : a = arrays[id] /\ rank = Rank
      OBVIOUS
    <3>2. Stage(a, a) /\ t \in Sortings(a.items, rank)
      BY <2>1, <3>1, ListsOK
    <3>3. Stage(a, Sorted(a, t)) /\ Sorted(a, t).items = t
      BY <3>2, StageSorted
    <3> QED
      BY <2>3, <3>1, <3>3
  <2>5. On(OwningOf(id), b) = Holding(b, refs)
    BY DEF On, OwningOf, Holding
  <2>6. Update(id, b) /\ UNCHANGED refs /\ ret' = None
    BY <2>2, <2>3, <2>5 DEF ChangeOwning, Holding
  <2>7. Becoming(id, t)
    BY <1>3, <2>4, <2>6
  <2> QED
    BY <1>19, <2>1, <2>6, <2>7, SortStep
<1>20. ASSUME NEW id \in Live,
              \/ OpenOwningEnumerator(id) /\ call' = <<"enumerate", id>>
              \/ OpenOwningReverseEnumerator(id) /\ call' = <<"reverse_enumerate", id>>
       PROVE  Abstract!Next
  BY <1>20, OpenStep DEF OpenOwningEnumerator, OpenOwningReverseEnumerator
<1>21. ASSUME rover # None, OwningEnumeratorNext \/ OwningReverseEnumeratorNext, call' = <<"next">>
       PROVE  Abstract!Next
  BY <1>21, NextStep DEF OwningEnumeratorNext, OwningReverseEnumeratorNext, Honest
<1>22. CASE \E id \in Id, other \in Live : CopyArray(id, other) /\ call' = <<"copy", id, other>>
  BY <1>22, CopyRefines
<1>23. CASE \E id \in Live : \E other \in Live : \E r \in RangesOf(other) :
          AddArrayOfObjects(id, other, r) /\ call' = <<"add_array", id, other, r>>
  BY <1>15, <1>23
<1>24. CASE \E id \in Live : \E p \in Object :
          \/ AddObject(id, p) /\ call' = <<"add", id, p>>
          \/ AddObjectGuaranteed(id, p) /\ call' = <<"add", id, p>>
          \/ RemoveObject(id, p) /\ call' = <<"remove_object", id, p>>
          \/ RemoveUniqueObject(id, p) /\ call' = <<"remove_unique_object", id, p>>
          \/ \E i \in Indices(id) : SetObject(id, i, p) /\ call' = <<"set_only", id, i, p>>
  BY <1>10, <1>11, <1>12, <1>13, <1>14, <1>24
<1>25. CASE \E id \in Live :
          \/ \E n \in 0 .. 2 : GuaranteeOwning(id, n) /\ call' = <<"guarantee", id>>
          \/ \E r \in RangesOf(id) :
                RemoveObjectsInRange(id, r) /\ call' = <<"remove_objects_in_range", id, r>>
  BY <1>8, <1>16, <1>25
<1>26. CASE \E id \in Live :
          \/ DoneOwning(id) /\ call' = <<"done", id>>
          \/ GrowOwning(id) /\ call' = <<"grow", id>>
          \/ RemoveLastObject(id) /\ call' = <<"remove_last", id>>
          \/ ResetObjects(id) /\ call' = <<"reset", id>>
          \/ QsortObjects(id) /\ call' = <<"qsort", id>>
          \/ OpenOwningEnumerator(id) /\ call' = <<"enumerate", id>>
          \/ OpenOwningReverseEnumerator(id) /\ call' = <<"reverse_enumerate", id>>
  BY <1>6, <1>9, <1>17, <1>18, <1>19, <1>20, <1>26
<1> QED
  BY <1>5, <1>21, <1>22, <1>23, <1>24, <1>25, <1>26 DEF OwningNext

-----------------------------------------------------------------------------
(* Every step of the arrays is a step of the sequences, or changes nothing. *)

HonestInv == AllInv /\ (kind # "pointers" => Honest(rover))

LEMMA HonestInit == ASSUME Init PROVE HonestInv
<1>1. AllInv
  BY AllInit
<1>2. Honest(rover)
  BY DEF Init, Honest
<1> QED
  BY <1>1, <1>2 DEF HonestInv

LEMMA HonestStep == ASSUME HonestInv, [Next]_vars PROVE HonestInv'
<1>1. AllInv' /\ ArraysInv
  BY AllStep DEF HonestInv, AllInv
<1>2. CASE misfreed = {} /\ kind = "pointers" /\ PointerNext
  BY <1>1, <1>2, PointerKeepsRefs DEF HonestInv
<1>3. CASE misfreed = {} /\ kind = "objects" /\ OwningNext
  BY <1>1, <1>3, OwningStaysHonest DEF HonestInv, StaysHonest
<1>4. CASE misfreed = {} /\ kind = "structs" /\ StructNext
  BY <1>1, <1>4, StructsStayHonest DEF HonestInv, StaysHonest
<1>5. CASE UNCHANGED vars
  BY <1>1, <1>5 DEF HonestInv, Honest, vars
<1> QED
  BY <1>2, <1>3, <1>4, <1>5 DEF Next

LEMMA StepRefines == ASSUME HonestInv, [Next]_vars PROVE [Abstract!Next]_(Abstract!vars)
<1>1. ArraysInv /\ (kind # "pointers" => Honest(rover))
  BY DEF HonestInv, AllInv
<1>2. CASE misfreed = {} /\ kind = "pointers" /\ PointerNext
  BY <1>1, <1>2, PointerRefines
<1>3. CASE misfreed = {} /\ kind = "objects" /\ OwningNext
  BY <1>1, <1>3, OwningRefines
<1>4. CASE misfreed = {} /\ kind = "structs" /\ StructNext
  BY <1>1, <1>4, StructRefines
<1>5. CASE UNCHANGED vars
  <2>1. UNCHANGED <<arrays, rover, ret, call>>
    BY <1>5 DEF vars
  <2>2. Lists' = Lists /\ Rest' = Rest
    BY <2>1 DEF Lists, Rest
  <2> QED
    BY <2>1, <2>2 DEF Abstract!vars
<1> QED
  BY <1>2, <1>3, <1>4, <1>5 DEF Next

LEMMA InitRefinesInit == ASSUME Init PROVE Abstract!Init
<1>1. arrays = [i \in Id |-> None] /\ rover = None /\ ret = None
  BY DEF Init
<1>2. Lists = [i \in Id |-> None]
  BY <1>1 DEF Lists
<1> QED
  BY <1>1, <1>2 DEF Abstract!Init, Rest

(* Whatever happens to the storages, each call does to the sequences what  *)
(* its operation promises and returns what it promises, and an enumerator  *)
(* returns what the array held when it was opened, or is invalid.          *)
THEOREM ImplementsSequenceStore == Spec => RefinesSequenceStore
<1>1. Init => HonestInv /\ Abstract!Init
  BY HonestInit, InitRefinesInit
<1>2. HonestInv /\ [Next]_vars => HonestInv' /\ [Abstract!Next]_(Abstract!vars)
  BY HonestStep, StepRefines
<1> QED
  BY <1>1, <1>2, PTL DEF Spec, RefinesSequenceStore, Abstract!Spec
=============================================================================
