-------------------------- MODULE PointerMap_proofs ---------------------------
(***************************************************************************)
(* The hash table keeps its invariant, and every operation on it does to   *)
(* the stored pairs what it is meant to do.  Maps, for any number of keys, *)
(* values, maps and slots: their tables are such tables, reference counts  *)
(* are exact, an open enumerator sees every pair once, and each map is a   *)
(* dictionary.                                                             *)
(***************************************************************************)
EXTENDS PointerMap, NumberFacts

-----------------------------------------------------------------------------
(* ---- The table ----                                                     *)

(* a probe that starts at h looks at j before it gets to i                 *)
Before(h, j, i) == IF h <= i THEN h <= j /\ j < i ELSE h <= j \/ j < i

Home(slots, size, i) == HashForSize(slots[i].key, size)

Used(slots, size)   == {i \in Slot(size) : slots[i] # Hole}
Stored(slots, size) == {slots[i] : i \in Used(slots, size)}

Cells(size) == [Slot(size) -> Pairs \cup {Hole}]

(* no two pairs have equal keys                                            *)
Distinct(slots, size) ==
    \A i, j \in Used(slots, size) : IsEqual(slots[i].key, slots[j].key) => i = j

(* no hole lies between a pair's home and the pair                         *)
Unbroken(slots, size) ==
    \A i \in Used(slots, size), j \in Slot(size) :
        Before(Home(slots, size, i), j, i) => slots[j] # Hole

Chained(slots, size) ==
    slots \in Cells(size) /\ Distinct(slots, size) /\ Unbroken(slots, size)

HasHole(slots, size) == \E h \in Slot(size) : slots[h] = Hole

SizeOK(size) == size = 0 \/ \E e \in Nat : e >= 2 /\ size = Power[e]

(* The inductive invariant of a table.                                     *)
TableOK(t) ==
    /\ t \in [size : Nat, count : Nat, slots : Cells(t.size), nMutations : Nat]
    /\ SizeOK(t.size)
    /\ Chained(t.slots, t.size)
    /\ t.count = Cardinality(Used(t.slots, t.size))
    /\ t.size # 0 => t.count < t.size

-----------------------------------------------------------------------------
(* Probes *)

LEMMA Wraps ==
    ASSUME NEW n \in Nat \ {0}, NEW h \in 0 .. n - 1, NEW d \in 0 .. n - 1
    PROVE  (h + d) % n = IF h + d < n THEN h + d ELSE h + d - n
OBVIOUS

LEMMA HomeFacts ==
    ASSUME NEW size \in Nat \ {0}, NEW k \in Key
    PROVE  /\ HashForSize(k, size) \in Slot(size)
           /\ \A l \in Key : IsEqual(k, l) => HashForSize(k, size) = HashForSize(l, size)
<1>1. Hash[k] \in Nat
  BY HashTableAssumption
<1>2. PICK v \in Nat : v = 2 * (Hash[k] \div 2)
  BY <1>1
<1>3. v % size \in 0 .. size - 1
  OBVIOUS
<1>4. \A l \in Key : IsEqual(k, l) => Hash[k] = Hash[l]
  BY HashTableAssumption DEF IsEqual
<1> QED
  BY <1>2, <1>3, <1>4 DEF HashForSize, Slot

LEMMA ProbeFacts ==
    ASSUME NEW size \in Nat \ {0}, NEW k \in Key, NEW d \in Slot(size),
           NEW h, h = HashForSize(k, size)
    PROVE  /\ ProbeSlot(k, size, d) = IF h + d < size THEN h + d ELSE h + d - size
           /\ ProbeSlot(k, size, d) \in Slot(size)
<1>1. h \in 0 .. size - 1 /\ d \in 0 .. size - 1
  BY HomeFacts DEF Slot
<1>2. ProbeSlot(k, size, d) = (h + d) % size
  BY DEF ProbeSlot
<1>3. (h + d) % size = IF h + d < size THEN h + d ELSE h + d - size
  BY <1>1, Wraps
<1> QED
  BY <1>1, <1>2, <1>3 DEF Slot

(* The probe gets to a slot of T, and nothing of T lies before it.         *)
LEMMA FirstProbeFacts ==
    ASSUME NEW size \in Nat \ {0}, NEW k \in Key, NEW T, T \subseteq Slot(size), T # {}
    PROVE  /\ FirstProbe(k, size, T) \in T
           /\ \A j \in Slot(size) :
                  Before(HashForSize(k, size), j, FirstProbe(k, size, T)) => j \notin T
<1> DEFINE h    == HashForSize(k, size)
           p(d) == ProbeSlot(k, size, d)
           D    == {d \in Slot(size) : p(d) \in T}
           Good(d) == p(d) \in T /\ \A e \in 0 .. d - 1 : p(e) \notin T
<1>1. h \in Slot(size)
  BY HomeFacts
<1>2. \A d \in Slot(size) : p(d) = (IF h + d < size THEN h + d ELSE h + d - size)
                            /\ p(d) \in Slot(size)
  BY ProbeFacts
<1> HIDE DEF h, p
<1>3. \A i \in Slot(size) : \E d \in Slot(size) : p(d) = i
  <2> TAKE i \in Slot(size)
  <2>1. CASE h <= i
    <3>1. i - h \in Slot(size) /\ h + (i - h) < size
      BY <1>1, <2>1 DEF Slot
    <3> QED
      BY <1>1, <1>2, <3>1 DEF Slot
  <2>2. CASE h > i
    <3>1. i - h + size \in Slot(size)
      BY <1>1, <2>2 DEF Slot
    <3>2. PICK d \in Slot(size) : d = i - h + size
      BY <3>1
    <3>3. ~ (h + d < size) /\ h + d - size = i
      BY <1>1, <3>2 DEF Slot
    <3> QED
      BY <1>2, <3>3
  <2> QED
    BY <1>1, <2>1, <2>2 DEF Slot
<1>4. D \subseteq Nat /\ D # {}
  <2>1. \A d \in Slot(size) : d \in Nat
    BY DEF Slot
  <2>2. PICK i \in Slot(size) : i \in T
    OBVIOUS
  <2>3. PICK d \in Slot(size) : p(d) = i
    BY <1>3
  <2> QED
    BY <2>1, <2>2, <2>3
<1>5. PICK m \in D : \A e \in D : m <= e
  BY <1>4, LeastNat
<1>6. m \in Slot(size) /\ p(m) \in T
  OBVIOUS
<1>7. \A e \in 0 .. m - 1 : p(e) \notin T
  <2> TAKE e \in 0 .. m - 1
  <2>1. e \in Slot(size) /\ ~ (m <= e)
    BY <1>6 DEF Slot
  <2>2. e \notin D
    BY <1>5, <2>1
  <2> QED
    BY <2>1, <2>2
<1> HIDE DEF D
<1>8. PICK c \in Slot(size) : /\ c = CHOOSE d \in Slot(size) : Good(d)
                              /\ Good(c)
  <2>1. \E d \in Slot(size) : Good(d)
    BY <1>6, <1>7
  <2> HIDE DEF Good
  <2> QED
    BY <2>1
<1>9. FirstProbe(k, size, T) = p(c)
  BY <1>8 DEF FirstProbe, p
<1>10. ASSUME NEW j \in Slot(size), Before(h, j, p(c)) PROVE j \notin T
  <2>1. PICK e \in Slot(size) : p(e) = j
    BY <1>3
  <2>2. e \in 0 .. c - 1
    BY <1>1, <1>2, <1>8, <1>10, <2>1 DEF Before, Slot
  <2> QED
    BY <1>8, <2>1, <2>2
<1> QED
  BY <1>8, <1>9, <1>10 DEF h

(* Of two slots one comes first on a probe.                                *)
LEMMA BeforeTotal ==
    ASSUME NEW size \in Nat, NEW h \in Slot(size), NEW i \in Slot(size), NEW j \in Slot(size)
    PROVE  Before(h, i, j) \/ Before(h, j, i) \/ i = j
BY DEF Before, Slot

(* A hole, or a pair with an equal key.                                    *)
Stops(slots, size, k) ==
    {i \in Slot(size) : slots[i] = Hole \/ IsEqual(slots[i].key, k)}

(* Every slot before a pair on the way from its home holds a pair with     *)
(* another key, so that the probe for its key arrives.                     *)
LEMMA FindStored ==
    ASSUME NEW size \in Nat \ {0}, NEW slots, Chained(slots, size),
           NEW k \in Key, NEW x \in Used(slots, size), IsEqual(slots[x].key, k)
    PROVE  FirstProbe(k, size, Stops(slots, size, k)) = x
<1> DEFINE f == FirstProbe(k, size, Stops(slots, size, k))
           h == HashForSize(k, size)
<1>1. /\ x \in Slot(size) /\ x \in Stops(slots, size, k)
      /\ Stops(slots, size, k) \subseteq Slot(size)
  BY DEF Used, Stops
<1>2. /\ f \in Stops(slots, size, k) /\ f \in Slot(size)
      /\ \A j \in Slot(size) : Before(h, j, f) => j \notin Stops(slots, size, k)
  BY <1>1, FirstProbeFacts
<1>3. \A i \in Used(slots, size) : slots[i] \in Pairs /\ slots[i].key \in Key
  BY DEF Chained, Cells, Used, Pairs
<1>4. Home(slots, size, x) = h /\ h \in Slot(size)
  <2>1. IsEqual(k, slots[x].key)
    BY DEF IsEqual
  <2> QED
    BY <1>3, <2>1, HomeFacts DEF Home
<1> HIDE DEF f, h
<1>5. ~ Before(h, x, f)
  BY <1>1, <1>2
<1>6. ASSUME Before(h, f, x) PROVE FALSE
  <2>1. slots[f] # Hole
    BY <1>2, <1>4, <1>6 DEF Chained, Unbroken
  <2>2. f \in Used(slots, size) /\ IsEqual(slots[f].key, k)
    BY <1>2, <2>1 DEF Stops, Used
  <2>3. IsEqual(slots[f].key, slots[x].key)
    BY <2>2 DEF IsEqual
  <2>4. f = x
    BY <2>2, <2>3 DEF Chained, Distinct
  <2> QED
    BY <1>2, <1>5, <1>6, <2>4
<1>7. size \in Nat
  OBVIOUS
<1>8. x = f
  BY <1>1, <1>2, <1>4, <1>5, <1>6, <1>7, BeforeTotal
<1> QED
  BY <1>8 DEF f

(* The probe for a key that is not there ends at a hole.                   *)
LEMMA FindAbsent ==
    ASSUME NEW size \in Nat \ {0}, NEW slots, HasHole(slots, size), NEW k \in Key,
           \A i \in Used(slots, size) : ~ IsEqual(slots[i].key, k)
    PROVE  slots[FirstProbe(k, size, Stops(slots, size, k))] = Hole
<1>1. Stops(slots, size, k) \subseteq Slot(size) /\ Stops(slots, size, k) # {}
  BY DEF HasHole, Stops
<1>2. FirstProbe(k, size, Stops(slots, size, k)) \in Stops(slots, size, k)
  BY <1>1, FirstProbeFacts
<1> QED
  BY <1>2 DEF Stops, Used

(* The pair goes to a hole that its probe reaches, and is counted once.    *)
LEMMA StoreFacts ==
    ASSUME NEW size \in Nat \ {0}, NEW slots, Chained(slots, size), HasHole(slots, size),
           NEW pair \in Pairs,
           \A i \in Used(slots, size) : ~ IsEqual(slots[i].key, pair.key),
           NEW stored, stored = StoreKeyValue(slots, size, pair)
    PROVE  /\ Chained(stored, size)
           /\ Stored(stored, size) = Stored(slots, size) \cup {pair}
           /\ \E h \in Slot(size) : /\ slots[h] = Hole
                                    /\ Used(stored, size) = Used(slots, size) \cup {h}
<1> DEFINE holes == {i \in Slot(size) : slots[i] = Hole}
<1>1. pair.key \in Key /\ pair # Hole
  BY HashTableAssumption DEF Pairs
<1>2. holes \subseteq Slot(size) /\ holes # {}
  BY DEF HasHole
<1>3. PICK h \in holes : h = FirstProbe(pair.key, size, holes)
  BY <1>1, <1>2, FirstProbeFacts
<1>4. \A j \in Slot(size) : Before(HashForSize(pair.key, size), j, h) => slots[j] # Hole
  <2>1. \A j \in Slot(size) : Before(HashForSize(pair.key, size), j, h) => j \notin holes
    BY <1>1, <1>2, <1>3, FirstProbeFacts
  <2> QED
    BY <2>1
<1>5. h \in Slot(size) /\ slots[h] = Hole
  OBVIOUS
<1>6. slots \in Cells(size)
  BY DEF Chained
<1>7. stored = [slots EXCEPT ![h] = pair]
  BY <1>3 DEF StoreKeyValue
<1>8. stored \in Cells(size) /\ stored[h] = pair
      /\ \A i \in Slot(size) : i # h => stored[i] = slots[i]
  BY <1>5, <1>6, <1>7 DEF Cells
<1> HIDE DEF holes
<1>9. Used(stored, size) = Used(slots, size) \cup {h}
  BY <1>1, <1>5, <1>8 DEF Used
<1>10. \A i \in Used(slots, size) : i # h /\ stored[i] = slots[i] /\ i \in Slot(size)
  BY <1>5, <1>8 DEF Used
<1>11. Distinct(stored, size)
  <2> SUFFICES ASSUME NEW i \in Used(stored, size), NEW j \in Used(stored, size),
                      IsEqual(stored[i].key, stored[j].key)
               PROVE  i = j
    BY DEF Distinct
  <2>1. CASE i = h /\ j # h
    BY <1>8, <1>9, <1>10, <2>1 DEF IsEqual
  <2>2. CASE i # h /\ j = h
    BY <1>8, <1>9, <1>10, <2>2 DEF IsEqual
  <2>3. CASE i # h /\ j # h
    BY <1>9, <1>10, <2>3 DEF Chained, Distinct
  <2> QED
    BY <2>1, <2>2, <2>3
<1>12. Unbroken(stored, size)
  <2> SUFFICES ASSUME NEW i \in Used(stored, size), NEW j \in Slot(size),
                      Before(Home(stored, size, i), j, i)
               PROVE  stored[j] # Hole
    BY DEF Unbroken
  <2>1. CASE j = h
    BY <1>1, <1>8, <2>1
  <2>2. CASE i = h /\ j # h
    BY <1>4, <1>8, <2>2 DEF Home
  <2>3. CASE i # h /\ j # h
    <3>1. i \in Used(slots, size) /\ Home(stored, size, i) = Home(slots, size, i)
      BY <1>9, <1>10, <2>3 DEF Home
    <3>2. slots[j] # Hole
      BY <3>1 DEF Chained, Unbroken
    <3> QED
      BY <1>8, <2>3, <3>2
  <2> QED
    BY <2>1, <2>2, <2>3
<1>13. Stored(stored, size) = Stored(slots, size) \cup {pair}
  BY <1>8, <1>9, <1>10 DEF Stored
<1> QED
  BY <1>5, <1>8, <1>9, <1>11, <1>12, <1>13 DEF Chained

-----------------------------------------------------------------------------
(* Counting *)

LEMMA UsedFinite ==
    ASSUME NEW size \in Nat, NEW slots
    PROVE  /\ IsFiniteSet(Used(slots, size)) /\ Cardinality(Used(slots, size)) \in 0 .. size
           /\ IsFiniteSet(Slot(size)) /\ Cardinality(Slot(size)) = size
<1>1. IsFiniteSet(Slot(size)) /\ Cardinality(Slot(size)) = size
  <2>1. IsFiniteSet(0 .. size - 1)
        /\ Cardinality(0 .. size - 1) = IF 0 > size - 1 THEN 0 ELSE (size - 1) - 0 + 1
    BY FS_Interval
  <2> QED
    BY <2>1 DEF Slot
<1>2. Used(slots, size) \subseteq Slot(size)
  BY DEF Used
<1>3. IsFiniteSet(Used(slots, size)) /\ Cardinality(Used(slots, size)) <= size
  BY <1>1, <1>2, FS_Subset
<1>4. Cardinality(Used(slots, size)) \in Nat
  BY <1>3, FS_CardinalityType
<1> QED
  BY <1>1, <1>3, <1>4

LEMMA HoleLeft ==
    ASSUME NEW size \in Nat, NEW slots, Cardinality(Used(slots, size)) # size
    PROVE  HasHole(slots, size)
<1> SUFFICES ASSUME ~ HasHole(slots, size) PROVE FALSE
  OBVIOUS
<1>1. Used(slots, size) = Slot(size)
  BY DEF HasHole, Used
<1>2. Cardinality(Used(slots, size)) = size
  BY <1>1, UsedFinite
<1> QED
  BY <1>2

LEMMA EmptyFacts ==
    ASSUME NEW size \in Nat
    PROVE  /\ Chained(EmptySlots(size), size)
           /\ Used(EmptySlots(size), size) = {} /\ Stored(EmptySlots(size), size) = {}
           /\ Cardinality(Used(EmptySlots(size), size)) = 0
<1>1. Used(EmptySlots(size), size) = {}
  BY DEF Used, EmptySlots
<1>2. EmptySlots(size) \in Cells(size)
  BY DEF EmptySlots, Cells
<1>3. Stored(EmptySlots(size), size) = {}
  BY <1>1 DEF Stored
<1> QED
  BY <1>1, <1>2, <1>3, FS_EmptySet DEF Chained, Distinct, Unbroken

LEMMA TableFacts ==
    ASSUME NEW t, TableOK(t)
    PROVE  /\ t.size \in Nat /\ t.count \in Nat /\ t.nMutations \in Nat
           /\ t.slots \in Cells(t.size)
           /\ \A i \in Used(t.slots, t.size) :
                  /\ i \in Slot(t.size) /\ t.slots[i] \in Pairs /\ t.slots[i] # Hole
                  /\ t.slots[i].key \in Key /\ t.slots[i].value \in Value
           /\ t.size # 0 => t.size >= 4 /\ HasHole(t.slots, t.size)
           /\ t.size = 0 => t.count = 0
           /\ t.count <= t.size
<1>1. /\ t.size \in Nat /\ t.count \in Nat /\ t.nMutations \in Nat
      /\ t.slots \in Cells(t.size) /\ t.count = Cardinality(Used(t.slots, t.size))
  BY DEF TableOK
<1>2. \A i \in Used(t.slots, t.size) :
          /\ i \in Slot(t.size) /\ t.slots[i] \in Pairs /\ t.slots[i] # Hole
          /\ t.slots[i].key \in Key /\ t.slots[i].value \in Value
  BY <1>1 DEF Used, Cells, Pairs
<1>3. t.size # 0 => t.size >= 4
  <2>1. \A e \in Nat : e >= 2 => Power[e] >= 4
    <3>1. Power[1] = 2 /\ Power[2] = 4
      <4>1. Power[0 + 1] = 2 * Power[0] /\ Power[1 + 1] = 2 * Power[1] /\ Power[0] = 1
        BY PowerFacts
      <4> QED
        BY <4>1
    <3>2. \A e \in Nat : Power[e] \in Nat /\ Power[e] > e
      BY PowerFacts
    <3>3. Power[2 + 1] = 2 * Power[2]
      BY PowerFacts
    <3>4. ASSUME NEW e \in Nat, e >= 2 PROVE Power[e] >= 4
      <4>1. e = 2 \/ e = 3 \/ e >= 4
        BY <3>4
      <4> QED
        BY <3>1, <3>2, <3>3, <4>1
    <3> QED
      BY <3>4
  <2> QED
    BY <2>1 DEF TableOK, SizeOK
<1>4. t.size # 0 => HasHole(t.slots, t.size)
  BY <1>1, HoleLeft DEF TableOK
<1>5. t.count <= t.size
  BY <1>1, UsedFinite
<1> QED
  BY <1>1, <1>2, <1>3, <1>4, <1>5

-----------------------------------------------------------------------------
(* Another storage *)

LEMMA StoreTyped ==
    ASSUME NEW size \in Nat, NEW slots \in Cells(size), NEW pair \in Pairs
    PROVE  StoreKeyValue(slots, size, pair) \in Cells(size)
<1>1. PICK f : f = FirstProbe(pair.key, size, {i \in Slot(size) : slots[i] = Hole})
  OBVIOUS
<1>2. StoreKeyValue(slots, size, pair) = [slots EXCEPT ![f] = pair]
  BY <1>1 DEF StoreKeyValue
<1> QED
  BY <1>2 DEF Cells

(* A copy holds the same pairs.                                            *)
LEMMA CopyFacts ==
    ASSUME NEW t, TableOK(t), NEW size \in Nat \ {0}, t.count < size
    PROVE  /\ Chained(CopyStorage(t, size), size)
           /\ Stored(CopyStorage(t, size), size) = Stored(t.slots, t.size)
           /\ Cardinality(Used(CopyStorage(t, size), size)) = t.count
<1>0. size \in Nat
  OBVIOUS
<1>1. PICK n \in Nat : n = t.size
  BY TableFacts
<1>2. PICK src : src = t.slots
  OBVIOUS
<1>3. \A k \in 1 .. n : k - 1 \in Slot(n) /\ (src[k - 1] # Hole => src[k - 1] \in Pairs)
  <2>1. \A k \in 1 .. n : k - 1 \in Slot(n)
    BY DEF Slot
  <2>2. src \in Cells(n)
    BY <1>1, <1>2, TableFacts
  <2> QED
    BY <2>1, <2>2 DEF Cells
<1>4. /\ Chained(src, n) /\ Cardinality(Used(src, n)) < size
      /\ Cardinality(Used(src, n)) = t.count
  BY <1>1, <1>2 DEF TableOK
<1> DEFINE X    == Cells(size)
           next(x, k) == IF src[k - 1] = Hole THEN x ELSE StoreKeyValue(x, size, src[k - 1])
           step == [x \in X |-> [k \in Nat |-> IF k \in 1 .. n THEN next(x, k) ELSE x]]
<1>5. EmptySlots(size) \in X
  BY <1>0, EmptyFacts DEF Chained
<1>6. \A x \in X, k \in 1 .. n : next(x, k) \in X
  BY <1>0, <1>3, StoreTyped
<1>7. PICK f \in [0 .. n -> X] : IsRun(f, n, EmptySlots(size), step)
  <2>1. step \in [X -> [Nat -> X]]
    BY <1>6
  <2> HIDE DEF step, X
  <2> QED
    BY <1>5, <2>1, RunExists
<1> DEFINE Eq(g) == g = [k \in 0 .. n |->
                            IF k = 0 THEN EmptySlots(size)
                            ELSE IF src[k - 1] = Hole THEN g[k - 1]
                            ELSE StoreKeyValue(g[k - 1], size, src[k - 1])]
           copied == CHOOSE g : Eq(g)
<1>8. Eq(f)
  <2>1. ASSUME NEW k \in 1 .. n PROVE f[k] = next(f[k - 1], k)
    <3>1. k - 1 \in 0 .. n /\ k \in Nat /\ f[k - 1] \in X
      OBVIOUS
    <3>2. f[k] = step[f[k - 1]][k]
      BY <1>7 DEF IsRun
    <3> QED
      BY <3>1, <3>2
  <2>2. f[0] = EmptySlots(size)
    BY <1>7 DEF IsRun
  <2>3. \A k \in 0 .. n : k = 0 \/ k \in 1 .. n
    OBVIOUS
  <2> HIDE DEF step, X
  <2> QED
    BY <2>1, <2>2, <2>3
<1>9. Eq(copied)
  BY <1>8
<1>10. CopyStorage(t, size) = copied[n]
  BY <1>1, <1>2 DEF CopyStorage
<1> HIDE DEF copied, step, X
<1> DEFINE F(k) == {i \in Used(src, n) : i < k}
           Copies(k) == /\ Chained(copied[k], size)
                        /\ Stored(copied[k], size) = {src[i] : i \in F(k)}
                        /\ Cardinality(Used(copied[k], size)) = Cardinality(F(k))
           T == {k \in Nat : k <= n => Copies(k)}
<1>11. 0 \in T
  <2>1. copied[0] = EmptySlots(size)
    <3>1. 0 \in 0 .. n
      OBVIOUS
    <3> QED
      BY <1>9, <3>1
  <2>2. F(0) = {}
    BY DEF Used, Slot
  <2>3. {src[i] : i \in F(0)} = {} /\ Cardinality(F(0)) = 0
    BY <2>2, FS_EmptySet
  <2> HIDE DEF F
  <2> QED
    BY <1>0, <2>1, <2>3, EmptyFacts
<1>12. ASSUME NEW k \in Nat, k \in T, k + 1 <= n PROVE Copies(k + 1)
  <2>1. Copies(k)
    BY <1>12
  <2>2. PICK c : c = copied[k]
    OBVIOUS
  <2>3. k \in Slot(n) /\ k + 1 \in 0 .. n /\ k + 1 \in 1 .. n /\ (k + 1) - 1 = k /\ k + 1 # 0
    BY <1>12 DEF Slot
  <2>4. copied[k + 1] = IF src[k] = Hole THEN c ELSE StoreKeyValue(c, size, src[k])
    BY <1>9, <2>2, <2>3
  <2>5. CASE src[k] = Hole
    <3>1. F(k + 1) = F(k)
      BY <2>5 DEF Used, Slot
    <3>2. copied[k + 1] = copied[k]
      BY <2>2, <2>4, <2>5
    <3> HIDE DEF F
    <3> QED
      BY <2>1, <3>1, <3>2
  <2>6. CASE src[k] # Hole
    <3>1. F(k + 1) = F(k) \cup {k} /\ k \notin F(k) /\ k \in Used(src, n)
      BY <2>3, <2>6 DEF Used, Slot
    <3>2. F(k) \subseteq Used(src, n) /\ F(k + 1) \subseteq Used(src, n)
      OBVIOUS
    <3>3. IsFiniteSet(Used(src, n))
      BY UsedFinite
    <3>4. /\ IsFiniteSet(F(k)) /\ Cardinality(F(k)) \in Nat
          /\ Cardinality(F(k + 1)) = Cardinality(F(k)) + 1
          /\ Cardinality(F(k)) <= Cardinality(Used(src, n))
      <4> HIDE DEF F
      <4>1. IsFiniteSet(F(k)) /\ Cardinality(F(k)) <= Cardinality(Used(src, n))
        BY <3>2, <3>3, FS_Subset
      <4>2. Cardinality(F(k)) \in Nat
        BY <4>1, FS_CardinalityType
      <4>3. Cardinality(F(k) \cup {k}) = Cardinality(F(k)) + 1
        BY <3>1, <4>1, FS_AddElement
      <4> QED
        BY <3>1, <4>1, <4>2, <4>3
    <3>5. PICK pair \in Pairs : pair = src[k]
      BY <1>3, <2>3, <2>6
    <3>6. \A i \in Used(c, size) : ~ IsEqual(c[i].key, pair.key)
      <4> TAKE i \in Used(c, size)
      <4>1. c[i] \in Stored(c, size)
        BY DEF Stored
      <4>2. PICK j \in F(k) : c[i] = src[j]
        BY <2>1, <2>2, <4>1
      <4>3. j \in Used(src, n) /\ j # k
        BY <3>1
      <4> QED
        BY <1>4, <3>1, <3>5, <4>2, <4>3 DEF Chained, Distinct
    <3>7. Chained(c, size) /\ Cardinality(Used(c, size)) = Cardinality(F(k))
      BY <2>1, <2>2
    <3>8. HasHole(c, size)
      <4>1. PICK a \in Nat : a = Cardinality(F(k))
        BY <3>4
      <4>2. PICK b \in Nat : b = Cardinality(Used(src, n))
        BY UsedFinite
      <4>3. a <= b /\ b < size
        BY <1>4, <3>4, <4>1, <4>2
      <4>4. Cardinality(Used(c, size)) # size
        BY <1>0, <3>7, <4>1, <4>3
      <4> QED
        BY <1>0, <4>4, HoleLeft
    <3>9. PICK stored : stored = StoreKeyValue(c, size, pair)
      OBVIOUS
    <3>10. /\ Chained(stored, size) /\ Stored(stored, size) = Stored(c, size) \cup {pair}
           /\ \E h \in Slot(size) : /\ c[h] = Hole
                                    /\ Used(stored, size) = Used(c, size) \cup {h}
      BY <3>6, <3>7, <3>8, <3>9, StoreFacts
    <3>11. Cardinality(Used(stored, size)) = Cardinality(Used(c, size)) + 1
      <4>1. PICK h \in Slot(size) : c[h] = Hole /\ Used(stored, size) = Used(c, size) \cup {h}
        BY <3>10
      <4>2. h \notin Used(c, size)
        BY <4>1 DEF Used
      <4>3. IsFiniteSet(Used(c, size))
        BY <1>0, UsedFinite
      <4> QED
        BY <4>1, <4>2, <4>3, FS_AddElement
    <3>12. copied[k + 1] = stored
      BY <2>4, <2>6, <3>5, <3>9
    <3>13. {src[i] : i \in F(k + 1)} = {src[i] : i \in F(k)} \cup {pair}
      <4> HIDE DEF F
      <4> QED
        BY <3>1, <3>5
    <3>14. Stored(c, size) = {src[i] : i \in F(k)}
      BY <2>1, <2>2
    <3> HIDE DEF F
    <3> QED
      BY <3>4, <3>7, <3>10, <3>11, <3>12, <3>13, <3>14
  <2> QED
    BY <2>5, <2>6
<1>13. Copies(n)
  <2> HIDE DEF Copies
  <2>1. \A k \in Nat : k \in T => k + 1 \in T
    BY <1>12
  <2> HIDE DEF T
  <2>2. \A k \in Nat : k \in T
    BY <1>11, <2>1, Induction
  <2> QED
    BY <2>2 DEF T
<1>14. F(n) = Used(src, n)
  BY DEF Used, Slot
<1>15. {src[i] : i \in F(n)} = Stored(t.slots, t.size)
  BY <1>1, <1>2, <1>14 DEF Stored
<1> HIDE DEF F
<1> QED
  BY <1>4, <1>10, <1>13, <1>14, <1>15

-----------------------------------------------------------------------------
(* Sizes *)

LEMMA LimitFacts ==
    ASSUME NEW n \in Nat
    PROVE  /\ FillLimit(n) \in Nat /\ FillLimit(n) <= n
           /\ n >= 4 => FillLimit(n) < n
           /\ FillLimit(4) = 3 /\ FillLimit(2) = 2 /\ FillLimit(0) = 0
<1>1. n \div 4 \in Nat /\ n \div 4 <= n /\ (n >= 4 => n \div 4 >= 1)
  OBVIOUS
<1>2. 4 \div 4 = 1 /\ 2 \div 4 = 0 /\ 0 \div 4 = 0
  OBVIOUS
<1> QED
  BY <1>1, <1>2 DEF FillLimit

LEMMA SizeFacts ==
    /\ SizeOK(0) /\ SizeOK(4)
    /\ \A e \in Nat : /\ Power[e] \in Nat
                      /\ Power[e] >= 4 => SizeOK(Power[e])
                      /\ e # 0 => Power[e] >= 2 /\ Power[e] \div 2 = Power[e - 1]
    /\ \A size \in Nat : SizeOK(size) /\ size # 0 => SizeOK(2 * size)
<1>1. \A e \in Nat : Power[e] \in Nat /\ Power[e] > e /\ Power[e + 1] = 2 * Power[e]
  BY PowerFacts
<1>2. Power[0] = 1 /\ Power[1] = 2 /\ Power[2] = 4
  <2>1. Power[0 + 1] = 2 * Power[0] /\ Power[1 + 1] = 2 * Power[1]
    BY <1>1
  <2> QED
    BY <2>1, PowerFacts
<1>3. ASSUME NEW e \in Nat, Power[e] >= 4 PROVE SizeOK(Power[e])
  <2>1. e # 0 /\ e # 1
    BY <1>2, <1>3
  <2>2. e >= 2
    BY <2>1
  <2> QED
    BY <2>2 DEF SizeOK
<1>4. ASSUME NEW e \in Nat, e # 0 PROVE Power[e] >= 2 /\ Power[e] \div 2 = Power[e - 1]
  <2>1. e - 1 \in Nat /\ (e - 1) + 1 = e
    BY <1>4
  <2>2. PICK p \in Nat : p = Power[e - 1] /\ p > e - 1
    BY <1>1, <2>1
  <2>3. Power[e] = 2 * p /\ p >= 1
    BY <1>1, <2>1, <2>2
  <2>4. (2 * p) \div 2 = p
    OBVIOUS
  <2> QED
    BY <2>2, <2>3, <2>4
<1>5. ASSUME NEW size \in Nat, SizeOK(size), size # 0 PROVE SizeOK(2 * size)
  <2>1. PICK e \in Nat : e >= 2 /\ size = Power[e]
    BY <1>5 DEF SizeOK
  <2>2. e + 1 \in Nat /\ e + 1 >= 2 /\ Power[e + 1] = 2 * size
    BY <1>1, <2>1
  <2> QED
    BY <2>2 DEF SizeOK
<1>6. SizeOK(0)
  BY DEF SizeOK
<1>7. SizeOK(4)
  BY <1>2, <1>3
<1> QED
  BY <1>1, <1>3, <1>4, <1>5, <1>6, <1>7

LEMMA CapacityFacts ==
    ASSUME NEW capacity \in Nat
    PROVE  SizeForCapacity(capacity) \in Nat /\ SizeOK(SizeForCapacity(capacity))
<1>1. CASE capacity = 0
  BY <1>1, SizeFacts DEF SizeForCapacity
<1>2. CASE capacity # 0 /\ ~ (capacity >= MinSize)
  BY <1>2, SizeFacts DEF SizeForCapacity, InitialSize
<1>3. CASE capacity # 0 /\ capacity >= MinSize
  <2>1. PICK v \in Nat : v = capacity + (capacity \div 4) /\ v >= 4
    BY <1>3 DEF MinSize
  <2>2. PICK e \in Nat : Pow2Round(v) = Power[e] /\ Power[e] >= v
    BY RoundFacts
  <2>3. Power[e] \in Nat /\ Power[e] >= 4
    BY <2>1, <2>2, SizeFacts
  <2>4. SizeForCapacity(capacity) = Power[e]
    BY <1>3, <2>1, <2>2 DEF SizeForCapacity
  <2> QED
    BY <2>3, <2>4, SizeFacts
<1> QED
  BY <1>1, <1>2, <1>3

(* However often the size is halved, it stays a power of two with room for *)
(* the pairs and one more.                                                 *)
LEMMA ShrunkFacts ==
    ASSUME NEW t, TableOK(t), IsSparse(t)
    PROVE  /\ ShrunkSize(t) \in Nat /\ ShrunkSize(t) >= 4 /\ SizeOK(ShrunkSize(t))
           /\ t.count < FillLimit(ShrunkSize(t))
<1>1. PICK n \in Nat, count \in Nat : n = t.size /\ count = t.count
  BY TableFacts
<1> DEFINE sparse(x) == count < FillLimit(x \div 2)
           next(x)   == IF x >= InitialSize /\ sparse(x) THEN x \div 2 ELSE x
           step      == [x \in Nat |-> [k \in Nat |-> next(x)]]
           Room(x)   == (\E e \in Nat : e # 0 /\ x = Power[e]) /\ count < FillLimit(x)
<1>2. \A x : IsSparseSize(t, x) <=> sparse(x)
  BY <1>1 DEF IsSparseSize
<1>3. n # 0 /\ n \div 2 \in Nat /\ Room(n \div 2)
  <2>1. count < FillLimit(n \div 2)
    BY <1>1, <1>2 DEF IsSparse
  <2>2. 0 \div 2 = 0
    OBVIOUS
  <2>3. n # 0
    BY <2>1, <2>2, LimitFacts
  <2>4. PICK e \in Nat : e >= 2 /\ n = Power[e]
    BY <1>1, <2>3 DEF TableOK, SizeOK
  <2>5. e # 0 /\ e - 1 \in Nat /\ e - 1 # 0
    BY <2>4
  <2>6. n \div 2 = Power[e - 1]
    BY <2>4, <2>5, SizeFacts
  <2>7. Power[e - 1] \in Nat
    BY <2>5, SizeFacts
  <2> QED
    BY <2>1, <2>3, <2>5, <2>6, <2>7
<1>4. PICK f \in [0 .. n -> Nat] : IsRun(f, n, n \div 2, step)
  <2>1. step \in [Nat -> [Nat -> Nat]]
    <3>1. \A x \in Nat : x \div 2 \in Nat
      OBVIOUS
    <3>2. \A x \in Nat : next(x) \in Nat
      BY <3>1
    <3> HIDE DEF next
    <3> QED
      BY <3>2
  <2> HIDE DEF step
  <2> QED
    BY <1>3, <2>1, RunExists
<1> DEFINE Eq(g) == g = [k \in 0 .. n |->
                            IF k = 0 THEN n \div 2
                            ELSE IF g[k - 1] >= InitialSize /\ IsSparseSize(t, g[k - 1])
                                 THEN g[k - 1] \div 2
                                 ELSE g[k - 1]]
           halved == CHOOSE g : Eq(g)
<1>5. Eq(f)
  <2>1. ASSUME NEW k \in 1 .. n PROVE f[k] = next(f[k - 1])
    <3>1. k - 1 \in 0 .. n /\ k \in Nat /\ f[k - 1] \in Nat
      OBVIOUS
    <3>2. f[k] = step[f[k - 1]][k]
      BY <1>4 DEF IsRun
    <3> HIDE DEF next
    <3> QED
      BY <3>1, <3>2
  <2>2. f[0] = n \div 2
    BY <1>4 DEF IsRun
  <2>3. \A k \in 0 .. n : k = 0 \/ k \in 1 .. n
    OBVIOUS
  <2> HIDE DEF step, sparse
  <2> QED
    BY <1>2, <2>1, <2>2, <2>3
<1>6. Eq(halved)
  BY <1>5
<1>7. ShrunkSize(t) = IF halved[n] < InitialSize THEN InitialSize ELSE halved[n]
  BY <1>1 DEF ShrunkSize
<1> HIDE DEF halved, step
<1> DEFINE T == {k \in Nat : k <= n => Room(halved[k])}
<1>8. 0 \in T
  <2>1. 0 \in 0 .. n
    OBVIOUS
  <2>2. halved[0] = n \div 2
    BY <1>6, <2>1
  <2> HIDE DEF Room
  <2> QED
    BY <1>3, <2>2
<1>9. ASSUME NEW k \in Nat, k \in T PROVE k + 1 \in T
  <2> SUFFICES ASSUME k + 1 <= n PROVE Room(halved[k + 1])
    OBVIOUS
  <2>1. k + 1 \in 0 .. n /\ (k + 1) - 1 = k /\ k + 1 # 0 /\ k <= n
    OBVIOUS
  <2>2. PICK x : x = halved[k]
    OBVIOUS
  <2>3. Room(x)
    BY <1>9, <2>1, <2>2
  <2>4. halved[k + 1] = next(x)
    <3> HIDE DEF Room, sparse
    <3>1. halved[k + 1] = IF halved[k] >= InitialSize /\ IsSparseSize(t, halved[k])
                          THEN halved[k] \div 2 ELSE halved[k]
      BY <1>6, <2>1
    <3> QED
      BY <1>2, <2>2, <3>1
  <2>5. CASE x >= InitialSize /\ sparse(x)
    <3>1. PICK e \in Nat : e # 0 /\ x = Power[e]
      BY <2>3
    <3>2. e - 1 \in Nat /\ x \div 2 = Power[e - 1] /\ Power[e - 1] \in Nat /\ x \in Nat
      <4>1. e - 1 \in Nat
        BY <3>1
      <4>2. Power[e] \in Nat /\ Power[e - 1] \in Nat /\ Power[e] \div 2 = Power[e - 1]
        BY <3>1, <4>1, SizeFacts
      <4> QED
        BY <3>1, <4>1, <4>2
    <3>3. e - 1 # 0
      <4> SUFFICES ASSUME e - 1 = 0 PROVE FALSE
        OBVIOUS
      <4>1. Power[0] = 1
        BY PowerFacts
      <4>2. x \div 2 = 1
        BY <3>2, <4>1
      <4>3. \A y \in Nat : y >= 4 => y \div 2 >= 2
        OBVIOUS
      <4>4. x >= 4
        BY <2>5 DEF InitialSize
      <4> QED
        BY <3>2, <4>2, <4>3, <4>4
    <3> QED
      BY <2>4, <2>5, <3>2, <3>3
  <2>6. CASE ~ (x >= InitialSize /\ sparse(x))
    <3> HIDE DEF Room, sparse
    <3> QED
      BY <2>3, <2>4, <2>6
  <2> QED
    BY <2>5, <2>6
<1>10. Room(halved[n])
  <2> HIDE DEF Room
  <2>0. \A k \in Nat : k \in T => k + 1 \in T
    BY <1>9
  <2> HIDE DEF T
  <2>1. \A k \in Nat : k \in T
    BY <1>8, <2>0, Induction
  <2> QED
    BY <2>1 DEF T
<1>11. PICK e \in Nat : e # 0 /\ halved[n] = Power[e]
  BY <1>10
<1>12. PICK x \in Nat : x = halved[n] /\ x >= 2 /\ (x >= 4 => SizeOK(x))
  BY <1>11, SizeFacts
<1>13. CASE x < InitialSize
  <2>1. ShrunkSize(t) = 4
    BY <1>7, <1>12, <1>13 DEF InitialSize
  <2>2. FillLimit(x) \in Nat /\ FillLimit(x) <= x /\ FillLimit(4) = 3
    BY LimitFacts
  <2>3. x < 4
    BY <1>13 DEF InitialSize
  <2>4. count < FillLimit(x)
    BY <1>10, <1>12
  <2>5. PICK y \in Nat : y = FillLimit(x)
    BY <2>2
  <2>6. count < 3
    BY <2>2, <2>3, <2>4, <2>5
  <2>7. SizeOK(4)
    BY SizeFacts
  <2>8. FillLimit(ShrunkSize(t)) = 3
    BY <2>1, <2>2
  <2> QED
    BY <1>1, <2>1, <2>6, <2>7, <2>8
<1>14. CASE ~ (x < InitialSize)
  <2>1. ShrunkSize(t) = x /\ x >= 4
    BY <1>7, <1>12, <1>14 DEF InitialSize
  <2>2. count < FillLimit(x)
    BY <1>10, <1>12
  <2> QED
    BY <1>1, <1>12, <2>1, <2>2
<1> QED
  BY <1>13, <1>14

-----------------------------------------------------------------------------
(* Deletion *)

(* how far the loop of remove has to walk from found to j                  *)
Off(found, j, size) == IF found <= j THEN j - found ELSE j - found + size

LEMMA OffFacts ==
    ASSUME NEW size \in Nat \ {0}, NEW found \in Slot(size)
    PROVE  /\ Off(found, found, size) = 0
           /\ \A j \in Slot(size) : Off(found, j, size) \in 0 .. size - 1
           /\ \A i, j \in Slot(size) : Off(found, i, size) = Off(found, j, size) => i = j
           /\ \A n \in 0 .. size - 1 : /\ (found + n) % size \in Slot(size)
                                       /\ Off(found, (found + n) % size, size) = n
<1>1. \A n \in 0 .. size - 1 :
          (found + n) % size = IF found + n < size THEN found + n ELSE found + n - size
  BY Wraps DEF Slot
<1>2. ASSUME NEW n \in 0 .. size - 1
      PROVE  (found + n) % size \in Slot(size) /\ Off(found, (found + n) % size, size) = n
  <2>1. PICK i : i = (found + n) % size
    OBVIOUS
  <2>2. i = IF found + n < size THEN found + n ELSE found + n - size
    BY <1>1, <2>1
  <2>3. i \in Slot(size) /\ Off(found, i, size) = n
    BY <2>2 DEF Slot, Off
  <2> QED
    BY <2>1, <2>3
<1>3. Off(found, found, size) = 0
  BY DEF Off, Slot
<1>4. \A j \in Slot(size) : Off(found, j, size) \in 0 .. size - 1
  BY DEF Off, Slot
<1>5. \A i, j \in Slot(size) : Off(found, i, size) = Off(found, j, size) => i = j
  BY DEF Off, Slot
<1> QED
  BY <1>2, <1>3, <1>4, <1>5

(* A pair stays exactly if the gap is not on its probe.                    *)
LEMMA StaysFacts ==
    ASSUME NEW size \in Nat, NEW h \in Slot(size), NEW d \in Slot(size),
           NEW i \in Slot(size), d # i
    PROVE  StaysPut(h, d, i) <=> ~ Before(h, d, i)
BY DEF StaysPut, Before, Slot

LEMMA BeforeOrder ==
    ASSUME NEW size \in Nat, NEW h \in Slot(size), NEW i \in Slot(size),
           NEW d \in Slot(size), Before(h, d, i)
    PROVE  ~ Before(h, i, d) /\ \A j \in Slot(size) : Before(h, j, d) => Before(h, j, i)
BY DEF Before, Slot

(* A probe that arrives at x and sees d sees what the walk finds between.  *)
LEMMA SeesBetween ==
    ASSUME NEW size \in Nat, NEW found \in Slot(size), NEW h \in Slot(size),
           NEW d \in Slot(size), NEW i \in Slot(size), NEW x \in Slot(size),
           Off(found, d, size) < Off(found, i, size),
           Off(found, i, size) < Off(found, x, size),
           Before(h, d, x)
    PROVE  Before(h, i, x)
BY DEF Before, Slot, Off

(* One that sees i and has to come around to x sees all that lies between. *)
LEMMA SeesAround ==
    ASSUME NEW size \in Nat, NEW found \in Slot(size), NEW h \in Slot(size),
           NEW i \in Slot(size), NEW x \in Slot(size),
           Off(found, x, size) < Off(found, i, size), Before(h, i, x)
    PROVE  \A j \in Slot(size) : \/ Off(found, j, size) > Off(found, i, size)
                                 \/ Off(found, j, size) < Off(found, x, size)
                                 => Before(h, j, x)
BY DEF Before, Slot, Off

(* The loop of remove: s are the slots after n steps, d is the gap, the    *)
(* stale pair at d does not count.                                         *)
Gap(slots, size, found, n, s, d) ==
    /\ s \in Cells(size)
    /\ \A x \in Slot(size) : s[x] = Hole <=> slots[x] = Hole
    /\ d \in Slot(size) /\ Off(found, d, size) <= n
    /\ \A x \in Slot(size) : Off(found, x, size) <= n => slots[x] # Hole
    /\ {s[x] : x \in Used(slots, size) \ {d}} = {slots[x] : x \in Used(slots, size) \ {found}}
    /\ \A x, y \in Used(slots, size) \ {d} : IsEqual(s[x].key, s[y].key) => x = y
    /\ \A x \in Used(slots, size) \ {d}, j \in Slot(size) :
           Before(Home(s, size, x), j, x) => slots[j] # Hole
    \* the gap is on no probe for a pair that was walked past
    /\ \A x \in Used(slots, size) \ {d} :
           Off(found, x, size) <= n => ~ Before(Home(s, size, x), d, x)

Closed(slots, size, found, s) ==
    /\ Chained(s, size)
    /\ Stored(s, size) = {slots[x] : x \in Used(slots, size) \ {found}}
    /\ \E d \in Used(slots, size) : Used(s, size) = Used(slots, size) \ {d}

LEMMA GapStarts ==
    ASSUME NEW size \in Nat \ {0}, NEW slots, Chained(slots, size), NEW found \in Used(slots, size)
    PROVE  Gap(slots, size, found, 0, slots, found)
<1>1. found \in Slot(size) /\ slots[found] # Hole
  BY DEF Used
<1>2. Off(found, found, size) = 0
  BY <1>1, OffFacts
<1>3. \A x \in Slot(size) : Off(found, x, size) <= 0 => x = found
  BY <1>1, OffFacts
<1>4. slots \in Cells(size)
  BY DEF Chained
<1>5. \A x, y \in Used(slots, size) \ {found} : IsEqual(slots[x].key, slots[y].key) => x = y
  BY DEF Chained, Distinct
<1>6. \A x \in Used(slots, size) \ {found}, j \in Slot(size) :
          Before(Home(slots, size, x), j, x) => slots[j] # Hole
  BY DEF Chained, Unbroken
<1>7. \A x \in Used(slots, size) \ {found} : ~ (Off(found, x, size) <= 0)
  BY <1>3 DEF Used
<1>8. Off(found, found, size) <= 0
  BY <1>2
<1> QED
  BY <1>1, <1>3, <1>4, <1>5, <1>6, <1>7, <1>8 DEF Gap

LEMMA GapTyped ==
    ASSUME NEW size \in Nat \ {0}, NEW slots, NEW found, NEW n, NEW s, NEW d,
           Gap(slots, size, found, n, s, d)
    PROVE  \A x \in Used(slots, size) :
               /\ x \in Slot(size) /\ s[x] \in Pairs /\ s[x] # Hole
               /\ s[x].key \in Key /\ Home(s, size, x) \in Slot(size)
<1> TAKE x \in Used(slots, size)
<1>1. x \in Slot(size) /\ slots[x] # Hole
  BY DEF Used
<1>2. s[x] \in Pairs /\ s[x] # Hole
  BY <1>1 DEF Gap, Cells
<1>3. s[x].key \in Key
  BY <1>2 DEF Pairs
<1> QED
  BY <1>1, <1>2, <1>3, HomeFacts DEF Home

LEMMA GapCloses ==
    ASSUME NEW size \in Nat \ {0}, NEW slots, NEW found \in Slot(size), NEW n \in Nat,
           NEW s, NEW d, Gap(slots, size, found, n, s, d),
           NEW i \in Slot(size), Off(found, i, size) = n + 1, s[i] = Hole,
           NEW r, r = [s EXCEPT ![d] = Hole]
    PROVE  Closed(slots, size, found, r)
<1> DEFINE U == Used(slots, size)
<1>1. /\ s \in Cells(size) /\ d \in Slot(size)
      /\ \A x \in Slot(size) : s[x] = Hole <=> slots[x] = Hole
  BY DEF Gap
<1>2. r \in Cells(size) /\ r[d] = Hole /\ \A x \in Slot(size) : x # d => r[x] = s[x]
  BY <1>1 DEF Cells
<1>3. d \in U
  BY <1>1 DEF Gap, Used
<1>4. Used(r, size) = U \ {d}
  BY <1>1, <1>2 DEF Used
<1>5. \A x \in U \ {d} : r[x] = s[x] /\ x \in Slot(size)
  BY <1>2 DEF Used
<1>6. Distinct(r, size)
  BY <1>4, <1>5 DEF Gap, Distinct
<1>7. Unbroken(r, size)
  <2> SUFFICES ASSUME NEW x \in U \ {d}, NEW j \in Slot(size), Before(Home(r, size, x), j, x)
               PROVE  r[j] # Hole
    BY <1>4 DEF Unbroken
  <2>1. PICK h \in Slot(size) : h = Home(s, size, x) /\ h = Home(r, size, x)
    <3>1. Home(s, size, x) = Home(r, size, x)
      BY <1>5 DEF Home
    <3> QED
      BY <3>1, GapTyped
  <2>2. Before(h, j, x) /\ x \in Slot(size) /\ x # d
    BY <1>5, <2>1
  <2>3. \A y \in Slot(size) : Before(h, y, x) => slots[y] # Hole
    BY <2>1 DEF Gap
  <2>4. j # d
    <3> SUFFICES ASSUME Before(h, d, x) PROVE FALSE
      BY <2>2
    <3>1. ~ (Off(found, x, size) <= n)
      BY <2>1 DEF Gap
    <3>2. slots[i] = Hole /\ slots[x] # Hole
      BY <1>1 DEF Used
    <3>3. PICK a \in Nat, b \in Nat : a = Off(found, x, size) /\ b = Off(found, d, size)
      BY <1>1, <2>2, OffFacts
    <3>4. a # n + 1
      <4>1. x # i
        BY <3>2
      <4> QED
        BY <2>2, <3>3, <4>1, OffFacts
    <3>5. b <= n
      BY <3>3 DEF Gap
    <3>6. b < n + 1 /\ n + 1 < a
      BY <3>1, <3>3, <3>4, <3>5
    <3>7. Before(h, i, x)
      BY <1>1, <2>2, <3>3, <3>6, SeesBetween
    <3> QED
      BY <2>3, <3>2, <3>7
  <2> QED
    BY <1>1, <1>2, <2>2, <2>3, <2>4
<1>8. Stored(r, size) = {slots[x] : x \in U \ {found}}
  <2>1. Stored(r, size) = {s[x] : x \in U \ {d}}
    BY <1>4, <1>5 DEF Stored
  <2> QED
    BY <2>1 DEF Gap
<1> QED
  BY <1>2, <1>3, <1>4, <1>6, <1>7, <1>8 DEF Closed, Chained

LEMMA GapStays ==
    ASSUME NEW size \in Nat \ {0}, NEW slots, NEW found \in Slot(size), NEW n \in Nat,
           NEW s, NEW d, Gap(slots, size, found, n, s, d),
           NEW i \in Slot(size), Off(found, i, size) = n + 1, s[i] # Hole,
           StaysPut(Home(s, size, i), d, i)
    PROVE  Gap(slots, size, found, n + 1, s, d)
<1>1. d \in Slot(size) /\ Off(found, d, size) <= n /\ slots[i] # Hole
  BY DEF Gap
<1>2. \A x \in Slot(size) : Off(found, x, size) <= n + 1 => Off(found, x, size) <= n \/ x = i
  <2> TAKE x \in Slot(size)
  <2>1. PICK a \in Nat : a = Off(found, x, size)
    BY OffFacts
  <2>0. \A y, z \in Slot(size) : Off(found, y, size) = Off(found, z, size) => y = z
    BY OffFacts
  <2>2. a = n + 1 => x = i
    BY <2>0, <2>1
  <2> QED
    BY <2>1, <2>2
<1>3. Off(found, d, size) <= n + 1 /\ d # i
  <2>1. PICK a \in Nat : a = Off(found, d, size)
    BY <1>1, OffFacts
  <2> QED
    BY <1>1, <2>1
<1>4. ~ Before(Home(s, size, i), d, i)
  <2>1. i \in Used(slots, size)
    BY <1>1 DEF Used
  <2>2. Home(s, size, i) \in Slot(size)
    BY <2>1, GapTyped
  <2> QED
    BY <1>1, <1>3, <2>2, StaysFacts
<1>5. \A x \in Slot(size) : Off(found, x, size) <= n + 1 => slots[x] # Hole
  BY <1>1, <1>2 DEF Gap
<1>6. \A x \in Used(slots, size) \ {d} :
          Off(found, x, size) <= n + 1 => ~ Before(Home(s, size, x), d, x)
  BY <1>2, <1>4 DEF Gap, Used
<1> QED
  BY <1>3, <1>5, <1>6 DEF Gap

LEMMA GapMoves ==
    ASSUME NEW size \in Nat \ {0}, NEW slots, HasHole(slots, size), NEW found \in Slot(size),
           NEW n \in Nat, NEW s, NEW d, Gap(slots, size, found, n, s, d),
           NEW i \in Slot(size), Off(found, i, size) = n + 1, s[i] # Hole,
           ~ StaysPut(Home(s, size, i), d, i),
           NEW r, r = [s EXCEPT ![d] = s[i]]
    PROVE  Gap(slots, size, found, n + 1, r, i)
<1> DEFINE U == Used(slots, size)
<1>1. /\ s \in Cells(size) /\ d \in Slot(size)
      /\ \A x \in Slot(size) : s[x] = Hole <=> slots[x] = Hole
      /\ Off(found, d, size) <= n /\ slots[d] # Hole /\ slots[i] # Hole
  BY DEF Gap
<1>2. i \in U /\ d \in U /\ s[i] \in Pairs
  <2>1. i \in U /\ d \in U
    BY <1>1 DEF Used
  <2> QED
    BY <2>1, GapTyped
<1>3. r \in Cells(size) /\ r[d] = s[i] /\ \A x \in Slot(size) : x # d => r[x] = s[x]
  BY <1>1, <1>2 DEF Cells
<1>4. \A x \in Slot(size) : Off(found, x, size) \in Nat
                            /\ (Off(found, x, size) <= n + 1 => Off(found, x, size) <= n \/ x = i)
  <2> TAKE x \in Slot(size)
  <2>1. PICK a \in Nat : a = Off(found, x, size)
    BY OffFacts
  <2>0. \A y, z \in Slot(size) : Off(found, y, size) = Off(found, z, size) => y = z
    BY OffFacts
  <2>2. a = n + 1 => x = i
    BY <2>0, <2>1
  <2> QED
    BY <2>1, <2>2
<1>5. d # i
  BY <1>1, <1>4
<1>6. \A x \in Slot(size) : r[x] = Hole <=> slots[x] = Hole
  BY <1>1, <1>3
<1>7. \A x \in U : x \in Slot(size)
  BY DEF Used
<1>8. PICK h \in Slot(size) : h = Home(s, size, i)
  BY <1>2, GapTyped
<1>9. Before(h, d, i) /\ ~ Before(h, i, d) /\ \A j \in Slot(size) : Before(h, j, d) => Before(h, j, i)
  BY <1>1, <1>5, <1>8, StaysFacts, BeforeOrder
<1>10. Home(r, size, d) = h /\ \A x \in U \ {d} : Home(r, size, x) = Home(s, size, x)
  BY <1>3, <1>7, <1>8 DEF Home
<1>11. \A x \in Slot(size) : Off(found, x, size) <= n + 1 => slots[x] # Hole
  BY <1>1, <1>4 DEF Gap
<1>12. {r[x] : x \in U \ {i}} = {slots[x] : x \in U \ {found}}
  <2>1. {r[x] : x \in U \ {i}} = {s[x] : x \in U \ {d}}
    <3>1. ASSUME NEW x \in U \ {i} PROVE \E y \in U \ {d} : r[x] = s[y]
      <4>1. x = d => i \in U \ {d} /\ r[x] = s[i]
        BY <1>2, <1>3, <1>5
      <4>2. x # d => x \in U \ {d} /\ r[x] = s[x]
        BY <1>3, <1>7
      <4> QED
        BY <4>1, <4>2
    <3>2. ASSUME NEW y \in U \ {d} PROVE \E x \in U \ {i} : r[x] = s[y]
      <4>1. y = i => d \in U \ {i} /\ r[d] = s[y]
        BY <1>2, <1>3, <1>5
      <4>2. y # i => y \in U \ {i} /\ r[y] = s[y]
        BY <1>3, <1>7
      <4> QED
        BY <4>1, <4>2
    <3> QED
      BY <3>1, <3>2
  <2> QED
    BY <2>1 DEF Gap
<1>13. ASSUME NEW x \in U \ {i}, NEW y \in U \ {i}, IsEqual(r[x].key, r[y].key) PROVE x = y
  <2>1. \A u, v \in U \ {d} : IsEqual(s[u].key, s[v].key) => u = v
    BY DEF Gap
  <2>2. CASE x = d /\ y # d
    BY <1>2, <1>3, <1>5, <1>7, <1>13, <2>1, <2>2
  <2>3. CASE x # d /\ y = d
    BY <1>2, <1>3, <1>5, <1>7, <1>13, <2>1, <2>3
  <2>4. CASE x # d /\ y # d
    BY <1>3, <1>7, <1>13, <2>1, <2>4
  <2> QED
    BY <2>2, <2>3, <2>4
<1>14. ASSUME NEW x \in U \ {i}, NEW j \in Slot(size), Before(Home(r, size, x), j, x)
       PROVE  slots[j] # Hole
  <2>1. \A u \in U \ {d} : Before(Home(s, size, u), j, u) => slots[j] # Hole
    BY DEF Gap
  <2>2. CASE x = d
    BY <1>2, <1>5, <1>8, <1>9, <1>10, <1>14, <2>1, <2>2
  <2>3. CASE x # d
    BY <1>10, <1>14, <2>1, <2>3
  <2> QED
    BY <2>2, <2>3
<1>15. ASSUME NEW x \in U \ {i}, Off(found, x, size) <= n + 1, Before(Home(r, size, x), i, x)
       PROVE  FALSE
  <2>1. x # d
    BY <1>9, <1>10, <1>15
  <2>2. PICK g \in Slot(size) : g = Home(s, size, x) /\ g = Home(r, size, x)
    BY <1>10, <2>1, GapTyped
  <2>3. x \in Slot(size) /\ Before(g, i, x)
    BY <1>7, <1>15, <2>2
  <2>4. PICK a \in Nat, b \in Nat : a = Off(found, x, size) /\ b = Off(found, d, size)
    BY <1>1, <1>4, <2>3
  <2>5. a <= n /\ b <= n /\ a # b
    <3>1. a # b
      BY <1>1, <2>1, <2>3, <2>4, OffFacts
    <3> QED
      BY <1>1, <1>4, <1>15, <2>3, <2>4, <3>1
  <2>6. ~ Before(g, d, x)
    BY <2>1, <2>2, <2>4, <2>5 DEF Gap
  <2>7. a < n + 1
    BY <2>5
  <2>8. \A j \in Slot(size) : \/ Off(found, j, size) > n + 1
                              \/ Off(found, j, size) < a
                              => Before(g, j, x)
    BY <2>3, <2>4, <2>7, SeesAround
  <2>9. ASSUME NEW j \in Slot(size) PROVE slots[j] # Hole
    <3>1. PICK c \in Nat : c = Off(found, j, size)
      BY <1>4
    <3>2. CASE c > n + 1
      <4>1. Before(g, j, x)
        BY <2>8, <3>1, <3>2
      <4> QED
        BY <2>1, <2>2, <4>1 DEF Gap
    <3>3. CASE c <= n + 1
      BY <1>11, <3>1, <3>3
    <3> QED
      BY <3>2, <3>3
  <2> QED
    BY <2>9 DEF HasHole
<1>16. Off(found, i, size) <= n + 1
  OBVIOUS
<1> HIDE DEF U
<1> QED
  BY <1>3, <1>6, <1>11, <1>12, <1>13, <1>14, <1>15, <1>16 DEF Gap, U

LEMMA CloseGapFacts ==
    ASSUME NEW size \in Nat \ {0}, NEW slots, Chained(slots, size), HasHole(slots, size),
           NEW found \in Used(slots, size)
    PROVE  Closed(slots, size, found, CloseGap(slots, size, found))
<1>0. size \in Nat /\ found \in Slot(size)
  BY DEF Used
<1> DEFINE X       == [slots : Cells(size), dst : Slot(size), done : BOOLEAN]
           start   == [slots |-> slots, dst |-> found, done |-> FALSE]
           at(k)   == (found + k) % size
           next(w, k) ==
               IF w.done THEN w
               ELSE IF w.slots[at(k)] = Hole
                    THEN [w EXCEPT !.slots[w.dst] = Hole, !.done = TRUE]
               ELSE IF StaysPut(HashForSize(w.slots[at(k)].key, size), w.dst, at(k))
                    THEN w
               ELSE [w EXCEPT !.slots[w.dst] = w.slots[at(k)], !.dst = at(k)]
           step == [w \in X |-> [k \in Nat |-> IF k \in 1 .. size THEN next(w, k) ELSE w]]
<1>1. start \in X
  BY <1>0 DEF Chained
<1>2. \A k \in 1 .. size : at(k) \in Slot(size)
  <2> TAKE k \in 1 .. size
  <2>1. PICK v \in Nat : v = found + k
    BY <1>0 DEF Slot
  <2>2. v % size \in 0 .. size - 1
    OBVIOUS
  <2> QED
    BY <2>1, <2>2 DEF Slot
<1> HIDE DEF at
<1>3. ASSUME NEW w \in X, NEW k \in 1 .. size PROVE next(w, k) \in X
  <2>1. at(k) \in Slot(size)
    BY <1>2
  <2>2. [w EXCEPT !.slots[w.dst] = Hole, !.done = TRUE] \in X
    BY DEF Cells
  <2>3. w.slots[at(k)] # Hole => [w EXCEPT !.slots[w.dst] = w.slots[at(k)], !.dst = at(k)] \in X
    BY <2>1 DEF Cells
  <2> QED
    BY <2>2, <2>3
<1>4. PICK f \in [0 .. size -> X] : IsRun(f, size, start, step)
  <2>1. step \in [X -> [Nat -> X]]
    <3> HIDE DEF next, X
    <3> QED
      BY <1>3
  <2> HIDE DEF step, X, start
  <2> QED
    BY <1>0, <1>1, <2>1, RunExists
<1> DEFINE Eq(g) == g = [n \in 0 .. size |->
               IF n = 0 THEN [slots |-> slots, dst |-> found, done |-> FALSE]
               ELSE LET w == g[n - 1]
                        i == (found + n) % size
                    IN  IF w.done THEN w
                        ELSE IF w.slots[i] = Hole
                             THEN [w EXCEPT !.slots[w.dst] = Hole, !.done = TRUE]
                        ELSE IF StaysPut(HashForSize(w.slots[i].key, size), w.dst, i)
                             THEN w
                        ELSE [w EXCEPT !.slots[w.dst] = w.slots[i], !.dst = i]]
           walk == CHOOSE g : Eq(g)
<1>5. \A g : Eq(g) <=> g = [n \in 0 .. size |-> IF n = 0 THEN start ELSE next(g[n - 1], n)]
  BY DEF at
<1>6. Eq(f)
  <2>1. ASSUME NEW k \in 1 .. size PROVE f[k] = next(f[k - 1], k)
    <3>1. k - 1 \in 0 .. size /\ k \in Nat /\ f[k - 1] \in X
      OBVIOUS
    <3>2. f[k] = step[f[k - 1]][k]
      BY <1>4 DEF IsRun
    <3> HIDE DEF next
    <3> QED
      BY <3>1, <3>2
  <2>2. f[0] = start
    BY <1>4 DEF IsRun
  <2>3. \A k \in 0 .. size : k = 0 \/ k \in 1 .. size
    OBVIOUS
  <2> HIDE DEF Eq, next, start, X, step
  <2> QED
    BY <1>5, <2>1, <2>2, <2>3
<1>7. Eq(walk)
  <2> HIDE DEF Eq
  <2> QED
    BY <1>6
<1>8. CloseGap(slots, size, found) = walk[size].slots
  BY DEF CloseGap
<1> HIDE DEF walk
<1>9. walk[0] = start /\ \A k \in 1 .. size : walk[k] = next(walk[k - 1], k)
  <2>1. \A k \in 1 .. size : k \in 0 .. size /\ k # 0
    OBVIOUS
  <2>2. 0 \in 0 .. size
    OBVIOUS
  <2> HIDE DEF Eq, next, start
  <2> QED
    BY <1>5, <1>7, <2>1, <2>2
<1> HIDE DEF Eq, step
<1> DEFINE Walked(n, w) == /\ w \in X
                           /\ w.done => Closed(slots, size, found, w.slots)
                           /\ ~ w.done => Gap(slots, size, found, n, w.slots, w.dst)
           T == {n \in Nat : n <= size => Walked(n, walk[n])}
<1>10. 0 \in T
  <2>1. Gap(slots, size, found, 0, slots, found)
    BY GapStarts
  <2>2. Walked(0, start)
    BY <1>1, <2>1
  <2> HIDE DEF Walked
  <2> QED
    BY <1>9, <2>2
<1>11. ASSUME NEW n \in Nat, n + 1 <= size, NEW w, Walked(n, w)
       PROVE  Walked(n + 1, next(w, n + 1))
  <2>1. n + 1 \in 1 .. size
    BY <1>11
  <2>2. next(w, n + 1) \in X
    BY <1>3, <1>11, <2>1
  <2>3. CASE w.done
    <3>1. next(w, n + 1) = w
      BY <2>3
    <3> HIDE DEF next, X
    <3> QED
      BY <1>11, <2>3, <3>1
  <2>4. CASE ~ w.done
    <3>1. PICK s \in Cells(size), d \in Slot(size) :
              /\ w = [slots |-> s, dst |-> d, done |-> FALSE]
              /\ s = w.slots /\ d = w.dst
      BY <1>11, <2>4
    <3>2. Gap(slots, size, found, n, s, d)
      BY <1>11, <2>4, <3>1
    <3>3. n + 1 \in 0 .. size - 1
      <4> SUFFICES ASSUME n + 1 = size PROVE FALSE
        BY <1>11
      <4>1. ASSUME NEW x \in Slot(size) PROVE slots[x] # Hole
        <5>1. Off(found, x, size) \in 0 .. size - 1
          BY <1>0, OffFacts
        <5>2. Off(found, x, size) <= n
          BY <5>1
        <5> QED
          BY <3>2, <5>2 DEF Gap
      <4> QED
        BY <4>1 DEF HasHole
    <3>4. PICK i \in Slot(size) : i = at(n + 1) /\ Off(found, i, size) = n + 1
      <4>1. \A m \in 0 .. size - 1 : /\ (found + m) % size \in Slot(size)
                                    /\ Off(found, (found + m) % size, size) = m
        BY <1>0, OffFacts
      <4>2. \A m \in 0 .. size - 1 : at(m) \in Slot(size) /\ Off(found, at(m), size) = m
        BY <4>1 DEF at
      <4> QED
        BY <3>3, <4>2
    <3>5. CASE s[i] = Hole
      <4>1. PICK r : r = [s EXCEPT ![d] = Hole]
        OBVIOUS
      <4>2. Closed(slots, size, found, r)
        BY <1>0, <3>2, <3>4, <3>5, <4>1, GapCloses
      <4>3. next(w, n + 1) = [slots |-> r, dst |-> d, done |-> TRUE]
        BY <3>1, <3>4, <3>5, <4>1
      <4> HIDE DEF next, X
      <4> QED
        BY <2>2, <4>2, <4>3
    <3>6. CASE s[i] # Hole /\ StaysPut(Home(s, size, i), d, i)
      <4>1. Gap(slots, size, found, n + 1, s, d)
        BY <1>0, <3>2, <3>4, <3>6, GapStays
      <4>2. next(w, n + 1) = [slots |-> s, dst |-> d, done |-> FALSE]
        BY <3>1, <3>4, <3>6 DEF Home
      <4> HIDE DEF next, X
      <4> QED
        BY <2>2, <4>1, <4>2
    <3>7. CASE s[i] # Hole /\ ~ StaysPut(Home(s, size, i), d, i)
      <4>1. PICK r : r = [s EXCEPT ![d] = s[i]]
        OBVIOUS
      <4>2. Gap(slots, size, found, n + 1, r, i)
        BY <1>0, <3>2, <3>4, <3>7, <4>1, GapMoves
      <4>3. next(w, n + 1) = [slots |-> r, dst |-> i, done |-> FALSE]
        BY <3>1, <3>4, <3>7, <4>1 DEF Home
      <4> HIDE DEF next, X
      <4> QED
        BY <2>2, <4>2, <4>3
    <3> QED
      BY <3>5, <3>6, <3>7
  <2> QED
    BY <2>3, <2>4
<1>12. \A n \in Nat : n \in T => n + 1 \in T
  <2> HIDE DEF Walked, next
  <2>1. ASSUME NEW n \in Nat, n \in T, n + 1 <= size PROVE Walked(n + 1, walk[n + 1])
    <3>1. n + 1 \in 1 .. size /\ (n + 1) - 1 = n /\ n <= size
      BY <2>1
    <3>2. Walked(n, walk[n])
      BY <2>1, <3>1
    <3>3. Walked(n + 1, next(walk[n], n + 1))
      BY <1>11, <2>1, <3>2
    <3> QED
      BY <1>9, <3>1, <3>3
  <2> QED
    BY <2>1
<1>13. Walked(size, walk[size])
  <2> HIDE DEF Walked
  <2>1. size \in T
    <3> HIDE DEF T
    <3> QED
      BY <1>0, <1>10, <1>12, Induction
  <2> QED
    BY <2>1
<1>14. walk[size].done
  <2> SUFFICES ASSUME ~ walk[size].done PROVE FALSE
    OBVIOUS
  <2>1. Gap(slots, size, found, size, walk[size].slots, walk[size].dst)
    BY <1>13
  <2>2. ASSUME NEW x \in Slot(size) PROVE slots[x] # Hole
    <3>1. Off(found, x, size) \in 0 .. size - 1
      BY <1>0, OffFacts
    <3>2. Off(found, x, size) <= size
      BY <3>1
    <3> QED
      BY <2>1, <3>2 DEF Gap
  <2> QED
    BY <2>2 DEF HasHole
<1> QED
  BY <1>8, <1>13, <1>14

-----------------------------------------------------------------------------
(* Operations on tables, and what they do to the pairs                     *)

Contents(t) == Stored(t.slots, t.size)

LEMMA NewFacts ==
    ASSUME NEW capacity \in Nat
    PROVE  /\ TableOK(NewTable(capacity)) /\ NewTable(capacity).count = 0
           /\ NewTable(capacity).size = SizeForCapacity(capacity)
           /\ NewTable(capacity).nMutations = 0
           /\ Contents(NewTable(capacity)) = {}
<1>1. PICK size \in Nat : size = SizeForCapacity(capacity) /\ SizeOK(size)
  BY CapacityFacts
<1>2. NewTable(capacity) = [size |-> size, count |-> 0, slots |-> EmptySlots(size), nMutations |-> 0]
  BY <1>1 DEF NewTable
<1>3. /\ Chained(EmptySlots(size), size) /\ Stored(EmptySlots(size), size) = {}
      /\ Cardinality(Used(EmptySlots(size), size)) = 0
  BY EmptyFacts
<1>4. EmptySlots(size) \in Cells(size)
  BY <1>3 DEF Chained
<1>5. size # 0 => 0 < size
  OBVIOUS
<1> QED
  BY <1>1, <1>2, <1>3, <1>4, <1>5 DEF TableOK, Contents

(* What an operation makes a table of.                                     *)
Made(size, count, slots, n) ==
    /\ size \in Nat /\ count \in Nat /\ n \in Nat /\ SizeOK(size)
    /\ Chained(slots, size) /\ Cardinality(Used(slots, size)) = count
    /\ size # 0 => count < size

IsTable(t, size, count, slots, n) ==
    t = [size |-> size, count |-> count, slots |-> slots, nMutations |-> n]

LEMMA TableMade ==
    \A t, size, count, slots, n :
        Made(size, count, slots, n) /\ IsTable(t, size, count, slots, n) =>
            TableOK(t) /\ Contents(t) = Stored(slots, size)
<1> SUFFICES ASSUME NEW t, NEW size, NEW count, NEW slots, NEW n,
                    Made(size, count, slots, n), IsTable(t, size, count, slots, n)
             PROVE  TableOK(t) /\ Contents(t) = Stored(slots, size)
  OBVIOUS
<1>1. slots \in Cells(size)
  BY DEF Made, Chained
<1> QED
  BY <1>1 DEF TableOK, Contents, Made, IsTable

LEMMA TableParts ==
    ASSUME NEW t, TableOK(t)
    PROVE  \E size, slots, count, n :
               /\ size \in Nat /\ count \in Nat /\ n \in Nat
               /\ size = t.size /\ slots = t.slots /\ count = t.count /\ n = t.nMutations
               /\ IsTable(t, size, count, slots, n) /\ Made(size, count, slots, n)
<1>1. t.size \in Nat /\ t.count \in Nat /\ t.nMutations \in Nat
  BY DEF TableOK
<1>2. IsTable(t, t.size, t.count, t.slots, t.nMutations)
  BY DEF TableOK, IsTable
<1>3. Made(t.size, t.count, t.slots, t.nMutations)
  BY <1>1 DEF Made, TableOK
<1>4. PICK size \in Nat, count \in Nat, n \in Nat : size = t.size /\ count = t.count /\ n = t.nMutations
  BY <1>1
<1>5. PICK slots : slots = t.slots
  OBVIOUS
<1>6. IsTable(t, size, count, slots, n) /\ Made(size, count, slots, n)
  BY <1>2, <1>3, <1>4, <1>5
<1> QED
  BY <1>4, <1>5, <1>6

LEMMA RehashFacts ==
    ASSUME NEW t, TableOK(t), NEW size \in Nat, size >= 4, SizeOK(size), t.count < size,
           NEW r, r = Rehash(t, size)
    PROVE  /\ TableOK(r) /\ r.size = size /\ r.count = t.count
           /\ r.nMutations = t.nMutations + 1 /\ Contents(r) = Contents(t)
<1>1. PICK slots : slots = CopyStorage(t, size)
  OBVIOUS
<1>2. size \in Nat \ {0}
  OBVIOUS
<1>3. /\ Chained(slots, size) /\ Stored(slots, size) = Contents(t)
      /\ Cardinality(Used(slots, size)) = t.count
  BY <1>1, <1>2, CopyFacts DEF Contents
<1>4. t.count \in Nat /\ t.nMutations \in Nat
  BY TableFacts
<1>5. r = [size |-> size, count |-> t.count, slots |-> slots, nMutations |-> t.nMutations + 1]
  <2>1. PICK a, b, c, d : IsTable(t, a, b, c, d)
    BY TableParts
  <2> QED
    BY <1>1, <2>1 DEF Rehash, Mutated, IsTable
<1>6. PICK n \in Nat, count \in Nat : n = t.nMutations + 1 /\ count = t.count
  BY <1>4
<1>7. IsTable(r, size, count, slots, n)
  BY <1>5, <1>6 DEF IsTable
<1>8. Made(size, count, slots, n)
  BY <1>3, <1>6 DEF Made
<1>9. TableOK(r) /\ Contents(r) = Stored(slots, size)
  BY <1>7, <1>8, TableMade
<1> QED
  BY <1>3, <1>6, <1>7, <1>9 DEF IsTable

LEMMA GrowFacts ==
    ASSUME NEW t, TableOK(t), NEW r, r = Grow(t)
    PROVE  /\ TableOK(r) /\ r.size \in Nat /\ r.size >= 4 /\ r.count = t.count
           /\ r.size = IF t.size = 0 THEN 4 ELSE 2 * t.size
           /\ r.count + 1 < r.size
           /\ r.nMutations = t.nMutations + 1 /\ Contents(r) = Contents(t)
<1>1. PICK n \in Nat, count \in Nat : /\ n = t.size /\ count = t.count
                                     /\ count <= n /\ (n # 0 => n >= 4 /\ count < n)
  BY TableFacts DEF TableOK
<1>2. PICK size \in Nat : size = IF n = 0 THEN 4 ELSE 2 * n
  OBVIOUS
<1>3. size >= 4 /\ count + 1 < size
  BY <1>1, <1>2
<1>4. SizeOK(size)
  <2>1. SizeOK(n)
    BY <1>1 DEF TableOK
  <2> QED
    BY <1>2, <2>1, SizeFacts
<1>5. r = Rehash(t, size)
  BY <1>1, <1>2 DEF Grow, InitialSize
<1>6. t.count < size
  BY <1>1, <1>3
<1>7. /\ TableOK(r) /\ r.size = size /\ r.count = t.count
      /\ r.nMutations = t.nMutations + 1 /\ Contents(r) = Contents(t)
  BY <1>3, <1>4, <1>5, <1>6, RehashFacts
<1> QED
  BY <1>1, <1>2, <1>3, <1>7

LEMMA ShrinkFacts ==
    ASSUME NEW t, TableOK(t), NEW r, r = ShrinkIfNeeded(t)
    PROVE  /\ TableOK(r) /\ r.count = t.count /\ Contents(r) = Contents(t)
           /\ r.size <= t.size
           /\ \/ r = t
              \/ /\ r.nMutations = t.nMutations + 1 /\ r.size < t.size
                 /\ r.size # 0 /\ ~ IsFull(r)
<1>1. CASE IsSparse(t) /\ ShrunkSize(t) < t.size
  <2>1. PICK size \in Nat : /\ size = ShrunkSize(t) /\ size >= 4 /\ SizeOK(size)
                            /\ t.count < FillLimit(size)
    BY <1>1, ShrunkFacts
  <2>2. PICK n \in Nat, count \in Nat : n = t.size /\ count = t.count
    BY TableFacts
  <2>3. PICK limit \in Nat : limit = FillLimit(size) /\ limit <= size
    BY LimitFacts
  <2>4. count < limit /\ count < size /\ size < n
    BY <1>1, <2>1, <2>2, <2>3
  <2>5. r = Rehash(t, size)
    BY <1>1, <2>1 DEF ShrinkIfNeeded
  <2>6. /\ TableOK(r) /\ r.size = size /\ r.count = t.count
        /\ r.nMutations = t.nMutations + 1 /\ Contents(r) = Contents(t)
    BY <2>1, <2>2, <2>4, <2>5, RehashFacts
  <2>7. ~ IsFull(r)
    BY <2>2, <2>3, <2>4, <2>6 DEF IsFull
  <2> QED
    BY <2>1, <2>2, <2>4, <2>6, <2>7
<1>2. CASE ~ (IsSparse(t) /\ ShrunkSize(t) < t.size)
  <2>1. r = t
    BY <1>2 DEF ShrinkIfNeeded
  <2>2. t.size <= t.size
    BY TableFacts
  <2> QED
    BY <2>1, <2>2
<1> QED
  BY <1>1, <1>2

(* FindIndex finds what is there, Has says whether it is.                  *)
LEMMA HasFacts ==
    ASSUME NEW t, TableOK(t), NEW k \in Key
    PROVE  /\ Has(t, k) <=> \E i \in Used(t.slots, t.size) : IsEqual(t.slots[i].key, k)
           /\ \A i \in Used(t.slots, t.size) :
                  IsEqual(t.slots[i].key, k) => FindIndex(t, k) = i /\ PairOf(t, k) = t.slots[i]
           /\ Has(t, k) => /\ FindIndex(t, k) \in Used(t.slots, t.size)
                           /\ PairOf(t, k) = t.slots[FindIndex(t, k)]
                           /\ PairOf(t, k) \in Contents(t) /\ PairOf(t, k) \in Pairs
                           /\ IsEqual(PairOf(t, k).key, k)
<1> DEFINE U == Used(t.slots, t.size)
<1>1. FindIndex(t, k) = FirstProbe(k, t.size, Stops(t.slots, t.size, k))
  BY DEF FindIndex, Stops
<1>2. PairOf(t, k) = t.slots[FindIndex(t, k)]
  BY DEF PairOf
<1>3. CASE t.size = 0
  <2>1. U = {}
    BY <1>3 DEF Used, Slot
  <2>2. t.count = 0
    BY <1>3, TableFacts
  <2> QED
    BY <2>1, <2>2 DEF Has
<1>4. CASE t.size # 0
  <2>1. t.size \in Nat \ {0} /\ HasHole(t.slots, t.size) /\ Chained(t.slots, t.size)
    BY <1>4, TableFacts DEF TableOK
  <2>2. PICK size, slots : size \in Nat \ {0} /\ size = t.size /\ slots = t.slots
    BY <2>1
  <2>3. HasHole(slots, size) /\ Chained(slots, size)
    BY <2>1, <2>2
  <2>4. ASSUME NEW i \in U, IsEqual(t.slots[i].key, k) PROVE FindIndex(t, k) = i
    BY <1>1, <2>2, <2>3, <2>4, FindStored
  <2>5. ASSUME \A i \in U : ~ IsEqual(t.slots[i].key, k) PROVE t.slots[FindIndex(t, k)] = Hole
    BY <1>1, <2>2, <2>3, <2>5, FindAbsent
  <2>6. ASSUME NEW i \in U PROVE t.count # 0 /\ t.slots[i] # Hole /\ t.slots[i] \in Pairs
    <3>1. t.slots[i] # Hole /\ t.slots[i] \in Pairs
      BY TableFacts
    <3>2. U # {} /\ IsFiniteSet(U)
      BY <2>1, UsedFinite
    <3>3. Cardinality(U) # 0
      BY <3>2, FS_EmptySet
    <3> QED
      BY <3>1, <3>3 DEF TableOK
  <2>7. ASSUME NEW i \in U, IsEqual(t.slots[i].key, k)
        PROVE  /\ Has(t, k) /\ FindIndex(t, k) = i /\ PairOf(t, k) = t.slots[i]
               /\ PairOf(t, k) \in Contents(t) /\ PairOf(t, k) \in Pairs
               /\ IsEqual(PairOf(t, k).key, k)
    BY <1>2, <2>4, <2>6, <2>7 DEF Has, Contents, Stored
  <2>8. ASSUME \A i \in U : ~ IsEqual(t.slots[i].key, k) PROVE ~ Has(t, k)
    BY <2>5, <2>8 DEF Has
  <2> HIDE DEF U
  <2>9. Has(t, k) => \E i \in U : IsEqual(t.slots[i].key, k) /\ FindIndex(t, k) = i
    BY <2>7, <2>8
  <2> QED
    BY <1>2, <2>7, <2>9 DEF U
<1> QED
  BY <1>3, <1>4

(* Of equal keys a table holds one.                                        *)
LEMMA ContentsFacts ==
    ASSUME NEW t, TableOK(t)
    PROVE  /\ Contents(t) \subseteq Pairs
           /\ \A p, q \in Contents(t) : IsEqual(p.key, q.key) => p = q
           /\ \A k \in Key : Has(t, k) <=> \E p \in Contents(t) : IsEqual(p.key, k)
           /\ \A k \in Key, p \in Contents(t) : IsEqual(p.key, k) => PairOf(t, k) = p
<1>1. Contents(t) \subseteq Pairs
  BY TableFacts DEF Contents, Stored
<1>2. \A p, q \in Contents(t) : IsEqual(p.key, q.key) => p = q
  BY DEF Contents, Stored, TableOK, Chained, Distinct
<1>3. \A k \in Key : Has(t, k) <=> \E p \in Contents(t) : IsEqual(p.key, k)
  <2> TAKE k \in Key
  <2>1. Has(t, k) <=> \E i \in Used(t.slots, t.size) : IsEqual(t.slots[i].key, k)
    BY HasFacts
  <2> QED
    BY <2>1 DEF Contents, Stored
<1>4. ASSUME NEW k \in Key, NEW p \in Contents(t), IsEqual(p.key, k) PROVE PairOf(t, k) = p
  <2>1. PICK i \in Used(t.slots, t.size) : p = t.slots[i]
    BY DEF Contents, Stored
  <2> QED
    BY <1>4, <2>1, HasFacts
<1> QED
  BY <1>1, <1>2, <1>3, <1>4

LEMMA AddedFacts ==
    ASSUME NEW t, TableOK(t), NEW pair \in Pairs, ~ Has(t, pair.key),
           NEW r, r = Added(t, pair)
    PROVE  /\ TableOK(r) /\ r.count = t.count + 1
           /\ Contents(r) = Contents(t) \cup {pair}
           /\ r.nMutations > t.nMutations /\ r.nMutations <= t.nMutations + 2
           /\ r.size = IF IsFull(t) THEN (IF t.size = 0 THEN 4 ELSE 2 * t.size) ELSE t.size
<1>1. PICK room : room = IF IsFull(t) THEN Grow(t) ELSE t
  OBVIOUS
<1>2. /\ TableOK(room) /\ room.size >= 4 /\ room.count + 1 < room.size + 1
      /\ room.size = IF IsFull(t) THEN (IF t.size = 0 THEN 4 ELSE 2 * t.size) ELSE t.size
      /\ room.count = t.count /\ Contents(room) = Contents(t)
      /\ room.nMutations = IF IsFull(t) THEN t.nMutations + 1 ELSE t.nMutations
      /\ room.count + 1 < room.size
  <2>1. PICK n \in Nat, count \in Nat : n = t.size /\ count = t.count
    BY TableFacts
  <2>2. CASE IsFull(t)
    <3>1. room = Grow(t)
      BY <1>1, <2>2
    <3>2. PICK m \in Nat : m = room.size /\ m >= 4 /\ count + 1 < m
      BY <2>1, <3>1, GrowFacts
    <3>3. count + 1 < m + 1
      BY <3>2
    <3> QED
      BY <2>1, <2>2, <3>1, <3>2, <3>3, GrowFacts
  <2>3. CASE ~ IsFull(t)
    <3>1. room = t
      BY <1>1, <2>3
    <3>2. FillLimit(n) \in Nat /\ FillLimit(n) <= n /\ (n >= 4 => FillLimit(n) < n) /\ FillLimit(0) = 0
      BY LimitFacts
    <3>3. PICK limit \in Nat : limit = FillLimit(n)
      BY <3>2
    <3>4. count < limit
      BY <2>1, <2>3, <3>3 DEF IsFull
    <3>5. n # 0
      BY <3>2, <3>3, <3>4
    <3>6. n >= 4
      BY <2>1, <3>5, TableFacts
    <3>7. count + 1 < n /\ count + 1 < n + 1
      BY <3>2, <3>3, <3>4, <3>6
    <3> QED
      BY <2>1, <2>3, <3>1, <3>6, <3>7
  <2> QED
    BY <2>2, <2>3
<1>3. PICK size, slots, count, m :
          /\ size \in Nat /\ count \in Nat /\ m \in Nat
          /\ size = room.size /\ slots = room.slots /\ count = room.count /\ m = room.nMutations
          /\ IsTable(room, size, count, slots, m)
  BY <1>2, TableParts
<1> size \in Nat /\ count \in Nat /\ m \in Nat
  BY <1>3
<1>0. size \in Nat \ {0}
  BY <1>2, <1>3
<1>4. Chained(slots, size) /\ HasHole(slots, size) /\ SizeOK(size)
      /\ Cardinality(Used(slots, size)) = count
  <2>1. HasHole(room.slots, room.size)
    <3>1. room.size # 0
      BY <1>0, <1>3
    <3> QED
      BY <1>2, <3>1, TableFacts
  <2> QED
    BY <1>2, <1>3, <2>1 DEF TableOK
<1>5. \A i \in Used(slots, size) : ~ IsEqual(slots[i].key, pair.key)
  <2>1. pair.key \in Key
    BY DEF Pairs
  <2>2. \A p \in Contents(room) : ~ IsEqual(p.key, pair.key)
    BY <1>2, <2>1, ContentsFacts
  <2> QED
    BY <1>3, <2>2 DEF Contents, Stored
<1>6. PICK stored : stored = StoreKeyValue(slots, size, pair)
  OBVIOUS
<1>7. /\ Chained(stored, size)
      /\ Stored(stored, size) = Stored(slots, size) \cup {pair}
      /\ \E h \in Slot(size) : /\ slots[h] = Hole
                               /\ Used(stored, size) = Used(slots, size) \cup {h}
  BY <1>0, <1>4, <1>5, <1>6, StoreFacts
<1>8. Cardinality(Used(stored, size)) = count + 1
  <2>1. PICK h \in Slot(size) : slots[h] = Hole /\ Used(stored, size) = Used(slots, size) \cup {h}
    BY <1>7
  <2>2. h \notin Used(slots, size)
    BY <2>1 DEF Used
  <2>3. IsFiniteSet(Used(slots, size))
    BY UsedFinite
  <2> QED
    BY <1>4, <2>1, <2>2, <2>3, FS_AddElement
<1>9. PICK c \in Nat, k \in Nat : c = count + 1 /\ k = m + 1
  OBVIOUS
<1>10. IsTable(r, size, c, stored, k)
  BY <1>1, <1>3, <1>6, <1>9 DEF Added, Mutated, IsTable
<1>11. c < size
  BY <1>2, <1>3, <1>9
<1>12. TableOK(r) /\ Contents(r) = Stored(stored, size)
  <2>1. Made(size, c, stored, k)
    BY <1>4, <1>7, <1>8, <1>9, <1>11 DEF Made
  <2> QED
    BY <1>10, <2>1, TableMade
<1>13. Stored(slots, size) = Contents(t)
  BY <1>2, <1>3 DEF Contents
<1>14. t.nMutations \in Nat
  BY TableFacts
<1>15. r.nMutations > t.nMutations /\ r.nMutations <= t.nMutations + 2
  <2>1. PICK u \in Nat : u = t.nMutations
    BY <1>14
  <2>2. m = u \/ m = u + 1
    BY <1>2, <1>3, <2>1
  <2>3. k > u /\ k <= u + 2
    BY <1>9, <2>2
  <2> QED
    BY <1>10, <2>1, <2>3 DEF IsTable
<1> QED
  BY <1>2, <1>3, <1>7, <1>9, <1>10, <1>12, <1>13, <1>15 DEF IsTable

LEMMA ReplacedFacts ==
    ASSUME NEW t, TableOK(t), NEW pair \in Pairs, Has(t, pair.key),
           NEW r, r = Replaced(t, pair)
    PROVE  /\ TableOK(r) /\ r.count = t.count /\ r.size = t.size
           /\ Contents(r) = (Contents(t) \ {PairOf(t, pair.key)}) \cup {pair}
           /\ r.nMutations = t.nMutations + 1
<1>1. PICK size, slots, count, m :
          /\ size \in Nat /\ count \in Nat /\ m \in Nat
          /\ size = t.size /\ slots = t.slots /\ count = t.count /\ m = t.nMutations
          /\ IsTable(t, size, count, slots, m) /\ Made(size, count, slots, m)
  BY TableParts
<1> size \in Nat /\ count \in Nat /\ m \in Nat
  BY <1>1
<1>2. pair.key \in Key /\ pair # Hole
  BY HashTableAssumption DEF Pairs
<1>3. PICK f \in Used(slots, size) : /\ f = FindIndex(t, pair.key)
                                    /\ PairOf(t, pair.key) = slots[f]
                                    /\ IsEqual(slots[f].key, pair.key)
  BY <1>1, <1>2, HasFacts
<1>4. /\ Chained(slots, size) /\ SizeOK(size) /\ slots \in Cells(size)
      /\ Cardinality(Used(slots, size)) = count /\ (size # 0 => count < size)
  BY <1>1 DEF TableOK, Chained
<1>5. PICK s : s = [slots EXCEPT ![f] = pair]
  OBVIOUS
<1>6. f \in Slot(size) /\ slots[f] # Hole /\ slots[f] \in Pairs /\ slots[f].key \in Key
  BY <1>1, TableFacts
<1>7. s \in Cells(size) /\ s[f] = pair /\ \A i \in Slot(size) : i # f => s[i] = slots[i]
  BY <1>4, <1>5, <1>6 DEF Cells
<1>8. Used(s, size) = Used(slots, size)
  BY <1>2, <1>6, <1>7 DEF Used
<1>9. size \in Nat \ {0}
  BY <1>6 DEF Slot
<1>10. \A i \in Used(slots, size) : /\ i \in Slot(size)
                                    /\ Home(s, size, i) = Home(slots, size, i)
                                    /\ \A l \in Key : IsEqual(s[i].key, l) <=> IsEqual(slots[i].key, l)
                                    /\ s[i].key \in Key
  <2> TAKE i \in Used(slots, size)
  <2>1. i \in Slot(size) /\ slots[i].key \in Key
    BY <1>1, TableFacts
  <2>2. CASE i = f
    <3>1. HashForSize(pair.key, size) = HashForSize(slots[f].key, size)
      BY <1>2, <1>3, <1>6, <1>9, HomeFacts
    <3> QED
      BY <1>2, <1>3, <1>7, <2>1, <2>2, <3>1 DEF Home, IsEqual
  <2>3. CASE i # f
    BY <1>7, <2>1, <2>3 DEF Home
  <2> QED
    BY <2>2, <2>3
<1>11. Distinct(s, size)
  <2> SUFFICES ASSUME NEW i \in Used(slots, size), NEW j \in Used(slots, size),
                      IsEqual(s[i].key, s[j].key)
               PROVE  i = j
    BY <1>8 DEF Distinct
  <2>1. IsEqual(slots[i].key, s[j].key)
    BY <1>10
  <2>2. IsEqual(s[j].key, slots[i].key)
    BY <2>1 DEF IsEqual
  <2>3. slots[i].key \in Key
    BY <1>1, TableFacts
  <2>4. IsEqual(slots[j].key, slots[i].key)
    BY <1>10, <2>2, <2>3
  <2> QED
    BY <1>4, <2>4 DEF Chained, Distinct
<1>12. Unbroken(s, size)
  <2>1. \A j \in Slot(size) : s[j] # Hole <=> slots[j] # Hole
    BY <1>2, <1>6, <1>7
  <2> QED
    BY <1>4, <1>8, <1>10, <2>1 DEF Chained, Unbroken
<1>13. PICK k \in Nat : k = m + 1
  OBVIOUS
<1>14. IsTable(r, size, count, s, k)
  BY <1>1, <1>3, <1>5, <1>13 DEF Replaced, Mutated, IsTable
<1>15. TableOK(r) /\ Contents(r) = Stored(s, size)
  <2>1. Made(size, count, s, k)
    BY <1>4, <1>7, <1>8, <1>11, <1>12 DEF Chained, Made
  <2> QED
    BY <1>14, <2>1, TableMade
<1>16. Stored(s, size) = (Stored(slots, size) \ {slots[f]}) \cup {pair}
  <2>1. \A i \in Used(slots, size) : i # f => s[i] = slots[i] /\ slots[i] # slots[f]
    <3> TAKE i \in Used(slots, size)
    <3>1. i # f => s[i] = slots[i]
      BY <1>7, <1>10
    <3>2. slots[i] = slots[f] => i = f
      BY <1>4 DEF Chained, Distinct, IsEqual
    <3> QED
      BY <3>1, <3>2
  <2> QED
    BY <1>7, <1>8, <2>1 DEF Stored
<1>17. Stored(slots, size) = Contents(t)
  BY <1>1 DEF Contents
<1> QED
  BY <1>1, <1>3, <1>13, <1>14, <1>15, <1>16, <1>17 DEF IsTable

LEMMA RemovedFacts ==
    ASSUME NEW t, TableOK(t), NEW key \in Key, Has(t, key), NEW r, r = Removed(t, key)
    PROVE  /\ TableOK(r) /\ r.count = t.count - 1 /\ r.size = t.size /\ t.count # 0
           /\ Contents(r) = Contents(t) \ {PairOf(t, key)}
           /\ r.nMutations = t.nMutations + 1
<1>1. PICK size, slots, count, m :
          /\ size \in Nat /\ count \in Nat /\ m \in Nat
          /\ size = t.size /\ slots = t.slots /\ count = t.count /\ m = t.nMutations
          /\ IsTable(t, size, count, slots, m) /\ Made(size, count, slots, m)
  BY TableParts
<1> size \in Nat /\ count \in Nat /\ m \in Nat
  BY <1>1
<1>2. PICK f \in Used(slots, size) : f = FindIndex(t, key) /\ PairOf(t, key) = slots[f]
  BY <1>1, HasFacts
<1>3. /\ Chained(slots, size) /\ SizeOK(size) /\ slots \in Cells(size)
      /\ Cardinality(Used(slots, size)) = count /\ (size # 0 => count < size)
  BY <1>1 DEF TableOK, Chained
<1>4. size \in Nat \ {0}
  BY <1>2 DEF Used, Slot
<1>5. HasHole(slots, size)
  BY <1>1, <1>4, TableFacts
<1>6. PICK s : s = CloseGap(slots, size, f)
  OBVIOUS
<1>7. /\ Chained(s, size)
      /\ Stored(s, size) = {slots[x] : x \in Used(slots, size) \ {f}}
      /\ \E d \in Used(slots, size) : Used(s, size) = Used(slots, size) \ {d}
  BY <1>3, <1>4, <1>5, <1>6, CloseGapFacts DEF Closed
<1>8. PICK c \in Nat, k \in Nat : c = count - 1 /\ k = m + 1 /\ Cardinality(Used(s, size)) = c /\ c < count
  <2>1. PICK d \in Used(slots, size) : Used(s, size) = Used(slots, size) \ {d}
    BY <1>7
  <2>2. IsFiniteSet(Used(slots, size)) /\ Cardinality(Used(s, size)) \in Nat
    BY UsedFinite
  <2>3. Cardinality(Used(s, size)) = Cardinality(Used(slots, size)) - 1
    BY <2>1, <2>2, FS_RemoveElement
  <2>4. PICK c \in Nat : c = Cardinality(Used(s, size)) /\ c = count - 1
    BY <1>3, <2>2, <2>3
  <2>5. c < count
    BY <2>4
  <2> QED
    BY <2>4, <2>5
<1>9. IsTable(r, size, c, s, k)
  BY <1>1, <1>2, <1>6, <1>8 DEF Removed, Mutated, IsTable
<1>10. c < size
  BY <1>3, <1>4, <1>8
<1>11. TableOK(r) /\ Contents(r) = Stored(s, size)
  <2>1. Made(size, c, s, k)
    BY <1>3, <1>7, <1>8, <1>10 DEF Made
  <2> QED
    BY <1>9, <2>1, TableMade
<1>12. Stored(s, size) = Contents(t) \ {slots[f]}
  <2>1. \A i \in Used(slots, size) : slots[i] = slots[f] => i = f
    BY <1>3 DEF Chained, Distinct, IsEqual
  <2>2. Contents(t) = {slots[x] : x \in Used(slots, size)}
    BY <1>1 DEF Contents, Stored
  <2>3. {slots[x] : x \in Used(slots, size) \ {f}} =
            {slots[x] : x \in Used(slots, size)} \ {slots[f]}
    BY <2>1
  <2> QED
    BY <1>7, <2>2, <2>3
<1>13. count # 0
  BY <1>8
<1> QED
  BY <1>1, <1>2, <1>8, <1>9, <1>11, <1>12, <1>13 DEF IsTable

LEMMA ClearedFacts ==
    ASSUME NEW t, TableOK(t),
           NEW r, r = Mutated([t EXCEPT !.count = 0, !.slots = EmptySlots(t.size)])
    PROVE  /\ TableOK(r) /\ r.size = t.size /\ r.count = 0 /\ Contents(r) = {}
           /\ r.nMutations = t.nMutations + 1
<1>1. PICK size, slots, count, m :
          /\ size \in Nat /\ count \in Nat /\ m \in Nat
          /\ size = t.size /\ slots = t.slots /\ count = t.count /\ m = t.nMutations
          /\ IsTable(t, size, count, slots, m) /\ Made(size, count, slots, m)
  BY TableParts
<1> size \in Nat /\ count \in Nat /\ m \in Nat
  BY <1>1
<1>2. PICK k \in Nat : k = m + 1
  OBVIOUS
<1>3. IsTable(r, size, 0, EmptySlots(size), k)
  BY <1>1, <1>2 DEF Mutated, IsTable
<1>4. /\ Chained(EmptySlots(size), size) /\ Stored(EmptySlots(size), size) = {}
      /\ Cardinality(Used(EmptySlots(size), size)) = 0
  BY EmptyFacts
<1>5. Made(size, 0, EmptySlots(size), k)
  BY <1>1, <1>4 DEF Made
<1>6. TableOK(r) /\ Contents(r) = Stored(EmptySlots(size), size)
  BY <1>3, <1>5, TableMade
<1>7. r.size = size /\ r.count = 0 /\ r.nMutations = k
  BY <1>3 DEF IsTable
<1> QED
  BY <1>1, <1>2, <1>4, <1>6, <1>7

-----------------------------------------------------------------------------
(* ---- The maps ----                                                      *)

Mode == {"overwrite", "insert", "update"}
Calls == Seq({-1, 1} \X Pointer)

(* a pair takes the place of one with an equal key                         *)
Wrote(pairs, pair) == {p \in pairs : ~ IsEqual(p.key, pair.key)} \cup {pair}

Sized(t) == TableOK(t) /\ t.size <= MaxSize /\ t.nMutations <= MaxMutations

MapsOK ==
    /\ maps = [m \in Map |-> maps[m]]
    /\ \A m \in Live : Sized(maps[m])

(* A table is changed and its mutations counted, or it is the same.        *)
Evolves(t, u) == u = t \/ u.nMutations > t.nMutations

-----------------------------------------------------------------------------
(* Writing a pair *)

LEMMA PairCalls ==
    ASSUME NEW p \in Pairs
    PROVE  /\ Retain(p) \in Calls /\ Release(p) \in Calls
           /\ p.key \in Pointer /\ p.value \in Pointer /\ p.key # p.value
<1>1. p.key \in Key /\ p.value \in Value
  BY DEF Pairs
<1> QED
  BY <1>1, PointerMapAssumption DEF Retain, Release, Calls, Pointer

LEMMA WriteFacts ==
    ASSUME NEW t, TableOK(t), NEW pair \in Pairs, NEW mode \in Mode,
           NEW w, w = WritePair(t, pair, mode)
    PROVE  /\ TableOK(w.table) /\ w.calls \in Calls
           /\ Contents(w.table) = IF mode = "insert" /\ Has(t, pair.key) THEN Contents(t)
                                  ELSE Wrote(Contents(t), pair)
           /\ Evolves(t, w.table)
           /\ w.table.nMutations <= t.nMutations + 2
           /\ w.table.count # t.count <=> ~ Has(t, pair.key)
           /\ \/ w.table.size = t.size
              \/ IsFull(t) /\ w.table.size = IF t.size = 0 THEN 4 ELSE 2 * t.size
           /\ w.calls = IF ~ Has(t, pair.key) THEN Retain(pair)
                        ELSE IF mode = "insert" \/ PairOf(t, pair.key) = pair THEN <<>>
                        ELSE Exchange(pair, PairOf(t, pair.key))
           /\ w.old = IF ~ Has(t, pair.key) THEN Null
                      ELSE IF mode = "insert" THEN PairOf(t, pair.key).value
                      ELSE IF PairOf(t, pair.key) = pair \/ mode # "update" THEN Null
                      ELSE PairOf(t, pair.key).value
<1>1. pair.key \in Key /\ pair.value \in Value
  BY DEF Pairs
<1>2. PICK n \in Nat, m \in Nat : n = t.count /\ m = t.nMutations
  BY TableFacts
<1>3. t.nMutations <= t.nMutations + 2
  BY <1>2
<1>4. <<>> \in Calls
  BY DEF Calls
<1>5. CASE ~ Has(t, pair.key)
  <2>1. w = [table |-> Added(t, pair), calls |-> Retain(pair), old |-> Null]
    BY <1>5 DEF WritePair
  <2>2. PICK r : r = Added(t, pair)
    OBVIOUS
  <2>3. /\ TableOK(r) /\ r.count = t.count + 1
        /\ Contents(r) = Contents(t) \cup {pair}
        /\ r.nMutations > t.nMutations /\ r.nMutations <= t.nMutations + 2
        /\ r.size = IF IsFull(t) THEN (IF t.size = 0 THEN 4 ELSE 2 * t.size) ELSE t.size
    BY <1>1, <1>5, <2>2, AddedFacts
  <2>4. Contents(t) = {p \in Contents(t) : ~ IsEqual(p.key, pair.key)}
    <3>1. \A p \in Contents(t) : ~ IsEqual(p.key, pair.key)
      BY <1>1, <1>5, ContentsFacts
    <3> QED
      BY <3>1
  <2>5. Contents(r) = Wrote(Contents(t), pair)
    BY <2>3, <2>4 DEF Wrote
  <2>6. r.count # t.count
    BY <1>2, <2>3
  <2>7. Retain(pair) \in Calls
    BY PairCalls
  <2> QED
    BY <1>5, <2>1, <2>2, <2>3, <2>5, <2>6, <2>7 DEF Evolves
<1>6. CASE Has(t, pair.key)
  <2>1. PICK old \in Contents(t) : /\ old = PairOf(t, pair.key) /\ old \in Pairs
                                  /\ IsEqual(old.key, pair.key)
    BY <1>1, <1>6, HasFacts
  <2>2. \A p \in Contents(t) : IsEqual(p.key, pair.key) => p = old
    BY <1>1, <2>1, ContentsFacts
  <2>3. {p \in Contents(t) : ~ IsEqual(p.key, pair.key)} = Contents(t) \ {old}
    BY <2>1, <2>2
  <2>4. CASE mode = "insert" \/ old = pair
    <3>1. w = [table |-> t, calls |-> <<>>, old |-> IF mode = "insert" THEN old.value ELSE Null]
      BY <1>6, <2>1, <2>4 DEF WritePair
    <3>2. old = pair => Contents(t) = Wrote(Contents(t), pair)
      BY <2>3 DEF Wrote
    <3> QED
      BY <1>3, <1>4, <1>6, <2>1, <2>4, <3>1, <3>2 DEF Evolves
  <2>5. CASE mode # "insert" /\ old # pair
    <3>1. w = [table |-> Replaced(t, pair), calls |-> Exchange(pair, old),
               old |-> IF mode = "update" THEN old.value ELSE Null]
      BY <1>6, <2>1, <2>5 DEF WritePair
    <3>2. PICK r : r = Replaced(t, pair)
      OBVIOUS
    <3>3. /\ TableOK(r) /\ r.count = t.count /\ r.size = t.size
          /\ Contents(r) = (Contents(t) \ {old}) \cup {pair}
          /\ r.nMutations = t.nMutations + 1
      BY <1>6, <2>1, <3>2, ReplacedFacts
    <3>4. Contents(r) = Wrote(Contents(t), pair)
      BY <2>3, <3>3 DEF Wrote
    <3>5. r.nMutations > t.nMutations /\ r.nMutations <= t.nMutations + 2
      BY <1>2, <3>3
    <3>6. Exchange(pair, old) \in Calls
      <4>1. Retain(pair) \in Calls /\ Release(old) \in Calls
        BY <2>1, PairCalls
      <4> QED
        BY <4>1 DEF Calls, Exchange
    <3> QED
      BY <1>6, <2>1, <2>5, <3>1, <3>2, <3>3, <3>4, <3>5, <3>6 DEF Evolves
  <2> QED
    BY <2>4, <2>5
<1> QED
  BY <1>5, <1>6

-----------------------------------------------------------------------------
(* Copying, and giving everything up *)

Tables  == {t \in [size : Nat, count : Nat, slots : UNION {Cells(n) : n \in Nat},
                   nMutations : Nat] : TableOK(t)}
Copying == [table : Tables, calls : Calls]

CopyStep(c, cell) ==
    IF cell = Hole THEN c
    ELSE [table |-> WritePair(c.table, cell, "overwrite").table,
          calls |-> c.calls \o WritePair(c.table, cell, "overwrite").calls]

ReleaseStep(calls, cell) == IF cell = Hole THEN calls ELSE calls \o Release(cell)

LEMMA TablesFacts == \A t : t \in Tables <=> TableOK(t)
<1> SUFFICES ASSUME NEW t, TableOK(t) PROVE t \in Tables
  BY DEF Tables
<1>1. t \in [size : Nat, count : Nat, slots : Cells(t.size), nMutations : Nat]
  BY DEF TableOK
<1>2. Cells(t.size) \in {Cells(n) : n \in Nat}
  BY <1>1
<1>3. t.slots \in UNION {Cells(n) : n \in Nat}
  BY <1>1, <1>2
<1>4. t \in [size : Nat, count : Nat, slots : UNION {Cells(n) : n \in Nat}, nMutations : Nat]
  BY <1>1, <1>3
<1> QED
  BY <1>4 DEF Tables

LEMMA CopyStepTyped ==
    ASSUME NEW c \in Copying, NEW cell \in Pairs \cup {Hole}
    PROVE  CopyStep(c, cell) \in Copying
<1>1. CASE cell = Hole
  BY <1>1 DEF CopyStep
<1>2. CASE cell # Hole
  <2>1. cell \in Pairs /\ TableOK(c.table) /\ c.table \in Tables /\ c.calls \in Calls
    BY <1>2, TablesFacts DEF Copying
  <2>2. PICK w : w = WritePair(c.table, cell, "overwrite")
    OBVIOUS
  <2>3. TableOK(w.table) /\ w.calls \in Calls
    BY <2>1, <2>2, WriteFacts DEF Mode
  <2>4. w.table \in Tables
    BY <2>3, TablesFacts
  <2>5. c.calls \o w.calls \in Calls
    BY <2>1, <2>3 DEF Calls
  <2>6. CopyStep(c, cell) = [table |-> w.table, calls |-> c.calls \o w.calls]
    BY <1>2, <2>2 DEF CopyStep
  <2> QED
    BY <2>4, <2>5, <2>6 DEF Copying
<1> QED
  BY <1>1, <1>2

(* What holds before the first slot, and after a slot whenever it held     *)
(* before, holds when copy_items is done.                                  *)
LEMMA CopyInduction ==
    ASSUME NEW dst, TableOK(dst), NEW src, TableOK(src), NEW G,
           <<0, [table |-> dst, calls |-> <<>>]>> \in G,
           \A n \in Slot(src.size), c \in Copying :
               <<n, c>> \in G => <<n + 1, CopyStep(c, src.slots[n])>> \in G
    PROVE  /\ <<src.size, CopiedItems(dst, src)>> \in G
           /\ CopiedItems(dst, src) \in Copying
<1>1. PICK n \in Nat : n = src.size
  BY TableFacts
<1>2. PICK cells \in Cells(n) : cells = src.slots
  BY <1>1, TableFacts
<1>3. \A k \in 1 .. n : k - 1 \in Slot(n) /\ cells[k - 1] \in Pairs \cup {Hole}
  <2>1. \A k \in 1 .. n : k - 1 \in Slot(n)
    BY DEF Slot
  <2> QED
    BY <2>1 DEF Cells
<1> DEFINE base == [table |-> dst, calls |-> <<>>]
           step == [x \in Copying |-> [k \in Nat |->
                       IF k \in 1 .. n THEN CopyStep(x, cells[k - 1]) ELSE x]]
<1>4. base \in Copying
  <2>1. dst \in Tables /\ <<>> \in Calls
    BY TablesFacts DEF Calls
  <2> QED
    BY <2>1 DEF Copying
<1>5. PICK f \in [0 .. n -> Copying] : IsRun(f, n, base, step)
  <2>1. \A x \in Copying, k \in 1 .. n : CopyStep(x, cells[k - 1]) \in Copying
    BY <1>3, CopyStepTyped
  <2>2. step \in [Copying -> [Nat -> Copying]]
    BY <2>1
  <2> HIDE DEF step, base
  <2> QED
    BY <1>4, <2>2, RunExists
<1>6. \A k \in 1 .. n : f[k] = CopyStep(f[k - 1], cells[k - 1])
  <2> TAKE k \in 1 .. n
  <2>1. k - 1 \in 0 .. n /\ k \in Nat /\ f[k - 1] \in Copying
    OBVIOUS
  <2>2. f[k] = step[f[k - 1]][k]
    BY <1>5 DEF IsRun
  <2> QED
    BY <2>1, <2>2
<1>7. f[0] = base
  BY <1>5 DEF IsRun
<1> DEFINE Eq(g) == g = [k \in 0 .. n |->
                IF k = 0 THEN [table |-> dst, calls |-> <<>>]
                ELSE IF cells[k - 1] = Hole THEN g[k - 1]
                ELSE LET c == g[k - 1]
                         w == WritePair(c.table, cells[k - 1], "overwrite")
                     IN  [table |-> w.table, calls |-> c.calls \o w.calls]]
           copied == CHOOSE g : Eq(g)
<1>8. Eq(f)
  <2>1. \A k \in 1 .. n : f[k] =
            IF cells[k - 1] = Hole THEN f[k - 1]
            ELSE [table |-> WritePair(f[k - 1].table, cells[k - 1], "overwrite").table,
                  calls |-> f[k - 1].calls
                                \o WritePair(f[k - 1].table, cells[k - 1], "overwrite").calls]
    BY <1>6 DEF CopyStep
  <2>2. \A k \in 0 .. n : k = 0 \/ k \in 1 .. n
    OBVIOUS
  <2> HIDE DEF step
  <2> QED
    BY <1>7, <2>1, <2>2
<1>9. Eq(copied)
  BY <1>8
<1>10. CopiedItems(dst, src) = copied[n]
  BY <1>1, <1>2 DEF CopiedItems
<1> HIDE DEF copied, step
<1>11. copied[0] = base /\ \A k \in 1 .. n : copied[k] = CopyStep(copied[k - 1], cells[k - 1])
  <2>1. \A k \in 1 .. n : k \in 0 .. n /\ k # 0
    OBVIOUS
  <2>2. 0 \in 0 .. n
    OBVIOUS
  <2> QED
    BY <1>9, <2>1, <2>2 DEF CopyStep
<1> HIDE DEF Eq, base
<1> DEFINE T == {k \in Nat : k <= n => <<k, copied[k]>> \in G /\ copied[k] \in Copying}
<1>12. 0 \in T
  BY <1>4, <1>11 DEF base
<1>13. ASSUME NEW k \in Nat, k \in T, k + 1 <= n
       PROVE  <<k + 1, copied[k + 1]>> \in G /\ copied[k + 1] \in Copying
  <2>1. k + 1 \in 1 .. n /\ (k + 1) - 1 = k /\ k \in Slot(n) /\ k <= n
    BY <1>13 DEF Slot
  <2>2. <<k, copied[k]>> \in G /\ copied[k] \in Copying
    BY <1>13, <2>1
  <2>3. copied[k + 1] = CopyStep(copied[k], cells[k])
    BY <1>11, <2>1
  <2>4. cells[k] \in Pairs \cup {Hole}
    BY <2>1 DEF Cells
  <2>5. <<k + 1, CopyStep(copied[k], cells[k])>> \in G
    BY <1>1, <1>2, <2>1, <2>2
  <2> QED
    BY <2>2, <2>3, <2>4, <2>5, CopyStepTyped
<1>14. \A k \in Nat : k \in T
  <2>1. \A k \in Nat : k \in T => k + 1 \in T
    BY <1>13
  <2> HIDE DEF T
  <2> QED
    BY <1>12, <2>1, Induction
<1>15. n \in T
  BY <1>14
<1> QED
  BY <1>1, <1>10, <1>15

LEMMA ReleaseInduction ==
    ASSUME NEW t, TableOK(t), NEW G, <<0, <<>>>> \in G,
           \A n \in Slot(t.size), calls \in Calls :
               <<n, calls>> \in G => <<n + 1, ReleaseStep(calls, t.slots[n])>> \in G
    PROVE  <<t.size, ReleaseAll(t)>> \in G /\ ReleaseAll(t) \in Calls
<1>1. PICK n \in Nat : n = t.size
  BY TableFacts
<1>2. PICK cells \in Cells(n) : cells = t.slots
  BY <1>1, TableFacts
<1>3. \A k \in 1 .. n : k - 1 \in Slot(n) /\ cells[k - 1] \in Pairs \cup {Hole}
  <2>1. \A k \in 1 .. n : k - 1 \in Slot(n)
    BY DEF Slot
  <2> QED
    BY <2>1 DEF Cells
<1>0. \A x \in Calls, cell \in Pairs \cup {Hole} : ReleaseStep(x, cell) \in Calls
  <2> TAKE x \in Calls, cell \in Pairs \cup {Hole}
  <2>1. cell # Hole => Release(cell) \in Calls
    BY PairCalls
  <2> QED
    BY <2>1 DEF ReleaseStep, Calls
<1> DEFINE step == [x \in Calls |-> [k \in Nat |->
                       IF k \in 1 .. n THEN ReleaseStep(x, cells[k - 1]) ELSE x]]
<1>4. <<>> \in Calls
  BY DEF Calls
<1>5. PICK f \in [0 .. n -> Calls] : IsRun(f, n, <<>>, step)
  <2>1. \A x \in Calls, k \in 1 .. n : ReleaseStep(x, cells[k - 1]) \in Calls
    BY <1>0, <1>3
  <2>2. step \in [Calls -> [Nat -> Calls]]
    BY <2>1
  <2> HIDE DEF step
  <2> QED
    BY <1>4, <2>2, RunExists
<1>6. \A k \in 1 .. n : f[k] = ReleaseStep(f[k - 1], cells[k - 1])
  <2> TAKE k \in 1 .. n
  <2>1. k - 1 \in 0 .. n /\ k \in Nat /\ f[k - 1] \in Calls
    OBVIOUS
  <2>2. f[k] = step[f[k - 1]][k]
    BY <1>5 DEF IsRun
  <2> QED
    BY <2>1, <2>2
<1>7. f[0] = <<>>
  BY <1>5 DEF IsRun
<1> DEFINE Eq(g) == g = [k \in 0 .. n |->
                IF k = 0 THEN <<>>
                ELSE IF cells[k - 1] = Hole THEN g[k - 1]
                ELSE g[k - 1] \o Release(cells[k - 1])]
           calls == CHOOSE g : Eq(g)
<1>8. Eq(f)
  <2>1. \A k \in 1 .. n : f[k] = IF cells[k - 1] = Hole THEN f[k - 1]
                                 ELSE f[k - 1] \o Release(cells[k - 1])
    BY <1>6 DEF ReleaseStep
  <2>2. \A k \in 0 .. n : k = 0 \/ k \in 1 .. n
    OBVIOUS
  <2> HIDE DEF step
  <2> QED
    BY <1>7, <2>1, <2>2
<1>9. Eq(calls)
  BY <1>8
<1>10. ReleaseAll(t) = calls[n]
  BY <1>1, <1>2 DEF ReleaseAll
<1> HIDE DEF calls, step
<1>11. calls[0] = <<>> /\ \A k \in 1 .. n : calls[k] = ReleaseStep(calls[k - 1], cells[k - 1])
  <2>1. \A k \in 1 .. n : k \in 0 .. n /\ k # 0
    OBVIOUS
  <2>2. 0 \in 0 .. n
    OBVIOUS
  <2> QED
    BY <1>9, <2>1, <2>2 DEF ReleaseStep
<1> HIDE DEF Eq
<1> DEFINE T == {k \in Nat : k <= n => <<k, calls[k]>> \in G /\ calls[k] \in Calls}
<1>12. 0 \in T
  BY <1>4, <1>11
<1>13. ASSUME NEW k \in Nat, k \in T, k + 1 <= n
       PROVE  <<k + 1, calls[k + 1]>> \in G /\ calls[k + 1] \in Calls
  <2>1. k + 1 \in 1 .. n /\ (k + 1) - 1 = k /\ k \in Slot(n) /\ k <= n
    BY <1>13 DEF Slot
  <2>2. <<k, calls[k]>> \in G /\ calls[k] \in Calls
    BY <1>13, <2>1
  <2>3. calls[k + 1] = ReleaseStep(calls[k], cells[k])
    BY <1>11, <2>1
  <2>4. cells[k] \in Pairs \cup {Hole}
    BY <2>1 DEF Cells
  <2>5. <<k + 1, ReleaseStep(calls[k], cells[k])>> \in G
    BY <1>1, <1>2, <2>1, <2>2
  <2> QED
    BY <1>0, <2>2, <2>3, <2>4, <2>5
<1>14. \A k \in Nat : k \in T
  <2>1. \A k \in Nat : k \in T => k + 1 \in T
    BY <1>13
  <2> HIDE DEF T
  <2> QED
    BY <1>12, <2>1, Induction
<1>15. n \in T
  BY <1>14
<1> QED
  BY <1>1, <1>10, <1>15

(* the pairs in the first n slots                                          *)
Front(t, n) == {t.slots[i] : i \in {i \in Used(t.slots, t.size) : i < n}}

(* the pairs of b, and those of a whose keys b does not have               *)
Merged(a, b) == {p \in a : \A q \in b : ~ IsEqual(p.key, q.key)} \cup b

LEMMA FrontFacts ==
    ASSUME NEW t, TableOK(t)
    PROVE  /\ Front(t, 0) = {} /\ Front(t, t.size) = Contents(t)
           /\ \A n \in Slot(t.size) :
                  /\ Front(t, n) \subseteq Contents(t)
                  /\ t.slots[n] \in Pairs \cup {Hole}
                  /\ t.slots[n] = Hole => Front(t, n + 1) = Front(t, n)
                  /\ t.slots[n] # Hole =>
                        /\ t.slots[n] \in Contents(t) /\ t.slots[n] \in Pairs
                        /\ Front(t, n + 1) = Front(t, n) \cup {t.slots[n]}
                        /\ \A p \in Front(t, n) : ~ IsEqual(p.key, t.slots[n].key)
<1>1. PICK size \in Nat : size = t.size
  BY TableFacts
<1>2. PICK s \in Cells(size) : s = t.slots
  BY <1>1, TableFacts
<1> DEFINE F(n) == {i \in Used(s, size) : i < n}
<1>3. F(0) = {} /\ F(size) = Used(s, size)
  BY DEF Used, Slot
<1>4. ASSUME NEW n \in Slot(size)
      PROVE  /\ s[n] = Hole => F(n + 1) = F(n)
             /\ s[n] # Hole => F(n + 1) = F(n) \cup {n} /\ n \in Used(s, size) /\ n \notin F(n)
  BY DEF Used, Slot
<1>5. \A n : F(n) \subseteq Used(s, size)
  OBVIOUS
<1>6. \A i, j \in Used(s, size) : IsEqual(s[i].key, s[j].key) => i = j
  BY <1>1, <1>2 DEF TableOK, Chained, Distinct
<1>7. \A n : Front(t, n) = {s[i] : i \in F(n)}
  BY <1>1, <1>2 DEF Front
<1> HIDE DEF F
<1>8. Contents(t) = {s[i] : i \in Used(s, size)}
  BY <1>1, <1>2 DEF Contents, Stored
<1>9. ASSUME NEW n \in Slot(size)
      PROVE  /\ Front(t, n) \subseteq Contents(t)
             /\ s[n] \in Pairs \cup {Hole}
             /\ s[n] = Hole => Front(t, n + 1) = Front(t, n)
             /\ s[n] # Hole =>
                   /\ s[n] \in Contents(t) /\ s[n] \in Pairs
                   /\ Front(t, n + 1) = Front(t, n) \cup {s[n]}
                   /\ \A p \in Front(t, n) : ~ IsEqual(p.key, s[n].key)
  <2>1. Front(t, n) \subseteq Contents(t)
    BY <1>5, <1>7, <1>8
  <2>2. s[n] \in Pairs \cup {Hole}
    BY DEF Cells
  <2>3. s[n] = Hole => Front(t, n + 1) = Front(t, n)
    BY <1>4, <1>7
  <2>4. ASSUME s[n] # Hole
        PROVE  /\ s[n] \in Contents(t)
               /\ Front(t, n + 1) = Front(t, n) \cup {s[n]}
               /\ \A p \in Front(t, n) : ~ IsEqual(p.key, s[n].key)
    <3>1. F(n + 1) = F(n) \cup {n} /\ n \in Used(s, size) /\ n \notin F(n)
      BY <1>4, <2>4
    <3>2. {s[i] : i \in F(n) \cup {n}} = {s[i] : i \in F(n)} \cup {s[n]}
      OBVIOUS
    <3>3. ASSUME NEW p \in Front(t, n) PROVE ~ IsEqual(p.key, s[n].key)
      <4>1. PICK i \in F(n) : p = s[i]
        BY <1>7
      <4>2. i \in Used(s, size) /\ i # n
        BY <1>5, <3>1
      <4> QED
        BY <1>6, <3>1, <4>1, <4>2
    <3> QED
      BY <1>7, <1>8, <3>1, <3>2, <3>3
  <2> QED
    BY <2>1, <2>2, <2>3, <2>4
<1> QED
  BY <1>1, <1>2, <1>3, <1>7, <1>8, <1>9

LEMMA EvolvesFurther ==
    ASSUME NEW t, NEW u, NEW v, TableOK(t), TableOK(u), TableOK(v), Evolves(t, u), Evolves(u, v)
    PROVE  Evolves(t, v)
<1>1. PICK a \in Nat, b \in Nat, c \in Nat :
          a = t.nMutations /\ b = u.nMutations /\ c = v.nMutations
  BY TableFacts
<1> QED
  BY <1>1 DEF Evolves

LEMMA CopiedFacts ==
    ASSUME NEW dst, TableOK(dst), NEW src, TableOK(src),
           NEW c, c = CopiedItems(dst, src)
    PROVE  /\ TableOK(c.table) /\ Evolves(dst, c.table)
           /\ Contents(c.table) = Merged(Contents(dst), Contents(src))
<1> DEFINE Good(n, x) == /\ Contents(x.table) = Merged(Contents(dst), Front(src, n))
                         /\ Evolves(dst, x.table)
           G == {g \in Nat \X Copying : Good(g[1], g[2])}
           base == [table |-> dst, calls |-> <<>>]
<1>1. base \in Copying
  <2>1. dst \in Tables /\ <<>> \in Calls
    BY TablesFacts DEF Calls
  <2> QED
    BY <2>1 DEF Copying
<1>2. Good(0, base)
  BY FrontFacts DEF Merged, Evolves
<1>3. \A n, x : <<n, x>> \in G <=> n \in Nat /\ x \in Copying /\ Good(n, x)
  OBVIOUS
<1>4. ASSUME NEW n \in Slot(src.size), NEW x \in Copying, <<n, x>> \in G
      PROVE  <<n + 1, CopyStep(x, src.slots[n])>> \in G
  <2>1. n \in Nat /\ n + 1 \in Nat /\ Good(n, x)
    BY <1>3, <1>4
  <2>2. PICK cell \in Pairs \cup {Hole} : cell = src.slots[n]
    BY FrontFacts
  <2>3. CopyStep(x, cell) \in Copying
    BY CopyStepTyped
  <2>4. CASE cell = Hole
    <3>1. CopyStep(x, cell) = x /\ Front(src, n + 1) = Front(src, n)
      BY <2>2, <2>4, FrontFacts DEF CopyStep
    <3> QED
      BY <1>3, <2>1, <2>2, <2>3, <3>1
  <2>5. CASE cell # Hole
    <3>1. cell \in Pairs /\ Front(src, n + 1) = Front(src, n) \cup {cell}
      BY <2>2, <2>5, FrontFacts
    <3>2. \A p \in Front(src, n) : ~ IsEqual(p.key, cell.key)
      BY <2>2, <2>5, FrontFacts
    <3>3. TableOK(x.table)
      BY TablesFacts DEF Copying
    <3>4. PICK t, w : t = x.table /\ w = WritePair(t, cell, "overwrite")
      OBVIOUS
    <3>5. /\ TableOK(w.table) /\ Evolves(t, w.table)
          /\ Contents(w.table) = Wrote(Contents(t), cell)
      <4>1. "overwrite" \in Mode /\ "overwrite" # "insert"
        BY DEF Mode
      <4> QED
        BY <3>1, <3>3, <3>4, <4>1, WriteFacts
    <3>6. Evolves(dst, w.table)
      BY <2>1, <3>3, <3>4, <3>5, EvolvesFurther
    <3>7. Wrote(Merged(Contents(dst), Front(src, n)), cell)
              = Merged(Contents(dst), Front(src, n) \cup {cell})
      BY <3>2 DEF Wrote, Merged
    <3>8. CopyStep(x, cell).table = w.table
      BY <2>5, <3>4 DEF CopyStep
    <3>9. Good(n + 1, CopyStep(x, cell))
      BY <2>1, <3>1, <3>4, <3>5, <3>6, <3>7, <3>8
    <3> QED
      BY <1>3, <2>1, <2>2, <2>3, <3>9
  <2> QED
    BY <2>4, <2>5
<1>5. <<0, base>> \in G
  BY <1>1, <1>2, <1>3
<1> HIDE DEF G
<1>6. <<src.size, CopiedItems(dst, src)>> \in G /\ CopiedItems(dst, src) \in Copying
  BY <1>4, <1>5, CopyInduction
<1>7. Good(src.size, c)
  BY <1>3, <1>6
<1>8. c.table \in Tables
  BY <1>6 DEF Copying
<1> QED
  BY <1>7, <1>8, TablesFacts, FrontFacts

-----------------------------------------------------------------------------
(* What a step does to the tables *)

LEMMA SizedFacts ==
    ASSUME MapsOK, NEW m \in Live
    PROVE  /\ TableOK(maps[m]) /\ maps[m].size <= MaxSize
           /\ maps[m].nMutations <= MaxMutations /\ m \in Map
BY DEF MapsOK, Sized, Live

LEMMA SizedNotNone == \A t : Sized(t) => t # None
<1> SUFFICES ASSUME NEW t, Sized(t) PROVE t # None
  OBVIOUS
<1>1. PICK n \in Nat : n = t.size
  BY TableFacts DEF Sized
<1>2. n \in 0 .. MaxSize
  BY <1>1, PointerMapAssumption DEF Sized
<1>3. t \in [size : {n}, count : Nat, slots : [Slot(n) -> Pairs \cup {Hole}], nMutations : Nat]
  BY <1>1 DEF Sized, TableOK, Cells
<1> QED
  BY <1>2, <1>3, PointerMapAssumption

LEMMA SizedWrite ==
    ASSUME MapsOK, NEW m \in Live, Bounded(m, 2), NEW pair \in Pairs, NEW mode \in Mode,
           NEW u, u = WritePair(maps[m], pair, mode).table
    PROVE  Sized(u) /\ Evolves(maps[m], u)
<1>1. PICK t, w : t = maps[m] /\ w = WritePair(t, pair, mode)
  OBVIOUS
<1>2. TableOK(t) /\ t.size <= MaxSize /\ t.nMutations + 2 <= MaxMutations
  BY <1>1, SizedFacts DEF Bounded
<1>3. /\ TableOK(w.table) /\ Evolves(t, w.table)
      /\ w.table.nMutations <= t.nMutations + 2
      /\ \/ w.table.size = t.size
         \/ IsFull(t) /\ w.table.size = IF t.size = 0 THEN 4 ELSE 2 * t.size
  BY <1>1, <1>2, WriteFacts
<1>4. PICK a \in Nat, b \in Nat : a = t.nMutations /\ b = w.table.nMutations
  BY <1>2, <1>3, TableFacts
<1>5. w.table.nMutations <= MaxMutations
  BY <1>2, <1>3, <1>4, PointerMapAssumption
<1>6. w.table.size <= MaxSize
  <2>1. IsFull(t) => 2 * t.size <= MaxSize
    BY <1>1 DEF Bounded
  <2>2. 4 <= MaxSize
    BY PointerMapAssumption DEF InitialSize
  <2> QED
    BY <1>2, <1>3, <2>1, <2>2
<1> QED
  BY <1>1, <1>3, <1>5, <1>6 DEF Sized

(* One more mutation, and not a larger storage.                            *)
LEMMA SizedChange ==
    ASSUME MapsOK, NEW m \in Live, Bounded(m, 1), NEW u, TableOK(u),
           u.size <= maps[m].size, u.nMutations = maps[m].nMutations + 1
    PROVE  Sized(u) /\ Evolves(maps[m], u)
<1>1. PICK a \in Nat, b \in Nat, c \in Nat, d \in Nat :
          a = maps[m].nMutations /\ b = u.nMutations /\ c = maps[m].size /\ d = u.size
  BY SizedFacts, TableFacts
<1>2. a + 1 <= MaxMutations /\ c <= MaxSize /\ d <= c /\ b = a + 1
  BY <1>1, SizedFacts DEF Bounded
<1>3. d <= MaxSize /\ b <= MaxMutations /\ b > a
  BY <1>2, PointerMapAssumption
<1> QED
  BY <1>1, <1>3 DEF Sized, Evolves

LEMMA SizedClear ==
    ASSUME MapsOK, NEW m \in Live, Bounded(m, 1),
           NEW u, u = [NewTable(0) EXCEPT !.nMutations = maps[m].nMutations + 1]
    PROVE  Sized(u) /\ Evolves(maps[m], u) /\ Contents(u) = {}
<1>1. PICK a \in Nat, n \in Nat, c \in Nat :
          a = maps[m].nMutations /\ n = a + 1 /\ c = maps[m].size
  <2>1. PICK a \in Nat, c \in Nat : a = maps[m].nMutations /\ c = maps[m].size
    BY SizedFacts, TableFacts
  <2>2. a + 1 \in Nat
    OBVIOUS
  <2> QED
    BY <2>1, <2>2
<1>2. TableOK(NewTable(0)) /\ Contents(NewTable(0)) = {} /\ NewTable(0).size = 0
  BY NewFacts DEF SizeForCapacity
<1>3. PICK size, slots, count, k :
          /\ size \in Nat /\ slots = NewTable(0).slots /\ size = NewTable(0).size
          /\ IsTable(NewTable(0), size, count, slots, k) /\ Made(size, count, slots, k)
  BY <1>2, TableParts
<1>4. IsTable(u, size, count, slots, n) /\ Made(size, count, slots, n)
  BY <1>1, <1>3 DEF IsTable, Made
<1>5. TableOK(u) /\ Contents(u) = Stored(slots, size)
  BY <1>4, TableMade
<1>6. u.size = 0 /\ u.nMutations = n /\ Stored(slots, size) = {}
  BY <1>2, <1>3, <1>4 DEF IsTable, Contents
<1>7. 0 <= c
  BY <1>1
<1> QED
  BY <1>1, <1>5, <1>6, <1>7, SizedChange

LEMMA SizedNew ==
    ASSUME NEW capacity \in Capacities
    PROVE  Sized(NewTable(capacity))
<1>1. capacity \in Nat /\ SizeForCapacity(capacity) <= MaxSize /\ 0 <= MaxMutations
  BY PointerMapAssumption
<1> QED
  BY <1>1, NewFacts DEF Sized

(* Map m gets the table u, or ends, and with it the enumerator it has.     *)
Moves(m, u) ==
    /\ maps' = [maps EXCEPT ![m] = u]
    /\ \/ Sized(u) /\ (m \in Live => Evolves(maps[m], u)) /\ rover' = rover
       \/ u = None /\ rover' = IF rover # None /\ rover.map = m THEN None ELSE rover

Enumerates == (\E m \in Map : Enumerate(m)) \/ EnumerateNext \/ EnumerateDone

LEMMA MapSteps ==
    ASSUME MapsOK, Next
    PROVE  \/ UNCHANGED maps /\ Enumerates
           \/ \E m \in Map : \E u : Moves(m, u)
<1>1. ASSUME NEW m \in Map, NEW c \in Capacities, Create(m, c)
      PROVE  Moves(m, NewTable(c))
  BY <1>1, SizedNew DEF Create, Operate, Moves, Live
<1>2. ASSUME NEW m \in Map, Done(m)
      PROVE  Moves(m, None)
  BY <1>2 DEF Done, Moves
<1>3. ASSUME NEW m \in Map, NEW pair \in Pairs, Set(m, pair)
      PROVE  Moves(m, WritePair(maps[m], pair, "overwrite").table)
  <2>1. "overwrite" \in Mode
    BY DEF Mode
  <2> QED
    BY <1>3, <2>1, SizedWrite DEF Set, Operate, Moves
<1>4. ASSUME NEW m \in Map, NEW pair \in Pairs, Insert(m, pair) \/ Register(m, pair)
      PROVE  Moves(m, WritePair(maps[m], pair, "insert").table)
  <2>1. "insert" \in Mode
    BY DEF Mode
  <2> QED
    BY <1>4, <2>1, SizedWrite DEF Insert, Register, Operate, Moves
<1>5. ASSUME NEW m \in Map, NEW pair \in Pairs, Update(m, pair)
      PROVE  Moves(m, WritePair(maps[m], pair, "update").table)
  <2>1. "update" \in Mode
    BY DEF Mode
  <2> QED
    BY <1>5, <2>1, SizedWrite DEF Update, Operate, Moves
<1>6. ASSUME NEW m \in Live, NEW u, u = maps[m]
      PROVE  Sized(u) /\ Evolves(maps[m], u)
  BY <1>6 DEF MapsOK, Evolves
<1>7. ASSUME NEW m \in Map, NEW k \in Key, Remove(m, k)
      PROVE  \E u : Moves(m, u)
  <2>1. m \in Live /\ Bounded(m, 1)
    BY <1>7 DEF Remove
  <2>2. CASE Has(maps[m], k)
    <3>1. PICK u : u = Removed(maps[m], k)
      OBVIOUS
    <3>2. TableOK(u) /\ u.size <= maps[m].size /\ u.nMutations = maps[m].nMutations + 1
      <4>1. maps[m].size <= maps[m].size
        BY <2>1, SizedFacts, TableFacts
      <4> QED
        BY <2>1, <2>2, <3>1, <4>1, SizedFacts, RemovedFacts
    <3>3. Sized(u) /\ Evolves(maps[m], u)
      BY <2>1, <3>2, SizedChange
    <3> QED
      BY <1>7, <2>2, <3>1, <3>3 DEF Remove, Operate, Moves
  <2>3. CASE ~ Has(maps[m], k)
    BY <1>6, <1>7, <2>1, <2>3 DEF Remove, Operate, Moves
  <2> QED
    BY <2>2, <2>3
<1>8. ASSUME NEW m \in Map, ShrinkMap(m)
      PROVE  Moves(m, ShrinkIfNeeded(maps[m]))
  <2>1. m \in Live /\ Bounded(m, 1)
    BY <1>8 DEF ShrinkMap
  <2>2. PICK u : u = ShrinkIfNeeded(maps[m])
    OBVIOUS
  <2>3. /\ TableOK(u) /\ u.size <= maps[m].size
        /\ u = maps[m] \/ u.nMutations = maps[m].nMutations + 1
    BY <2>1, <2>2, SizedFacts, ShrinkFacts
  <2>4. Sized(u) /\ Evolves(maps[m], u)
    BY <1>6, <2>1, <2>3, SizedChange
  <2> QED
    BY <1>8, <2>2, <2>4 DEF ShrinkMap, Operate, Moves
<1>9. ASSUME NEW m \in Map, Reset(m)
      PROVE  \E u : Moves(m, u)
  <2>1. m \in Live /\ Bounded(m, 1)
    BY <1>9 DEF Reset
  <2>2. PICK u : u = [NewTable(0) EXCEPT !.nMutations = maps[m].nMutations + 1]
    OBVIOUS
  <2>3. Sized(u) /\ Evolves(maps[m], u)
    BY <2>1, <2>2, SizedClear
  <2> QED
    BY <1>6, <1>9, <2>1, <2>2, <2>3 DEF Reset, Operate, Moves
<1>10. ASSUME NEW m \in Map, ResetPointermap(m)
       PROVE  \E u : Moves(m, u)
  <2>1. m \in Live /\ Bounded(m, 1)
    BY <1>10 DEF ResetPointermap
  <2>2. PICK t, u : t = maps[m] /\ u = Mutated([t EXCEPT !.count = 0, !.slots = EmptySlots(t.size)])
    OBVIOUS
  <2>3. TableOK(t) /\ t.size <= t.size
    BY <2>1, <2>2, SizedFacts, TableFacts
  <2>4. TableOK(u) /\ u.size = t.size /\ u.nMutations = t.nMutations + 1
    BY <2>2, <2>3, ClearedFacts
  <2>5. Sized(u) /\ Evolves(t, u)
    BY <2>1, <2>2, <2>3, <2>4, SizedChange
  <2> QED
    BY <1>10, <2>1, <2>2, <2>5 DEF ResetPointermap, Operate, Moves
<1>11. ASSUME NEW dst \in Map, NEW src \in Map, CopyItems(dst, src)
       PROVE  Moves(dst, CopiedItems(maps[dst], maps[src]).table)
  <2>1. dst \in Live /\ src \in Live
    BY <1>11 DEF CopyItems
  <2>2. PICK c : c = CopiedItems(maps[dst], maps[src])
    OBVIOUS
  <2>3. TableOK(c.table) /\ Evolves(maps[dst], c.table)
    BY <2>1, <2>2, SizedFacts, CopiedFacts
  <2> QED
    BY <1>11, <2>2, <2>3 DEF CopyItems, Operate, Moves, Sized
<1>12. ASSUME NEW dst \in Map, NEW src \in Map, Copy(dst, src)
       PROVE  Moves(dst, CopiedItems(NewTable(maps[src].count), maps[src]).table)
  <2>1. dst \notin Live /\ src \in Live
    BY <1>12 DEF Copy, Live
  <2>2. PICK t, c : t = NewTable(maps[src].count) /\ c = CopiedItems(t, maps[src])
    OBVIOUS
  <2>3. maps[src].count \in Nat
    BY <2>1, SizedFacts, TableFacts
  <2>4. TableOK(t)
    BY <2>2, <2>3, NewFacts
  <2>5. TableOK(c.table)
    BY <2>1, <2>2, <2>4, SizedFacts, CopiedFacts
  <2> QED
    BY <1>12, <2>1, <2>2, <2>5 DEF Copy, Operate, Moves, Sized
<1>13. Enumerates => UNCHANGED maps
  BY DEF Enumerates, Enumerate, EnumerateNext, EnumerateDone
<1> QED
  BY <1>1, <1>2, <1>3, <1>4, <1>5, <1>7, <1>8, <1>9, <1>10, <1>11, <1>12, <1>13
     DEF Next, Enumerates

LEMMA MapsKept ==
    ASSUME MapsOK, [Next]_vars
    PROVE  MapsOK'
<1>1. CASE UNCHANGED maps
  BY <1>1 DEF MapsOK, Live
<1>2. ASSUME NEW m \in Map, NEW u, Moves(m, u) PROVE MapsOK'
  <2>1. maps' = [maps EXCEPT ![m] = u]
    BY <1>2 DEF Moves
  <2>2. maps' = [n \in Map |-> IF n = m THEN u ELSE maps[n]]
    BY <2>1 DEF MapsOK
  <2>3. u = None \/ Sized(u)
    BY <1>2 DEF Moves
  <2>4. \A n \in Map : maps'[n] # None => Sized(maps'[n])
    BY <2>2, <2>3 DEF MapsOK, Live
  <2>5. maps' = [n \in Map |-> maps'[n]]
    BY <2>2
  <2> QED
    BY <2>4, <2>5 DEF MapsOK, Live
<1>3. CASE Next
  BY <1>1, <1>2, <1>3, MapSteps
<1> QED
  BY <1>1, <1>3 DEF vars

-----------------------------------------------------------------------------
(* Lookups *)

LEMMA OccupiedUsed == \A t : Occupied(t) = Used(t.slots, t.size)
BY DEF Occupied, Used

(* get and __get find the value of the one pair with an equal key.         *)
LEMMA LookupFacts ==
    ASSUME NEW t, TableOK(t), NEW k \in Key
    PROVE  LET equal == {i \in Occupied(t) : IsEqual(t.slots[i].key, k)}
               value == IF equal = {} THEN Null ELSE t.slots[CHOOSE i \in equal : TRUE].value
           IN  Get(t, k) = value /\ GetHashed(t, k) = value
<1> DEFINE equal == {i \in Occupied(t) : IsEqual(t.slots[i].key, k)}
           value == IF equal = {} THEN Null ELSE t.slots[CHOOSE i \in equal : TRUE].value
           hits  == {i \in Occupied(t) : t.slots[i].key = k}
<1>1. Occupied(t) = Used(t.slots, t.size)
  BY OccupiedUsed
<1>2. \A i \in equal : FindIndex(t, k) = i /\ PairOf(t, k) = t.slots[i]
  BY <1>1, HasFacts
<1>3. Has(t, k) <=> equal # {}
  BY <1>1, HasFacts
<1>4. GetHashed(t, k) = value
  <2>1. CASE equal = {}
    BY <1>3, <2>1 DEF GetHashed
  <2>2. CASE equal # {}
    <3>1. PICK i \in equal : i = CHOOSE j \in equal : TRUE
      BY <2>2
    <3>2. PairOf(t, k) = t.slots[i] /\ value = t.slots[i].value
      BY <1>2, <2>2, <3>1
    <3> QED
      BY <1>3, <2>2, <3>2 DEF GetHashed
  <2> QED
    BY <2>1, <2>2
<1>5. hits \subseteq equal
  BY DEF IsEqual
<1>6. ASSUME hits # {} PROVE EqualitySearch(t, k) = value
  <2>1. PICK i \in hits : \A j \in hits : j = i
    BY <1>2, <1>5, <1>6
  <2>2. i \in Nat
    BY DEF Occupied, Slot
  <2>3. \A j \in hits : i <= j
    BY <2>1, <2>2
  <2>4. PICK n : n = CHOOSE m \in hits : \A j \in hits : m <= j
    OBVIOUS
  <2>5. n \in hits
    BY <2>3, <2>4
  <2>6. EqualitySearch(t, k) = t.slots[n].value
    BY <1>6, <2>4 DEF EqualitySearch
  <2>7. PICK c \in equal : c = CHOOSE j \in equal : TRUE
    BY <1>5, <2>5
  <2>8. c = n
    BY <1>2, <1>5, <2>5, <2>7
  <2>9. value = t.slots[c].value
    BY <2>7
  <2> QED
    BY <2>6, <2>8, <2>9
<1>7. hits = {} => EqualitySearch(t, k) = Null
  BY DEF EqualitySearch
<1>8. Get(t, k) = value
  <2> HIDE DEF value, hits
  <2> QED
    BY <1>4, <1>6, <1>7 DEF Get
<1> QED
  BY <1>4, <1>8

-----------------------------------------------------------------------------
(* The tables are well formed whatever was done to the maps. *)

LEMMA MapsInit == Init => MapsOK
<1> SUFFICES ASSUME Init PROVE MapsOK
  OBVIOUS
<1>1. maps = [m \in Map |-> None]
  BY DEF Init
<1>2. \A m \in Map : maps[m] = None
  BY <1>1
<1>3. maps = [m \in Map |-> maps[m]]
  BY <1>1, <1>2
<1> QED
  BY <1>2, <1>3 DEF MapsOK, Live

(* Every table satisfies the hash table's invariant, TableOK, and stays    *)
(* within the bounds of the model.                                         *)
THEOREM AlwaysTables == Spec => []MapsOK
BY MapsInit, MapsKept, PTL DEF Spec

(* The probe for a stored key ends at the slot that holds it: no chain has *)
(* a gap, no equal key is stored twice (find_index, rehash, remove).       *)
THEOREM AlwaysProbeChains == Spec => []ProbeChains
<1>1. ASSUME MapsOK, NEW m \in Live, NEW t, t = maps[m], NEW i \in Occupied(t)
      PROVE  FindIndex(t, t.slots[i].key) = i
  <2>1. TableOK(t) /\ i \in Used(t.slots, t.size)
    BY <1>1, SizedFacts, OccupiedUsed
  <2>2. PICK k \in Key : k = t.slots[i].key
    BY <2>1, TableFacts
  <2>3. IsEqual(t.slots[i].key, k)
    BY <2>2 DEF IsEqual
  <2> QED
    BY <2>1, <2>2, <2>3, HasFacts
<1>2. MapsOK => ProbeChains
  BY <1>1 DEF ProbeChains
<1> QED
  BY <1>2, AlwaysTables, PTL

(* _count is exact, there is always a hole for an unsuccessful probe to    *)
(* end at, and shrinking and growing do not alternate.                     *)
THEOREM AlwaysHoleRemains == Spec => []HoleRemains
<1>1. ASSUME MapsOK, NEW m \in Live, NEW t, t = maps[m], NEW shrunk, shrunk = ShrinkIfNeeded(t)
      PROVE  /\ t.count = Cardinality(Occupied(t))
             /\ t.size # 0 => t.count < t.size
             /\ shrunk.size \in 1 .. t.size - 1 => ~ IsFull(shrunk)
  <2>1. TableOK(t)
    BY <1>1, SizedFacts
  <2>2. shrunk = t \/ ~ IsFull(shrunk)
    BY <1>1, <2>1, ShrinkFacts
  <2>3. t.size \notin 1 .. t.size - 1
    BY <2>1, TableFacts
  <2> QED
    BY <2>1, <2>2, <2>3, OccupiedUsed DEF TableOK
<1>2. MapsOK => HoleRemains
  BY <1>1 DEF HoleRemains
<1> QED
  BY <1>2, AlwaysTables, PTL

(* get, which first looks for the pointer itself in small tables, and      *)
(* __get, which hashes, agree for every key, stored or absent.             *)
THEOREM AlwaysLookupsAgree == Spec => []LookupsAgree
<1>1. MapsOK => LookupsAgree
  BY SizedFacts, LookupFacts DEF LookupsAgree
<1> QED
  BY <1>1, AlwaysTables, PTL

(* A step that changes what a map holds, or where, counts a mutation, so   *)
(* that an enumerator or a holder of get_mutation_pointer can tell.        *)
THEOREM AlwaysMutationsVisible == Spec => MutationsVisible
<1>1. ASSUME MapsOK, Next, NEW m \in Live, maps'[m] # None, maps'[m].slots # maps[m].slots
      PROVE  maps'[m].nMutations > maps[m].nMutations
  <2>1. PICK n, u : n \in Map /\ Moves(n, u)
    BY <1>1, MapSteps
  <2>2. maps' = [l \in Map |-> IF l = n THEN u ELSE maps[l]] /\ m \in Map
    <3>1. maps' = [maps EXCEPT ![n] = u] /\ maps = [l \in Map |-> maps[l]]
      BY <1>1, <2>1 DEF Moves, MapsOK
    <3> QED
      BY <3>1 DEF Live
  <2>3. m = n /\ maps'[m] = u
    BY <1>1, <2>2
  <2>4. Evolves(maps[m], u)
    BY <1>1, <2>1, <2>3 DEF Moves
  <2> QED
    BY <1>1, <2>3, <2>4 DEF Evolves
<1>2. MapsOK /\ [Next]_vars =>
          [\A m \in Live : maps'[m] # None /\ maps'[m].slots # maps[m].slots
               => maps'[m].nMutations > maps[m].nMutations]_vars
  BY <1>1
<1> QED
  BY <1>2, AlwaysTables, PTL DEF Spec, MutationsVisible

-----------------------------------------------------------------------------
(* Enumeration *)

Rest(r, t) == {i \in Occupied(t) : i >= r.curr}

Complete(r, t) ==
    /\ r.left = Cardinality(Rest(r, t))
    /\ Len(r.seen) + r.left = t.count
    /\ {r.seen[n] : n \in DOMAIN r.seen} \cup {t.slots[i] : i \in Rest(r, t)}
           = {t.slots[i] : i \in Occupied(t)}

RoverType ==
    [map : Map, left : Nat, curr : Nat, nMutations : Nat, seen : Seq(Pairs)]

(* An open enumerator is of a map that still exists and has not changed    *)
(* more often than the counter says.                                       *)
RoverOK ==
    rover # None =>
        /\ rover.map \in Live /\ rover \in RoverType
        /\ rover.nMutations <= maps[rover.map].nMutations
        /\ Unmodified(rover) => Complete(rover, maps[rover.map])

LEMMA RoverStarts ==
    ASSUME MapsOK, NEW m \in Map, Enumerate(m)
    PROVE  RoverOK'
<1>1. PICK t, r : /\ t = maps[m]
                  /\ r = [map |-> m, left |-> t.count, curr |-> 0,
                          nMutations |-> t.nMutations, seen |-> <<>>]
  OBVIOUS
<1>2. m \in Live /\ TableOK(t) /\ rover' = r /\ maps' = maps
  BY <1>1, SizedFacts DEF Enumerate
<1>3. Rest(r, t) = Occupied(t)
  BY <1>1 DEF Rest, Occupied, Slot
<1>4. r \in RoverType
  <2>1. t.count \in Nat /\ t.nMutations \in Nat /\ <<>> \in Seq(Pairs)
    BY <1>2, TableFacts
  <2> QED
    BY <1>1, <2>1 DEF RoverType
<1>5. t.count = Cardinality(Occupied(t)) /\ t.count \in Nat /\ t.nMutations <= t.nMutations
  BY <1>2, OccupiedUsed, TableFacts DEF TableOK
<1>6. Complete(r, t)
  <2>1. r.seen = <<>> /\ Len(r.seen) = 0 /\ DOMAIN r.seen = {} /\ r.left = t.count
    BY <1>1
  <2>2. {r.seen[n] : n \in DOMAIN r.seen} = {}
    BY <2>1
  <2>3. Len(r.seen) + r.left = t.count
    BY <1>5, <2>1
  <2> QED
    BY <1>3, <1>5, <2>1, <2>2, <2>3 DEF Complete
<1>7. r.map = m /\ r.nMutations = t.nMutations
  BY <1>1
<1> QED
  BY <1>1, <1>2, <1>4, <1>5, <1>6, <1>7 DEF RoverOK, Live, Unmodified

LEMMA RoverAdvances ==
    ASSUME MapsOK, RoverOK, EnumerateNext
    PROVE  RoverOK'
<1>1. PICK r, t : r = rover /\ t = maps[r.map]
  OBVIOUS
<1>2. /\ r # None /\ r.left # 0 /\ Unmodified(r) /\ maps' = maps
      /\ r.map \in Live /\ r \in RoverType /\ Complete(r, t)
      /\ r.nMutations <= t.nMutations
  BY <1>1 DEF EnumerateNext, RoverOK
<1>3. TableOK(t)
  BY <1>1, <1>2, SizedFacts
<1> DEFINE rest == Rest(r, t)
<1>4. IsFiniteSet(Occupied(t)) /\ rest \subseteq Occupied(t) /\ IsFiniteSet(rest)
  <2>1. IsFiniteSet(Occupied(t))
    BY <1>3, UsedFinite, TableFacts, OccupiedUsed
  <2>2. rest \subseteq Occupied(t)
    BY DEF Rest
  <2> QED
    BY <2>1, <2>2, FS_Subset
<1>5. rest # {}
  BY <1>2, FS_EmptySet DEF Complete
<1>6. PICK i \in rest : /\ \A j \in rest : i <= j
                        /\ i = CHOOSE h \in rest : \A j \in rest : h <= j
  <2>1. rest \subseteq Nat
    BY DEF Rest, Occupied, Slot
  <2>2. \E i \in rest : \A j \in rest : i <= j
    BY <1>5, <2>1, LeastNat
  <2> QED
    BY <2>2
<1>7. i \in Nat /\ i \in Occupied(t) /\ t.slots[i] \in Pairs
  BY <1>3, OccupiedUsed, TableFacts DEF Rest, Occupied, Slot
<1>8. PICK s : s = [r EXCEPT !.left = @ - 1, !.curr = i + 1, !.seen = Append(@, t.slots[i])]
  OBVIOUS
<1>9. rover' = s
  <2>1. rest = {j \in Occupied(t) : j >= r.curr}
    BY DEF Rest
  <2> HIDE DEF rest
  <2> QED
    BY <1>1, <1>5, <1>6, <1>8, <2>1 DEF EnumerateNext
<1>10. PICK left \in Nat, curr \in Nat, seen \in Seq(Pairs) :
           /\ left = r.left /\ curr = r.curr /\ seen = r.seen
           /\ r = [map |-> r.map, left |-> left, curr |-> curr,
                   nMutations |-> r.nMutations, seen |-> seen]
  BY <1>2 DEF RoverType
<1>11. s = [map |-> r.map, left |-> left - 1, curr |-> i + 1,
            nMutations |-> r.nMutations, seen |-> Append(seen, t.slots[i])]
  BY <1>8, <1>10
<1>12. left - 1 \in Nat /\ left # 0
  BY <1>2, <1>10
<1>13. s \in RoverType
  <2>1. Append(seen, t.slots[i]) \in Seq(Pairs) /\ i + 1 \in Nat
    BY <1>7
  <2> QED
    BY <1>2, <1>11, <1>12, <2>1 DEF RoverType
<1>14. Rest(s, t) = rest \ {i} /\ s.curr = i + 1
  <2>1. s.curr = i + 1
    BY <1>11
  <2>2. \A j \in Occupied(t) : j \in Nat
    BY DEF Occupied, Slot
  <2>3. \A j \in Occupied(t) : j >= i + 1 <=> j >= curr /\ j # i
    <3>1. i >= curr
      BY <1>6, <1>10 DEF Rest
    <3>2. \A j \in Occupied(t) : j >= curr => i <= j
      BY <1>6, <1>10 DEF Rest
    <3> QED
      BY <1>7, <2>2, <3>1, <3>2
  <2> QED
    BY <1>10, <2>1, <2>3 DEF Rest
<1>15. Complete(s, t)
  <2>1. Cardinality(rest \ {i}) = Cardinality(rest) - 1
    BY <1>4, <1>6, FS_RemoveElement
  <2>2. s.left = left - 1 /\ s.seen = Append(seen, t.slots[i])
    BY <1>11
  <2>3. s.left = Cardinality(Rest(s, t))
    BY <1>2, <1>10, <1>14, <2>1, <2>2 DEF Complete
  <2>4. Len(s.seen) + s.left = t.count
    <3>1. Len(seen) + left = t.count /\ Len(seen) \in Nat
      BY <1>2, <1>10 DEF Complete
    <3>2. Len(s.seen) = Len(seen) + 1
      BY <2>2
    <3> QED
      BY <1>12, <2>2, <3>1, <3>2
  <2>5. {s.seen[n] : n \in DOMAIN s.seen} = {seen[n] : n \in DOMAIN seen} \cup {t.slots[i]}
    <3>1. PICK l \in Nat : l = Len(seen) /\ DOMAIN seen = 1 .. l
      OBVIOUS
    <3>2. PICK u : u = Append(seen, t.slots[i])
      OBVIOUS
    <3>3. /\ DOMAIN u = 1 .. l + 1 /\ u[l + 1] = t.slots[i]
          /\ \A n \in 1 .. l : u[n] = seen[n]
      BY <3>1, <3>2
    <3>4. 1 .. l + 1 = (1 .. l) \cup {l + 1}
      OBVIOUS
    <3> QED
      BY <2>2, <3>1, <3>2, <3>3, <3>4
  <2>6. {t.slots[j] : j \in rest} = {t.slots[j] : j \in Rest(s, t)} \cup {t.slots[i]}
    BY <1>6, <1>14
  <2>7. {seen[n] : n \in DOMAIN seen} \cup {t.slots[j] : j \in rest}
            = {t.slots[j] : j \in Occupied(t)}
    BY <1>2, <1>10 DEF Complete
  <2> HIDE DEF rest
  <2> QED
    BY <2>3, <2>4, <2>5, <2>6, <2>7 DEF Complete
<1>16. s.map = r.map /\ s.nMutations = r.nMutations
  BY <1>11
<1> QED
  BY <1>1, <1>2, <1>9, <1>13, <1>15, <1>16 DEF RoverOK, Live

LEMMA RoverStands ==
    ASSUME MapsOK, RoverOK, NEW m \in Map, NEW u, Moves(m, u)
    PROVE  RoverOK'
<1> SUFFICES ASSUME rover' # None PROVE RoverOK'
  BY DEF RoverOK
<1>1. PICK r, t : r = rover /\ t = maps[r.map]
  OBVIOUS
<1>2. rover' = r /\ r # None
  BY <1>1 DEF Moves
<1>3. /\ r.map \in Live /\ r \in RoverType /\ r.nMutations <= t.nMutations
      /\ Unmodified(r) => Complete(r, t)
  BY <1>1, <1>2 DEF RoverOK
<1>4. maps' = [n \in Map |-> IF n = m THEN u ELSE maps[n]]
  BY DEF Moves, MapsOK
<1>5. CASE r.map # m
  <2>1. maps'[r.map] = t
    BY <1>1, <1>3, <1>4, <1>5 DEF Live
  <2> QED
    BY <1>1, <1>2, <1>3, <2>1 DEF RoverOK, Live, Unmodified
<1>6. CASE r.map = m
  <2>1. Sized(u) /\ Evolves(t, u) /\ maps'[m] = u /\ TableOK(t) /\ TableOK(u)
    <3>1. Sized(u) /\ (m \in Live => Evolves(maps[m], u))
      BY <1>1, <1>2, <1>6 DEF Moves
    <3> QED
      BY <1>1, <1>3, <1>4, <1>6, <3>1, SizedFacts DEF Sized
  <2>2. PICK a \in Nat, b \in Nat, c \in Nat :
            a = r.nMutations /\ b = t.nMutations /\ c = u.nMutations
    BY <1>3, <2>1, TableFacts DEF RoverType
  <2>3. a <= c /\ (c = a => u = t)
    BY <1>3, <2>1, <2>2 DEF Evolves
  <2>4. m \in Live'
    BY <2>1, SizedNotNone DEF Live
  <2> QED
    BY <1>1, <1>2, <1>3, <1>6, <2>1, <2>2, <2>3, <2>4 DEF RoverOK, Unmodified
<1> QED
  BY <1>5, <1>6

LEMMA RoverKept ==
    ASSUME MapsOK, RoverOK, [Next]_vars
    PROVE  RoverOK'
<1>1. CASE UNCHANGED vars
  BY <1>1 DEF vars, RoverOK, Live, Unmodified
<1>2. CASE Next
  <2>1. ASSUME Enumerates PROVE RoverOK'
    <3>1. EnumerateDone => RoverOK'
      BY DEF EnumerateDone, RoverOK
    <3> QED
      BY <2>1, <3>1, RoverStarts, RoverAdvances DEF Enumerates
  <2> QED
    BY <1>2, <2>1, MapSteps, RoverStands
<1> QED
  BY <1>1, <1>2

(* An open enumerator belongs to a live map whose mutations it remembers,  *)
(* and while the two agree it has returned the pairs before its position   *)
(* and has as many left as there are behind it.                            *)
THEOREM AlwaysRover == Spec => []RoverOK
<1>1. Init => RoverOK
  BY DEF Init, RoverOK
<1> QED
  BY <1>1, RoverKept, AlwaysTables, PTL DEF Spec

(* As long as next's assertion on the mutation counter holds, what an      *)
(* enumerator has returned and what is in front of it are the pairs of the *)
(* map, each once, and it does not run off the storage.                    *)
THEOREM AlwaysEnumeratorComplete == Spec => []EnumeratorComplete
<1>1. RoverOK => EnumeratorComplete
  BY DEF RoverOK, EnumeratorComplete, Complete, Rest
<1> QED
  BY <1>1, AlwaysRover, PTL

-----------------------------------------------------------------------------
(* Callbacks *)

(* c[n] are the reference counts after n of the calls.                     *)
IsCount(c, r, calls) ==
    c = [n \in 0 .. Len(calls) |->
            IF n = 0 THEN r
            ELSE IF calls[n][2] \in owned
                 THEN [c[n - 1] EXCEPT ![calls[n][2]] = @ + calls[n][1]]
                 ELSE c[n - 1]]

Gone(c, calls) ==
    {p \in owned : \E n \in DOMAIN calls : calls[n] = <<-1, p>> /\ c[n][p] <= 0}

(* The calls turn the counts r into s; the last references to gone go.     *)
Ran(r, calls, s, gone) ==
    \E c : IsCount(c, r, calls) /\ s = c[Len(calls)] /\ gone = Gone(c, calls)

LEMMA CountUnique ==
    ASSUME NEW calls \in Calls, NEW r, NEW c, NEW d, IsCount(c, r, calls), IsCount(d, r, calls)
    PROVE  c = d
<1>1. PICK l \in Nat : l = Len(calls)
  BY DEF Calls
<1> DEFINE f(g, n) == IF n = 0 THEN r
                      ELSE IF calls[n][2] \in owned
                           THEN [g[n - 1] EXCEPT ![calls[n][2]] = @ + calls[n][1]]
                           ELSE g[n - 1]
           T == {n \in Nat : n <= l => c[n] = d[n]}
<1>2. /\ c = [n \in 0 .. l |-> f(c, n)] /\ d = [n \in 0 .. l |-> f(d, n)]
  BY <1>1 DEF IsCount
<1>3. 0 \in T
  BY <1>2
<1>4. ASSUME NEW n \in Nat, n \in T PROVE n + 1 \in T
  <2> SUFFICES ASSUME n + 1 <= l PROVE c[n + 1] = d[n + 1]
    OBVIOUS
  <2>1. n + 1 \in 0 .. l /\ (n + 1) - 1 = n /\ n <= l
    OBVIOUS
  <2>2. c[n] = d[n]
    BY <1>4, <2>1
  <2>3. c[n + 1] = f(c, n + 1) /\ d[n + 1] = f(d, n + 1)
    <3> HIDE DEF f
    <3> QED
      BY <1>2, <2>1
  <2> QED
    BY <2>1, <2>2, <2>3
<1> HIDE DEF T
<1>5. \A n \in Nat : n \in T
  BY <1>3, <1>4, Induction
<1>6. \A n \in 0 .. l : c[n] = d[n]
  BY <1>5 DEF T
<1> HIDE DEF f
<1> QED
  BY <1>2, <1>6

LEMMA RanCallbacks ==
    ASSUME NEW calls \in Calls, NEW tables, NEW s, NEW gone,
           Ran(refs, calls, s, gone), RunCallbacks(calls, tables)
    PROVE  /\ refs' = s /\ owned' = owned
           /\ dangling' = {p \in dangling \cup gone : Holders(tables, p) # {}}
<1>1. PICK c : IsCount(c, refs, calls) /\ s = c[Len(calls)] /\ gone = Gone(c, calls)
  BY DEF Ran
<1> DEFINE d == CHOOSE g : IsCount(g, refs, calls)
<1>2. IsCount(d, refs, calls)
  BY <1>1
<1>3. d = c
  <2> HIDE DEF d
  <2> QED
    BY <1>1, <1>2, CountUnique
<1>4. /\ refs' = d[Len(calls)] /\ owned' = owned
      /\ dangling' = {p \in dangling \cup Gone(d, calls) : Holders(tables, p) # {}}
  BY DEF RunCallbacks, IsCount, Gone
<1> QED
  BY <1>1, <1>3, <1>4

LEMMA RanNothing == \A r : Ran(r, <<>>, r, {})
<1> SUFFICES ASSUME NEW r PROVE Ran(r, <<>>, r, {})
  OBVIOUS
<1>1. PICK c : c = [n \in 0 .. 0 |-> r]
  OBVIOUS
<1>2. Len(<<>>) = 0 /\ DOMAIN <<>> = {}
  OBVIOUS
<1>3. c[0] = r
  BY <1>1
<1>4. IsCount(c, r, <<>>)
  BY <1>1, <1>2 DEF IsCount
<1>5. Gone(c, <<>>) = {}
  BY <1>2 DEF Gone
<1> QED
  BY <1>2, <1>3, <1>4, <1>5 DEF Ran

LEMMA RanNothingGone == \A r, s, gone : Ran(r, <<>>, s, gone) => gone = {}
<1>1. DOMAIN <<>> = {}
  OBVIOUS
<1> QED
  BY <1>1 DEF Ran, Gone

LEMMA RanConcat ==
    ASSUME NEW a \in Calls, NEW b \in Calls, NEW r, NEW s, NEW u, NEW g, NEW h,
           Ran(r, a, s, g), Ran(s, b, u, h)
    PROVE  Ran(r, a \o b, u, g \cup h)
<1>1. PICK l \in Nat, m \in Nat : l = Len(a) /\ m = Len(b)
  BY DEF Calls
<1>2. PICK c : IsCount(c, r, a) /\ s = c[l] /\ g = Gone(c, a)
  BY <1>1 DEF Ran
<1>3. PICK d : IsCount(d, s, b) /\ u = d[m] /\ h = Gone(d, b)
  BY <1>1 DEF Ran
<1>4. PICK ab : ab = a \o b
  OBVIOUS
<1>5. /\ ab \in Calls /\ Len(ab) = l + m /\ DOMAIN ab = 1 .. l + m
      /\ DOMAIN a = 1 .. l /\ DOMAIN b = 1 .. m
      /\ \A n \in 1 .. l : ab[n] = a[n]
      /\ \A n \in 1 .. m : ab[l + n] = b[n]
  BY <1>1, <1>4 DEF Calls
<1> DEFINE f(g0, calls, n) == IF calls[n][2] \in owned
                              THEN [g0[n - 1] EXCEPT ![calls[n][2]] = @ + calls[n][1]]
                              ELSE g0[n - 1]
           e == [n \in 0 .. l + m |-> IF n <= l THEN c[n] ELSE d[n - l]]
<1>6. /\ c[0] = r /\ d[0] = s
      /\ \A n \in 1 .. l : c[n] = f(c, a, n)
      /\ \A n \in 1 .. m : d[n] = f(d, b, n)
  <2>1. c = [n \in 0 .. l |-> IF n = 0 THEN r ELSE f(c, a, n)]
    BY <1>1, <1>2 DEF IsCount
  <2>2. d = [n \in 0 .. m |-> IF n = 0 THEN s ELSE f(d, b, n)]
    BY <1>1, <1>3 DEF IsCount
  <2> HIDE DEF f
  <2>3. (\A n \in 1 .. l : n \in 0 .. l /\ n # 0) /\ (\A n \in 1 .. m : n \in 0 .. m /\ n # 0)
    OBVIOUS
  <2>4. 0 \in 0 .. l /\ 0 \in 0 .. m
    OBVIOUS
  <2>5. c[0] = r /\ \A n \in 1 .. l : c[n] = f(c, a, n)
    BY <2>1, <2>3, <2>4
  <2>6. d[0] = s /\ \A n \in 1 .. m : d[n] = f(d, b, n)
    BY <2>2, <2>3, <2>4
  <2> QED
    BY <2>5, <2>6
<1>7. /\ \A n \in 0 .. l : e[n] = c[n]
      /\ \A n \in 0 .. m : e[l + n] = d[n]
  <2>1. \A n \in 0 .. l : n \in 0 .. l + m /\ n <= l
    OBVIOUS
  <2>2. \A n \in 1 .. m : l + n \in 0 .. l + m /\ ~ (l + n <= l) /\ (l + n) - l = n
    OBVIOUS
  <2>3. \A n \in 0 .. m : n = 0 \/ n \in 1 .. m
    OBVIOUS
  <2>4. \A n \in 0 .. l : e[n] = c[n]
    BY <2>1
  <2>5. \A n \in 1 .. m : e[l + n] = d[n]
    BY <2>2
  <2>6. l \in 0 .. l /\ l + 0 = l
    OBVIOUS
  <2> HIDE DEF e
  <2> QED
    BY <1>2, <1>6, <2>3, <2>4, <2>5, <2>6
<1>8. \A n \in 1 .. l + m : n \in 1 .. l \/ \E k \in 1 .. m : n = l + k
  <2> TAKE n \in 1 .. l + m
  <2>1. n <= l \/ (n - l \in 1 .. m /\ n = l + (n - l))
    OBVIOUS
  <2> QED
    BY <2>1
<1>9. e[0] = r /\ \A n \in 1 .. l + m : e[n] = f(e, ab, n)
  <2>1. \A n \in 1 .. l : n - 1 \in 0 .. l /\ n \in 0 .. l
    OBVIOUS
  <2>2. \A n \in 1 .. l : e[n] = f(e, ab, n)
    <3> TAKE n \in 1 .. l
    <3>1. e[n] = c[n] /\ e[n - 1] = c[n - 1] /\ ab[n] = a[n]
      <4> HIDE DEF e
      <4> QED
        BY <1>5, <1>7, <2>1
    <3>2. c[n] = f(c, a, n)
      BY <1>6
    <3> HIDE DEF e
    <3> QED
      BY <3>1, <3>2
  <2>3. \A k \in 1 .. m : e[l + k] = f(e, ab, l + k)
    <3> TAKE k \in 1 .. m
    <3>1. k - 1 \in 0 .. m /\ k \in 0 .. m /\ (l + k) - 1 = l + (k - 1)
      OBVIOUS
    <3>2. e[l + k] = d[k] /\ e[(l + k) - 1] = d[k - 1] /\ ab[l + k] = b[k]
      <4> HIDE DEF e
      <4> QED
        BY <1>5, <1>7, <3>1
    <3>3. d[k] = f(d, b, k)
      BY <1>6
    <3> HIDE DEF e
    <3> QED
      BY <3>2, <3>3
  <2>4. e[0] = r
    <3>1. 0 \in 0 .. l
      OBVIOUS
    <3> HIDE DEF e
    <3> QED
      BY <1>6, <1>7, <3>1
  <2> HIDE DEF e, f
  <2> QED
    BY <1>8, <2>2, <2>3, <2>4
<1>10. IsCount(e, r, ab)
  <2>1. e = [n \in 0 .. l + m |-> e[n]]
    OBVIOUS
  <2>2. \A n \in 0 .. l + m : n = 0 \/ n \in 1 .. l + m
    OBVIOUS
  <2>3. \A n \in 0 .. l + m : e[n] = IF n = 0 THEN r ELSE f(e, ab, n)
    <3> HIDE DEF e, f
    <3> QED
      BY <1>9, <2>2
  <2> HIDE DEF e
  <2> QED
    BY <1>5, <2>1, <2>3 DEF IsCount
<1>11. Gone(e, ab) = g \cup h
  <2>1. ASSUME NEW p \in owned
        PROVE  (\E n \in 1 .. l + m : ab[n] = <<-1, p>> /\ e[n][p] <= 0)
                  <=> \/ \E n \in 1 .. l : a[n] = <<-1, p>> /\ c[n][p] <= 0
                      \/ \E n \in 1 .. m : b[n] = <<-1, p>> /\ d[n][p] <= 0
    <3>1. \A n \in 1 .. l : n \in 1 .. l + m /\ e[n] = c[n] /\ ab[n] = a[n]
      <4>1. \A n \in 1 .. l : n \in 0 .. l /\ n \in 1 .. l + m
        OBVIOUS
      <4> HIDE DEF e
      <4> QED
        BY <1>5, <1>7, <4>1
    <3>2. \A n \in 1 .. m : l + n \in 1 .. l + m /\ e[l + n] = d[n] /\ ab[l + n] = b[n]
      <4>1. \A n \in 1 .. m : n \in 0 .. m /\ l + n \in 1 .. l + m
        OBVIOUS
      <4> HIDE DEF e
      <4> QED
        BY <1>5, <1>7, <4>1
    <3> HIDE DEF e
    <3> QED
      BY <1>8, <3>1, <3>2
  <2> HIDE DEF e
  <2> QED
    BY <1>2, <1>3, <1>5, <2>1 DEF Gone
<1>12. e[l + m] = u
  <2>1. m \in 0 .. m
    OBVIOUS
  <2> HIDE DEF e
  <2> QED
    BY <1>3, <1>7, <2>1
<1> HIDE DEF e
<1> QED
  BY <1>4, <1>5, <1>10, <1>11, <1>12 DEF Ran

LEMMA PairConcat ==
    ASSUME NEW a, NEW b
    PROVE  <<a>> \o <<b>> = <<a, b>>
<1> DEFINE c == <<a>> \o <<b>>
<1>1. c \in Seq({a, b}) /\ Len(c) = 2 /\ c[1] = a /\ c[2] = b
  OBVIOUS
<1> HIDE DEF c
<1>2. c = [i \in 1 .. 2 |-> c[i]]
  BY <1>1
<1>3. <<a, b>> = [i \in 1 .. 2 |-> c[i]]
  BY <1>1
<1> QED
  BY <1>2, <1>3 DEF c

LEMMA RanOne ==
    ASSUME NEW r, NEW p \in Pointer, NEW d \in {-1, 1}
    PROVE  Ran(r, <<<<d, p>>>>, IF p \in owned THEN [r EXCEPT ![p] = @ + d] ELSE r,
               IF p \in owned /\ d = -1 /\ [r EXCEPT ![p] = @ + d][p] <= 0 THEN {p} ELSE {})
<1> DEFINE s == IF p \in owned THEN [r EXCEPT ![p] = @ + d] ELSE r
<1>1. PICK call, calls : call = <<d, p>> /\ calls = <<call>>
  OBVIOUS
<1>2. PICK c : c = [n \in 0 .. 1 |-> IF n = 0 THEN r ELSE s]
  OBVIOUS
<1>3. c[0] = r /\ c[1] = s /\ Len(calls) = 1 /\ DOMAIN calls = {1} /\ calls[1] = call
  BY <1>1, <1>2
<1>4. call[1] = d /\ call[2] = p /\ \A q : call = <<-1, q>> <=> d = -1 /\ q = p
  BY <1>1
<1>5. \A n \in 0 .. 1 : n = 0 \/ (n = 1 /\ n - 1 = 0)
  OBVIOUS
<1>6. \A n \in 0 .. 1 : c[n] = IF n = 0 THEN r
                               ELSE IF calls[n][2] \in owned
                                    THEN [c[n - 1] EXCEPT ![calls[n][2]] = @ + calls[n][1]]
                                    ELSE c[n - 1]
  <2> TAKE n \in 0 .. 1
  <2>1. CASE n = 0
    BY <1>3, <2>1
  <2>2. CASE n = 1
    <3>1. n - 1 = 0
      BY <2>2
    <3> HIDE DEF s
    <3>2. c[n] = s /\ c[n - 1] = r /\ calls[n][2] = p /\ calls[n][1] = d /\ n # 0
      BY <1>3, <1>4, <2>2, <3>1
    <3> QED
      BY <3>2 DEF s
  <2> QED
    BY <1>5, <2>1, <2>2
<1>7. c = [n \in 0 .. 1 |-> c[n]]
  BY <1>2
<1> HIDE DEF s
<1>8. IsCount(c, r, calls)
  BY <1>3, <1>6, <1>7 DEF IsCount
<1>9. Gone(c, calls) = IF p \in owned /\ d = -1 /\ s[p] <= 0 THEN {p} ELSE {}
  BY <1>3, <1>4 DEF Gone
<1>10. Ran(r, calls, s, Gone(c, calls))
  BY <1>3, <1>8 DEF Ran
<1>11. (p \in owned /\ d = -1 /\ s[p] <= 0)
           <=> (p \in owned /\ d = -1 /\ [r EXCEPT ![p] = @ + d][p] <= 0)
  BY DEF s
<1>12. Gone(c, calls) = IF p \in owned /\ d = -1 /\ [r EXCEPT ![p] = @ + d][p] <= 0
                        THEN {p} ELSE {}
  BY <1>9, <1>11
<1> QED
  BY <1>1, <1>10, <1>12 DEF s

Ends(pair) == {pair.key, pair.value}

LEMMA RetainRan ==
    ASSUME NEW r \in [Pointer -> Nat], NEW pair \in Pairs
    PROVE  Ran(r, Retain(pair),
               [p \in Pointer |-> IF p \in owned /\ p \in Ends(pair) THEN r[p] + 1 ELSE r[p]], {})
<1>1. PICK k, v : k = pair.key /\ v = pair.value
  OBVIOUS
<1>2. k \in Pointer /\ v \in Pointer /\ k # v
  BY <1>1, PairCalls
<1>3. PICK s : s = IF k \in owned THEN [r EXCEPT ![k] = @ + 1] ELSE r
  OBVIOUS
<1>4. PICK u : u = IF v \in owned THEN [s EXCEPT ![v] = @ + 1] ELSE s
  OBVIOUS
<1>5. 1 \in {-1, 1} /\ 1 # -1
  OBVIOUS
<1>6. Ran(r, <<<<1, k>>>>, s, {})
  BY <1>2, <1>3, <1>5, RanOne
<1>7. Ran(s, <<<<1, v>>>>, u, {})
  BY <1>2, <1>4, <1>5, RanOne
<1>8. <<<<1, k>>>> \in Calls /\ <<<<1, v>>>> \in Calls
  BY <1>2 DEF Calls
<1>9. Ran(r, <<<<1, k>>>> \o <<<<1, v>>>>, u, {} \cup {})
  BY <1>6, <1>7, <1>8, RanConcat
<1>10. <<<<1, k>>>> \o <<<<1, v>>>> = Retain(pair)
  BY <1>1, PairConcat DEF Retain
<1>11. u = [p \in Pointer |-> IF p \in owned /\ p \in Ends(pair) THEN r[p] + 1 ELSE r[p]]
  <2>1. s = [p \in Pointer |-> IF p \in owned /\ p = k THEN r[p] + 1 ELSE r[p]]
    BY <1>2, <1>3
  <2>2. u = [p \in Pointer |-> IF p \in owned /\ p = v THEN s[p] + 1 ELSE s[p]]
    BY <1>2, <1>4, <2>1
  <2>3. \A p \in Pointer : u[p] = IF p \in owned /\ p \in {k, v} THEN r[p] + 1 ELSE r[p]
    BY <1>2, <2>1, <2>2
  <2>4. u = [p \in Pointer |-> u[p]]
    BY <2>2
  <2> QED
    BY <1>1, <2>3, <2>4 DEF Ends
<1>12. {} \cup {} = {}
  OBVIOUS
<1> QED
  BY <1>9, <1>10, <1>11, <1>12

LEMMA ReleaseRan ==
    ASSUME NEW r \in [Pointer -> Nat], NEW pair \in Pairs
    PROVE  Ran(r, Release(pair),
               [p \in Pointer |-> IF p \in owned /\ p \in Ends(pair) THEN r[p] - 1 ELSE r[p]],
               {p \in owned \cap Ends(pair) : r[p] <= 1})
<1>1. PICK k, v : k = pair.key /\ v = pair.value
  OBVIOUS
<1>2. k \in Pointer /\ v \in Pointer /\ k # v
  BY <1>1, PairCalls
<1>3. PICK s : s = IF k \in owned THEN [r EXCEPT ![k] = @ + -1] ELSE r
  OBVIOUS
<1>4. PICK u : u = IF v \in owned THEN [s EXCEPT ![v] = @ + -1] ELSE s
  OBVIOUS
<1>5. -1 \in {-1, 1}
  OBVIOUS
<1>6. PICK g : g = IF k \in owned /\ [r EXCEPT ![k] = @ + -1][k] <= 0 THEN {k} ELSE {}
  OBVIOUS
<1>7. PICK h : h = IF v \in owned /\ [s EXCEPT ![v] = @ + -1][v] <= 0 THEN {v} ELSE {}
  OBVIOUS
<1>8. Ran(r, <<<<-1, k>>>>, s, g)
  BY <1>2, <1>3, <1>5, <1>6, RanOne
<1>9. Ran(s, <<<<-1, v>>>>, u, h)
  BY <1>2, <1>4, <1>5, <1>7, RanOne
<1>10. <<<<-1, k>>>> \in Calls /\ <<<<-1, v>>>> \in Calls
  BY <1>2 DEF Calls
<1>11. Ran(r, <<<<-1, k>>>> \o <<<<-1, v>>>>, u, g \cup h)
  BY <1>8, <1>9, <1>10, RanConcat
<1>12. <<<<-1, k>>>> \o <<<<-1, v>>>> = Release(pair)
  BY <1>1, PairConcat DEF Release
<1>13. s = [p \in Pointer |-> IF p \in owned /\ p = k THEN r[p] - 1 ELSE r[p]]
  <2>1. \A n \in Nat : n + -1 = n - 1
    OBVIOUS
  <2> QED
    BY <1>2, <1>3, <2>1
<1>14. \A p \in Pointer : p # k => s[p] = r[p]
  BY <1>13
<1>15. u = [p \in Pointer |-> IF p \in owned /\ p \in Ends(pair) THEN r[p] - 1 ELSE r[p]]
  <2>1. \A n \in Nat : n + -1 = n - 1
    OBVIOUS
  <2>2. s[v] = r[v] /\ r[v] \in Nat
    BY <1>2, <1>14
  <2>3. u = [p \in Pointer |-> IF p \in owned /\ p = v THEN r[p] - 1 ELSE s[p]]
    BY <1>2, <1>4, <1>13, <2>1, <2>2
  <2>4. \A p \in Pointer : u[p] = IF p \in owned /\ p \in {k, v} THEN r[p] - 1 ELSE r[p]
    BY <1>2, <1>13, <2>3
  <2>5. u = [p \in Pointer |-> u[p]]
    BY <2>3
  <2> QED
    BY <1>1, <2>4, <2>5 DEF Ends
<1>16. g \cup h = {p \in owned \cap Ends(pair) : r[p] <= 1}
  <2>1. \A n \in Nat : n + -1 <= 0 <=> n <= 1
    OBVIOUS
  <2>2. [r EXCEPT ![k] = @ + -1][k] = r[k] + -1 /\ r[k] \in Nat
    BY <1>2
  <2>3. [s EXCEPT ![v] = @ + -1][v] = r[v] + -1 /\ r[v] \in Nat
    <3>1. s[v] = r[v] /\ v \in DOMAIN s
      BY <1>2, <1>13, <1>14
    <3> QED
      BY <1>2, <3>1
  <2>4. g = IF k \in owned /\ r[k] <= 1 THEN {k} ELSE {}
    BY <1>6, <2>1, <2>2
  <2>5. h = IF v \in owned /\ r[v] <= 1 THEN {v} ELSE {}
    BY <1>7, <2>1, <2>3
  <2> QED
    BY <1>1, <2>4, <2>5 DEF Ends
<1> QED
  BY <1>11, <1>12, <1>15, <1>16

-----------------------------------------------------------------------------
(* References: cont[m] are the pairs that map m has                        *)

Cont(tables) == [m \in Map |-> IF tables[m] = None THEN {} ELSE Contents(tables[m])]

ContOK(cont) == cont \in [Map -> SUBSET Pairs] /\ \A m \in Map : IsFiniteSet(cont[m])

Held(cont, p) == {h \in Map \X Pairs : h[2] \in cont[h[1]] /\ p \in Ends(h[2])}

With(cont, m, pair)    == [cont EXCEPT ![m] = @ \cup {pair}]
Without(cont, m, pair) == [cont EXCEPT ![m] = @ \ {pair}]

(* every pointer is retained once for each place where it is               *)
Counts(r, cont) ==
    /\ r \in [Pointer -> Nat]
    /\ \A p \in owned : r[p] = Cardinality(Held(cont, p))
    /\ \A p \in Pointer \ owned : r[p] = 0

(* After these callbacks, starting from refs, the counts are those of the  *)
(* given contents, and what has been given up is in no map.                *)
Settled(calls, cont) ==
    \E s, gone : /\ Ran(refs, calls, s, gone)
                 /\ Counts(s, cont)
                 /\ \A p \in gone : Held(cont, p) = {}

OwnedOK == owned \in Ownerships

LEMMA OwnedPointers == OwnedOK => owned \subseteq Pointer
BY PointerMapAssumption DEF OwnedOK, Pointer

LEMMA HeldFinite ==
    ASSUME NEW cont, ContOK(cont), NEW p
    PROVE  IsFiniteSet(Held(cont, p)) /\ Cardinality(Held(cont, p)) \in Nat
<1>1. IsFiniteSet({cont[m] : m \in Map})
  <2> DEFINE f == [m \in Map |-> cont[m]]
  <2>1. IsFiniteSet(Map)
    BY PointerMapAssumption
  <2>2. f \in Surjection(Map, {cont[m] : m \in Map})
    BY DEF Surjection
  <2> QED
    BY <2>1, <2>2, FS_Surjection
<1>2. \A S \in {cont[m] : m \in Map} : IsFiniteSet(S)
  BY DEF ContOK
<1>3. IsFiniteSet(UNION {cont[m] : m \in Map})
  BY <1>1, <1>2, FS_UNION
<1>4. IsFiniteSet(Map \X UNION {cont[m] : m \in Map})
  BY <1>3, PointerMapAssumption, FS_Product
<1>5. Held(cont, p) \subseteq Map \X UNION {cont[m] : m \in Map}
  BY DEF Held
<1> QED
  BY <1>4, <1>5, FS_Subset, FS_CardinalityType

LEMMA HeldMore ==
    ASSUME NEW cont, ContOK(cont), NEW m \in Map, NEW pair \in Pairs, pair \notin cont[m],
           NEW more, more = With(cont, m, pair)
    PROVE  /\ ContOK(more)
           /\ \A p : /\ p \in Ends(pair) =>
                            Cardinality(Held(more, p)) = Cardinality(Held(cont, p)) + 1
                     /\ p \notin Ends(pair) => Held(more, p) = Held(cont, p)
<1>1. more = [n \in Map |-> IF n = m THEN cont[m] \cup {pair} ELSE cont[n]]
  BY DEF ContOK, With
<1>2. ContOK(more)
  <2>1. IsFiniteSet(cont[m] \cup {pair})
    BY FS_AddElement DEF ContOK
  <2>2. \A n \in Map : more[n] \in SUBSET Pairs /\ IsFiniteSet(more[n])
    BY <1>1, <2>1 DEF ContOK
  <2> QED
    BY <1>1, <2>2 DEF ContOK
<1>3. ASSUME NEW p, p \in Ends(pair)
      PROVE  Cardinality(Held(more, p)) = Cardinality(Held(cont, p)) + 1
  <2>1. Held(more, p) = Held(cont, p) \cup {<<m, pair>>}
    BY <1>1, <1>3 DEF Held
  <2>2. <<m, pair>> \notin Held(cont, p)
    BY DEF Held
  <2> QED
    BY <2>1, <2>2, HeldFinite, FS_AddElement
<1>4. ASSUME NEW p, p \notin Ends(pair) PROVE Held(more, p) = Held(cont, p)
  BY <1>1, <1>4 DEF Held
<1> QED
  BY <1>2, <1>3, <1>4

LEMMA HeldLess ==
    ASSUME NEW cont, ContOK(cont), NEW m \in Map, NEW pair \in cont[m],
           NEW less, less = Without(cont, m, pair)
    PROVE  /\ ContOK(less)
           /\ \A p : /\ p \in Ends(pair) =>
                            /\ Cardinality(Held(cont, p)) = Cardinality(Held(less, p)) + 1
                            /\ Cardinality(Held(less, p)) = 0 => Held(less, p) = {}
                     /\ p \notin Ends(pair) => Held(less, p) = Held(cont, p)
                     /\ Held(less, p) \subseteq Held(cont, p)
<1>1. less = [n \in Map |-> IF n = m THEN cont[m] \ {pair} ELSE cont[n]]
  BY DEF ContOK, Without
<1>2. ContOK(less) /\ pair \in Pairs
  <2>1. IsFiniteSet(cont[m] \ {pair})
    BY FS_RemoveElement DEF ContOK
  <2>2. \A n \in Map : less[n] \in SUBSET Pairs /\ IsFiniteSet(less[n])
    BY <1>1, <2>1 DEF ContOK
  <2> QED
    BY <1>1, <2>2 DEF ContOK
<1>3. pair \notin less[m] /\ cont = With(less, m, pair)
  <2>1. cont = [n \in Map |-> cont[n]]
    BY DEF ContOK
  <2>2. (cont[m] \ {pair}) \cup {pair} = cont[m]
    OBVIOUS
  <2> QED
    BY <1>1, <2>1, <2>2 DEF With
<1>4. \A p : /\ p \in Ends(pair) =>
                    Cardinality(Held(cont, p)) = Cardinality(Held(less, p)) + 1
             /\ p \notin Ends(pair) => Held(cont, p) = Held(less, p)
  BY <1>2, <1>3, HeldMore
<1>5. \A p : Cardinality(Held(less, p)) = 0 => Held(less, p) = {}
  BY <1>2, HeldFinite, FS_EmptySet
<1>6. \A p : Held(less, p) \subseteq Held(cont, p)
  BY <1>1 DEF Held
<1> QED
  BY <1>2, <1>4, <1>5, <1>6

LEMMA SettledNothing ==
    ASSUME NEW cont, Counts(refs, cont)
    PROVE  Settled(<<>>, cont)
BY RanNothing DEF Settled

(* A pair is retained for a map that does not have it.  If there was a     *)
(* release before, then some map has had the pair all the time.            *)
LEMMA SettledRetain ==
    ASSUME OwnedOK, NEW cont, ContOK(cont), NEW calls \in Calls, Settled(calls, cont),
           NEW m \in Map, NEW pair \in Pairs, pair \notin cont[m],
           calls = <<>> \/ \E n \in Map : pair \in cont[n],
           NEW more, more = With(cont, m, pair)
    PROVE  ContOK(more) /\ calls \o Retain(pair) \in Calls /\ Settled(calls \o Retain(pair), more)
<1>1. PICK s, gone : /\ Ran(refs, calls, s, gone) /\ Counts(s, cont)
                     /\ \A p \in gone : Held(cont, p) = {}
  BY DEF Settled
<1>2. /\ s \in [Pointer -> Nat] /\ \A p \in owned : s[p] = Cardinality(Held(cont, p))
      /\ \A p \in Pointer \ owned : s[p] = 0
  BY <1>1 DEF Counts
<1>3. PICK u : u = [p \in Pointer |-> IF p \in owned /\ p \in Ends(pair) THEN s[p] + 1 ELSE s[p]]
  OBVIOUS
<1>4. Retain(pair) \in Calls /\ Ran(s, Retain(pair), u, {})
  BY <1>2, <1>3, PairCalls, RetainRan
<1>5. Ran(refs, calls \o Retain(pair), u, gone \cup {})
  BY <1>1, <1>4, RanConcat
<1>6. /\ ContOK(more)
      /\ \A p : /\ p \in Ends(pair) =>
                       Cardinality(Held(more, p)) = Cardinality(Held(cont, p)) + 1
                /\ p \notin Ends(pair) => Held(more, p) = Held(cont, p)
  BY HeldMore
<1>7. Counts(u, more)
  <2>1. u \in [Pointer -> Nat]
    BY <1>2, <1>3
  <2>2. \A p \in owned : p \in Pointer
    BY OwnedPointers
  <2>3. ASSUME NEW p \in owned PROVE u[p] = Cardinality(Held(more, p))
    BY <1>2, <1>3, <1>6, <2>2
  <2>4. \A p \in Pointer \ owned : u[p] = 0
    BY <1>2, <1>3
  <2> QED
    BY <2>1, <2>3, <2>4 DEF Counts
<1>8. ASSUME NEW p \in gone PROVE Held(more, p) = {}
  <2>1. CASE calls = <<>>
    BY <1>1, <2>1, RanNothingGone
  <2>2. CASE \E n \in Map : pair \in cont[n]
    <3>1. PICK n \in Map : pair \in cont[n]
      BY <2>2
    <3>2. p \in Ends(pair) => <<n, pair>> \in Held(cont, p)
      BY <3>1 DEF Held
    <3> QED
      BY <1>1, <1>6, <3>2
  <2> QED
    BY <2>1, <2>2
<1>9. calls \o Retain(pair) \in Calls
  BY <1>4 DEF Calls
<1> QED
  BY <1>5, <1>6, <1>7, <1>8, <1>9 DEF Settled

LEMMA SettledRelease ==
    ASSUME OwnedOK, NEW cont, ContOK(cont), NEW calls \in Calls, Settled(calls, cont),
           NEW m \in Map, NEW pair \in cont[m],
           NEW less, less = Without(cont, m, pair)
    PROVE  ContOK(less) /\ calls \o Release(pair) \in Calls /\ Settled(calls \o Release(pair), less)
<1>0. pair \in Pairs
  BY DEF ContOK
<1>1. PICK s, gone : /\ Ran(refs, calls, s, gone) /\ Counts(s, cont)
                     /\ \A p \in gone : Held(cont, p) = {}
  BY DEF Settled
<1>2. /\ s \in [Pointer -> Nat] /\ \A p \in owned : s[p] = Cardinality(Held(cont, p))
      /\ \A p \in Pointer \ owned : s[p] = 0
  BY <1>1 DEF Counts
<1>3. PICK u, h : /\ u = [p \in Pointer |-> IF p \in owned /\ p \in Ends(pair) THEN s[p] - 1 ELSE s[p]]
                  /\ h = {p \in owned \cap Ends(pair) : s[p] <= 1}
  OBVIOUS
<1>4. Release(pair) \in Calls /\ Ran(s, Release(pair), u, h)
  BY <1>0, <1>2, <1>3, PairCalls, ReleaseRan
<1>5. Ran(refs, calls \o Release(pair), u, gone \cup h)
  BY <1>1, <1>4, RanConcat
<1>6. /\ ContOK(less)
      /\ \A p : /\ p \in Ends(pair) =>
                       /\ Cardinality(Held(cont, p)) = Cardinality(Held(less, p)) + 1
                       /\ Cardinality(Held(less, p)) = 0 => Held(less, p) = {}
                /\ p \notin Ends(pair) => Held(less, p) = Held(cont, p)
                /\ Held(less, p) \subseteq Held(cont, p)
  BY HeldLess
<1>7. ASSUME NEW p \in owned
      PROVE  /\ p \in Pointer /\ u[p] \in Nat /\ u[p] = Cardinality(Held(less, p))
             /\ p \in Ends(pair) /\ s[p] <= 1 => Held(less, p) = {}
  <2>1. p \in Pointer /\ Cardinality(Held(less, p)) \in Nat
    BY <1>6, OwnedPointers, HeldFinite
  <2>2. PICK a \in Nat, b \in Nat : a = s[p] /\ b = Cardinality(Held(less, p))
    BY <1>2, <2>1
  <2>3. CASE p \in Ends(pair)
    <3>1. a = b + 1 /\ u[p] = a - 1
      BY <1>2, <1>3, <1>6, <2>1, <2>2, <2>3
    <3>2. a - 1 = b /\ (a <= 1 => b = 0)
      BY <3>1
    <3> QED
      BY <1>6, <2>1, <2>2, <2>3, <3>1, <3>2
  <2>4. CASE p \notin Ends(pair)
    BY <1>2, <1>3, <1>6, <2>1, <2>2, <2>4
  <2> QED
    BY <2>3, <2>4
<1>8. Counts(u, less)
  <2>1. \A p \in Pointer : u[p] \in Nat
    BY <1>2, <1>3, <1>7
  <2>2. u = [p \in Pointer |-> u[p]]
    BY <1>3
  <2>3. \A p \in Pointer \ owned : u[p] = 0
    BY <1>2, <1>3
  <2> QED
    BY <1>7, <2>1, <2>2, <2>3 DEF Counts
<1>9. \A p \in gone \cup h : Held(less, p) = {}
  BY <1>1, <1>3, <1>6, <1>7
<1>10. calls \o Release(pair) \in Calls
  BY <1>4 DEF Calls
<1> QED
  BY <1>5, <1>6, <1>8, <1>9, <1>10 DEF Settled

-----------------------------------------------------------------------------
(* What operations do to the references *)

Put(cont, m, pairs) == [cont EXCEPT ![m] = pairs]

LEMMA PutFacts ==
    ASSUME NEW cont, ContOK(cont), NEW m \in Map
    PROVE  /\ \A C : Put(cont, m, C)[m] = C /\ \A n \in Map : n # m => Put(cont, m, C)[n] = cont[n]
           /\ \A C, D : Put(Put(cont, m, C), m, D) = Put(cont, m, D)
           /\ Put(cont, m, cont[m]) = cont
BY DEF ContOK, Put, With, Without

LEMMA ConcatFacts ==
    /\ \A a, b, c \in Calls : a \o b \in Calls /\ (a \o b) \o c = a \o (b \o c)
    /\ \A a \in Calls : a \o <<>> = a /\ <<>> \o a = a
<1>1. ASSUME NEW a \in Calls, NEW b \in Calls PROVE a \o b \in Calls
  BY DEF Calls
<1>2. ASSUME NEW a \in Calls, NEW b \in Calls, NEW c \in Calls
      PROVE  (a \o b) \o c = a \o (b \o c)
  BY DEF Calls
<1>3. \A a \in Calls : a \o <<>> = a /\ <<>> \o a = a
  BY DEF Calls
<1> QED
  BY <1>1, <1>2, <1>3

Holding(cont, m, t) == ContOK(cont) /\ TableOK(t) /\ cont[m] = Contents(t)

(* write_pair_generic secures the new pair before it gives up the old one. *)
LEMMA SettledWrite ==
    ASSUME OwnedOK, NEW cont, NEW m \in Map, NEW t, Holding(cont, m, t),
           NEW calls \in Calls, Settled(calls, cont),
           NEW pair \in Pairs, NEW mode \in Mode,
           calls = <<>> \/ \E n \in Map : pair \in cont[n],
           NEW w, w = WritePair(t, pair, mode),
           NEW more, more = Put(cont, m, Contents(w.table))
    PROVE  /\ Holding(more, m, w.table) /\ calls \o w.calls \in Calls
           /\ Settled(calls \o w.calls, more)
<1>1. ContOK(cont) /\ TableOK(t) /\ cont[m] = Contents(t)
  BY DEF Holding
<1>2. PICK C : C = cont[m]
  OBVIOUS
<1>3. /\ TableOK(w.table)
      /\ Contents(w.table) = IF mode = "insert" /\ Has(t, pair.key) THEN C ELSE Wrote(C, pair)
      /\ w.calls = IF ~ Has(t, pair.key) THEN Retain(pair)
                   ELSE IF mode = "insert" \/ PairOf(t, pair.key) = pair THEN <<>>
                   ELSE Exchange(pair, PairOf(t, pair.key))
  BY <1>1, <1>2, WriteFacts
<1>4. cont = Put(cont, m, C) /\ more[m] = Contents(w.table)
  BY <1>1, <1>2, PutFacts
<1>5. pair.key \in Key
  BY DEF Pairs
<1>6. CASE ~ Has(t, pair.key)
  <2>1. \A p \in C : ~ IsEqual(p.key, pair.key)
    BY <1>1, <1>2, <1>5, <1>6, ContentsFacts
  <2>2. {p \in C : ~ IsEqual(p.key, pair.key)} = C
    BY <2>1
  <2>3. pair \notin C /\ Contents(w.table) = C \cup {pair}
    BY <1>3, <1>6, <2>1, <2>2 DEF Wrote, IsEqual
  <2>4. more = With(cont, m, pair)
    BY <1>1, <1>2, <2>3 DEF Put, With
  <2>5. ContOK(more) /\ calls \o Retain(pair) \in Calls /\ Settled(calls \o Retain(pair), more)
    BY <1>1, <1>2, <2>3, <2>4, SettledRetain
  <2> QED
    BY <1>3, <1>4, <1>6, <2>5 DEF Holding
<1>7. CASE Has(t, pair.key) /\ (mode = "insert" \/ PairOf(t, pair.key) = pair)
  <2>1. PICK old \in C : old = PairOf(t, pair.key) /\ IsEqual(old.key, pair.key)
    BY <1>1, <1>2, <1>5, <1>7, HasFacts
  <2>2. \A p \in C : IsEqual(p.key, pair.key) => p = old
    BY <1>1, <1>2, <1>5, <2>1, ContentsFacts
  <2>3. Contents(w.table) = C
    <3>1. old = pair => Wrote(C, pair) = C
      BY <2>1, <2>2 DEF Wrote
    <3> QED
      BY <1>3, <1>7, <2>1, <3>1
  <2>4. more = cont /\ w.calls = <<>>
    BY <1>3, <1>4, <1>7, <2>3
  <2> QED
    BY <1>1, <1>2, <1>3, <2>3, <2>4, ConcatFacts DEF Holding
<1>8. CASE Has(t, pair.key) /\ mode # "insert" /\ PairOf(t, pair.key) # pair
  <2>1. PICK old \in C : old = PairOf(t, pair.key) /\ IsEqual(old.key, pair.key)
    BY <1>1, <1>2, <1>5, <1>8, HasFacts
  <2>2. \A p \in C : IsEqual(p.key, pair.key) => p = old
    BY <1>1, <1>2, <1>5, <2>1, ContentsFacts
  <2>3. old # pair /\ pair \notin C /\ w.calls = Exchange(pair, old)
    BY <1>3, <1>8, <2>1, <2>2 DEF IsEqual
  <2>4. Contents(w.table) = (C \cup {pair}) \ {old}
    <3>1. Contents(w.table) = Wrote(C, pair)
      BY <1>3, <1>8
    <3> QED
      BY <2>1, <2>2, <2>3, <3>1 DEF Wrote
  <2>5. PICK mid : mid = With(cont, m, pair)
    OBVIOUS
  <2>6. mid = Put(cont, m, C \cup {pair}) /\ more = Without(mid, m, old) /\ old \in mid[m]
    <3>1. mid = Put(cont, m, C \cup {pair})
      BY <1>1, <1>2, <2>5 DEF ContOK, Put, With
    <3>2. Without(Put(cont, m, C \cup {pair}), m, old) = Put(cont, m, (C \cup {pair}) \ {old})
      BY <1>1 DEF ContOK, Put, Without
    <3>3. mid[m] = C \cup {pair}
      BY <1>1, <3>1, PutFacts
    <3> QED
      BY <2>1, <2>4, <3>1, <3>2, <3>3
  <2>7. PICK kept : kept = calls \o Retain(pair)
    OBVIOUS
  <2>8. ContOK(mid) /\ kept \in Calls /\ Settled(kept, mid)
    BY <1>1, <1>2, <2>3, <2>5, <2>7, SettledRetain
  <2>9. ContOK(more) /\ kept \o Release(old) \in Calls /\ Settled(kept \o Release(old), more)
    BY <2>6, <2>8, SettledRelease
  <2>10. kept \o Release(old) = calls \o w.calls
    <3>1. old \in Pairs
      BY <1>1, <1>2 DEF ContOK
    <3>2. PICK a \in Calls, b \in Calls : a = Retain(pair) /\ b = Release(old)
      BY <3>1, PairCalls
    <3>3. (calls \o a) \o b = calls \o (a \o b)
      BY ConcatFacts
    <3> QED
      BY <2>3, <2>7, <3>2, <3>3 DEF Exchange
  <2> QED
    BY <1>3, <1>4, <2>9, <2>10 DEF Holding
<1> QED
  BY <1>6, <1>7, <1>8

LEMMA SettledClear ==
    ASSUME OwnedOK, NEW cont, NEW m \in Map, NEW t, Holding(cont, m, t), Counts(refs, cont)
    PROVE  /\ ContOK(Put(cont, m, {})) /\ ReleaseAll(t) \in Calls
           /\ Settled(ReleaseAll(t), Put(cont, m, {}))
<1>1. ContOK(cont) /\ TableOK(t) /\ cont[m] = Contents(t)
  BY DEF Holding
<1> DEFINE left(n) == Put(cont, m, Contents(t) \ Front(t, n))
           Good(n, calls) == ContOK(left(n)) /\ Settled(calls, left(n))
           G == {g \in Nat \X Calls : Good(g[1], g[2])}
<1>2. \A n, calls : <<n, calls>> \in G <=> n \in Nat /\ calls \in Calls /\ Good(n, calls)
  OBVIOUS
<1>3. Good(0, <<>>) /\ <<>> \in Calls
  <2>1. Front(t, 0) = {}
    BY <1>1, FrontFacts
  <2>2. left(0) = cont
    <3>1. Contents(t) \ Front(t, 0) = cont[m]
      BY <1>1, <2>1
    <3> QED
      BY <1>1, <3>1, PutFacts
  <2> QED
    BY <1>1, <2>2, SettledNothing DEF Calls
<1>4. ASSUME NEW n \in Slot(t.size), NEW calls \in Calls, <<n, calls>> \in G
      PROVE  <<n + 1, ReleaseStep(calls, t.slots[n])>> \in G
  <2>1. n \in Nat /\ n + 1 \in Nat /\ Good(n, calls)
    BY <1>2, <1>4
  <2>2. PICK cell \in Pairs \cup {Hole} : cell = t.slots[n]
    BY <1>1, FrontFacts
  <2>3. CASE cell = Hole
    <3>1. ReleaseStep(calls, cell) = calls /\ Front(t, n + 1) = Front(t, n)
      BY <1>1, <2>2, <2>3, FrontFacts DEF ReleaseStep
    <3> QED
      BY <1>2, <2>1, <2>2, <3>1
  <2>4. CASE cell # Hole
    <3>1. /\ cell \in Contents(t) /\ Front(t, n + 1) = Front(t, n) \cup {cell}
          /\ \A p \in Front(t, n) : ~ IsEqual(p.key, cell.key)
      BY <1>1, <2>2, <2>4, FrontFacts
    <3>2. cell \notin Front(t, n)
      BY <3>1 DEF IsEqual
    <3>3. PICK before, after : before = left(n) /\ after = left(n + 1)
      OBVIOUS
    <3>4. before[m] = Contents(t) \ Front(t, n)
      BY <1>1, <3>3, PutFacts
    <3>5. cell \in before[m]
      BY <3>1, <3>2, <3>4
    <3>6. after = Without(before, m, cell)
      <4>1. Contents(t) \ (Front(t, n) \cup {cell}) = (Contents(t) \ Front(t, n)) \ {cell}
        OBVIOUS
      <4>2. Without(before, m, cell) = Put(cont, m, (Contents(t) \ Front(t, n)) \ {cell})
        BY <1>1, <3>3 DEF ContOK, Put, Without
      <4> QED
        BY <3>1, <3>3, <4>1, <4>2
    <3>7. ContOK(before) /\ Settled(calls, before)
      BY <2>1, <3>3
    <3>8. /\ ContOK(after) /\ calls \o Release(cell) \in Calls
          /\ Settled(calls \o Release(cell), after)
      BY <3>5, <3>6, <3>7, SettledRelease
    <3>9. ReleaseStep(calls, cell) = calls \o Release(cell)
      BY <2>4 DEF ReleaseStep
    <3>10. Good(n + 1, ReleaseStep(calls, cell))
      BY <3>3, <3>8, <3>9
    <3> QED
      BY <1>2, <2>1, <2>2, <3>8, <3>9, <3>10
  <2> QED
    BY <2>3, <2>4
<1>5. <<0, <<>>>> \in G
  BY <1>2, <1>3
<1> HIDE DEF G
<1>6. <<t.size, ReleaseAll(t)>> \in G /\ ReleaseAll(t) \in Calls
  BY <1>1, <1>4, <1>5, ReleaseInduction
<1>7. Good(t.size, ReleaseAll(t))
  BY <1>2, <1>6
<1>8. Contents(t) \ Front(t, t.size) = {}
  BY <1>1, FrontFacts
<1> QED
  BY <1>6, <1>7, <1>8

(* Everything that is copied is in the source all the time.                *)
LEMMA SettledCopy ==
    ASSUME OwnedOK, NEW cont, NEW m \in Map, NEW t, Holding(cont, m, t), Counts(refs, cont),
           NEW n \in Map, n # m, NEW src, Holding(cont, n, src),
           NEW c, c = CopiedItems(t, src)
    PROVE  /\ Holding(Put(cont, m, Contents(c.table)), m, c.table) /\ c.calls \in Calls
           /\ Settled(c.calls, Put(cont, m, Contents(c.table)))
<1>1. /\ ContOK(cont) /\ TableOK(t) /\ cont[m] = Contents(t)
      /\ TableOK(src) /\ cont[n] = Contents(src)
  BY DEF Holding
<1> DEFINE now(x) == Put(cont, m, Contents(x.table))
           Good(x) == Holding(now(x), m, x.table) /\ Settled(x.calls, now(x))
           G == {g \in Nat \X Copying : Good(g[2])}
           base == [table |-> t, calls |-> <<>>]
<1>2. \A i, x : <<i, x>> \in G <=> i \in Nat /\ x \in Copying /\ Good(x)
  OBVIOUS
<1>3. base \in Copying /\ Good(base)
  <2>1. t \in Tables /\ <<>> \in Calls
    BY <1>1, TablesFacts DEF Calls
  <2>2. now(base) = cont
    BY <1>1, PutFacts
  <2> QED
    BY <1>1, <2>1, <2>2, SettledNothing DEF Copying
<1>4. ASSUME NEW i \in Slot(src.size), NEW x \in Copying, <<i, x>> \in G
      PROVE  <<i + 1, CopyStep(x, src.slots[i])>> \in G
  <2>1. i + 1 \in Nat /\ Good(x)
    BY <1>2, <1>4
  <2>2. PICK cell \in Pairs \cup {Hole} : cell = src.slots[i]
    BY <1>1, FrontFacts
  <2>3. PICK y : y = CopyStep(x, cell) /\ y \in Copying
    BY CopyStepTyped
  <2>4. CASE cell = Hole
    BY <1>2, <2>1, <2>2, <2>3, <2>4 DEF CopyStep
  <2>5. CASE cell # Hole
    <3>1. cell \in Contents(src) /\ cell \in Pairs
      BY <1>1, <2>2, <2>5, FrontFacts
    <3>2. PICK u, w : u = x.table /\ w = WritePair(u, cell, "overwrite")
      OBVIOUS
    <3>3. y.table = w.table /\ y.calls = x.calls \o w.calls /\ x.calls \in Calls
      BY <2>3, <2>5, <3>2 DEF CopyStep, Copying
    <3>4. PICK before : before = now(x)
      OBVIOUS
    <3>5. before[n] = cont[n] /\ now(y) = Put(before, m, Contents(w.table))
      BY <1>1, <3>3, <3>4, PutFacts
    <3>6. Holding(before, m, u) /\ Settled(x.calls, before)
      BY <2>1, <3>2, <3>4
    <3>7. "overwrite" \in Mode /\ \E l \in Map : cell \in before[l]
      BY <1>1, <3>1, <3>5 DEF Mode
    <3>8. PICK after : after = Put(before, m, Contents(w.table))
      OBVIOUS
    <3>9. Holding(after, m, w.table) /\ Settled(x.calls \o w.calls, after)
      BY <3>1, <3>2, <3>3, <3>6, <3>7, <3>8, SettledWrite
    <3>10. Good(y)
      BY <3>3, <3>5, <3>8, <3>9
    <3> QED
      BY <1>2, <2>1, <2>2, <2>3, <3>10
  <2> QED
    BY <2>4, <2>5
<1>5. <<0, base>> \in G
  BY <1>2, <1>3
<1> HIDE DEF G
<1>6. <<src.size, CopiedItems(t, src)>> \in G /\ CopiedItems(t, src) \in Copying
  BY <1>1, <1>4, <1>5, CopyInduction
<1> QED
  BY <1>2, <1>6 DEF Copying

(* A pair is in one place: the places that hold a pointer are as many as   *)
(* the pairs that have it.                                                 *)
LEMMA HoldersHeld ==
    ASSUME NEW tables, \A m \in Map : tables[m] # None => Sized(tables[m]), NEW p
    PROVE  /\ Cardinality(Holders(tables, p)) = Cardinality(Held(Cont(tables), p))
           /\ Holders(tables, p) = {} <=> Held(Cont(tables), p) = {}
           /\ Cardinality(Holders(tables, p)) \in 0 .. Cardinality(Map) * MaxSize
<1> DEFINE H == Holders(tables, p)
           f == [h \in H |-> <<h[1], tables[h[1]].slots[h[2]]>>]
           Places == Map \X Slot(MaxSize)
<1>1. H \subseteq Places
  BY DEF Holders
<1>2. /\ IsFiniteSet(Places) /\ Cardinality(Places) = Cardinality(Map) * MaxSize
  <2>1. IsFiniteSet(Slot(MaxSize)) /\ Cardinality(Slot(MaxSize)) = MaxSize
    BY UsedFinite, PointerMapAssumption
  <2> QED
    BY <2>1, FS_Product, PointerMapAssumption
<1>3. IsFiniteSet(H) /\ Cardinality(H) <= Cardinality(Places) /\ Cardinality(H) \in Nat
  BY <1>1, <1>2, FS_Subset, FS_CardinalityType
<1>4. \A h : h \in H <=> /\ h \in Places /\ tables[h[1]] # None
                         /\ h[2] \in Occupied(tables[h[1]])
                         /\ p \in Ends(tables[h[1]].slots[h[2]])
  BY DEF Holders, Ends
<1>5. ASSUME NEW m \in Map, tables[m] # None, NEW t, t = tables[m]
      PROVE  /\ TableOK(t)
             /\ \A i \in Occupied(t) : i \in Slot(MaxSize) /\ t.slots[i] \in Contents(t)
                                       /\ t.slots[i] \in Pairs
             /\ \A i, j \in Occupied(t) : t.slots[i] = t.slots[j] => i = j
             /\ \A q \in Contents(t) : \E i \in Occupied(t) : q = t.slots[i]
  <2>1. TableOK(t) /\ t.size <= MaxSize
    BY <1>5 DEF Sized
  <2>2. Occupied(t) = Used(t.slots, t.size)
    BY OccupiedUsed
  <2>3. \A i \in Occupied(t) : i \in Slot(MaxSize)
    BY <2>1, TableFacts, PointerMapAssumption DEF Occupied, Slot
  <2>4. \A i, j \in Used(t.slots, t.size) : t.slots[i] = t.slots[j] => i = j
    BY <2>1 DEF TableOK, Chained, Distinct, IsEqual
  <2>5. Contents(t) = {t.slots[i] : i \in Used(t.slots, t.size)}
    BY DEF Contents, Stored
  <2>6. \A i \in Used(t.slots, t.size) : t.slots[i] \in Pairs
    BY <2>1, TableFacts
  <2> QED
    BY <2>1, <2>2, <2>3, <2>4, <2>5, <2>6
<1>6. ASSUME NEW h \in H
      PROVE  /\ h[1] \in Map /\ h = <<h[1], h[2]>> /\ tables[h[1]] # None
             /\ h[2] \in Occupied(tables[h[1]])
             /\ p \in Ends(tables[h[1]].slots[h[2]])
  BY <1>4
<1> HIDE DEF H
<1>7. \A h \in H : f[h] \in Held(Cont(tables), p)
  <2> TAKE h \in H
  <2>1. PICK m, t : m \in Map /\ m = h[1] /\ t = tables[m] /\ t # None
    BY <1>6
  <2>2. PICK q : q = t.slots[h[2]]
    OBVIOUS
  <2>3. q \in Contents(t) /\ q \in Pairs /\ p \in Ends(q)
    BY <1>5, <1>6, <2>1, <2>2
  <2>4. Cont(tables)[m] = Contents(t)
    BY <2>1 DEF Cont
  <2>5. f[h] = <<m, q>>
    BY <2>1, <2>2
  <2> HIDE DEF f
  <2> QED
    BY <2>1, <2>3, <2>4, <2>5 DEF Held
<1>8. ASSUME NEW h \in H, NEW g \in H, f[h] = f[g] PROVE h = g
  <2>1. h[1] = g[1] /\ tables[h[1]].slots[h[2]] = tables[g[1]].slots[g[2]]
    BY <1>8
  <2>2. PICK m, t : m \in Map /\ m = h[1] /\ t = tables[m] /\ t # None
    BY <1>6
  <2>3. h[2] \in Occupied(t) /\ g[2] \in Occupied(t) /\ t.slots[h[2]] = t.slots[g[2]]
    BY <1>6, <2>1, <2>2
  <2>4. h[2] = g[2]
    BY <1>5, <2>2, <2>3
  <2> QED
    BY <1>6, <2>1, <2>4
<1>9. ASSUME NEW e \in Held(Cont(tables), p) PROVE \E h \in H : f[h] = e
  <2>1. PICK m, q : m \in Map /\ e = <<m, q>> /\ q \in Cont(tables)[m] /\ p \in Ends(q)
    BY DEF Held
  <2>2. PICK t : t = tables[m]
    OBVIOUS
  <2>3. t # None /\ q \in Contents(t)
    BY <2>1, <2>2 DEF Cont
  <2>4. PICK i \in Occupied(t) : q = t.slots[i] /\ i \in Slot(MaxSize)
    BY <1>5, <2>1, <2>2, <2>3
  <2>5. PICK h : h = <<m, i>>
    OBVIOUS
  <2>6. h \in Places /\ h[1] = m /\ h[2] = i
    BY <2>1, <2>4, <2>5
  <2>7. h \in H
    BY <1>4, <2>1, <2>2, <2>3, <2>4, <2>6 DEF H
  <2> QED
    BY <2>1, <2>2, <2>4, <2>6, <2>7
<1>10. f \in Bijection(H, Held(Cont(tables), p))
  <2>1. f \in [H -> Held(Cont(tables), p)]
    BY <1>7
  <2> HIDE DEF f
  <2> QED
    BY <1>8, <1>9, <2>1 DEF Bijection, Injection, Surjection, IsInjective
<1>11. Cardinality(Held(Cont(tables), p)) = Cardinality(H)
  <2>1. ExistsBijection(H, Held(Cont(tables), p))
    BY <1>10 DEF ExistsBijection
  <2> QED
    BY <1>3, <2>1, FS_Bijection
<1>12. H = {} <=> Held(Cont(tables), p) = {}
  <2> HIDE DEF f
  <2> QED
    BY <1>7, <1>9
<1>13. Cardinality(H) \in 0 .. Cardinality(Map) * MaxSize
  <2>1. PICK a \in Nat, b \in Nat : a = Cardinality(Map) * MaxSize /\ b = Cardinality(H)
    <3>1. Cardinality(Map) \in Nat
      BY PointerMapAssumption, FS_CardinalityType
    <3>2. Cardinality(Map) * MaxSize \in Nat
      BY <1>2, FS_CardinalityType
    <3> QED
      BY <1>3, <3>2
  <2> QED
    BY <1>2, <1>3, <2>1
<1> QED
  BY <1>11, <1>12, <1>13 DEF H

OwnershipInv == OwnedOK /\ Counts(refs, Cont(maps)) /\ dangling = {}

LEMMA ContFacts ==
    ASSUME MapsOK
    PROVE  /\ ContOK(Cont(maps))
           /\ \A m \in Live : Holding(Cont(maps), m, maps[m])
           /\ \A m \in Map : maps[m] = None => Cont(maps)[m] = {}
<1>1. \A m \in Map : maps[m] # None => Sized(maps[m])
  BY DEF MapsOK, Live
<1>2. ASSUME NEW m \in Map PROVE Cont(maps)[m] \in SUBSET Pairs /\ IsFiniteSet(Cont(maps)[m])
  <2>1. CASE maps[m] = None
    BY <2>1, FS_EmptySet DEF Cont
  <2>2. CASE maps[m] # None
    <3>1. PICK t : t = maps[m] /\ TableOK(t)
      BY <1>1, <2>2 DEF Sized
    <3>2. Contents(t) \subseteq Pairs
      BY <3>1, ContentsFacts
    <3>3. IsFiniteSet(Used(t.slots, t.size))
      BY <3>1, TableFacts, UsedFinite
    <3>4. IsFiniteSet(Contents(t))
      <4> DEFINE g == [i \in Used(t.slots, t.size) |-> t.slots[i]]
      <4>1. g \in Surjection(Used(t.slots, t.size), Contents(t))
        BY DEF Surjection, Contents, Stored
      <4> QED
        BY <3>3, <4>1, FS_Surjection
    <3> QED
      BY <2>2, <3>1, <3>2, <3>4 DEF Cont
  <2> QED
    BY <2>1, <2>2
<1>3. ContOK(Cont(maps))
  <2>1. Cont(maps) = [m \in Map |-> Cont(maps)[m]]
    BY DEF Cont
  <2>2. PICK c : c = Cont(maps)
    OBVIOUS
  <2> QED
    BY <1>2, <2>1, <2>2 DEF ContOK
<1>4. \A m \in Live : Cont(maps)[m] = Contents(maps[m]) /\ TableOK(maps[m])
  BY <1>1 DEF Cont, Live, Sized
<1> QED
  BY <1>3, <1>4 DEF Holding, Cont

(* An operation on one map whose callbacks fit what it does to the map.    *)
LEMMA OwnershipStep ==
    ASSUME MapsOK, OwnershipInv, NEW m \in Map, NEW u, u = None \/ Sized(u),
           NEW calls \in Calls, NEW tables, tables = [maps EXCEPT ![m] = u],
           Settled(calls, Put(Cont(maps), m, IF u = None THEN {} ELSE Contents(u))),
           maps' = tables, RunCallbacks(calls, tables)
    PROVE  OwnershipInv'
<1>1. tables = [n \in Map |-> IF n = m THEN u ELSE maps[n]]
  BY DEF MapsOK
<1>2. \A n \in Map : tables[n] # None => Sized(tables[n])
  BY <1>1 DEF MapsOK, Live
<1>3. Cont(tables) = Put(Cont(maps), m, IF u = None THEN {} ELSE Contents(u))
  BY <1>1 DEF Cont, Put
<1>4. PICK s, gone : /\ Ran(refs, calls, s, gone) /\ Counts(s, Cont(tables))
                     /\ \A p \in gone : Held(Cont(tables), p) = {}
  BY <1>3 DEF Settled
<1>5. /\ refs' = s /\ owned' = owned
      /\ dangling' = {p \in dangling \cup gone : Holders(tables, p) # {}}
  BY <1>4, RanCallbacks
<1>6. dangling' = {}
  <2>1. \A p \in gone : Holders(tables, p) = {}
    BY <1>2, <1>4, HoldersHeld
  <2> QED
    BY <1>5, <2>1 DEF OwnershipInv
<1>7. Counts(refs, Cont(maps))'
  BY <1>4, <1>5 DEF Counts
<1> QED
  BY <1>5, <1>6, <1>7 DEF OwnershipInv, OwnedOK

LEMMA OwnershipWrite ==
    ASSUME MapsOK, OwnershipInv, NEW m \in Live, Bounded(m, 2), NEW pair \in Pairs,
           NEW mode \in Mode, NEW w, w = WritePair(maps[m], pair, mode),
           NEW result, Operate(m, w.table, w.calls, result)
    PROVE  OwnershipInv'
<1>1. m \in Map /\ Holding(Cont(maps), m, maps[m]) /\ Sized(w.table)
  BY ContFacts, SizedWrite DEF Live
<1>2. Settled(<<>>, Cont(maps)) /\ <<>> \in Calls
  BY SettledNothing DEF OwnershipInv, Calls
<1>3. w.calls \in Calls
  BY <1>1, WriteFacts DEF Holding
<1>4. PICK more : more = Put(Cont(maps), m, Contents(w.table))
  OBVIOUS
<1>5. Settled(<<>> \o w.calls, more)
  BY <1>1, <1>2, <1>4, SettledWrite DEF OwnershipInv
<1>6. <<>> \o w.calls = w.calls
  BY <1>3, ConcatFacts
<1>7. PICK tables : tables = [maps EXCEPT ![m] = w.table]
  OBVIOUS
<1>8. maps' = tables /\ RunCallbacks(w.calls, tables)
  BY <1>7 DEF Operate
<1>9. Settled(w.calls, Put(Cont(maps), m, IF w.table = None THEN {} ELSE Contents(w.table)))
  BY <1>1, <1>4, <1>5, <1>6, SizedNotNone
<1> QED
  BY <1>1, <1>3, <1>7, <1>8, <1>9, OwnershipStep

(* An operation that calls nothing and keeps the contents.                 *)
LEMMA OwnershipSame ==
    ASSUME MapsOK, OwnershipInv, NEW m \in Map, NEW u, Sized(u),
           Contents(u) = Cont(maps)[m], NEW result, Operate(m, u, <<>>, result)
    PROVE  OwnershipInv'
<1>1. Settled(<<>>, Cont(maps)) /\ <<>> \in Calls
  BY SettledNothing DEF OwnershipInv, Calls
<1>2. u # None
  BY SizedNotNone
<1>3. Put(Cont(maps), m, IF u = None THEN {} ELSE Contents(u)) = Cont(maps)
  BY <1>2, ContFacts, PutFacts
<1>4. PICK tables : tables = [maps EXCEPT ![m] = u]
  OBVIOUS
<1>5. maps' = tables /\ RunCallbacks(<<>>, tables)
  BY <1>4 DEF Operate
<1> QED
  BY <1>1, <1>3, <1>4, <1>5, OwnershipStep

LEMMA OwnershipKept ==
    ASSUME MapsOK, OwnershipInv, [Next]_vars
    PROVE  OwnershipInv'
<1>1. CASE UNCHANGED <<maps, refs, dangling, owned>>
  BY <1>1 DEF OwnershipInv, OwnedOK, Counts
<1>2. ASSUME NEW m \in Live
      PROVE  /\ m \in Map /\ TableOK(maps[m]) /\ Sized(maps[m])
             /\ Holding(Cont(maps), m, maps[m]) /\ Cont(maps)[m] = Contents(maps[m])
  BY ContFacts DEF MapsOK, Live, Holding, Sized
<1>3. Settled(<<>>, Cont(maps)) /\ <<>> \in Calls /\ Counts(refs, Cont(maps)) /\ OwnedOK
  BY SettledNothing DEF OwnershipInv, Calls
<1>4. ASSUME NEW m \in Map, NEW c \in Capacities, Create(m, c) PROVE OwnershipInv'
  <2>1. c \in Nat
    BY PointerMapAssumption
  <2>2. Contents(NewTable(c)) = {} /\ Sized(NewTable(c))
    BY <2>1, NewFacts, SizedNew
  <2>3. Cont(maps)[m] = {} /\ Operate(m, NewTable(c), <<>>, None)
    BY <1>4, ContFacts DEF Create
  <2> QED
    BY <2>2, <2>3, OwnershipSame
<1>5. ASSUME NEW m \in Map, Done(m) PROVE OwnershipInv'
  <2>1. PICK tables : tables = [maps EXCEPT ![m] = None]
    OBVIOUS
  <2>2. m \in Live /\ maps' = tables /\ RunCallbacks(ReleaseAll(maps[m]), tables)
    BY <1>5, <2>1 DEF Done
  <2>3. /\ ReleaseAll(maps[m]) \in Calls
        /\ Settled(ReleaseAll(maps[m]), Put(Cont(maps), m, {}))
    BY <1>2, <1>3, <2>2, SettledClear
  <2>4. PICK u : u = None
    OBVIOUS
  <2>5. (IF u = None THEN {} ELSE Contents(u)) = {}
    BY <2>4
  <2> QED
    BY <2>1, <2>2, <2>3, <2>4, <2>5, OwnershipStep
<1>6. ASSUME NEW m \in Map, NEW pair \in Pairs,
             Set(m, pair) \/ Insert(m, pair) \/ Register(m, pair) \/ Update(m, pair)
      PROVE  OwnershipInv'
  <2>1. "overwrite" \in Mode /\ "insert" \in Mode /\ "update" \in Mode
    BY DEF Mode
  <2>2. m \in Live /\ Bounded(m, 2)
    BY <1>6 DEF Set, Insert, Register, Update
  <2>3. PICK mode, w, result :
            /\ mode \in Mode /\ w = WritePair(maps[m], pair, mode)
            /\ Operate(m, w.table, w.calls, result)
    BY <1>6, <2>1 DEF Set, Insert, Register, Update
  <2> QED
    BY <2>2, <2>3, OwnershipWrite
<1>7. ASSUME NEW m \in Map, NEW k \in Key, Remove(m, k) PROVE OwnershipInv'
  <2>1. m \in Live /\ Bounded(m, 1)
    BY <1>7 DEF Remove
  <2>2. CASE ~ Has(maps[m], k)
    <3>1. Operate(m, maps[m], <<>>, 0)
      BY <1>7, <2>2 DEF Remove
    <3> QED
      BY <1>2, <2>1, <3>1, OwnershipSame
  <2>3. CASE Has(maps[m], k)
    <3>1. PICK u, pair : u = Removed(maps[m], k) /\ pair = PairOf(maps[m], k)
      OBVIOUS
    <3>2. Operate(m, u, Release(pair), 1)
      BY <1>7, <2>3, <3>1 DEF Remove
    <3>3. TableOK(u) /\ Contents(u) = Contents(maps[m]) \ {pair} /\ pair \in Contents(maps[m])
      BY <1>2, <2>1, <2>3, <3>1, RemovedFacts, HasFacts
    <3>4. Sized(u)
      <4>1. u.size <= maps[m].size /\ u.nMutations = maps[m].nMutations + 1
        <5>1. u.size = maps[m].size /\ u.nMutations = maps[m].nMutations + 1
          BY <1>2, <2>1, <2>3, <3>1, RemovedFacts
        <5>2. PICK n \in Nat : n = maps[m].size
          BY <1>2, <2>1, TableFacts
        <5> QED
          BY <5>1, <5>2
      <4> QED
        BY <2>1, <3>3, <4>1, SizedChange
    <3>5. PICK less : less = Without(Cont(maps), m, pair)
      OBVIOUS
    <3>6. less = Put(Cont(maps), m, Contents(u))
      BY <1>2, <2>1, <3>3, <3>5 DEF Without, Put
    <3>7. pair \in Pairs /\ Release(pair) \in Calls
      BY <1>2, <2>1, <2>3, <3>1, HasFacts, PairCalls
    <3>8. Settled(<<>> \o Release(pair), less)
      BY <1>2, <1>3, <2>1, <3>3, <3>5, SettledRelease DEF Holding
    <3>9. Settled(Release(pair), Put(Cont(maps), m, IF u = None THEN {} ELSE Contents(u)))
      <4>1. <<>> \o Release(pair) = Release(pair)
        BY <3>7, ConcatFacts
      <4> QED
        BY <3>4, <3>6, <3>8, <4>1, SizedNotNone
    <3>10. PICK tables : tables = [maps EXCEPT ![m] = u]
      OBVIOUS
    <3>11. maps' = tables /\ RunCallbacks(Release(pair), tables)
      BY <3>2, <3>10 DEF Operate
    <3> QED
      BY <1>2, <2>1, <3>4, <3>7, <3>9, <3>10, <3>11, OwnershipStep
  <2> QED
    BY <2>2, <2>3
<1>8. ASSUME NEW m \in Map, ShrinkMap(m) PROVE OwnershipInv'
  <2>1. m \in Live /\ Bounded(m, 1)
    BY <1>8 DEF ShrinkMap
  <2>2. PICK u : u = ShrinkIfNeeded(maps[m])
    OBVIOUS
  <2>3. /\ TableOK(u) /\ u.size <= maps[m].size /\ Contents(u) = Contents(maps[m])
        /\ u = maps[m] \/ u.nMutations = maps[m].nMutations + 1
    BY <1>2, <2>1, <2>2, ShrinkFacts
  <2>4. Sized(u)
    BY <1>2, <2>1, <2>3, SizedChange
  <2>5. Operate(m, u, <<>>, None)
    BY <1>8, <2>2 DEF ShrinkMap
  <2> QED
    BY <1>2, <2>1, <2>3, <2>4, <2>5, OwnershipSame
<1>9. ASSUME NEW m \in Map, Reset(m) PROVE OwnershipInv'
  <2>1. m \in Live /\ Bounded(m, 1)
    BY <1>9 DEF Reset
  <2>2. CASE maps[m].count = 0
    <3>1. Operate(m, maps[m], <<>>, None)
      BY <1>9, <2>2 DEF Reset
    <3> QED
      BY <1>2, <2>1, <3>1, OwnershipSame
  <2>3. CASE maps[m].count # 0
    <3>1. PICK u : u = [NewTable(0) EXCEPT !.nMutations = maps[m].nMutations + 1]
      OBVIOUS
    <3>2. Sized(u) /\ Contents(u) = {} /\ u # None
      BY <2>1, <3>1, SizedClear, SizedNotNone
    <3>3. PICK tables : tables = [maps EXCEPT ![m] = u]
      OBVIOUS
    <3>4. maps' = tables /\ RunCallbacks(ReleaseAll(maps[m]), tables)
      BY <1>9, <2>3, <3>1, <3>3 DEF Reset, Operate
    <3>5. /\ ReleaseAll(maps[m]) \in Calls
          /\ Settled(ReleaseAll(maps[m]),
                     Put(Cont(maps), m, IF u = None THEN {} ELSE Contents(u)))
      BY <1>2, <1>3, <2>1, <3>2, SettledClear
    <3> QED
      BY <1>2, <2>1, <3>2, <3>3, <3>4, <3>5, OwnershipStep
  <2> QED
    BY <2>2, <2>3
<1>10. ASSUME NEW m \in Map, ResetPointermap(m) PROVE OwnershipInv'
  <2>1. m \in Live /\ Bounded(m, 1) /\ owned = {}
    BY <1>10 DEF ResetPointermap
  <2>2. PICK t, u : t = maps[m] /\ u = Mutated([t EXCEPT !.count = 0, !.slots = EmptySlots(t.size)])
    OBVIOUS
  <2>3. TableOK(u) /\ u.size = t.size /\ u.nMutations = t.nMutations + 1
    BY <1>2, <2>1, <2>2, ClearedFacts
  <2>4. Sized(u) /\ u # None
    <3>1. t.size <= t.size
      BY <1>2, <2>1, <2>2, TableFacts
    <3> QED
      BY <2>1, <2>2, <2>3, <3>1, SizedChange, SizedNotNone
  <2>5. PICK tables : tables = [maps EXCEPT ![m] = u]
    OBVIOUS
  <2>6. maps' = tables /\ RunCallbacks(<<>>, tables)
    BY <1>10, <2>2, <2>5 DEF ResetPointermap, Operate
  <2>7. PICK cont : cont = Put(Cont(maps), m, IF u = None THEN {} ELSE Contents(u))
    OBVIOUS
  <2>8. Counts(refs, cont)
    BY <1>3, <2>1 DEF Counts
  <2>9. Settled(<<>>, cont)
    BY <2>8, SettledNothing
  <2> QED
    BY <1>2, <1>3, <2>1, <2>4, <2>5, <2>6, <2>7, <2>9, OwnershipStep
<1>11. ASSUME NEW dst \in Map, NEW src \in Live, dst # src, NEW t, Holding(Cont(maps), dst, t),
              NEW c, c = CopiedItems(t, maps[src]),
              c.table.size <= MaxSize, c.table.nMutations <= MaxMutations,
              Operate(dst, c.table, c.calls, None)
       PROVE  OwnershipInv'
  <2>1. src \in Map /\ Holding(Cont(maps), src, maps[src])
    BY <1>2
  <2>2. PICK after : after = Put(Cont(maps), dst, Contents(c.table))
    OBVIOUS
  <2>3. Holding(after, dst, c.table) /\ c.calls \in Calls /\ Settled(c.calls, after)
    BY <1>3, <1>11, <2>1, <2>2, SettledCopy
  <2>4. Sized(c.table) /\ c.table # None
    BY <1>11, <2>3, SizedNotNone DEF Holding, Sized
  <2>5. PICK tables : tables = [maps EXCEPT ![dst] = c.table]
    OBVIOUS
  <2>6. maps' = tables /\ RunCallbacks(c.calls, tables)
    BY <1>11, <2>5 DEF Operate
  <2>7. Settled(c.calls, Put(Cont(maps), dst, IF c.table = None THEN {} ELSE Contents(c.table)))
    BY <2>2, <2>3, <2>4
  <2> QED
    BY <1>11, <2>3, <2>4, <2>5, <2>6, <2>7, OwnershipStep
<1>12. ASSUME NEW dst \in Map, NEW src \in Map, CopyItems(dst, src) PROVE OwnershipInv'
  <2>1. dst \in Live /\ src \in Live /\ dst # src
    BY <1>12 DEF CopyItems
  <2>2. PICK c : c = CopiedItems(maps[dst], maps[src])
    OBVIOUS
  <2>3. /\ c.table.size <= MaxSize /\ c.table.nMutations <= MaxMutations
        /\ Operate(dst, c.table, c.calls, None)
    BY <1>12, <2>2 DEF CopyItems
  <2>4. Holding(Cont(maps), dst, maps[dst])
    BY <1>2, <2>1
  <2> QED
    BY <1>11, <2>1, <2>2, <2>3, <2>4
<1>13. ASSUME NEW dst \in Map, NEW src \in Map, Copy(dst, src) PROVE OwnershipInv'
  <2>1. maps[dst] = None /\ src \in Live /\ dst # src
    BY <1>13 DEF Copy, Live
  <2>2. PICK t, c : t = NewTable(maps[src].count) /\ c = CopiedItems(t, maps[src])
    OBVIOUS
  <2>3. /\ c.table.size <= MaxSize /\ c.table.nMutations <= MaxMutations
        /\ Operate(dst, c.table, c.calls, None)
    BY <1>13, <2>2 DEF Copy
  <2>4. maps[src].count \in Nat
    BY <1>2, <2>1, TableFacts
  <2>5. Holding(Cont(maps), dst, t)
    BY <2>1, <2>2, <2>4, NewFacts, ContFacts DEF Holding
  <2> QED
    BY <1>11, <2>1, <2>2, <2>3, <2>5
<1>14. CASE Next
  <2>1. Enumerates => UNCHANGED <<maps, refs, dangling, owned>>
    BY DEF Enumerates, Enumerate, EnumerateNext, EnumerateDone
  <2> QED
    BY <1>1, <1>4, <1>5, <1>6, <1>7, <1>8, <1>9, <1>10, <1>12, <1>13, <1>14, <2>1
       DEF Next, Enumerates
<1> QED
  BY <1>1, <1>14 DEF vars

(* A count of references is the number of pairs of all maps that hold the  *)
(* pointer, and no operation leaves a map with a pointer it released last. *)
THEOREM AlwaysOwnership == Spec => []OwnershipInv
<1>1. Init => OwnershipInv
  <2> SUFFICES ASSUME Init PROVE OwnershipInv
    OBVIOUS
  <2>1. \A p : Held(Cont(maps), p) = {}
    BY DEF Init, Held, Cont
  <2>2. refs \in [Pointer -> Nat] /\ (\A p \in Pointer : refs[p] = 0) /\ owned \in Ownerships
    BY DEF Init
  <2>3. OwnedOK
    BY <2>2 DEF OwnedOK
  <2>4. Counts(refs, Cont(maps))
    BY <2>1, <2>2, <2>3, OwnedPointers, FS_EmptySet DEF Counts
  <2> QED
    BY <2>3, <2>4 DEF Init, OwnershipInv
<1> QED
  BY <1>1, OwnershipKept, AlwaysTables, PTL DEF Spec

LEMMA MapsHolders ==
    ASSUME MapsOK, NEW p
    PROVE  /\ Cardinality(Holders(maps, p)) = Cardinality(Held(Cont(maps), p))
           /\ Cardinality(Holders(maps, p)) \in 0 .. Cardinality(Map) * MaxSize
BY HoldersHeld DEF MapsOK, Live

(* A pointer has been retained exactly once for each place that holds it,  *)
(* through writes, removals, resets, copies and takedowns.                 *)
THEOREM AlwaysOwnershipExact == Spec => []OwnershipExact
<1>1. MapsOK /\ OwnershipInv => OwnershipExact
  BY MapsHolders DEF OwnershipInv, OwnershipExact, Counts
<1> QED
  BY <1>1, AlwaysTables, AlwaysOwnership, PTL

(* No operation leaves a map with a pointer whose last reference it has    *)
(* released: write_pair_generic retains before it releases.                *)
THEOREM AlwaysNoDangling == Spec => []NoDangling
<1>1. OwnershipInv => NoDangling
  BY DEF OwnershipInv, NoDangling
<1> QED
  BY <1>1, AlwaysOwnership, PTL

-----------------------------------------------------------------------------
(* The type invariant *)

Result   == Value \cup {0, 1, Null, None}
ResultOK == ret \in Result

LEMMA GetTyped ==
    ASSUME NEW t, TableOK(t), NEW k \in Key
    PROVE  Get(t, k) \in Value \cup {Null}
<1> DEFINE equal == {i \in Occupied(t) : IsEqual(t.slots[i].key, k)}
<1>1. Get(t, k) = IF equal = {} THEN Null ELSE t.slots[CHOOSE i \in equal : TRUE].value
  BY LookupFacts
<1>2. \A i \in equal : t.slots[i].value \in Value
  BY OccupiedUsed, TableFacts
<1>3. equal # {} => (CHOOSE i \in equal : TRUE) \in equal
  OBVIOUS
<1> HIDE DEF equal
<1> QED
  BY <1>1, <1>2, <1>3

LEMMA ResultKept ==
    ASSUME MapsOK, ResultOK, [Next]_vars
    PROVE  ResultOK'
<1>0. \A v : v \in Value \/ v \in {0, 1, Null, None} => v \in Result
  BY DEF Result
<1>1. ASSUME NEW m \in Map, NEW pair \in Pairs, Register(m, pair) PROVE ret' \in Result
  <2>1. PICK w : w = WritePair(maps[m], pair, "insert")
    OBVIOUS
  <2>2. /\ m \in Live /\ pair.key \in Key /\ pair.value \in Value
        /\ ret' = IF w.table.count # maps[m].count THEN pair.value ELSE Get(w.table, pair.key)
    BY <1>1, <2>1 DEF Register, Operate, Pairs
  <2>3. TableOK(w.table)
    BY <2>1, <2>2, SizedFacts, WriteFacts DEF Mode
  <2> QED
    BY <1>0, <2>2, <2>3, GetTyped
<1>2. ASSUME NEW m \in Map, NEW pair \in Pairs, Update(m, pair) PROVE ret' \in Result
  <2>1. PICK t, w : t = maps[m] /\ w = WritePair(t, pair, "update")
    OBVIOUS
  <2>2. m \in Live /\ pair.key \in Key /\ ret' = w.old
    BY <1>2, <2>1 DEF Update, Operate, Pairs
  <2>3. TableOK(t)
    BY <2>1, <2>2, SizedFacts
  <2>4. w.old = Null \/ (Has(t, pair.key) /\ w.old = PairOf(t, pair.key).value)
    <3>1. "update" \in Mode /\ "update" # "insert"
      BY DEF Mode
    <3> QED
      BY <2>1, <2>3, <3>1, WriteFacts
  <2>5. Has(t, pair.key) => PairOf(t, pair.key) \in Pairs
    BY <2>2, <2>3, HasFacts
  <2> QED
    BY <1>0, <2>2, <2>4, <2>5 DEF Pairs
<1>3. ASSUME NEW m \in Map, NEW pair \in Pairs, Set(m, pair) \/ Insert(m, pair)
      PROVE  ret' \in Result
  BY <1>0, <1>3 DEF Set, Insert, Operate
<1>4. ASSUME NEW m \in Map, NEW k \in Key, Remove(m, k) PROVE ret' \in Result
  BY <1>0, <1>4 DEF Remove, Operate
<1>5. ASSUME NEW m \in Map, Done(m) \/ ShrinkMap(m) \/ Reset(m) \/ ResetPointermap(m)
      PROVE  ret' \in Result
  BY <1>0, <1>5 DEF Done, ShrinkMap, Reset, ResetPointermap, Operate
<1>6. ASSUME NEW m \in Map, NEW c \in Capacities, Create(m, c) PROVE ret' \in Result
  BY <1>0, <1>6 DEF Create, Operate
<1>7. ASSUME NEW dst \in Map, NEW src \in Map, CopyItems(dst, src) \/ Copy(dst, src)
      PROVE  ret' \in Result
  BY <1>0, <1>7 DEF CopyItems, Copy, Operate
<1>8. ASSUME Enumerates \/ UNCHANGED vars PROVE ret' \in Result
  BY <1>8 DEF ResultOK, Enumerates, Enumerate, EnumerateNext, EnumerateDone, vars
<1> QED
  BY <1>1, <1>2, <1>3, <1>4, <1>5, <1>6, <1>7, <1>8 DEF Next, Enumerates, ResultOK

LEMMA TablesTyped ==
    ASSUME NEW t, Sized(t)
    PROVE  /\ t.size = 0 \/ \E e \in 2 .. MaxSize : t.size = Power[e]
           /\ t.size <= MaxSize
           /\ t.slots \in [Slot(t.size) -> Pairs \cup {Hole}]
           /\ t.count \in 0 .. t.size
           /\ t.nMutations \in 0 .. MaxMutations
<1>1. PICK size \in Nat, count \in Nat, n \in Nat :
          size = t.size /\ count = t.count /\ n = t.nMutations
  BY TableFacts DEF Sized
<1>2. TableOK(t) /\ size <= MaxSize /\ n <= MaxMutations /\ count <= size
  BY <1>1, TableFacts DEF Sized
<1>3. t.slots \in [Slot(t.size) -> Pairs \cup {Hole}]
  BY <1>2, TableFacts DEF Cells
<1>4. ASSUME size # 0 PROVE \E e \in 2 .. MaxSize : size = Power[e]
  <2>1. PICK e \in Nat : e >= 2 /\ size = Power[e]
    BY <1>1, <1>2, <1>4 DEF TableOK, SizeOK
  <2>2. e < size
    BY <2>1, PowerFacts
  <2>3. e <= MaxSize
    BY <1>2, <2>2, PointerMapAssumption
  <2> QED
    BY <2>1, <2>3, PointerMapAssumption
<1>5. count \in 0 .. size /\ n \in 0 .. MaxMutations
  BY <1>2, PointerMapAssumption
<1> QED
  BY <1>1, <1>2, <1>3, <1>4, <1>5

(* Sizes are 0 or powers of two within the storage, counts fit, reference  *)
(* counts are bounded by the places there are, results are results.        *)
THEOREM AlwaysTypeOK == Spec => []TypeOK
<1>1. Init => ResultOK
  BY DEF Init, Result, ResultOK
<1>2. Spec => []ResultOK
  BY <1>1, ResultKept, AlwaysTables, PTL DEF Spec
<1>3. ASSUME MapsOK, OwnershipInv, RoverOK, ResultOK PROVE TypeOK
  <2>1. refs \in [Pointer -> 0 .. Cardinality(Map) * MaxSize]
    <3>1. Cardinality(Map) * MaxSize \in Nat
      <4>1. PICK a \in Nat, b \in Nat : a = Cardinality(Map) /\ b = MaxSize
        BY PointerMapAssumption, FS_CardinalityType
      <4>2. a * b \in Nat
        OBVIOUS
      <4> QED
        BY <4>1, <4>2
    <3>2. 0 \in 0 .. Cardinality(Map) * MaxSize
      BY <3>1
    <3>3. \A p \in Pointer : refs[p] \in 0 .. Cardinality(Map) * MaxSize
      BY <1>3, <3>2, MapsHolders DEF OwnershipInv, Counts
    <3> QED
      BY <1>3, <3>3 DEF OwnershipInv, Counts
  <2>2. \A m \in Live : Sized(maps[m])
    BY <1>3 DEF MapsOK
  <2>3. dangling \subseteq owned /\ owned \in Ownerships
    BY <1>3 DEF OwnershipInv, OwnedOK
  <2>4. rover # None => rover.map \in Live
    BY <1>3 DEF RoverOK
  <2> QED
    BY <1>3, <2>1, <2>2, <2>3, <2>4, TablesTyped DEF TypeOK, Result, ResultOK
<1> QED
  BY <1>2, <1>3, AlwaysTables, AlwaysOwnership, AlwaysRover, PTL

-----------------------------------------------------------------------------
(* The dictionary that a set of pairs is *)

At(pairs, c) == {p \in pairs : Class[p.key] = c}

DictOf(pairs) ==
    [c \in Classes |-> IF At(pairs, c) = {} THEN Missing
                       ELSE (CHOOSE p \in At(pairs, c) : TRUE).value]

(* no two pairs have equal keys                                            *)
Single(pairs) ==
    pairs \subseteq Pairs /\ \A p, q \in pairs : IsEqual(p.key, q.key) => p = q

LEMMA DictOfFacts ==
    ASSUME NEW pairs, Single(pairs)
    PROVE  /\ DictOf(pairs) \in [Classes -> Value \cup {Missing}] /\ DictOf(pairs) # None
           /\ \A p \in pairs : /\ Class[p.key] \in Classes /\ p.value \in Value
                               /\ DictOf(pairs)[Class[p.key]] = p.value
           /\ \A c \in Classes : /\ At(pairs, c) = {} => DictOf(pairs)[c] = Missing
                                 /\ DictOf(pairs)[c] = Missing => At(pairs, c) = {}
<1>1. \A p \in pairs : p.key \in Key /\ p.value \in Value /\ Class[p.key] \in Classes
  BY DEF Single, Pairs, Classes
<1>2. ASSUME NEW p \in pairs PROVE DictOf(pairs)[Class[p.key]] = p.value
  <2>1. PICK c \in Classes : c = Class[p.key]
    BY <1>1
  <2>2. At(pairs, c) = {p}
    BY <2>1 DEF Single, At, IsEqual
  <2>3. DictOf(pairs)[c] = (CHOOSE q \in {p} : TRUE).value
    BY <2>2 DEF DictOf
  <2>4. (CHOOSE q \in {p} : TRUE) = p
    OBVIOUS
  <2> QED
    BY <2>1, <2>3, <2>4
<1>3. ASSUME NEW c \in Classes
      PROVE  /\ At(pairs, c) = {} => DictOf(pairs)[c] = Missing
             /\ At(pairs, c) # {} => DictOf(pairs)[c] \in Value
  <2>1. At(pairs, c) = {} => DictOf(pairs)[c] = Missing
    BY DEF DictOf
  <2>2. ASSUME At(pairs, c) # {} PROVE DictOf(pairs)[c] \in Value
    <3>1. PICK p \in pairs : Class[p.key] = c
      BY <2>2 DEF At
    <3> QED
      BY <1>1, <1>2, <3>1
  <2> QED
    BY <2>1, <2>2
<1>4. DictOf(pairs) \in [Classes -> Value \cup {Missing}]
  <2>1. DictOf(pairs) = [c \in Classes |-> DictOf(pairs)[c]]
    BY DEF DictOf
  <2> QED
    BY <1>3, <2>1
<1>5. DictOf(pairs) # None /\ Missing \notin Value
  BY <1>4, PointerMapAssumption DEF Classes
<1> QED
  BY <1>1, <1>2, <1>3, <1>4, <1>5

LEMMA DictContents ==
    ASSUME NEW t, TableOK(t)
    PROVE  Dict(t) = DictOf(Contents(t)) /\ Single(Contents(t))
<1>1. Single(Contents(t))
  BY ContentsFacts DEF Single
<1>2. Contents(t) = {t.slots[i] : i \in Occupied(t)}
  BY OccupiedUsed DEF Contents, Stored
<1>3. ASSUME NEW c \in Classes,
             NEW held, held = {i \in Occupied(t) : Class[t.slots[i].key] = c}
      PROVE  (IF held = {} THEN Missing ELSE t.slots[CHOOSE i \in held : TRUE].value)
                 = DictOf(Contents(t))[c]
  <2>1. CASE held = {}
    <3>1. At(Contents(t), c) = {}
      BY <1>2, <1>3, <2>1 DEF At
    <3> QED
      BY <1>1, <2>1, <3>1, DictOfFacts
  <2>2. CASE held # {}
    <3>1. PICK i \in held : i = CHOOSE j \in held : TRUE
      BY <2>2
    <3>2. t.slots[i] \in Contents(t) /\ Class[t.slots[i].key] = c
      BY <1>2, <1>3
    <3> QED
      BY <1>1, <2>2, <3>1, <3>2, DictOfFacts
  <2> QED
    BY <2>1, <2>2
<1>4. Dict(t) = [c \in Classes |-> DictOf(Contents(t))[c]]
  BY <1>3 DEF Dict
<1>5. DictOf(Contents(t)) = [c \in Classes |-> DictOf(Contents(t))[c]]
  BY DEF DictOf
<1> QED
  BY <1>1, <1>4, <1>5

(* Dictionaries that agree on what every class has are the same.           *)
LEMMA DictSame ==
    ASSUME NEW pairs, Single(pairs), NEW d, d = [c \in Classes |-> d[c]],
           \A p \in pairs : d[Class[p.key]] = p.value,
           \A c \in Classes : At(pairs, c) = {} => d[c] = Missing
    PROVE  d = DictOf(pairs)
<1>1. \A c \in Classes : d[c] = DictOf(pairs)[c]
  <2> TAKE c \in Classes
  <2>1. CASE At(pairs, c) = {}
    BY <2>1, DictOfFacts
  <2>2. CASE At(pairs, c) # {}
    <3>1. PICK p \in pairs : Class[p.key] = c
      BY <2>2 DEF At
    <3> QED
      BY <3>1, DictOfFacts
  <2> QED
    BY <2>1, <2>2
<1>2. DictOf(pairs) = [c \in Classes |-> DictOf(pairs)[c]]
  BY DEF DictOf
<1> QED
  BY <1>1, <1>2

LEMMA DictWrote ==
    ASSUME NEW pairs, Single(pairs), NEW pair \in Pairs
    PROVE  /\ Single(Wrote(pairs, pair))
           /\ DictOf(Wrote(pairs, pair)) = [DictOf(pairs) EXCEPT ![Class[pair.key]] = pair.value]
<1>1. PICK new : new = Wrote(pairs, pair)
  OBVIOUS
<1>2. Single(new)
  BY <1>1 DEF Single, Wrote, IsEqual
<1>3. PICK b \in Classes : b = Class[pair.key]
  BY DEF Classes, Pairs
<1>4. PICK d : d = [DictOf(pairs) EXCEPT ![b] = pair.value]
  OBVIOUS
<1>5. d = [c \in Classes |-> IF c = b THEN pair.value ELSE DictOf(pairs)[c]]
  BY <1>4, DictOfFacts
<1>6. \A p \in new : d[Class[p.key]] = p.value
  <2> TAKE p \in new
  <2>1. p = pair \/ (p \in pairs /\ Class[p.key] # b)
    BY <1>1, <1>3 DEF Wrote, IsEqual
  <2> QED
    BY <1>3, <1>5, <2>1, DictOfFacts
<1>7. \A c \in Classes : At(new, c) = {} => d[c] = Missing
  <2> SUFFICES ASSUME NEW c \in Classes, At(new, c) = {} PROVE d[c] = Missing
    OBVIOUS
  <2>1. c # b /\ At(pairs, c) = {}
    BY <1>1, <1>3 DEF At, Wrote, IsEqual
  <2> QED
    BY <1>5, <2>1, DictOfFacts
<1>8. d = [c \in Classes |-> d[c]]
  BY <1>5
<1>9. d = DictOf(new)
  BY <1>2, <1>6, <1>7, <1>8, DictSame
<1> QED
  BY <1>1, <1>2, <1>3, <1>4, <1>9

LEMMA DictRemoved ==
    ASSUME NEW pairs, Single(pairs), NEW pair \in pairs
    PROVE  DictOf(pairs \ {pair}) = [DictOf(pairs) EXCEPT ![Class[pair.key]] = Missing]
<1>1. PICK new : new = pairs \ {pair}
  OBVIOUS
<1>2. Single(new)
  BY <1>1 DEF Single
<1>3. PICK b \in Classes : b = Class[pair.key]
  BY DictOfFacts
<1>4. PICK d : d = [DictOf(pairs) EXCEPT ![b] = Missing]
  OBVIOUS
<1>5. d = [c \in Classes |-> IF c = b THEN Missing ELSE DictOf(pairs)[c]]
  BY <1>4, DictOfFacts
<1>6. \A p \in new : d[Class[p.key]] = p.value
  <2> TAKE p \in new
  <2>1. p \in pairs /\ Class[p.key] # b
    BY <1>1, <1>3 DEF Single, IsEqual
  <2> QED
    BY <1>5, <2>1, DictOfFacts
<1>7. \A c \in Classes : At(new, c) = {} => d[c] = Missing
  <2> SUFFICES ASSUME NEW c \in Classes, At(new, c) = {} PROVE d[c] = Missing
    OBVIOUS
  <2>1. c = b \/ At(pairs, c) = {}
    BY <1>1, <1>3 DEF At
  <2> QED
    BY <1>5, <2>1, DictOfFacts
<1>8. d = [c \in Classes |-> d[c]]
  BY <1>5
<1>9. d = DictOf(new)
  BY <1>2, <1>6, <1>7, <1>8, DictSame
<1> QED
  BY <1>1, <1>2, <1>3, <1>4, <1>9

LEMMA DictMerged ==
    ASSUME NEW a, Single(a), NEW b, Single(b)
    PROVE  DictOf(Merged(a, b))
               = [c \in Classes |-> IF DictOf(b)[c] # Missing THEN DictOf(b)[c] ELSE DictOf(a)[c]]
<1>1. PICK new : new = Merged(a, b)
  OBVIOUS
<1>2. Single(new)
  BY <1>1 DEF Single, Merged, IsEqual
<1>3. PICK d : d = [c \in Classes |-> IF DictOf(b)[c] # Missing THEN DictOf(b)[c] ELSE DictOf(a)[c]]
  OBVIOUS
<1>4. \A p \in new : d[Class[p.key]] = p.value
  <2> TAKE p \in new
  <2>1. CASE p \in b
    <3>1. Class[p.key] \in Classes /\ DictOf(b)[Class[p.key]] = p.value /\ p.value # Missing
      BY <2>1, DictOfFacts, PointerMapAssumption
    <3> QED
      BY <1>3, <3>1
  <2>2. CASE p \notin b
    <3>1. p \in a /\ At(b, Class[p.key]) = {}
      BY <1>1, <2>2 DEF Merged, At, IsEqual
    <3>2. Class[p.key] \in Classes /\ DictOf(a)[Class[p.key]] = p.value
      BY <3>1, DictOfFacts
    <3>3. DictOf(b)[Class[p.key]] = Missing
      BY <3>1, <3>2, DictOfFacts
    <3> QED
      BY <1>3, <3>2, <3>3
  <2> QED
    BY <2>1, <2>2
<1>5. \A c \in Classes : At(new, c) = {} => d[c] = Missing
  <2> SUFFICES ASSUME NEW c \in Classes, At(new, c) = {} PROVE d[c] = Missing
    OBVIOUS
  <2>1. At(b, c) = {} /\ At(a, c) = {}
    BY <1>1 DEF At, Merged, IsEqual
  <2> QED
    BY <1>3, <2>1, DictOfFacts
<1>6. d = [c \in Classes |-> d[c]]
  BY <1>3
<1> QED
  BY <1>1, <1>2, <1>3, <1>4, <1>5, <1>6, DictSame

-----------------------------------------------------------------------------
(* Every step is one of the dictionary's. *)

LEMMA DictsNow ==
    ASSUME MapsOK, NEW m \in Map
    PROVE  /\ maps[m] = None => Dicts[m] = None
           /\ maps[m] # None => /\ Dicts[m] = DictOf(Contents(maps[m])) /\ Dicts[m] # None
                                /\ Single(Contents(maps[m])) /\ TableOK(maps[m])
<1>1. Dicts[m] = IF maps[m] = None THEN None ELSE Dict(maps[m])
  BY DEF Dicts
<1>2. CASE maps[m] # None
  <2>1. PICK t : t = maps[m] /\ TableOK(t)
    BY <1>2, SizedFacts DEF Live
  <2>2. Dict(t) = DictOf(Contents(t)) /\ Single(Contents(t))
    BY <2>1, DictContents
  <2>3. DictOf(Contents(t)) # None
    BY <2>2, DictOfFacts
  <2> QED
    BY <1>1, <1>2, <2>1, <2>2, <2>3
<1> QED
  BY <1>1, <1>2

LEMMA DictsNext ==
    ASSUME MapsOK, NEW m \in Map, NEW u, u = None \/ Sized(u), maps' = [maps EXCEPT ![m] = u]
    PROVE  Dicts' = [Dicts EXCEPT ![m] = IF u = None THEN None ELSE DictOf(Contents(u))]
<1>1. maps' = [n \in Map |-> IF n = m THEN u ELSE maps[n]]
  BY DEF MapsOK
<1>2. u # None => Dict(u) = DictOf(Contents(u))
  BY DictContents DEF Sized
<1>3. Dicts' = [n \in Map |-> IF n = m THEN (IF u = None THEN None ELSE DictOf(Contents(u)))
                              ELSE Dicts[n]]
  BY <1>1, <1>2 DEF Dicts
<1>4. Dicts = [n \in Map |-> Dicts[n]]
  BY DEF Dicts
<1> QED
  BY <1>3, <1>4

Bound(m, c, v) == Dicts' = [Dicts EXCEPT ![m] = [@ EXCEPT ![c] = v]]

(* What a write of a pair does to the dictionary, and what it finds.       *)
LEMMA DictsWritten ==
    ASSUME MapsOK, NEW m \in Live, Bounded(m, 2), NEW pair \in Pairs, NEW mode \in Mode,
           NEW t, t = maps[m], NEW w, w = WritePair(t, pair, mode),
           NEW result, Operate(m, w.table, w.calls, result),
           NEW c, c = Class[pair.key]
    PROVE  /\ m \in Map /\ Dicts[m] # None /\ c \in Classes /\ pair.value \in Value
           /\ ~ Has(t, pair.key) =>
                 /\ Dicts[m][c] = Missing /\ w.table.count # t.count /\ w.old = Null
                 /\ Bound(m, c, pair.value)
           /\ Has(t, pair.key) =>
                 /\ Dicts[m][c] # Missing /\ w.table.count = t.count
                 /\ mode = "insert" => /\ Dicts' = Dicts /\ w.table = t
                                       /\ Get(w.table, pair.key) = Dicts[m][c]
                 /\ mode # "insert" => Bound(m, c, pair.value)
                 /\ mode = "update" => \/ w.old = Dicts[m][c]
                                       \/ w.old = Null /\ Dicts[m][c] = pair.value
<1>1. m \in Map /\ t # None /\ maps' = [maps EXCEPT ![m] = w.table]
  BY DEF Live, Operate
<1>2. /\ TableOK(t) /\ Single(Contents(t)) /\ Dicts[m] # None
      /\ Dicts[m] = DictOf(Contents(t))
  BY <1>1, DictsNow
<1>3. pair.key \in Key /\ pair.value \in Value /\ c \in Classes
  BY DEF Pairs, Classes
<1>4. Sized(w.table) /\ w.table # None
  BY SizedWrite, SizedNotNone
<1>5. Dicts' = [Dicts EXCEPT ![m] = DictOf(Contents(w.table))]
  BY <1>1, <1>4, DictsNext
<1>6. PICK C, new : C = Contents(t) /\ new = Wrote(C, pair)
  OBVIOUS
<1>7. DictOf(new) = [DictOf(C) EXCEPT ![c] = pair.value]
  BY <1>2, <1>6, DictWrote
<1>8. m \in DOMAIN Dicts /\ Dicts = [n \in Map |-> Dicts[n]]
  BY <1>1 DEF Dicts
<1>9. Contents(w.table) = new => Bound(m, c, pair.value)
  BY <1>2, <1>5, <1>6, <1>7, <1>8 DEF Bound
<1>10. CASE ~ Has(t, pair.key)
  <2>1. /\ Contents(w.table) = new /\ w.table.count # t.count /\ w.old = Null
    BY <1>2, <1>6, <1>10, WriteFacts
  <2>2. At(C, c) = {}
    BY <1>2, <1>3, <1>6, <1>10, ContentsFacts DEF At, IsEqual
  <2>3. Dicts[m][c] = Missing
    BY <1>2, <1>3, <1>6, <2>2, DictOfFacts
  <2> QED
    BY <1>1, <1>2, <1>3, <1>9, <1>10, <2>1, <2>3
<1>11. CASE Has(t, pair.key)
  <2>1. PICK old \in C : old = PairOf(t, pair.key) /\ Class[old.key] = c
    BY <1>2, <1>3, <1>6, <1>11, HasFacts DEF IsEqual
  <2>2. Dicts[m][c] = old.value /\ old.value # Missing
    <3>1. Dicts[m][c] = old.value /\ old.value \in Value
      BY <1>2, <1>6, <2>1, DictOfFacts
    <3> QED
      BY <3>1, PointerMapAssumption
  <2>3. w.table.count = t.count
    BY <1>2, <1>11, WriteFacts
  <2>4. mode # "insert" => Contents(w.table) = new
    BY <1>2, <1>6, <1>11, WriteFacts
  <2>5. ASSUME mode = "update"
        PROVE  w.old = old.value \/ (w.old = Null /\ old.value = pair.value)
    <3>1. mode # "insert"
      BY <2>5
    <3>2. w.old = IF old = pair THEN Null ELSE old.value
      BY <1>2, <1>11, <2>1, <2>5, <3>1, WriteFacts
    <3> QED
      BY <3>2
  <2>6. ASSUME mode = "insert"
        PROVE  Dicts' = Dicts /\ w.table = t /\ Get(w.table, pair.key) = Dicts[m][c]
    <3>1. w.table = t
      BY <1>11, <2>6 DEF WritePair
    <3>2. Dicts' = Dicts
      BY <1>2, <1>5, <1>8, <3>1
    <3>3. Get(t, pair.key) = old.value
      <4>1. Get(t, pair.key) = GetHashed(t, pair.key)
        BY <1>2, <1>3, LookupFacts
      <4> QED
        BY <1>11, <2>1, <4>1 DEF GetHashed
    <3> QED
      BY <2>2, <3>1, <3>2, <3>3
  <2> QED
    BY <1>1, <1>2, <1>3, <1>9, <1>11, <2>2, <2>3, <2>4, <2>5, <2>6
<1> QED
  BY <1>10, <1>11

LEMMA WriteSteps ==
    ASSUME MapsOK, NEW m \in Map, NEW pair \in Pairs
    PROVE  /\ Set(m, pair) => Abstract!Set(m, Class[pair.key], pair.value)
           /\ Insert(m, pair) => Abstract!Insert(m, Class[pair.key], pair.value)
           /\ Register(m, pair) => Abstract!Register(m, Class[pair.key], pair.value)
           /\ Update(m, pair) => Abstract!Update(m, Class[pair.key], pair.value)
<1>1. "overwrite" \in Mode /\ "insert" \in Mode /\ "update" \in Mode
  BY DEF Mode
<1>2. PICK c, t : c = Class[pair.key] /\ t = maps[m]
  OBVIOUS
<1>3. ASSUME Set(m, pair) PROVE Abstract!Set(m, c, pair.value)
  <2>1. PICK w : w = WritePair(t, pair, "overwrite")
    OBVIOUS
  <2>2. m \in Live /\ Bounded(m, 2) /\ Operate(m, w.table, w.calls, None) /\ ret' = None
    BY <1>2, <1>3, <2>1 DEF Set, Operate
  <2>3. Dicts[m] # None /\ Bound(m, c, pair.value)
    BY <1>1, <1>2, <2>1, <2>2, DictsWritten
  <2> QED
    BY <2>2, <2>3 DEF Abstract!Set, Abstract!Live, Abstract!Bind, Bound
<1>4. ASSUME Insert(m, pair) PROVE Abstract!Insert(m, c, pair.value)
  <2>1. PICK w : w = WritePair(t, pair, "insert")
    OBVIOUS
  <2>2. PICK result : /\ result = IF w.table.count # t.count THEN 1 ELSE 0
                      /\ m \in Live /\ Bounded(m, 2)
                      /\ Operate(m, w.table, w.calls, result) /\ ret' = result
    BY <1>2, <1>4, <2>1 DEF Insert, Operate
  <2>3. /\ Dicts[m] # None
        /\ ~ Has(t, pair.key) => /\ Dicts[m][c] = Missing /\ w.table.count # t.count
                                 /\ Bound(m, c, pair.value)
        /\ Has(t, pair.key) => /\ Dicts[m][c] # Missing /\ w.table.count = t.count
                               /\ Dicts' = Dicts
    BY <1>1, <1>2, <2>1, <2>2, DictsWritten
  <2> QED
    BY <2>2, <2>3 DEF Abstract!Insert, Abstract!Live, Abstract!Has, Abstract!Bind, Bound
<1>5. ASSUME Register(m, pair) PROVE Abstract!Register(m, c, pair.value)
  <2>1. PICK w : w = WritePair(t, pair, "insert")
    OBVIOUS
  <2>2. PICK result : /\ result = IF w.table.count # t.count THEN pair.value
                                  ELSE Get(w.table, pair.key)
                      /\ m \in Live /\ Bounded(m, 2)
                      /\ Operate(m, w.table, w.calls, result) /\ ret' = result
    BY <1>2, <1>5, <2>1 DEF Register, Operate
  <2>3. /\ Dicts[m] # None
        /\ ~ Has(t, pair.key) => /\ Dicts[m][c] = Missing /\ w.table.count # t.count
                                 /\ Bound(m, c, pair.value)
        /\ Has(t, pair.key) => /\ Dicts[m][c] # Missing /\ w.table.count = t.count
                               /\ Dicts' = Dicts /\ Get(w.table, pair.key) = Dicts[m][c]
    BY <1>1, <1>2, <2>1, <2>2, DictsWritten
  <2> QED
    BY <2>2, <2>3 DEF Abstract!Register, Abstract!Live, Abstract!Has, Abstract!Bind, Bound
<1>6. ASSUME Update(m, pair) PROVE Abstract!Update(m, c, pair.value)
  <2>1. PICK w : w = WritePair(t, pair, "update")
    OBVIOUS
  <2>2. m \in Live /\ Bounded(m, 2) /\ Operate(m, w.table, w.calls, w.old) /\ ret' = w.old
    BY <1>2, <1>6, <2>1 DEF Update, Operate
  <2>3. "update" # "insert"
    OBVIOUS
  <2>4. /\ Dicts[m] # None
        /\ ~ Has(t, pair.key) => /\ Dicts[m][c] = Missing /\ w.old = Null
                                 /\ Bound(m, c, pair.value)
        /\ Has(t, pair.key) => /\ Dicts[m][c] # Missing /\ Bound(m, c, pair.value)
                               /\ \/ w.old = Dicts[m][c]
                                  \/ w.old = Null /\ Dicts[m][c] = pair.value
    BY <1>1, <1>2, <2>1, <2>2, <2>3, DictsWritten
  <2> QED
    BY <2>2, <2>4 DEF Abstract!Update, Abstract!Live, Abstract!Has, Abstract!Bind, Bound
<1> QED
  BY <1>2, <1>3, <1>4, <1>5, <1>6

LEMMA DictEmpty == DictOf({}) = Abstract!Empty
<1>1. \A c : At({}, c) = {}
  BY DEF At
<1> QED
  BY <1>1 DEF DictOf, Abstract!Empty

(* Map m gets a table that is not none.                                    *)
LEMMA DictsChanged ==
    ASSUME MapsOK, NEW m \in Map, NEW u, Sized(u), maps' = [maps EXCEPT ![m] = u]
    PROVE  /\ Dicts' = [Dicts EXCEPT ![m] = DictOf(Contents(u))]
           /\ m \in Live /\ Contents(u) = Contents(maps[m]) => Dicts' = Dicts
<1>1. u # None
  BY SizedNotNone
<1>2. Dicts' = [Dicts EXCEPT ![m] = DictOf(Contents(u))]
  BY <1>1, DictsNext
<1>3. Dicts = [n \in Map |-> Dicts[n]]
  BY DEF Dicts
<1>4. m \in Live => Dicts[m] = DictOf(Contents(maps[m]))
  BY DictsNow DEF Live
<1> QED
  BY <1>2, <1>3, <1>4

LEMMA RemoveSteps ==
    ASSUME MapsOK, NEW m \in Map, NEW k \in Key, Remove(m, k)
    PROVE  Abstract!Remove(m, Class[k])
<1>1. PICK c, t, C : c = Class[k] /\ t = maps[m] /\ C = Contents(t)
  OBVIOUS
<1>2. m \in Live /\ Bounded(m, 1) /\ c \in Classes
  BY <1>1 DEF Remove, Classes
<1>3. /\ TableOK(t) /\ Sized(t) /\ Single(C) /\ Dicts[m] = DictOf(C) /\ Dicts[m] # None
  BY <1>1, <1>2, DictsNow DEF Live, MapsOK
<1>4. m \in DOMAIN Dicts /\ Dicts = [n \in Map |-> Dicts[n]]
  BY DEF Dicts
<1>5. CASE ~ Has(t, k)
  <2>1. maps' = [maps EXCEPT ![m] = t] /\ ret' = 0
    BY <1>1, <1>5 DEF Remove, Operate
  <2>2. Dicts' = Dicts
    BY <1>1, <1>2, <1>3, <2>1, DictsChanged
  <2>3. At(C, c) = {}
    BY <1>1, <1>3, <1>5, ContentsFacts DEF At, IsEqual
  <2>4. Dicts[m][c] = Missing
    BY <1>2, <1>3, <2>3, DictOfFacts
  <2>5. PICK d : d = DictOf(C) /\ d \in [Classes -> Value \cup {Missing}]
    BY <1>3, DictOfFacts
  <2>6. [d EXCEPT ![c] = Missing] = d
    BY <1>3, <2>4, <2>5
  <2>7. Dicts' = [Dicts EXCEPT ![m] = [@ EXCEPT ![c] = Missing]]
    BY <1>3, <1>4, <2>2, <2>5, <2>6
  <2> QED
    BY <1>1, <1>2, <1>3, <2>1, <2>4, <2>7
       DEF Abstract!Remove, Abstract!Live, Abstract!Has, Abstract!Bind
<1>6. CASE Has(t, k)
  <2>1. PICK u, pair : u = Removed(t, k) /\ pair = PairOf(t, k)
    OBVIOUS
  <2>2. maps' = [maps EXCEPT ![m] = u] /\ ret' = 1
    BY <1>1, <1>6, <2>1 DEF Remove, Operate
  <2>3. /\ TableOK(u) /\ Contents(u) = C \ {pair} /\ pair \in C /\ Class[pair.key] = c
        /\ u.size = t.size /\ u.nMutations = t.nMutations + 1
    BY <1>1, <1>3, <1>6, <2>1, RemovedFacts, HasFacts DEF IsEqual
  <2>4. Sized(u)
    <3>1. t.size <= t.size
      BY <1>3, TableFacts
    <3> QED
      BY <1>1, <1>2, <2>3, <3>1, SizedChange
  <2>5. Dicts' = [Dicts EXCEPT ![m] = DictOf(C \ {pair})]
    BY <2>2, <2>3, <2>4, DictsChanged
  <2>6. DictOf(C \ {pair}) = [DictOf(C) EXCEPT ![c] = Missing]
    BY <1>3, <2>3, DictRemoved
  <2>7. Dicts[m][c] # Missing
    <3>1. Dicts[m][c] = pair.value /\ pair.value \in Value
      BY <1>3, <2>3, DictOfFacts
    <3> QED
      BY <3>1, PointerMapAssumption
  <2>8. Dicts' = [Dicts EXCEPT ![m] = [@ EXCEPT ![c] = Missing]]
    BY <1>3, <1>4, <2>5, <2>6
  <2> QED
    BY <1>1, <1>2, <1>3, <2>2, <2>7, <2>8
       DEF Abstract!Remove, Abstract!Live, Abstract!Has, Abstract!Bind
<1> QED
  BY <1>5, <1>6

LEMMA ClearSteps ==
    ASSUME MapsOK, NEW m \in Map
    PROVE  /\ Reset(m) => Abstract!Clear(m)
           /\ ResetPointermap(m) => Abstract!Clear(m)
<1>1. ASSUME NEW u, Sized(u), Contents(u) = {}, maps' = [maps EXCEPT ![m] = u],
             m \in Live, ret' = None
      PROVE  Abstract!Clear(m)
  <2>1. Dicts' = [Dicts EXCEPT ![m] = Abstract!Empty]
    BY <1>1, DictsChanged, DictEmpty
  <2>2. Dicts[m] # None
    BY <1>1, DictsNow DEF Live
  <2> QED
    BY <1>1, <2>1, <2>2 DEF Abstract!Clear, Abstract!Live
<1>2. ASSUME Reset(m) PROVE Abstract!Clear(m)
  <2>1. m \in Live /\ Bounded(m, 1) /\ Sized(maps[m])
    BY <1>2 DEF Reset, MapsOK
  <2>2. CASE maps[m].count = 0
    <3>1. Contents(maps[m]) = {}
      <4>1. PICK t : t = maps[m] /\ TableOK(t) /\ t.count = 0
        BY <2>1, <2>2 DEF Sized
      <4>2. Contents(t) = {}
        BY <4>1, HasFacts, ContentsFacts DEF Has, IsEqual, Pairs
      <4> QED
        BY <4>1, <4>2
    <3>2. maps' = [maps EXCEPT ![m] = maps[m]] /\ ret' = None
      BY <1>2, <2>2 DEF Reset, Operate
    <3> QED
      BY <1>1, <2>1, <3>1, <3>2
  <2>3. CASE maps[m].count # 0
    <3>1. PICK u : u = [NewTable(0) EXCEPT !.nMutations = maps[m].nMutations + 1]
      OBVIOUS
    <3>2. Sized(u) /\ Contents(u) = {}
      BY <2>1, <3>1, SizedClear
    <3>3. maps' = [maps EXCEPT ![m] = u] /\ ret' = None
      BY <1>2, <2>3, <3>1 DEF Reset, Operate
    <3> QED
      BY <1>1, <2>1, <3>2, <3>3
  <2> QED
    BY <2>2, <2>3
<1>3. ASSUME ResetPointermap(m) PROVE Abstract!Clear(m)
  <2>1. m \in Live /\ Bounded(m, 1)
    BY <1>3 DEF ResetPointermap
  <2>2. PICK t, u : t = maps[m] /\ u = Mutated([t EXCEPT !.count = 0, !.slots = EmptySlots(t.size)])
    OBVIOUS
  <2>3. TableOK(t) /\ t.size <= t.size
    BY <2>1, <2>2, SizedFacts, TableFacts
  <2>4. TableOK(u) /\ u.size = t.size /\ u.nMutations = t.nMutations + 1 /\ Contents(u) = {}
    BY <2>2, <2>3, ClearedFacts
  <2>5. Sized(u)
    BY <2>1, <2>2, <2>3, <2>4, SizedChange
  <2>6. maps' = [maps EXCEPT ![m] = u] /\ ret' = None
    BY <1>3, <2>2 DEF ResetPointermap, Operate
  <2> QED
    BY <1>1, <2>1, <2>4, <2>5, <2>6
<1> QED
  BY <1>2, <1>3

LEMMA StorageSteps ==
    ASSUME MapsOK, NEW m \in Map
    PROVE  /\ \A c \in Capacities : Create(m, c) => Abstract!Create(m)
           /\ Done(m) => Abstract!Done(m)
           /\ ShrinkMap(m) => Abstract!Tidy(m)
<1>1. ASSUME NEW c \in Capacities, Create(m, c) PROVE Abstract!Create(m)
  <2>1. PICK u : u = NewTable(c)
    OBVIOUS
  <2>2. Sized(u) /\ Contents(u) = {}
    BY <2>1, SizedNew, NewFacts, PointerMapAssumption
  <2>3. maps[m] = None /\ maps' = [maps EXCEPT ![m] = u] /\ ret' = None
    BY <1>1, <2>1 DEF Create, Operate
  <2>4. Dicts' = [Dicts EXCEPT ![m] = Abstract!Empty]
    BY <2>2, <2>3, DictsChanged, DictEmpty
  <2>5. Dicts[m] = None
    BY <2>3, DictsNow
  <2> QED
    BY <2>3, <2>4, <2>5 DEF Abstract!Create
<1>2. ASSUME Done(m) PROVE Abstract!Done(m)
  <2>1. m \in Live /\ maps' = [maps EXCEPT ![m] = None] /\ ret' = None
    BY <1>2 DEF Done
  <2>2. PICK u : u = None
    OBVIOUS
  <2>3. Dicts' = [Dicts EXCEPT ![m] = None]
    BY <2>1, <2>2, DictsNext
  <2>4. Dicts[m] # None
    BY <2>1, DictsNow DEF Live
  <2> QED
    BY <2>1, <2>3, <2>4 DEF Abstract!Done, Abstract!Live
<1>3. ASSUME ShrinkMap(m) PROVE Abstract!Tidy(m)
  <2>1. m \in Live /\ Bounded(m, 1)
    BY <1>3 DEF ShrinkMap
  <2>2. PICK u : u = ShrinkIfNeeded(maps[m])
    OBVIOUS
  <2>3. /\ TableOK(u) /\ u.size <= maps[m].size /\ Contents(u) = Contents(maps[m])
        /\ u = maps[m] \/ u.nMutations = maps[m].nMutations + 1
    BY <2>1, <2>2, SizedFacts, ShrinkFacts
  <2>4. Sized(u)
    BY <2>1, <2>3, SizedChange DEF MapsOK
  <2>5. maps' = [maps EXCEPT ![m] = u] /\ ret' = None
    BY <1>3, <2>2 DEF ShrinkMap, Operate
  <2>6. Dicts' = Dicts
    BY <2>1, <2>3, <2>4, <2>5, DictsChanged
  <2>7. Dicts[m] # None
    BY <2>1, DictsNow DEF Live
  <2> QED
    BY <2>5, <2>6, <2>7 DEF Abstract!Tidy, Abstract!Live
<1> QED
  BY <1>1, <1>2, <1>3

LEMMA CopySteps ==
    ASSUME MapsOK, NEW dst \in Map, NEW src \in Map
    PROVE  /\ CopyItems(dst, src) => Abstract!Merge(dst, src)
           /\ Copy(dst, src) => Abstract!Clone(dst, src)
<1>1. ASSUME CopyItems(dst, src) PROVE Abstract!Merge(dst, src)
  <2>1. dst \in Live /\ src \in Live
    BY <1>1 DEF CopyItems
  <2>2. PICK a, b, c : a = maps[dst] /\ b = maps[src] /\ c = CopiedItems(a, b)
    OBVIOUS
  <2>3. /\ c.table.size <= MaxSize /\ c.table.nMutations <= MaxMutations
        /\ maps' = [maps EXCEPT ![dst] = c.table] /\ ret' = None
    BY <1>1, <2>2 DEF CopyItems, Operate
  <2>4. /\ TableOK(a) /\ Single(Contents(a)) /\ Dicts[dst] = DictOf(Contents(a)) /\ Dicts[dst] # None
        /\ TableOK(b) /\ Single(Contents(b)) /\ Dicts[src] = DictOf(Contents(b)) /\ Dicts[src] # None
    BY <2>1, <2>2, DictsNow DEF Live
  <2>5. TableOK(c.table) /\ Contents(c.table) = Merged(Contents(a), Contents(b))
    BY <2>2, <2>4, CopiedFacts
  <2>6. Dicts' = [Dicts EXCEPT ![dst] = DictOf(Merged(Contents(a), Contents(b)))]
    BY <2>3, <2>5, DictsChanged DEF Sized
  <2>7. DictOf(Merged(Contents(a), Contents(b)))
            = [k \in Classes |-> IF Dicts[src][k] # Missing THEN Dicts[src][k] ELSE Dicts[dst][k]]
    BY <2>4, DictMerged
  <2>8. dst \in DOMAIN Dicts
    BY DEF Dicts
  <2>9. Dicts' = [Dicts EXCEPT ![dst] =
                     [k \in Classes |-> IF Dicts[src][k] # Missing THEN Dicts[src][k] ELSE @[k]]]
    BY <2>6, <2>7, <2>8
  <2> QED
    BY <2>3, <2>4, <2>9 DEF Abstract!Merge, Abstract!Live, Abstract!Has
<1>2. ASSUME Copy(dst, src) PROVE Abstract!Clone(dst, src)
  <2>1. maps[dst] = None /\ src \in Live
    BY <1>2 DEF Copy
  <2>2. PICK a, b, c : a = NewTable(b.count) /\ b = maps[src] /\ c = CopiedItems(a, b)
    OBVIOUS
  <2>3. /\ c.table.size <= MaxSize /\ c.table.nMutations <= MaxMutations
        /\ maps' = [maps EXCEPT ![dst] = c.table] /\ ret' = None
    BY <1>2, <2>2 DEF Copy, Operate
  <2>4. /\ TableOK(b) /\ Dicts[src] = DictOf(Contents(b)) /\ Dicts[src] # None
        /\ Dicts[dst] = None
    BY <2>1, <2>2, DictsNow DEF Live
  <2>5. TableOK(a) /\ Contents(a) = {}
    BY <2>2, <2>4, TableFacts, NewFacts
  <2>6. TableOK(c.table) /\ Contents(c.table) = Merged(Contents(a), Contents(b))
    BY <2>2, <2>4, <2>5, CopiedFacts
  <2>7. PICK u : u = c.table /\ Sized(u) /\ Contents(u) = Contents(b)
    BY <2>3, <2>5, <2>6 DEF Merged, Sized
  <2>8. Dicts' = [Dicts EXCEPT ![dst] = DictOf(Contents(u))]
    BY <2>3, <2>7, DictsChanged
  <2>9. Dicts' = [Dicts EXCEPT ![dst] = Dicts[src]]
    BY <2>4, <2>7, <2>8
  <2> QED
    BY <2>3, <2>4, <2>9 DEF Abstract!Clone, Abstract!Live
<1> QED
  BY <1>1, <1>2

LEMMA AbstractStep ==
    ASSUME MapsOK, [Next]_vars
    PROVE  [Abstract!Next]_(<<Dicts, ret>>)
<1>1. CASE UNCHANGED <<maps, ret>>
  BY <1>1 DEF Dicts
<1>2. ASSUME NEW m \in Map, NEW pair \in Pairs,
             Set(m, pair) \/ Insert(m, pair) \/ Register(m, pair) \/ Update(m, pair)
      PROVE  Abstract!Next
  <2>1. PICK c \in Classes, v \in Value : c = Class[pair.key] /\ v = pair.value
    BY DEF Pairs, Classes
  <2>2. \/ Abstract!Set(m, c, v) \/ Abstract!Insert(m, c, v)
        \/ Abstract!Register(m, c, v) \/ Abstract!Update(m, c, v)
    BY <1>2, <2>1, WriteSteps
  <2> QED
    BY <2>2 DEF Abstract!Next
<1>3. ASSUME NEW m \in Map, NEW k \in Key, Remove(m, k) PROVE Abstract!Next
  <2>1. Abstract!Remove(m, Class[k]) /\ Class[k] \in Classes
    BY <1>3, RemoveSteps DEF Classes
  <2> QED
    BY <2>1 DEF Abstract!Next
<1>4. ASSUME NEW m \in Map,
             \/ \E c \in Capacities : Create(m, c)
             \/ Done(m) \/ ShrinkMap(m) \/ Reset(m) \/ ResetPointermap(m)
      PROVE  Abstract!Next
  <2>1. Abstract!Create(m) \/ Abstract!Done(m) \/ Abstract!Clear(m) \/ Abstract!Tidy(m)
    BY <1>4, StorageSteps, ClearSteps
  <2> QED
    BY <2>1 DEF Abstract!Next
<1>5. ASSUME NEW dst \in Map, NEW src \in Map, CopyItems(dst, src) \/ Copy(dst, src)
      PROVE  Abstract!Next
  <2>1. Abstract!Merge(dst, src) \/ Abstract!Clone(dst, src)
    BY <1>5, CopySteps
  <2> QED
    BY <2>1 DEF Abstract!Next
<1>6. Enumerates => UNCHANGED <<maps, ret>>
  BY DEF Enumerates, Enumerate, EnumerateNext, EnumerateDone
<1>7. CASE Next
  BY <1>1, <1>2, <1>3, <1>4, <1>5, <1>6, <1>7 DEF Next, Enumerates
<1> QED
  BY <1>1, <1>7 DEF vars

(* A map is a dictionary: whatever probing, deletion, growth, shrinking    *)
(* and copying do to the slots, each operation has the effect and the      *)
(* result of one on a partial function from keys to values.                *)
THEOREM ImplementsAbstractMap == Spec => RefinesAbstractMap
<1>1. Init => Abstract!Init
  <2> SUFFICES ASSUME Init PROVE Abstract!Init
    OBVIOUS
  <2>1. \A m \in Map : maps[m] = None
    BY DEF Init
  <2>2. Dicts = [m \in Map |-> None]
    BY <2>1 DEF Dicts
  <2> QED
    BY <2>2 DEF Init, Abstract!Init
<1>2. MapsOK /\ [Next]_vars => [Abstract!Next]_(Abstract!vars)
  BY AbstractStep DEF Abstract!vars
<1> QED
  BY <1>1, <1>2, AlwaysTables, PTL DEF Spec, RefinesAbstractMap, Abstract!Spec
=============================================================================
