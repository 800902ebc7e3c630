--------------------------- MODULE PointerSet_proofs ---------------------------
(***************************************************************************)
(* Proofs about PointerSet, for any keys, hashes, capacities and sets: a   *)
(* table can be probed after every operation, the callbacks an operation   *)
(* makes fit what the sets hold afterwards, and a set is a set of keys.    *)
(***************************************************************************)
EXTENDS PointerSet, NumberFacts

(* ---- The table ----                                                     *)

(* a probe that starts at h looks at j before it gets to i                 *)
Before(h, j, i) == IF h <= i THEN h <= j /\ j < i ELSE h <= j \/ j < i

Home(slots, size, i) == HashForSize(slots[i], size)

Used(slots, size)   == {i \in Slot(size) : slots[i] # Hole}
Stored(slots, size) == {slots[i] : i \in Used(slots, size)}

Cells(size) == [Slot(size) -> Key \cup {Hole}]

(* no two keys are equal                                                   *)
Distinct(slots, size) ==
    \A i, j \in Used(slots, size) : IsEqual(slots[i], slots[j]) => i = j

(* no hole lies between a key's home and the key                           *)
Unbroken(slots, size) ==
    \A i \in Used(slots, size), j \in Slot(size) :
        Before(Home(slots, size, i), j, i) => slots[j] # Hole

Chained(slots, size) ==
    slots \in Cells(size) /\ Distinct(slots, size) /\ Unbroken(slots, size)

HasHole(slots, size) == \E h \in Slot(size) : slots[h] = Hole

SizeOK(size) == size = 0 \/ \E e \in Nat : e >= 1 /\ size = Power[e]

(* The inductive invariant of a table.  One of two slots may be full.      *)
TableOK(t) ==
    /\ t \in [size : Nat, count : Nat, slots : Cells(t.size), initial : BOOLEAN]
    /\ SizeOK(t.size)
    /\ Chained(t.slots, t.size)
    /\ t.count = Cardinality(Used(t.slots, t.size))
    /\ t.count <= FillLimit(t.size)

-----------------------------------------------------------------------------
(* Probes *)

LEMMA Wraps ==
    ASSUME NEW n \in Nat \ {0}, NEW h \in 0 .. n - 1, NEW d \in 0 .. n - 1
    PROVE  (h + d) % n = IF h + d < n THEN h + d ELSE h + d - n
OBVIOUS

LEMMA HomeFacts ==
    ASSUME NEW size \in Nat \ {0}, NEW k \in Key
    PROVE  /\ HashForSize(k, size) \in Slot(size)
           /\ \A l \in Key : IsEqual(k, l) => HashForSize(k, size) = HashForSize(l, size)
<1>1. Hash[k] \in Nat
  BY PointerSetAssumption
<1>2. PICK v \in Nat : v = 2 * (Hash[k] \div 2)
  BY <1>1
<1>3. v % size \in 0 .. size - 1
  OBVIOUS
<1>4. \A l \in Key : IsEqual(k, l) => Hash[k] = Hash[l]
  BY PointerSetAssumption DEF IsEqual
<1> QED
  BY <1>2, <1>3, <1>4 DEF HashForSize, Slot

LEMMA ProbeFacts ==
    ASSUME NEW size \in Nat \ {0}, NEW k \in Key, NEW d \in Slot(size),
           NEW h, h = HashForSize(k, size)
    PROVE  /\ ProbeSlot(k, size, d) = IF h + d < size THEN h + d ELSE h + d - size
           /\ ProbeSlot(k, size, d) \in Slot(size)
<1>1. h \in 0 .. size - 1 /\ d \in 0 .. size - 1
  BY HomeFacts DEF Slot
<1>2. ProbeSlot(k, size, d) = (h + d) % size
  BY DEF ProbeSlot
<1>3. (h + d) % size = IF h + d < size THEN h + d ELSE h + d - size
  BY <1>1, Wraps
<1> QED
  BY <1>1, <1>2, <1>3 DEF Slot

(* A probe of size steps looks at every slot.                              *)
LEMMA ProbeReaches ==
    ASSUME NEW size \in Nat \ {0}, NEW k \in Key, NEW i \in Slot(size)
    PROVE  \E d \in Slot(size) : ProbeSlot(k, size, d) = i
<1>1. PICK h \in Slot(size) : h = HashForSize(k, size)
  BY HomeFacts
<1>2. \A d \in Slot(size) : ProbeSlot(k, size, d) = IF h + d < size THEN h + d ELSE h + d - size
  BY <1>1, ProbeFacts
<1>3. CASE h <= i
  <2>1. PICK d \in Slot(size) : d = i - h /\ h + d < size /\ h + d = i
    BY <1>1, <1>3 DEF Slot
  <2> QED
    BY <1>2, <2>1
<1>4. CASE h > i
  <2>1. PICK d \in Slot(size) : d = i - h + size
    BY <1>1, <1>4 DEF Slot
  <2>2. ~ (h + d < size) /\ h + d - size = i
    BY <1>1, <2>1 DEF Slot
  <2> QED
    BY <1>2, <2>2
<1> QED
  BY <1>1, <1>3, <1>4 DEF Slot

(* The probe gets to a slot of T, and nothing of T lies before it.         *)
LEMMA FirstProbeFacts ==
    ASSUME NEW size \in Nat \ {0}, NEW k \in Key, NEW T, T \subseteq Slot(size), T # {}
    PROVE  /\ FirstProbe(k, size, T) \in T
           /\ \A j \in Slot(size) :
                  Before(HashForSize(k, size), j, FirstProbe(k, size, T)) => j \notin T
<1> DEFINE h    == HashForSize(k, size)
           p(d) == ProbeSlot(k, size, d)
           D    == {d \in Slot(size) : p(d) \in T}
           Good(d) == p(d) \in T /\ \A e \in 0 .. d - 1 : p(e) \notin T
<1>1. h \in Slot(size)
  BY HomeFacts
<1>2. \A d \in Slot(size) : p(d) = (IF h + d < size THEN h + d ELSE h + d - size)
                            /\ p(d) \in Slot(size)
  BY ProbeFacts
<1> HIDE DEF h, p
<1>3. \A i \in Slot(size) : \E d \in Slot(size) : p(d) = i
  BY ProbeReaches DEF p
<1>4. D \subseteq Nat /\ D # {}
  <2>1. \A d \in Slot(size) : d \in Nat
    BY DEF Slot
  <2>2. PICK i \in Slot(size) : i \in T
    OBVIOUS
  <2>3. PICK d \in Slot(size) : p(d) = i
    BY <1>3
  <2> QED
    BY <2>1, <2>2, <2>3
<1>5. PICK m \in D : \A e \in D : m <= e
  BY <1>4, LeastNat
<1>6. m \in Slot(size) /\ p(m) \in T
  OBVIOUS
<1>7. \A e \in 0 .. m - 1 : p(e) \notin T
  <2> TAKE e \in 0 .. m - 1
  <2>1. e \in Slot(size) /\ ~ (m <= e)
    BY <1>6 DEF Slot
  <2>2. e \notin D
    BY <1>5, <2>1
  <2> QED
    BY <2>1, <2>2
<1> HIDE DEF D
<1>8. PICK c \in Slot(size) : /\ c = CHOOSE d \in Slot(size) : Good(d)
                              /\ Good(c)
  <2>1. \E d \in Slot(size) : Good(d)
    BY <1>6, <1>7
  <2> HIDE DEF Good
  <2> QED
    BY <2>1
<1>9. FirstProbe(k, size, T) = p(c)
  BY <1>8 DEF FirstProbe, p
<1>10. ASSUME NEW j \in Slot(size), Before(h, j, p(c)) PROVE j \notin T
  <2>1. PICK e \in Slot(size) : p(e) = j
    BY <1>3
  <2>2. e \in 0 .. c - 1
    BY <1>1, <1>2, <1>8, <1>10, <2>1 DEF Before, Slot
  <2> QED
    BY <1>8, <2>1, <2>2
<1> QED
  BY <1>8, <1>9, <1>10 DEF h

(* Of two slots one comes first on a probe.                                *)
LEMMA BeforeTotal ==
    ASSUME NEW size \in Nat, NEW h \in Slot(size), NEW i \in Slot(size), NEW j \in Slot(size)
    PROVE  Before(h, i, j) \/ Before(h, j, i) \/ i = j
BY DEF Before, Slot

(* Every slot before a key on the way from its home holds another key,     *)
(* and no equal one, so that the probe for it arrives.                     *)
LEMMA FindStored ==
    ASSUME NEW size \in Nat \ {0}, NEW slots, Chained(slots, size),
           NEW k \in Key, NEW x \in Used(slots, size), IsEqual(slots[x], k)
    PROVE  FirstProbe(k, size, Stops(slots, size, k)) = x
<1> DEFINE f == FirstProbe(k, size, Stops(slots, size, k))
           h == HashForSize(k, size)
<1>1. /\ x \in Slot(size) /\ x \in Stops(slots, size, k)
      /\ Stops(slots, size, k) \subseteq Slot(size)
  BY DEF Used, Stops
<1>2. /\ f \in Stops(slots, size, k) /\ f \in Slot(size)
      /\ \A j \in Slot(size) : Before(h, j, f) => j \notin Stops(slots, size, k)
  BY <1>1, FirstProbeFacts
<1>3. \A i \in Used(slots, size) : slots[i] \in Key /\ slots[i] \in Key
  BY DEF Chained, Cells, Used
<1>4. Home(slots, size, x) = h /\ h \in Slot(size)
  <2>1. IsEqual(k, slots[x])
    BY DEF IsEqual
  <2> QED
    BY <1>3, <2>1, HomeFacts DEF Home
<1> HIDE DEF f, h
<1>5. ~ Before(h, x, f)
  BY <1>1, <1>2
<1>6. ASSUME Before(h, f, x) PROVE FALSE
  <2>1. slots[f] # Hole
    BY <1>2, <1>4, <1>6 DEF Chained, Unbroken
  <2>2. f \in Used(slots, size) /\ IsEqual(slots[f], k)
    BY <1>2, <2>1 DEF Stops, Used
  <2>3. IsEqual(slots[f], slots[x])
    BY <2>2 DEF IsEqual
  <2>4. f = x
    BY <2>2, <2>3 DEF Chained, Distinct
  <2> QED
    BY <1>2, <1>5, <1>6, <2>4
<1>7. size \in Nat
  OBVIOUS
<1>8. x = f
  BY <1>1, <1>2, <1>4, <1>5, <1>6, <1>7, BeforeTotal
<1> QED
  BY <1>8 DEF f

(* The probe for a key that is not there ends at a hole.                   *)
LEMMA FindAbsent ==
    ASSUME NEW size \in Nat \ {0}, NEW slots, HasHole(slots, size), NEW k \in Key,
           \A i \in Used(slots, size) : ~ IsEqual(slots[i], k)
    PROVE  slots[FirstProbe(k, size, Stops(slots, size, k))] = Hole
<1>1. Stops(slots, size, k) \subseteq Slot(size) /\ Stops(slots, size, k) # {}
  BY DEF HasHole, Stops
<1>2. FirstProbe(k, size, Stops(slots, size, k)) \in Stops(slots, size, k)
  BY <1>1, FirstProbeFacts
<1> QED
  BY <1>2 DEF Stops, Used

(* The key goes to a hole that its probe reaches, and is counted once.     *)
LEMMA StoreFacts ==
    ASSUME NEW size \in Nat \ {0}, NEW slots, Chained(slots, size), HasHole(slots, size),
           NEW key \in Key,
           \A i \in Used(slots, size) : ~ IsEqual(slots[i], key),
           NEW stored, stored = StorePointer(slots, size, key)
    PROVE  /\ Chained(stored, size)
           /\ Stored(stored, size) = Stored(slots, size) \cup {key}
           /\ \E h \in Slot(size) : /\ slots[h] = Hole
                                    /\ Used(stored, size) = Used(slots, size) \cup {h}
<1> DEFINE holes == {i \in Slot(size) : slots[i] = Hole}
<1>1. key \in Key /\ key # Hole
  BY PointerSetAssumption
<1>2. holes \subseteq Slot(size) /\ holes # {}
  BY DEF HasHole
<1>3. PICK h \in holes : h = FirstProbe(key, size, holes)
  BY <1>1, <1>2, FirstProbeFacts
<1>4. \A j \in Slot(size) : Before(HashForSize(key, size), j, h) => slots[j] # Hole
  <2>1. \A j \in Slot(size) : Before(HashForSize(key, size), j, h) => j \notin holes
    BY <1>1, <1>2, <1>3, FirstProbeFacts
  <2> QED
    BY <2>1
<1>5. h \in Slot(size) /\ slots[h] = Hole
  OBVIOUS
<1>6. slots \in Cells(size)
  BY DEF Chained
<1>7. stored = [slots EXCEPT ![h] = key]
  BY <1>3 DEF StorePointer
<1>8. stored \in Cells(size) /\ stored[h] = key
      /\ \A i \in Slot(size) : i # h => stored[i] = slots[i]
  BY <1>5, <1>6, <1>7 DEF Cells
<1> HIDE DEF holes
<1>9. Used(stored, size) = Used(slots, size) \cup {h}
  BY <1>1, <1>5, <1>8 DEF Used
<1>10. \A i \in Used(slots, size) : i # h /\ stored[i] = slots[i] /\ i \in Slot(size)
  BY <1>5, <1>8 DEF Used
<1>11. Distinct(stored, size)
  <2> SUFFICES ASSUME NEW i \in Used(stored, size), NEW j \in Used(stored, size),
                      IsEqual(stored[i], stored[j])
               PROVE  i = j
    BY DEF Distinct
  <2>1. CASE i = h /\ j # h
    BY <1>8, <1>9, <1>10, <2>1 DEF IsEqual
  <2>2. CASE i # h /\ j = h
    BY <1>8, <1>9, <1>10, <2>2 DEF IsEqual
  <2>3. CASE i # h /\ j # h
    BY <1>9, <1>10, <2>3 DEF Chained, Distinct
  <2> QED
    BY <2>1, <2>2, <2>3
<1>12. Unbroken(stored, size)
  <2> SUFFICES ASSUME NEW i \in Used(stored, size), NEW j \in Slot(size),
                      Before(Home(stored, size, i), j, i)
               PROVE  stored[j] # Hole
    BY DEF Unbroken
  <2>1. CASE j = h
    BY <1>1, <1>8, <2>1
  <2>2. CASE i = h /\ j # h
    BY <1>4, <1>8, <2>2 DEF Home
  <2>3. CASE i # h /\ j # h
    <3>1. i \in Used(slots, size) /\ Home(stored, size, i) = Home(slots, size, i)
      BY <1>9, <1>10, <2>3 DEF Home
    <3>2. slots[j] # Hole
      BY <3>1 DEF Chained, Unbroken
    <3> QED
      BY <1>8, <2>3, <3>2
  <2> QED
    BY <2>1, <2>2, <2>3
<1>13. Stored(stored, size) = Stored(slots, size) \cup {key}
  BY <1>8, <1>9, <1>10 DEF Stored
<1> QED
  BY <1>5, <1>8, <1>9, <1>11, <1>12, <1>13 DEF Chained

-----------------------------------------------------------------------------
(* Counting *)

LEMMA UsedFinite ==
    ASSUME NEW size \in Nat, NEW slots
    PROVE  /\ IsFiniteSet(Used(slots, size)) /\ Cardinality(Used(slots, size)) \in 0 .. size
           /\ IsFiniteSet(Slot(size)) /\ Cardinality(Slot(size)) = size
<1>1. IsFiniteSet(Slot(size)) /\ Cardinality(Slot(size)) = size
  <2>1. IsFiniteSet(0 .. size - 1)
        /\ Cardinality(0 .. size - 1) = IF 0 > size - 1 THEN 0 ELSE (size - 1) - 0 + 1
    BY FS_Interval
  <2> QED
    BY <2>1 DEF Slot
<1>2. Used(slots, size) \subseteq Slot(size)
  BY DEF Used
<1>3. IsFiniteSet(Used(slots, size)) /\ Cardinality(Used(slots, size)) <= size
  BY <1>1, <1>2, FS_Subset
<1>4. Cardinality(Used(slots, size)) \in Nat
  BY <1>3, FS_CardinalityType
<1> QED
  BY <1>1, <1>3, <1>4

LEMMA HoleLeft ==
    ASSUME NEW size \in Nat, NEW slots, Cardinality(Used(slots, size)) # size
    PROVE  HasHole(slots, size)
<1> SUFFICES ASSUME ~ HasHole(slots, size) PROVE FALSE
  OBVIOUS
<1>1. Used(slots, size) = Slot(size)
  BY DEF HasHole, Used
<1>2. Cardinality(Used(slots, size)) = size
  BY <1>1, UsedFinite
<1> QED
  BY <1>2

LEMMA EmptyFacts ==
    ASSUME NEW size \in Nat
    PROVE  /\ Chained(Blank(size), size)
           /\ Used(Blank(size), size) = {} /\ Stored(Blank(size), size) = {}
           /\ Cardinality(Used(Blank(size), size)) = 0
<1>1. Used(Blank(size), size) = {}
  BY DEF Used, Blank
<1>2. Blank(size) \in Cells(size)
  BY DEF Blank, Cells
<1>3. Stored(Blank(size), size) = {}
  BY <1>1 DEF Stored
<1> QED
  BY <1>1, <1>2, <1>3, FS_EmptySet DEF Chained, Distinct, Unbroken

-----------------------------------------------------------------------------
(* Sizes *)

LEMMA LimitFacts ==
    ASSUME NEW n \in Nat
    PROVE  /\ FillLimit(n) \in Nat /\ FillLimit(n) <= n
           /\ n >= 4 => FillLimit(n) < n
           /\ FillLimit(4) = 3 /\ FillLimit(2) = 2 /\ FillLimit(0) = 0
           /\ n >= 2 => n + 1 <= FillLimit(2 * n)
<1>1. n \div 4 \in Nat /\ n \div 4 <= n /\ (n >= 4 => n \div 4 >= 1)
  OBVIOUS
<1>2. 4 \div 4 = 1 /\ 2 \div 4 = 0 /\ 0 \div 4 = 0
  OBVIOUS
<1>3. ASSUME n >= 2 PROVE n + 1 <= FillLimit(2 * n)
  <2>1. PICK m \in Nat : m = (2 * n) \div 4 /\ 2 * m <= n
    OBVIOUS
  <2>2. m + 1 <= n
    BY <1>3, <2>1
  <2> QED
    BY <2>1, <2>2 DEF FillLimit
<1> QED
  BY <1>1, <1>2, <1>3 DEF FillLimit

LEMMA SizeFacts ==
    /\ SizeOK(0) /\ SizeOK(2) /\ SizeOK(4)
    /\ \A e \in Nat : /\ Power[e] \in Nat
                      /\ Power[e] >= 2 => SizeOK(Power[e])
                      /\ e # 0 => Power[e] >= 2 /\ Power[e] \div 2 = Power[e - 1]
    /\ \A size \in Nat :
           SizeOK(size) /\ size # 0 => SizeOK(2 * size) /\ (size = 2 \/ size >= 4)
<1>1. \A e \in Nat : Power[e] \in Nat /\ Power[e] > e /\ Power[e + 1] = 2 * Power[e]
  BY PowerFacts
<1>2. Power[0] = 1 /\ Power[1] = 2 /\ Power[2] = 4
  <2>1. Power[0 + 1] = 2 * Power[0] /\ Power[1 + 1] = 2 * Power[1]
    BY <1>1
  <2> QED
    BY <2>1, PowerFacts
<1>3. ASSUME NEW e \in Nat, Power[e] >= 2 PROVE SizeOK(Power[e])
  <2>1. e # 0
    BY <1>2, <1>3
  <2>2. e >= 1
    BY <2>1
  <2> QED
    BY <2>2 DEF SizeOK
<1>4. ASSUME NEW e \in Nat, e # 0 PROVE Power[e] >= 2 /\ Power[e] \div 2 = Power[e - 1]
  <2>1. e - 1 \in Nat /\ (e - 1) + 1 = e
    BY <1>4
  <2>2. PICK p \in Nat : p = Power[e - 1] /\ p > e - 1
    BY <1>1, <2>1
  <2>3. Power[e] = 2 * p /\ p >= 1
    BY <1>1, <2>1, <2>2
  <2>4. (2 * p) \div 2 = p
    OBVIOUS
  <2> QED
    BY <2>2, <2>3, <2>4
<1>5. ASSUME NEW size \in Nat, SizeOK(size), size # 0
      PROVE  SizeOK(2 * size) /\ (size = 2 \/ size >= 4)
  <2>1. PICK e \in Nat : e >= 1 /\ size = Power[e]
    BY <1>5 DEF SizeOK
  <2>2. e + 1 \in Nat /\ e + 1 >= 1 /\ Power[e + 1] = 2 * size
    BY <1>1, <2>1
  <2>3. SizeOK(2 * size)
    BY <2>2 DEF SizeOK
  <2>4. CASE e = 1
    BY <1>2, <2>1, <2>3, <2>4
  <2>5. CASE e # 1
    <3>1. e - 1 \in Nat /\ e - 1 # 0 /\ (e - 1) + 1 = e
      BY <2>1, <2>5
    <3>2. PICK p \in Nat : p = Power[e - 1] /\ p >= 2
      BY <1>1, <1>4, <3>1
    <3>3. size = 2 * p
      BY <1>1, <2>1, <3>1, <3>2
    <3> QED
      BY <2>3, <3>2, <3>3
  <2> QED
    BY <2>4, <2>5
<1>6. SizeOK(0)
  BY DEF SizeOK
<1>7. SizeOK(4) /\ SizeOK(2)
  BY <1>2, <1>3
<1> QED
  BY <1>1, <1>3, <1>4, <1>5, <1>6, <1>7

LEMMA CapacityFacts ==
    ASSUME NEW capacity \in Nat
    PROVE  /\ SizeForCapacity(capacity) \in Nat /\ SizeOK(SizeForCapacity(capacity))
           /\ SizeForCapacity(capacity) >= 4
<1>1. CASE ~ (capacity >= MinSize)
  <2>1. SizeForCapacity(capacity) = 4
    BY <1>1 DEF SizeForCapacity, MinSize
  <2> QED
    BY <2>1, SizeFacts
<1>2. CASE capacity >= MinSize
  <2>1. PICK v \in Nat : v = capacity + (capacity \div 4) /\ v >= 4
    BY <1>2 DEF MinSize
  <2>2. PICK e \in Nat : Pow2Round(v) = Power[e] /\ Power[e] >= v
    BY RoundFacts
  <2>3. PICK x \in Nat : x = Power[e] /\ x >= 4 /\ x >= 2
    BY <2>1, <2>2, SizeFacts
  <2>4. SizeForCapacity(capacity) = Power[e]
    BY <1>2, <2>1, <2>2 DEF SizeForCapacity
  <2> QED
    BY <2>3, <2>4, SizeFacts
<1> QED
  BY <1>1, <1>2

LEMMA TableFacts ==
    ASSUME NEW t, TableOK(t)
    PROVE  /\ t.size \in Nat /\ t.count \in Nat /\ t.initial \in BOOLEAN
           /\ t.slots \in Cells(t.size)
           /\ \A i \in Used(t.slots, t.size) :
                  i \in Slot(t.size) /\ t.slots[i] \in Key /\ t.slots[i] # Hole
           /\ t.size # 0 => t.size = 2 \/ t.size >= 4
           /\ t.size = 0 => t.count = 0
           /\ t.count <= t.size
           /\ t.size >= 4 => t.count < t.size
           /\ t.count < t.size => HasHole(t.slots, t.size)
           /\ HasHole(t.slots, t.size) => t.count < t.size
<1>1. /\ t.size \in Nat /\ t.count \in Nat /\ t.initial \in BOOLEAN
      /\ t.slots \in Cells(t.size) /\ t.count = Cardinality(Used(t.slots, t.size))
  BY DEF TableOK
<1>2. \A i \in Used(t.slots, t.size) :
          i \in Slot(t.size) /\ t.slots[i] \in Key /\ t.slots[i] # Hole
  BY <1>1 DEF Used, Cells
<1>3. PICK n \in Nat, count \in Nat, limit \in Nat :
          n = t.size /\ count = t.count /\ limit = FillLimit(n)
  BY <1>1, LimitFacts
<1>4. t.size # 0 => t.size = 2 \/ t.size >= 4
  BY <1>1, SizeFacts DEF TableOK
<1>5. count <= limit
  BY <1>3 DEF TableOK
<1>6. count <= n /\ (n >= 4 => count < n) /\ (n = 0 => count = 0)
  <2>1. limit <= n /\ (n >= 4 => limit < n)
    BY <1>3, LimitFacts
  <2> QED
    BY <1>5, <2>1
<1>7. count < n => HasHole(t.slots, t.size)
  <2>1. count < n => count # n
    OBVIOUS
  <2> QED
    BY <1>1, <1>3, <2>1, HoleLeft
<1>8. HasHole(t.slots, t.size) => count < n
  <2> SUFFICES ASSUME HasHole(t.slots, t.size), count = n PROVE FALSE
    BY <1>6
  <2>1. PICK h \in Slot(t.size) : t.slots[h] = Hole
    BY DEF HasHole
  <2>2. IsFiniteSet(Slot(n)) /\ Cardinality(Slot(n)) = n
    BY UsedFinite
  <2>3. Used(t.slots, t.size) \subseteq Slot(n) /\ Used(t.slots, t.size) # Slot(n)
    BY <1>3, <2>1 DEF Used
  <2>4. Cardinality(Used(t.slots, t.size)) < n
    BY <2>2, <2>3, FS_Subset, FS_CardinalityType
  <2> QED
    BY <1>1, <1>3, <2>4
<1> QED
  BY <1>1, <1>2, <1>3, <1>4, <1>6, <1>7, <1>8

-----------------------------------------------------------------------------
(* Another storage *)

LEMMA StoreTyped ==
    ASSUME NEW size \in Nat, NEW slots \in Cells(size), NEW key \in Key
    PROVE  StorePointer(slots, size, key) \in Cells(size)
<1>1. PICK f : f = FirstProbe(key, size, {i \in Slot(size) : slots[i] = Hole})
  OBVIOUS
<1>2. StorePointer(slots, size, key) = [slots EXCEPT ![f] = key]
  BY <1>1 DEF StorePointer
<1> QED
  BY <1>2 DEF Cells

(* A copy holds the same keys.                                             *)
LEMMA CopyFacts ==
    ASSUME NEW t, TableOK(t), NEW size \in Nat \ {0}, t.count < size
    PROVE  /\ Chained(CopyStorage(t, size), size)
           /\ Stored(CopyStorage(t, size), size) = Stored(t.slots, t.size)
           /\ Cardinality(Used(CopyStorage(t, size), size)) = t.count
<1>0. size \in Nat
  OBVIOUS
<1>1. PICK n \in Nat : n = t.size
  BY TableFacts
<1>2. PICK src : src = t.slots
  OBVIOUS
<1>3. \A k \in 1 .. n : k - 1 \in Slot(n) /\ (src[k - 1] # Hole => src[k - 1] \in Key)
  <2>1. \A k \in 1 .. n : k - 1 \in Slot(n)
    BY DEF Slot
  <2>2. src \in Cells(n)
    BY <1>1, <1>2, TableFacts
  <2> QED
    BY <2>1, <2>2 DEF Cells
<1>4. /\ Chained(src, n) /\ Cardinality(Used(src, n)) < size
      /\ Cardinality(Used(src, n)) = t.count
  BY <1>1, <1>2 DEF TableOK
<1> DEFINE X    == Cells(size)
           next(x, k) == IF src[k - 1] = Hole THEN x ELSE StorePointer(x, size, src[k - 1])
           step == [x \in X |-> [k \in Nat |-> IF k \in 1 .. n THEN next(x, k) ELSE x]]
<1>5. Blank(size) \in X
  BY <1>0, EmptyFacts DEF Chained
<1>6. \A x \in X, k \in 1 .. n : next(x, k) \in X
  BY <1>0, <1>3, StoreTyped
<1>7. PICK f \in [0 .. n -> X] : IsRun(f, n, Blank(size), step)
  <2>1. step \in [X -> [Nat -> X]]
    BY <1>6
  <2> HIDE DEF step, X
  <2> QED
    BY <1>5, <2>1, RunExists
<1> DEFINE Eq(g) == g = [k \in 0 .. n |->
                            IF k = 0 THEN Blank(size)
                            ELSE IF src[k - 1] = Hole THEN g[k - 1]
                            ELSE StorePointer(g[k - 1], size, src[k - 1])]
           copied == CHOOSE g : Eq(g)
<1>8. Eq(f)
  <2>1. ASSUME NEW k \in 1 .. n PROVE f[k] = next(f[k - 1], k)
    <3>1. k - 1 \in 0 .. n /\ k \in Nat /\ f[k - 1] \in X
      OBVIOUS
    <3>2. f[k] = step[f[k - 1]][k]
      BY <1>7 DEF IsRun
    <3> QED
      BY <3>1, <3>2
  <2>2. f[0] = Blank(size)
    BY <1>7 DEF IsRun
  <2>3. \A k \in 0 .. n : k = 0 \/ k \in 1 .. n
    OBVIOUS
  <2> HIDE DEF step, X
  <2> QED
    BY <2>1, <2>2, <2>3
<1>9. Eq(copied)
  BY <1>8
<1>10. CopyStorage(t, size) = copied[n]
  BY <1>1, <1>2 DEF CopyStorage
<1> HIDE DEF copied, step, X
<1> DEFINE F(k) == {i \in Used(src, n) : i < k}
           Copies(k) == /\ Chained(copied[k], size)
                        /\ Stored(copied[k], size) = {src[i] : i \in F(k)}
                        /\ Cardinality(Used(copied[k], size)) = Cardinality(F(k))
           T == {k \in Nat : k <= n => Copies(k)}
<1>11. 0 \in T
  <2>1. copied[0] = Blank(size)
    <3>1. 0 \in 0 .. n
      OBVIOUS
    <3> QED
      BY <1>9, <3>1
  <2>2. F(0) = {}
    BY DEF Used, Slot
  <2>3. {src[i] : i \in F(0)} = {} /\ Cardinality(F(0)) = 0
    BY <2>2, FS_EmptySet
  <2> HIDE DEF F
  <2> QED
    BY <1>0, <2>1, <2>3, EmptyFacts
<1>12. ASSUME NEW k \in Nat, k \in T, k + 1 <= n PROVE Copies(k + 1)
  <2>1. Copies(k)
    BY <1>12
  <2>2. PICK c : c = copied[k]
    OBVIOUS
  <2>3. k \in Slot(n) /\ k + 1 \in 0 .. n /\ k + 1 \in 1 .. n /\ (k + 1) - 1 = k /\ k + 1 # 0
    BY <1>12 DEF Slot
  <2>4. copied[k + 1] = IF src[k] = Hole THEN c ELSE StorePointer(c, size, src[k])
    BY <1>9, <2>2, <2>3
  <2>5. CASE src[k] = Hole
    <3>1. F(k + 1) = F(k)
      BY <2>5 DEF Used, Slot
    <3>2. copied[k + 1] = copied[k]
      BY <2>2, <2>4, <2>5
    <3> HIDE DEF F
    <3> QED
      BY <2>1, <3>1, <3>2
  <2>6. CASE src[k] # Hole
    <3>1. F(k + 1) = F(k) \cup {k} /\ k \notin F(k) /\ k \in Used(src, n)
      BY <2>3, <2>6 DEF Used, Slot
    <3>2. F(k) \subseteq Used(src, n) /\ F(k + 1) \subseteq Used(src, n)
      OBVIOUS
    <3>3. IsFiniteSet(Used(src, n))
      BY UsedFinite
    <3>4. /\ IsFiniteSet(F(k)) /\ Cardinality(F(k)) \in Nat
          /\ Cardinality(F(k + 1)) = Cardinality(F(k)) + 1
          /\ Cardinality(F(k)) <= Cardinality(Used(src, n))
      <4> HIDE DEF F
      <4>1. IsFiniteSet(F(k)) /\ Cardinality(F(k)) <= Cardinality(Used(src, n))
        BY <3>2, <3>3, FS_Subset
      <4>2. Cardinality(F(k)) \in Nat
        BY <4>1, FS_CardinalityType
      <4>3. Cardinality(F(k) \cup {k}) = Cardinality(F(k)) + 1
        BY <3>1, <4>1, FS_AddElement
      <4> QED
        BY <3>1, <4>1, <4>2, <4>3
    <3>5. PICK key \in Key : key = src[k]
      BY <1>3, <2>3, <2>6
    <3>6. \A i \in Used(c, size) : ~ IsEqual(c[i], key)
      <4> TAKE i \in Used(c, size)
      <4>1. c[i] \in Stored(c, size)
        BY DEF Stored
      <4>2. PICK j \in F(k) : c[i] = src[j]
        BY <2>1, <2>2, <4>1
      <4>3. j \in Used(src, n) /\ j # k
        BY <3>1
      <4> QED
        BY <1>4, <3>1, <3>5, <4>2, <4>3 DEF Chained, Distinct
    <3>7. Chained(c, size) /\ Cardinality(Used(c, size)) = Cardinality(F(k))
      BY <2>1, <2>2
    <3>8. HasHole(c, size)
      <4>1. PICK a \in Nat : a = Cardinality(F(k))
        BY <3>4
      <4>2. PICK b \in Nat : b = Cardinality(Used(src, n))
        BY UsedFinite
      <4>3. a <= b /\ b < size
        BY <1>4, <3>4, <4>1, <4>2
      <4>4. Cardinality(Used(c, size)) # size
        BY <1>0, <3>7, <4>1, <4>3
      <4> QED
        BY <1>0, <4>4, HoleLeft
    <3>9. PICK stored : stored = StorePointer(c, size, key)
      OBVIOUS
    <3>10. /\ Chained(stored, size) /\ Stored(stored, size) = Stored(c, size) \cup {key}
           /\ \E h \in Slot(size) : /\ c[h] = Hole
                                    /\ Used(stored, size) = Used(c, size) \cup {h}
      BY <3>6, <3>7, <3>8, <3>9, StoreFacts
    <3>11. Cardinality(Used(stored, size)) = Cardinality(Used(c, size)) + 1
      <4>1. PICK h \in Slot(size) : c[h] = Hole /\ Used(stored, size) = Used(c, size) \cup {h}
        BY <3>10
      <4>2. h \notin Used(c, size)
        BY <4>1 DEF Used
      <4>3. IsFiniteSet(Used(c, size))
        BY <1>0, UsedFinite
      <4> QED
        BY <4>1, <4>2, <4>3, FS_AddElement
    <3>12. copied[k + 1] = stored
      BY <2>4, <2>6, <3>5, <3>9
    <3>13. {src[i] : i \in F(k + 1)} = {src[i] : i \in F(k)} \cup {key}
      <4> HIDE DEF F
      <4> QED
        BY <3>1, <3>5
    <3>14. Stored(c, size) = {src[i] : i \in F(k)}
      BY <2>1, <2>2
    <3> HIDE DEF F
    <3> QED
      BY <3>4, <3>7, <3>10, <3>11, <3>12, <3>13, <3>14
  <2> QED
    BY <2>5, <2>6
<1>13. Copies(n)
  <2> HIDE DEF Copies
  <2>1. \A k \in Nat : k \in T => k + 1 \in T
    BY <1>12
  <2> HIDE DEF T
  <2>2. \A k \in Nat : k \in T
    BY <1>11, <2>1, Induction
  <2> QED
    BY <2>2 DEF T
<1>14. F(n) = Used(src, n)
  BY DEF Used, Slot
<1>15. {src[i] : i \in F(n)} = Stored(t.slots, t.size)
  BY <1>1, <1>2, <1>14 DEF Stored
<1> HIDE DEF F
<1> QED
  BY <1>4, <1>10, <1>13, <1>14, <1>15

-----------------------------------------------------------------------------
(* Shrinking *)

(* However often the size is halved, it stays a power of two with room for *)
(* the keys and one more.                                                  *)
LEMMA ShrunkFacts ==
    ASSUME NEW t, TableOK(t), IsSparseSize(t, t.size)
    PROVE  /\ ShrunkSize(t) \in Nat /\ ShrunkSize(t) >= 4 /\ SizeOK(ShrunkSize(t))
           /\ t.count < FillLimit(ShrunkSize(t))
<1>1. PICK n \in Nat, count \in Nat : n = t.size /\ count = t.count
  BY TableFacts
<1> DEFINE sparse(x) == count < FillLimit(x \div 2)
           next(x)   == IF x >= InitialSize /\ sparse(x) THEN x \div 2 ELSE x
           step      == [x \in Nat |-> [k \in Nat |-> next(x)]]
           Room(x)   == (\E e \in Nat : x = Power[e]) /\ count < FillLimit(x)
<1>2. \A x : IsSparseSize(t, x) <=> sparse(x)
  BY <1>1 DEF IsSparseSize
<1>3. n # 0 /\ n \div 2 \in Nat /\ Room(n \div 2)
  <2>1. count < FillLimit(n \div 2)
    BY <1>1, <1>2 DEF IsSparseSize
  <2>2. 0 \div 2 = 0
    OBVIOUS
  <2>3. n # 0
    BY <2>1, <2>2, LimitFacts
  <2>4. PICK e \in Nat : e >= 1 /\ n = Power[e]
    BY <1>1, <2>3 DEF TableOK, SizeOK
  <2>5. e # 0 /\ e - 1 \in Nat
    BY <2>4
  <2>6. n \div 2 = Power[e - 1]
    BY <2>4, <2>5, SizeFacts
  <2>7. Power[e - 1] \in Nat
    BY <2>5, SizeFacts
  <2> QED
    BY <2>1, <2>3, <2>5, <2>6, <2>7
<1>4. PICK f \in [0 .. n -> Nat] : IsRun(f, n, n \div 2, step)
  <2>1. step \in [Nat -> [Nat -> Nat]]
    <3>1. \A x \in Nat : x \div 2 \in Nat
      OBVIOUS
    <3>2. \A x \in Nat : next(x) \in Nat
      BY <3>1
    <3> HIDE DEF next
    <3> QED
      BY <3>2
  <2> HIDE DEF step
  <2> QED
    BY <1>3, <2>1, RunExists
<1> DEFINE Eq(g) == g = [k \in 0 .. n |->
                            IF k = 0 THEN n \div 2
                            ELSE IF g[k - 1] >= InitialSize /\ IsSparseSize(t, g[k - 1])
                                 THEN g[k - 1] \div 2
                                 ELSE g[k - 1]]
           halved == CHOOSE g : Eq(g)
<1>5. Eq(f)
  <2>1. ASSUME NEW k \in 1 .. n PROVE f[k] = next(f[k - 1])
    <3>1. k - 1 \in 0 .. n /\ k \in Nat /\ f[k - 1] \in Nat
      OBVIOUS
    <3>2. f[k] = step[f[k - 1]][k]
      BY <1>4 DEF IsRun
    <3> HIDE DEF next
    <3> QED
      BY <3>1, <3>2
  <2>2. f[0] = n \div 2
    BY <1>4 DEF IsRun
  <2>3. \A k \in 0 .. n : k = 0 \/ k \in 1 .. n
    OBVIOUS
  <2> HIDE DEF step, sparse
  <2> QED
    BY <1>2, <2>1, <2>2, <2>3
<1>6. Eq(halved)
  BY <1>5
<1>7. ShrunkSize(t) = IF halved[n] < InitialSize THEN InitialSize ELSE halved[n]
  BY <1>1 DEF ShrunkSize
<1> HIDE DEF halved, step
<1> DEFINE T == {k \in Nat : k <= n => Room(halved[k])}
<1>8. 0 \in T
  <2>1. 0 \in 0 .. n
    OBVIOUS
  <2>2. halved[0] = n \div 2
    BY <1>6, <2>1
  <2> HIDE DEF Room
  <2> QED
    BY <1>3, <2>2
<1>9. ASSUME NEW k \in Nat, k \in T PROVE k + 1 \in T
  <2> SUFFICES ASSUME k + 1 <= n PROVE Room(halved[k + 1])
    OBVIOUS
  <2>1. k + 1 \in 0 .. n /\ (k + 1) - 1 = k /\ k + 1 # 0 /\ k <= n
    OBVIOUS
  <2>2. PICK x : x = halved[k]
    OBVIOUS
  <2>3. Room(x)
    BY <1>9, <2>1, <2>2
  <2>4. halved[k + 1] = next(x)
    <3> HIDE DEF Room, sparse
    <3>1. halved[k + 1] = IF halved[k] >= InitialSize /\ IsSparseSize(t, halved[k])
                          THEN halved[k] \div 2 ELSE halved[k]
      BY <1>6, <2>1
    <3> QED
      BY <1>2, <2>2, <3>1
  <2>5. CASE x >= InitialSize /\ sparse(x)
    <3>1. PICK e \in Nat : x = Power[e]
      BY <2>3
    <3>2. e # 0
      <4>1. Power[0] = 1
        BY PowerFacts
      <4> QED
        BY <2>5, <3>1, <4>1 DEF InitialSize
    <3>3. e - 1 \in Nat /\ x \div 2 = Power[e - 1]
      <4>1. e - 1 \in Nat
        BY <3>2
      <4>2. Power[e] \div 2 = Power[e - 1]
        BY <3>2, SizeFacts
      <4> QED
        BY <3>1, <4>1, <4>2
    <3> QED
      BY <2>4, <2>5, <3>3
  <2>6. CASE ~ (x >= InitialSize /\ sparse(x))
    <3> HIDE DEF Room, sparse
    <3> QED
      BY <2>3, <2>4, <2>6
  <2> QED
    BY <2>5, <2>6
<1>10. Room(halved[n])
  <2> HIDE DEF Room
  <2>0. \A k \in Nat : k \in T => k + 1 \in T
    BY <1>9
  <2> HIDE DEF T
  <2>1. \A k \in Nat : k \in T
    BY <1>8, <2>0, Induction
  <2> QED
    BY <2>1 DEF T
<1>11. PICK e \in Nat : halved[n] = Power[e]
  BY <1>10
<1>12. PICK x \in Nat : x = halved[n] /\ (x >= 2 => SizeOK(x))
  BY <1>11, SizeFacts
<1>13. CASE x < InitialSize
  <2>1. ShrunkSize(t) = 4
    BY <1>7, <1>12, <1>13 DEF InitialSize
  <2>2. FillLimit(x) \in Nat /\ FillLimit(x) <= x /\ FillLimit(4) = 3
    BY LimitFacts
  <2>3. x < 4
    BY <1>13 DEF InitialSize
  <2>4. count < FillLimit(x)
    BY <1>10, <1>12
  <2>5. PICK y \in Nat : y = FillLimit(x)
    BY <2>2
  <2>6. count < 3
    BY <2>2, <2>3, <2>4, <2>5
  <2>7. SizeOK(4)
    BY SizeFacts
  <2>8. FillLimit(ShrunkSize(t)) = 3
    BY <2>1, <2>2
  <2> QED
    BY <1>1, <2>1, <2>6, <2>7, <2>8
<1>14. CASE ~ (x < InitialSize)
  <2>1. ShrunkSize(t) = x /\ x >= 4
    BY <1>7, <1>12, <1>14 DEF InitialSize
  <2>2. count < FillLimit(x)
    BY <1>10, <1>12
  <2> QED
    BY <1>1, <1>12, <2>1, <2>2
<1> QED
  BY <1>13, <1>14

-----------------------------------------------------------------------------
(* Deletion *)

(* how far the loop of remove has to walk from found to j                  *)
Off(found, j, size) == IF found <= j THEN j - found ELSE j - found + size

LEMMA OffFacts ==
    ASSUME NEW size \in Nat \ {0}, NEW found \in Slot(size)
    PROVE  /\ Off(found, found, size) = 0
           /\ \A j \in Slot(size) : Off(found, j, size) \in 0 .. size - 1
           /\ \A i, j \in Slot(size) : Off(found, i, size) = Off(found, j, size) => i = j
           /\ \A n \in 0 .. size - 1 : /\ (found + n) % size \in Slot(size)
                                       /\ Off(found, (found + n) % size, size) = n
<1>1. \A n \in 0 .. size - 1 :
          (found + n) % size = IF found + n < size THEN found + n ELSE found + n - size
  BY Wraps DEF Slot
<1>2. ASSUME NEW n \in 0 .. size - 1
      PROVE  (found + n) % size \in Slot(size) /\ Off(found, (found + n) % size, size) = n
  <2>1. PICK i : i = (found + n) % size
    OBVIOUS
  <2>2. i = IF found + n < size THEN found + n ELSE found + n - size
    BY <1>1, <2>1
  <2>3. i \in Slot(size) /\ Off(found, i, size) = n
    BY <2>2 DEF Slot, Off
  <2> QED
    BY <2>1, <2>3
<1>3. Off(found, found, size) = 0
  BY DEF Off, Slot
<1>4. \A j \in Slot(size) : Off(found, j, size) \in 0 .. size - 1
  BY DEF Off, Slot
<1>5. \A i, j \in Slot(size) : Off(found, i, size) = Off(found, j, size) => i = j
  BY DEF Off, Slot
<1> QED
  BY <1>2, <1>3, <1>4, <1>5

(* A key stays exactly if the gap is not on its probe.                     *)
LEMMA StaysFacts ==
    ASSUME NEW size \in Nat, NEW h \in Slot(size), NEW d \in Slot(size),
           NEW i \in Slot(size), d # i
    PROVE  StaysPut(h, d, i) <=> ~ Before(h, d, i)
BY DEF StaysPut, Before, Slot

LEMMA BeforeOrder ==
    ASSUME NEW size \in Nat, NEW h \in Slot(size), NEW i \in Slot(size),
           NEW d \in Slot(size), Before(h, d, i)
    PROVE  ~ Before(h, i, d) /\ \A j \in Slot(size) : Before(h, j, d) => Before(h, j, i)
BY DEF Before, Slot

(* A probe that arrives at x and sees d sees what the walk finds between.  *)
LEMMA SeesBetween ==
    ASSUME NEW size \in Nat, NEW found \in Slot(size), NEW h \in Slot(size),
           NEW d \in Slot(size), NEW i \in Slot(size), NEW x \in Slot(size),
           Off(found, d, size) < Off(found, i, size),
           Off(found, i, size) < Off(found, x, size),
           Before(h, d, x)
    PROVE  Before(h, i, x)
BY DEF Before, Slot, Off

(* One that sees i and has to come around to x sees all that lies between. *)
LEMMA SeesAround ==
    ASSUME NEW size \in Nat, NEW found \in Slot(size), NEW h \in Slot(size),
           NEW i \in Slot(size), NEW x \in Slot(size),
           Off(found, x, size) < Off(found, i, size), Before(h, i, x)
    PROVE  \A j \in Slot(size) : \/ Off(found, j, size) > Off(found, i, size)
                                 \/ Off(found, j, size) < Off(found, x, size)
                                 => Before(h, j, x)
BY DEF Before, Slot, Off

(* The loop of remove: s are the slots after n steps, d is the gap, the    *)
(* stale key at d does not count.                                          *)
Gap(slots, size, found, n, s, d) ==
    /\ s \in Cells(size)
    /\ \A x \in Slot(size) : s[x] = Hole <=> slots[x] = Hole
    /\ d \in Slot(size) /\ Off(found, d, size) <= n
    /\ \A x \in Slot(size) : Off(found, x, size) <= n => slots[x] # Hole
    /\ {s[x] : x \in Used(slots, size) \ {d}} = {slots[x] : x \in Used(slots, size) \ {found}}
    /\ \A x, y \in Used(slots, size) \ {d} : IsEqual(s[x], s[y]) => x = y
    /\ \A x \in Used(slots, size) \ {d}, j \in Slot(size) :
           Before(Home(s, size, x), j, x) => slots[j] # Hole
    \* the gap is on no probe for a key that was walked past
    /\ \A x \in Used(slots, size) \ {d} :
           Off(found, x, size) <= n => ~ Before(Home(s, size, x), d, x)

Closed(slots, size, found, s) ==
    /\ Chained(s, size)
    /\ Stored(s, size) = {slots[x] : x \in Used(slots, size) \ {found}}
    /\ \E d \in Used(slots, size) : Used(s, size) = Used(slots, size) \ {d}

LEMMA GapStarts ==
    ASSUME NEW size \in Nat \ {0}, NEW slots, Chained(slots, size), NEW found \in Used(slots, size)
    PROVE  Gap(slots, size, found, 0, slots, found)
<1>1. found \in Slot(size) /\ slots[found] # Hole
  BY DEF Used
<1>2. Off(found, found, size) = 0
  BY <1>1, OffFacts
<1>3. \A x \in Slot(size) : Off(found, x, size) <= 0 => x = found
  BY <1>1, OffFacts
<1>4. slots \in Cells(size)
  BY DEF Chained
<1>5. \A x, y \in Used(slots, size) \ {found} : IsEqual(slots[x], slots[y]) => x = y
  BY DEF Chained, Distinct
<1>6. \A x \in Used(slots, size) \ {found}, j \in Slot(size) :
          Before(Home(slots, size, x), j, x) => slots[j] # Hole
  BY DEF Chained, Unbroken
<1>7. \A x \in Used(slots, size) \ {found} : ~ (Off(found, x, size) <= 0)
  BY <1>3 DEF Used
<1>8. Off(found, found, size) <= 0
  BY <1>2
<1> QED
  BY <1>1, <1>3, <1>4, <1>5, <1>6, <1>7, <1>8 DEF Gap

LEMMA GapTyped ==
    ASSUME NEW size \in Nat \ {0}, NEW slots, NEW found, NEW n, NEW s, NEW d,
           Gap(slots, size, found, n, s, d)
    PROVE  \A x \in Used(slots, size) :
               /\ x \in Slot(size) /\ s[x] \in Key /\ s[x] # Hole
               /\ s[x] \in Key /\ Home(s, size, x) \in Slot(size)
<1> TAKE x \in Used(slots, size)
<1>1. x \in Slot(size) /\ slots[x] # Hole
  BY DEF Used
<1>2. s[x] \in Key /\ s[x] # Hole
  BY <1>1 DEF Gap, Cells
<1>3. s[x] \in Key
  BY <1>2
<1> QED
  BY <1>1, <1>2, <1>3, HomeFacts DEF Home

LEMMA GapCloses ==
    ASSUME NEW size \in Nat \ {0}, NEW slots, NEW found \in Slot(size), NEW n \in Nat,
           NEW s, NEW d, Gap(slots, size, found, n, s, d),
           NEW i \in Slot(size), Off(found, i, size) = n + 1, s[i] = Hole,
           NEW r, r = [s EXCEPT ![d] = Hole]
    PROVE  Closed(slots, size, found, r)
<1> DEFINE U == Used(slots, size)
<1>1. /\ s \in Cells(size) /\ d \in Slot(size)
      /\ \A x \in Slot(size) : s[x] = Hole <=> slots[x] = Hole
  BY DEF Gap
<1>2. r \in Cells(size) /\ r[d] = Hole /\ \A x \in Slot(size) : x # d => r[x] = s[x]
  BY <1>1 DEF Cells
<1>3. d \in U
  BY <1>1 DEF Gap, Used
<1>4. Used(r, size) = U \ {d}
  BY <1>1, <1>2 DEF Used
<1>5. \A x \in U \ {d} : r[x] = s[x] /\ x \in Slot(size)
  BY <1>2 DEF Used
<1>6. Distinct(r, size)
  BY <1>4, <1>5 DEF Gap, Distinct
<1>7. Unbroken(r, size)
  <2> SUFFICES ASSUME NEW x \in U \ {d}, NEW j \in Slot(size), Before(Home(r, size, x), j, x)
               PROVE  r[j] # Hole
    BY <1>4 DEF Unbroken
  <2>1. PICK h \in Slot(size) : h = Home(s, size, x) /\ h = Home(r, size, x)
    <3>1. Home(s, size, x) = Home(r, size, x)
      BY <1>5 DEF Home
    <3> QED
      BY <3>1, GapTyped
  <2>2. Before(h, j, x) /\ x \in Slot(size) /\ x # d
    BY <1>5, <2>1
  <2>3. \A y \in Slot(size) : Before(h, y, x) => slots[y] # Hole
    BY <2>1 DEF Gap
  <2>4. j # d
    <3> SUFFICES ASSUME Before(h, d, x) PROVE FALSE
      BY <2>2
    <3>1. ~ (Off(found, x, size) <= n)
      BY <2>1 DEF Gap
    <3>2. slots[i] = Hole /\ slots[x] # Hole
      BY <1>1 DEF Used
    <3>3. PICK a \in Nat, b \in Nat : a = Off(found, x, size) /\ b = Off(found, d, size)
      BY <1>1, <2>2, OffFacts
    <3>4. a # n + 1
      <4>1. x # i
        BY <3>2
      <4> QED
        BY <2>2, <3>3, <4>1, OffFacts
    <3>5. b <= n
      BY <3>3 DEF Gap
    <3>6. b < n + 1 /\ n + 1 < a
      BY <3>1, <3>3, <3>4, <3>5
    <3>7. Before(h, i, x)
      BY <1>1, <2>2, <3>3, <3>6, SeesBetween
    <3> QED
      BY <2>3, <3>2, <3>7
  <2> QED
    BY <1>1, <1>2, <2>2, <2>3, <2>4
<1>8. Stored(r, size) = {slots[x] : x \in U \ {found}}
  <2>1. Stored(r, size) = {s[x] : x \in U \ {d}}
    BY <1>4, <1>5 DEF Stored
  <2> QED
    BY <2>1 DEF Gap
<1> QED
  BY <1>2, <1>3, <1>4, <1>6, <1>7, <1>8 DEF Closed, Chained

LEMMA GapStays ==
    ASSUME NEW size \in Nat \ {0}, NEW slots, NEW found \in Slot(size), NEW n \in Nat,
           NEW s, NEW d, Gap(slots, size, found, n, s, d),
           NEW i \in Slot(size), Off(found, i, size) = n + 1, s[i] # Hole,
           StaysPut(Home(s, size, i), d, i)
    PROVE  Gap(slots, size, found, n + 1, s, d)
<1>1. d \in Slot(size) /\ Off(found, d, size) <= n /\ slots[i] # Hole
  BY DEF Gap
<1>2. \A x \in Slot(size) : Off(found, x, size) <= n + 1 => Off(found, x, size) <= n \/ x = i
  <2> TAKE x \in Slot(size)
  <2>1. PICK a \in Nat : a = Off(found, x, size)
    BY OffFacts
  <2>0. \A y, z \in Slot(size) : Off(found, y, size) = Off(found, z, size) => y = z
    BY OffFacts
  <2>2. a = n + 1 => x = i
    BY <2>0, <2>1
  <2> QED
    BY <2>1, <2>2
<1>3. Off(found, d, size) <= n + 1 /\ d # i
  <2>1. PICK a \in Nat : a = Off(found, d, size)
    BY <1>1, OffFacts
  <2> QED
    BY <1>1, <2>1
<1>4. ~ Before(Home(s, size, i), d, i)
  <2>1. i \in Used(slots, size)
    BY <1>1 DEF Used
  <2>2. Home(s, size, i) \in Slot(size)
    BY <2>1, GapTyped
  <2> QED
    BY <1>1, <1>3, <2>2, StaysFacts
<1>5. \A x \in Slot(size) : Off(found, x, size) <= n + 1 => slots[x] # Hole
  BY <1>1, <1>2 DEF Gap
<1>6. \A x \in Used(slots, size) \ {d} :
          Off(found, x, size) <= n + 1 => ~ Before(Home(s, size, x), d, x)
  BY <1>2, <1>4 DEF Gap, Used
<1> QED
  BY <1>3, <1>5, <1>6 DEF Gap

LEMMA GapMoves ==
    ASSUME NEW size \in Nat \ {0}, NEW slots, HasHole(slots, size), NEW found \in Slot(size),
           NEW n \in Nat, NEW s, NEW d, Gap(slots, size, found, n, s, d),
           NEW i \in Slot(size), Off(found, i, size) = n + 1, s[i] # Hole,
           ~ StaysPut(Home(s, size, i), d, i),
           NEW r, r = [s EXCEPT ![d] = s[i]]
    PROVE  Gap(slots, size, found, n + 1, r, i)
<1> DEFINE U == Used(slots, size)
<1>1. /\ s \in Cells(size) /\ d \in Slot(size)
      /\ \A x \in Slot(size) : s[x] = Hole <=> slots[x] = Hole
      /\ Off(found, d, size) <= n /\ slots[d] # Hole /\ slots[i] # Hole
  BY DEF Gap
<1>2. i \in U /\ d \in U /\ s[i] \in Key
  <2>1. i \in U /\ d \in U
    BY <1>1 DEF Used
  <2> QED
    BY <2>1, GapTyped
<1>3. r \in Cells(size) /\ r[d] = s[i] /\ \A x \in Slot(size) : x # d => r[x] = s[x]
  BY <1>1, <1>2 DEF Cells
<1>4. \A x \in Slot(size) : Off(found, x, size) \in Nat
                            /\ (Off(found, x, size) <= n + 1 => Off(found, x, size) <= n \/ x = i)
  <2> TAKE x \in Slot(size)
  <2>1. PICK a \in Nat : a = Off(found, x, size)
    BY OffFacts
  <2>0. \A y, z \in Slot(size) : Off(found, y, size) = Off(found, z, size) => y = z
    BY OffFacts
  <2>2. a = n + 1 => x = i
    BY <2>0, <2>1
  <2> QED
    BY <2>1, <2>2
<1>5. d # i
  BY <1>1, <1>4
<1>6. \A x \in Slot(size) : r[x] = Hole <=> slots[x] = Hole
  BY <1>1, <1>3
<1>7. \A x \in U : x \in Slot(size)
  BY DEF Used
<1>8. PICK h \in Slot(size) : h = Home(s, size, i)
  BY <1>2, GapTyped
<1>9. Before(h, d, i) /\ ~ Before(h, i, d) /\ \A j \in Slot(size) : Before(h, j, d) => Before(h, j, i)
  BY <1>1, <1>5, <1>8, StaysFacts, BeforeOrder
<1>10. Home(r, size, d) = h /\ \A x \in U \ {d} : Home(r, size, x) = Home(s, size, x)
  BY <1>3, <1>7, <1>8 DEF Home
<1>11. \A x \in Slot(size) : Off(found, x, size) <= n + 1 => slots[x] # Hole
  BY <1>1, <1>4 DEF Gap
<1>12. {r[x] : x \in U \ {i}} = {slots[x] : x \in U \ {found}}
  <2>1. {r[x] : x \in U \ {i}} = {s[x] : x \in U \ {d}}
    <3>1. ASSUME NEW x \in U \ {i} PROVE \E y \in U \ {d} : r[x] = s[y]
      <4>1. x = d => i \in U \ {d} /\ r[x] = s[i]
        BY <1>2, <1>3, <1>5
      <4>2. x # d => x \in U \ {d} /\ r[x] = s[x]
        BY <1>3, <1>7
      <4> QED
        BY <4>1, <4>2
    <3>2. ASSUME NEW y \in U \ {d} PROVE \E x \in U \ {i} : r[x] = s[y]
      <4>1. y = i => d \in U \ {i} /\ r[d] = s[y]
        BY <1>2, <1>3, <1>5
      <4>2. y # i => y \in U \ {i} /\ r[y] = s[y]
        BY <1>3, <1>7
      <4> QED
        BY <4>1, <4>2
    <3> QED
      BY <3>1, <3>2
  <2> QED
    BY <2>1 DEF Gap
<1>13. ASSUME NEW x \in U \ {i}, NEW y \in U \ {i}, IsEqual(r[x], r[y]) PROVE x = y
  <2>1. \A u, v \in U \ {d} : IsEqual(s[u], s[v]) => u = v
    BY DEF Gap
  <2>2. CASE x = d /\ y # d
    BY <1>2, <1>3, <1>5, <1>7, <1>13, <2>1, <2>2
  <2>3. CASE x # d /\ y = d
    BY <1>2, <1>3, <1>5, <1>7, <1>13, <2>1, <2>3
  <2>4. CASE x # d /\ y # d
    BY <1>3, <1>7, <1>13, <2>1, <2>4
  <2> QED
    BY <2>2, <2>3, <2>4
<1>14. ASSUME NEW x \in U \ {i}, NEW j \in Slot(size), Before(Home(r, size, x), j, x)
       PROVE  slots[j] # Hole
  <2>1. \A u \in U \ {d} : Before(Home(s, size, u), j, u) => slots[j] # Hole
    BY DEF Gap
  <2>2. CASE x = d
    BY <1>2, <1>5, <1>8, <1>9, <1>10, <1>14, <2>1, <2>2
  <2>3. CASE x # d
    BY <1>10, <1>14, <2>1, <2>3
  <2> QED
    BY <2>2, <2>3
<1>15. ASSUME NEW x \in U \ {i}, Off(found, x, size) <= n + 1, Before(Home(r, size, x), i, x)
       PROVE  FALSE
  <2>1. x # d
    BY <1>9, <1>10, <1>15
  <2>2. PICK g \in Slot(size) : g = Home(s, size, x) /\ g = Home(r, size, x)
    BY <1>10, <2>1, GapTyped
  <2>3. x \in Slot(size) /\ Before(g, i, x)
    BY <1>7, <1>15, <2>2
  <2>4. PICK a \in Nat, b \in Nat : a = Off(found, x, size) /\ b = Off(found, d, size)
    BY <1>1, <1>4, <2>3
  <2>5. a <= n /\ b <= n /\ a # b
    <3>1. a # b
      BY <1>1, <2>1, <2>3, <2>4, OffFacts
    <3> QED
      BY <1>1, <1>4, <1>15, <2>3, <2>4, <3>1
  <2>6. ~ Before(g, d, x)
    BY <2>1, <2>2, <2>4, <2>5 DEF Gap
  <2>7. a < n + 1
    BY <2>5
  <2>8. \A j \in Slot(size) : \/ Off(found, j, size) > n + 1
                              \/ Off(found, j, size) < a
                              => Before(g, j, x)
    BY <2>3, <2>4, <2>7, SeesAround
  <2>9. ASSUME NEW j \in Slot(size) PROVE slots[j] # Hole
    <3>1. PICK c \in Nat : c = Off(found, j, size)
      BY <1>4
    <3>2. CASE c > n + 1
      <4>1. Before(g, j, x)
        BY <2>8, <3>1, <3>2
      <4> QED
        BY <2>1, <2>2, <4>1 DEF Gap
    <3>3. CASE c <= n + 1
      BY <1>11, <3>1, <3>3
    <3> QED
      BY <3>2, <3>3
  <2> QED
    BY <2>9 DEF HasHole
<1>16. Off(found, i, size) <= n + 1
  OBVIOUS
<1> HIDE DEF U
<1> QED
  BY <1>3, <1>6, <1>11, <1>12, <1>13, <1>14, <1>15, <1>16 DEF Gap, U

LEMMA CloseGapFacts ==
    ASSUME NEW size \in Nat \ {0}, NEW slots, Chained(slots, size), HasHole(slots, size),
           NEW found \in Used(slots, size)
    PROVE  Closed(slots, size, found, CloseGap(slots, size, found))
<1>0. size \in Nat /\ found \in Slot(size)
  BY DEF Used
<1> DEFINE X       == [slots : Cells(size), dst : Slot(size), done : BOOLEAN]
           start   == [slots |-> slots, dst |-> found, done |-> FALSE]
           at(k)   == (found + k) % size
           next(w, k) ==
               IF w.done THEN w
               ELSE IF w.slots[at(k)] = Hole
                    THEN [w EXCEPT !.slots[w.dst] = Hole, !.done = TRUE]
               ELSE IF StaysPut(HashForSize(w.slots[at(k)], size), w.dst, at(k))
                    THEN w
               ELSE [w EXCEPT !.slots[w.dst] = w.slots[at(k)], !.dst = at(k)]
           step == [w \in X |-> [k \in Nat |-> IF k \in 1 .. size THEN next(w, k) ELSE w]]
<1>1. start \in X
  BY <1>0 DEF Chained
<1>2. \A k \in 1 .. size : at(k) \in Slot(size)
  <2> TAKE k \in 1 .. size
  <2>1. PICK v \in Nat : v = found + k
    BY <1>0 DEF Slot
  <2>2. v % size \in 0 .. size - 1
    OBVIOUS
  <2> QED
    BY <2>1, <2>2 DEF Slot
<1> HIDE DEF at
<1>3. ASSUME NEW w \in X, NEW k \in 1 .. size PROVE next(w, k) \in X
  <2>1. at(k) \in Slot(size)
    BY <1>2
  <2>2. [w EXCEPT !.slots[w.dst] = Hole, !.done = TRUE] \in X
    BY DEF Cells
  <2>3. w.slots[at(k)] # Hole => [w EXCEPT !.slots[w.dst] = w.slots[at(k)], !.dst = at(k)] \in X
    BY <2>1 DEF Cells
  <2> QED
    BY <2>2, <2>3
<1>4. PICK f \in [0 .. size -> X] : IsRun(f, size, start, step)
  <2>1. step \in [X -> [Nat -> X]]
    <3> HIDE DEF next, X
    <3> QED
      BY <1>3
  <2> HIDE DEF step, X, start
  <2> QED
    BY <1>0, <1>1, <2>1, RunExists
<1> DEFINE Eq(g) == g = [n \in 0 .. size |->
               IF n = 0 THEN [slots |-> slots, dst |-> found, done |-> FALSE]
               ELSE LET w == g[n - 1]
                        i == (found + n) % size
                    IN  IF w.done THEN w
                        ELSE IF w.slots[i] = Hole
                             THEN [w EXCEPT !.slots[w.dst] = Hole, !.done = TRUE]
                        ELSE IF StaysPut(HashForSize(w.slots[i], size), w.dst, i)
                             THEN w
                        ELSE [w EXCEPT !.slots[w.dst] = w.slots[i], !.dst = i]]
           walk == CHOOSE g : Eq(g)
<1>5. \A g : Eq(g) <=> g = [n \in 0 .. size |-> IF n = 0 THEN start ELSE next(g[n - 1], n)]
  BY DEF at
<1>6. Eq(f)
  <2>1. ASSUME NEW k \in 1 .. size PROVE f[k] = next(f[k - 1], k)
    <3>1. k - 1 \in 0 .. size /\ k \in Nat /\ f[k - 1] \in X
      OBVIOUS
    <3>2. f[k] = step[f[k - 1]][k]
      BY <1>4 DEF IsRun
    <3> HIDE DEF next
    <3> QED
      BY <3>1, <3>2
  <2>2. f[0] = start
    BY <1>4 DEF IsRun
  <2>3. \A k \in 0 .. size : k = 0 \/ k \in 1 .. size
    OBVIOUS
  <2> HIDE DEF Eq, next, start, X, step
  <2> QED
    BY <1>5, <2>1, <2>2, <2>3
<1>7. Eq(walk)
  <2> HIDE DEF Eq
  <2> QED
    BY <1>6
<1>8. CloseGap(slots, size, found) = walk[size].slots
  BY DEF CloseGap
<1> HIDE DEF walk
<1>9. walk[0] = start /\ \A k \in 1 .. size : walk[k] = next(walk[k - 1], k)
  <2>1. \A k \in 1 .. size : k \in 0 .. size /\ k # 0
    OBVIOUS
  <2>2. 0 \in 0 .. size
    OBVIOUS
  <2> HIDE DEF Eq, next, start
  <2> QED
    BY <1>5, <1>7, <2>1, <2>2
<1> HIDE DEF Eq, step
<1> DEFINE Walked(n, w) == /\ w \in X
                           /\ w.done => Closed(slots, size, found, w.slots)
                           /\ ~ w.done => Gap(slots, size, found, n, w.slots, w.dst)
           T == {n \in Nat : n <= size => Walked(n, walk[n])}
<1>10. 0 \in T
  <2>1. Gap(slots, size, found, 0, slots, found)
    BY GapStarts
  <2>2. Walked(0, start)
    BY <1>1, <2>1
  <2> HIDE DEF Walked
  <2> QED
    BY <1>9, <2>2
<1>11. ASSUME NEW n \in Nat, n + 1 <= size, NEW w, Walked(n, w)
       PROVE  Walked(n + 1, next(w, n + 1))
  <2>1. n + 1 \in 1 .. size
    BY <1>11
  <2>2. next(w, n + 1) \in X
    BY <1>3, <1>11, <2>1
  <2>3. CASE w.done
    <3>1. next(w, n + 1) = w
      BY <2>3
    <3> HIDE DEF next, X
    <3> QED
      BY <1>11, <2>3, <3>1
  <2>4. CASE ~ w.done
    <3>1. PICK s \in Cells(size), d \in Slot(size) :
              /\ w = [slots |-> s, dst |-> d, done |-> FALSE]
              /\ s = w.slots /\ d = w.dst
      BY <1>11, <2>4
    <3>2. Gap(slots, size, found, n, s, d)
      BY <1>11, <2>4, <3>1
    <3>3. n + 1 \in 0 .. size - 1
      <4> SUFFICES ASSUME n + 1 = size PROVE FALSE
        BY <1>11
      <4>1. ASSUME NEW x \in Slot(size) PROVE slots[x] # Hole
        <5>1. Off(found, x, size) \in 0 .. size - 1
          BY <1>0, OffFacts
        <5>2. Off(found, x, size) <= n
          BY <5>1
        <5> QED
          BY <3>2, <5>2 DEF Gap
      <4> QED
        BY <4>1 DEF HasHole
    <3>4. PICK i \in Slot(size) : i = at(n + 1) /\ Off(found, i, size) = n + 1
      <4>1. \A m \in 0 .. size - 1 : /\ (found + m) % size \in Slot(size)
                                    /\ Off(found, (found + m) % size, size) = m
        BY <1>0, OffFacts
      <4>2. \A m \in 0 .. size - 1 : at(m) \in Slot(size) /\ Off(found, at(m), size) = m
        BY <4>1 DEF at
      <4> QED
        BY <3>3, <4>2
    <3>5. CASE s[i] = Hole
      <4>1. PICK r : r = [s EXCEPT ![d] = Hole]
        OBVIOUS
      <4>2. Closed(slots, size, found, r)
        BY <1>0, <3>2, <3>4, <3>5, <4>1, GapCloses
      <4>3. next(w, n + 1) = [slots |-> r, dst |-> d, done |-> TRUE]
        BY <3>1, <3>4, <3>5, <4>1
      <4> HIDE DEF next, X
      <4> QED
        BY <2>2, <4>2, <4>3
    <3>6. CASE s[i] # Hole /\ StaysPut(Home(s, size, i), d, i)
      <4>1. Gap(slots, size, found, n + 1, s, d)
        BY <1>0, <3>2, <3>4, <3>6, GapStays
      <4>2. next(w, n + 1) = [slots |-> s, dst |-> d, done |-> FALSE]
        BY <3>1, <3>4, <3>6 DEF Home
      <4> HIDE DEF next, X
      <4> QED
        BY <2>2, <4>1, <4>2
    <3>7. CASE s[i] # Hole /\ ~ StaysPut(Home(s, size, i), d, i)
      <4>1. PICK r : r = [s EXCEPT ![d] = s[i]]
        OBVIOUS
      <4>2. Gap(slots, size, found, n + 1, r, i)
        BY <1>0, <3>2, <3>4, <3>7, <4>1, GapMoves
      <4>3. next(w, n + 1) = [slots |-> r, dst |-> i, done |-> FALSE]
        BY <3>1, <3>4, <3>7, <4>1 DEF Home
      <4> HIDE DEF next, X
      <4> QED
        BY <2>2, <4>2, <4>3
    <3> QED
      BY <3>5, <3>6, <3>7
  <2> QED
    BY <2>3, <2>4
<1>12. \A n \in Nat : n \in T => n + 1 \in T
  <2> HIDE DEF Walked, next
  <2>1. ASSUME NEW n \in Nat, n \in T, n + 1 <= size PROVE Walked(n + 1, walk[n + 1])
    <3>1. n + 1 \in 1 .. size /\ (n + 1) - 1 = n /\ n <= size
      BY <2>1
    <3>2. Walked(n, walk[n])
      BY <2>1, <3>1
    <3>3. Walked(n + 1, next(walk[n], n + 1))
      BY <1>11, <2>1, <3>2
    <3> QED
      BY <1>9, <3>1, <3>3
  <2> QED
    BY <2>1
<1>13. Walked(size, walk[size])
  <2> HIDE DEF Walked
  <2>1. size \in T
    <3> HIDE DEF T
    <3> QED
      BY <1>0, <1>10, <1>12, Induction
  <2> QED
    BY <2>1
<1>14. walk[size].done
  <2> SUFFICES ASSUME ~ walk[size].done PROVE FALSE
    OBVIOUS
  <2>1. Gap(slots, size, found, size, walk[size].slots, walk[size].dst)
    BY <1>13
  <2>2. ASSUME NEW x \in Slot(size) PROVE slots[x] # Hole
    <3>1. Off(found, x, size) \in 0 .. size - 1
      BY <1>0, OffFacts
    <3>2. Off(found, x, size) <= size
      BY <3>1
    <3> QED
      BY <2>1, <3>2 DEF Gap
  <2> QED
    BY <2>2 DEF HasHole
<1> QED
  BY <1>8, <1>13, <1>14

-----------------------------------------------------------------------------
(* Operations on tables, and what they do to the keys                      *)

Contents(t) == Stored(t.slots, t.size)

Found(t, k) == t.slots[FindIndex(t, k)]

(* What an operation makes a table of.                                     *)
Made(size, count, slots, initial) ==
    /\ size \in Nat /\ count \in Nat /\ initial \in BOOLEAN /\ SizeOK(size)
    /\ Chained(slots, size) /\ Cardinality(Used(slots, size)) = count
    /\ count <= FillLimit(size)

IsTable(t, size, count, slots, initial) ==
    t = [size |-> size, count |-> count, slots |-> slots, initial |-> initial]

LEMMA TableMade ==
    \A t, size, count, slots, n :
        Made(size, count, slots, n) /\ IsTable(t, size, count, slots, n) =>
            TableOK(t) /\ Contents(t) = Stored(slots, size)
<1> SUFFICES ASSUME NEW t, NEW size, NEW count, NEW slots, NEW n,
                    Made(size, count, slots, n), IsTable(t, size, count, slots, n)
             PROVE  TableOK(t) /\ Contents(t) = Stored(slots, size)
  OBVIOUS
<1>1. slots \in Cells(size)
  BY DEF Made, Chained
<1> QED
  BY <1>1 DEF TableOK, Contents, Made, IsTable

LEMMA TableParts ==
    ASSUME NEW t, TableOK(t)
    PROVE  \E size, slots, count, n :
               /\ size \in Nat /\ count \in Nat /\ n \in BOOLEAN
               /\ size = t.size /\ slots = t.slots /\ count = t.count /\ n = t.initial
               /\ IsTable(t, size, count, slots, n) /\ Made(size, count, slots, n)
<1>1. t.size \in Nat /\ t.count \in Nat /\ t.initial \in BOOLEAN
  BY DEF TableOK
<1>2. IsTable(t, t.size, t.count, t.slots, t.initial)
  BY DEF TableOK, IsTable
<1>3. Made(t.size, t.count, t.slots, t.initial)
  BY <1>1 DEF Made, TableOK
<1>4. PICK size \in Nat, count \in Nat, n \in BOOLEAN : size = t.size /\ count = t.count /\ n = t.initial
  BY <1>1
<1>5. PICK slots : slots = t.slots
  OBVIOUS
<1>6. IsTable(t, size, count, slots, n) /\ Made(size, count, slots, n)
  BY <1>2, <1>3, <1>4, <1>5
<1> QED
  BY <1>4, <1>5, <1>6

LEMMA BlankTable ==
    ASSUME NEW size \in Nat, SizeOK(size), NEW initial \in BOOLEAN, NEW t, t = Table(size, initial)
    PROVE  /\ TableOK(t) /\ t.count = 0 /\ t.size = size /\ t.initial = initial
           /\ Contents(t) = {}
<1>1. IsTable(t, size, 0, Blank(size), initial)
  BY DEF IsTable, Table
<1>2. /\ Chained(Blank(size), size) /\ Stored(Blank(size), size) = {}
      /\ Cardinality(Used(Blank(size), size)) = 0
  BY EmptyFacts
<1>3. FillLimit(size) \in Nat
  BY LimitFacts
<1>4. Made(size, 0, Blank(size), initial)
  BY <1>2, <1>3 DEF Made
<1>5. TableOK(t) /\ Contents(t) = {}
  BY <1>1, <1>2, <1>4, TableMade
<1> QED
  BY <1>1, <1>5 DEF IsTable

Roomy(t, size) ==
    size \in Nat /\ size >= 4 /\ SizeOK(size) /\ t.count <= FillLimit(size)

Rehashed(t, size, r) ==
    /\ TableOK(r) /\ r.size = size /\ r.count = t.count
    /\ r.initial = FALSE /\ Contents(r) = Contents(t)

LEMMA RehashFacts ==
    ASSUME NEW t, TableOK(t), NEW size, Roomy(t, size), NEW r, r = Rehash(t, size)
    PROVE  Rehashed(t, size, r)
<1>0. size \in Nat /\ size >= 4 /\ SizeOK(size) /\ t.count <= FillLimit(size)
  BY DEF Roomy
<1>1. PICK slots : slots = CopyStorage(t, size)
  OBVIOUS
<1>2. size \in Nat \ {0}
  BY <1>0
<1>3. PICK count \in Nat, limit \in Nat : count = t.count /\ limit = FillLimit(size) /\ limit < size /\ count <= limit
  BY <1>0, TableFacts, LimitFacts
<1>4. t.count < size
  BY <1>0, <1>3
<1>5. /\ Chained(slots, size) /\ Stored(slots, size) = Contents(t)
      /\ Cardinality(Used(slots, size)) = t.count
  BY <1>1, <1>2, <1>4, CopyFacts DEF Contents
<1>6. IsTable(r, size, count, slots, FALSE)
  <2>1. PICK a, b, c, d : IsTable(t, a, b, c, d)
    BY TableParts
  <2> QED
    BY <1>1, <1>3, <2>1 DEF Rehash, IsTable
<1>7. Made(size, count, slots, FALSE)
  BY <1>0, <1>3, <1>5 DEF Made
<1>8. TableOK(r) /\ Contents(r) = Stored(slots, size)
  BY <1>6, <1>7, TableMade
<1> QED
  BY <1>3, <1>5, <1>6, <1>8 DEF IsTable, Rehashed

(* An operation that ended, and what it did.                               *)
IsRunOf(run, t, calls, result, mutated) ==
    run = [table |-> t, calls |-> calls, ret |-> result, mutated |-> mutated, status |-> Running]

LEMMA GrownFacts ==
    ASSUME NEW t, TableOK(t)
    PROVE  \E r : /\ IsRunOf(Grown(t), r, Alloc \o Free(t), None, TRUE)
                  /\ TableOK(r) /\ r.count = t.count /\ Contents(r) = Contents(t)
                  /\ r.size >= 4 /\ r.initial = FALSE
                  /\ r.count + 1 <= FillLimit(r.size)
<1>1. PICK n \in Nat, count \in Nat, limit \in Nat :
          n = t.size /\ count = t.count /\ limit = FillLimit(n) /\ count <= limit /\ limit <= n
  <2>1. t.count <= FillLimit(t.size)
    BY DEF TableOK
  <2> QED
    BY <2>1, TableFacts, LimitFacts
<1>2. PICK size \in Nat : size = IF n = 0 THEN 4 ELSE 2 * n
  OBVIOUS
<1>3. size >= 4 /\ SizeOK(size) /\ count + 1 <= FillLimit(size)
  <2>1. CASE n = 0
    <3>1. FillLimit(4) = 3
      BY LimitFacts
    <3> QED
      BY <1>1, <1>2, <2>1, <3>1, SizeFacts
  <2>2. CASE n # 0
    <3>1. n >= 2 /\ SizeOK(n)
      BY <1>1, <2>2, TableFacts DEF TableOK
    <3>2. SizeOK(size)
      BY <1>2, <2>2, <3>1, SizeFacts
    <3>3. PICK room \in Nat : room = FillLimit(size) /\ n + 1 <= room
      <4>1. size = 2 * n
        BY <1>2, <2>2
      <4>2. FillLimit(size) \in Nat
        BY LimitFacts
      <4> QED
        BY <3>1, <4>1, <4>2, LimitFacts
    <3> QED
      BY <1>1, <1>2, <2>2, <3>1, <3>2, <3>3
  <2> QED
    BY <2>1, <2>2
<1>4. PICK r : r = Rehash(t, size)
  OBVIOUS
<1>5. t.count <= FillLimit(size)
  <2>1. PICK room \in Nat : room = FillLimit(size)
    BY LimitFacts
  <2> QED
    BY <1>1, <1>3, <2>1
<1>6. TableOK(r) /\ r.size = size /\ r.count = t.count /\ r.initial = FALSE /\ Contents(r) = Contents(t)
  <2>1. Roomy(t, size)
    BY <1>3, <1>5 DEF Roomy
  <2>2. Rehashed(t, size, r)
    BY <1>4, <2>1, RehashFacts
  <2> QED
    BY <2>2 DEF Rehashed
<1>7. IsRunOf(Grown(t), r, Alloc \o Free(t), None, TRUE)
  <2>1. Rehash(t, IF t.size = 0 THEN InitialSize ELSE 2 * t.size) = r
    BY <1>1, <1>2, <1>4 DEF InitialSize
  <2>2. PICK u, calls : u = Rehash(t, IF t.size = 0 THEN InitialSize ELSE 2 * t.size)
                        /\ calls = Alloc \o Free(t)
    OBVIOUS
  <2>3. Grown(t) = [Run(u, calls, None) EXCEPT !.mutated = TRUE]
    BY <2>2 DEF Grown, Resized, Mutated
  <2>4. Grown(t) = [table |-> u, calls |-> calls, ret |-> None, mutated |-> TRUE,
                    status |-> Running]
    BY <2>3 DEF Run
  <2> QED
    BY <2>1, <2>2, <2>4 DEF IsRunOf
<1>8. FillLimit(r.size) = FillLimit(size) /\ r.count + 1 = count + 1
  BY <1>1, <1>6
<1>9. r.size >= 4 /\ r.count + 1 <= FillLimit(r.size)
  BY <1>3, <1>6, <1>8
<1> QED
  BY <1>6, <1>7, <1>9

-----------------------------------------------------------------------------
(* Looking up, adding, replacing, removing                                 *)

(* A probe that ends finds the key that is equal, or a hole.               *)
LEMMA HasFacts ==
    ASSUME NEW t, TableOK(t), NEW k \in Key
    PROVE  /\ \A i \in Used(t.slots, t.size) :
                  IsEqual(t.slots[i], k) =>
                      FindIndex(t, k) = i /\ Found(t, k) = t.slots[i] /\ Has(t, k) /\ ProbeEnds(t, k)
           /\ ProbeEnds(t, k) /\ Has(t, k) =>
                  FindIndex(t, k) \in Used(t.slots, t.size) /\ IsEqual(Found(t, k), k)
           /\ t.count < t.size \/ t.count = 0 => ProbeEnds(t, k)
<1>1. PICK size \in Nat, count \in Nat : size = t.size /\ count = t.count
  BY TableFacts
<1>2. PICK slots : slots = t.slots
  OBVIOUS
<1>3. PICK f : f = FindIndex(t, k)
  OBVIOUS
<1>4. /\ f = FirstProbe(k, size, Stops(slots, size, k)) /\ Found(t, k) = slots[f]
      /\ Has(t, k) <=> (count # 0 /\ slots[f] # Hole)
      /\ ProbeEnds(t, k) <=> (count # 0 => \E d \in Slot(size) :
                                  ProbeSlot(k, size, d) \in Stops(slots, size, k))
  BY <1>1, <1>2, <1>3 DEF FindIndex, Found, Has, ProbeEnds
<1>5. /\ Chained(slots, size) /\ Cardinality(Used(slots, size)) = count
      /\ count < size => HasHole(slots, size)
  <2>1. /\ Chained(t.slots, t.size) /\ Cardinality(Used(t.slots, t.size)) = t.count
    BY DEF TableOK
  <2>2. t.count < t.size => HasHole(t.slots, t.size)
    BY TableFacts
  <2> QED
    BY <1>1, <1>2, <2>1, <2>2
<1>6. \A i \in Used(slots, size) : i \in Slot(size) /\ slots[i] \in Key /\ slots[i] # Hole
  BY <1>1, <1>2, TableFacts
<1>7. ASSUME NEW i \in Slot(size) PROVE \E d \in Slot(size) : ProbeSlot(k, size, d) = i
  <2>1. size \in Nat \ {0}
    BY DEF Slot
  <2> QED
    BY <2>1, ProbeReaches
<1>8. ASSUME NEW i \in Used(slots, size), IsEqual(slots[i], k)
      PROVE  f = i /\ Found(t, k) = slots[i] /\ Has(t, k) /\ ProbeEnds(t, k)
  <2>1. size \in Nat \ {0} /\ i \in Slot(size)
    BY <1>6 DEF Slot
  <2>2. f = i
    BY <1>4, <1>5, <1>8, <2>1, FindStored
  <2>3. count # 0
    <3>1. IsFiniteSet(Used(slots, size)) /\ Used(slots, size) # {}
      BY UsedFinite
    <3> QED
      BY <1>5, <3>1, FS_EmptySet
  <2>4. i \in Stops(slots, size, k)
    BY <1>8, <2>1 DEF Stops
  <2>5. \E d \in Slot(size) : ProbeSlot(k, size, d) \in Stops(slots, size, k)
    BY <1>7, <2>1, <2>4
  <2> QED
    BY <1>4, <1>6, <2>2, <2>3, <2>5
<1>9. ASSUME ProbeEnds(t, k), Has(t, k) PROVE f \in Used(slots, size) /\ IsEqual(Found(t, k), k)
  <2>1. Stops(slots, size, k) # {}
    BY <1>4, <1>9
  <2>2. size \in Nat \ {0} /\ Stops(slots, size, k) \subseteq Slot(size)
    BY <2>1 DEF Stops, Slot
  <2>3. f \in Stops(slots, size, k)
    BY <1>4, <2>1, <2>2, FirstProbeFacts
  <2> QED
    BY <1>4, <1>9, <2>3 DEF Stops, Used
<1>10. ASSUME count < size PROVE ProbeEnds(t, k)
  <2>1. PICK h \in Slot(size) : slots[h] = Hole
    BY <1>5, <1>10 DEF HasHole
  <2>2. h \in Stops(slots, size, k)
    BY <2>1 DEF Stops
  <2> QED
    BY <1>4, <1>7, <2>2
<1>11. count = 0 => ProbeEnds(t, k)
  BY <1>4
<1> HIDE DEF Used
<1> QED
  BY <1>1, <1>2, <1>3, <1>8, <1>9, <1>10, <1>11

(* Of equal keys a table holds one.                                        *)
LEMMA ContentsFacts ==
    ASSUME NEW t, TableOK(t)
    PROVE  /\ Contents(t) \subseteq Key
           /\ \A p, q \in Contents(t) : IsEqual(p, q) => p = q
           /\ \A k \in Key : ProbeEnds(t, k) =>
                  (Has(t, k) <=> \E p \in Contents(t) : IsEqual(p, k))
           /\ \A k \in Key : ProbeEnds(t, k) /\ Has(t, k) =>
                  Found(t, k) \in Contents(t) /\ IsEqual(Found(t, k), k)
           /\ \A k \in Key, p \in Contents(t) :
                  IsEqual(p, k) => Found(t, k) = p /\ Has(t, k) /\ ProbeEnds(t, k)
<1>1. Contents(t) \subseteq Key
  BY TableFacts DEF Contents, Stored
<1>2. \A p, q \in Contents(t) : IsEqual(p, q) => p = q
  BY DEF Contents, Stored, TableOK, Chained, Distinct
<1>3. ASSUME NEW k \in Key, NEW p \in Contents(t), IsEqual(p, k)
      PROVE  Found(t, k) = p /\ Has(t, k) /\ ProbeEnds(t, k)
  <2>1. PICK i \in Used(t.slots, t.size) : p = t.slots[i]
    BY DEF Contents, Stored
  <2> QED
    BY <1>3, <2>1, HasFacts
<1>4. ASSUME NEW k \in Key, ProbeEnds(t, k), Has(t, k)
      PROVE  Found(t, k) \in Contents(t) /\ IsEqual(Found(t, k), k)
  <2>1. FindIndex(t, k) \in Used(t.slots, t.size) /\ IsEqual(Found(t, k), k)
    BY <1>4, HasFacts
  <2> QED
    BY <2>1 DEF Found, Contents, Stored
<1> QED
  BY <1>1, <1>2, <1>3, <1>4

(* Room for a key is the storage there is, or a new one.                   *)
Grew(t, r, calls) ==
    \/ calls = <<>> /\ r.size = t.size /\ r.initial = t.initial
    \/ calls = Alloc \o Free(t) /\ r.size >= 4 /\ r.initial = FALSE

Noted(a, b) == a \/ b

LEMMA ThenFacts ==
    ASSUME NEW run, NEW t, NEW calls, NEW result, NEW mutated,
           IsRunOf(run, t, calls, result, mutated),
           NEW next, NEW u, NEW further, NEW outcome, NEW changed,
           IsRunOf(next, u, further, outcome, changed)
    PROVE  IsRunOf(Then(run, next), u, calls \o further, outcome, Noted(changed, mutated))
<1>1. PICK all, noted : all = calls \o further /\ noted = Noted(changed, mutated)
  OBVIOUS
<1>2. run.calls = calls /\ run.mutated = mutated
  BY DEF IsRunOf
<1>3. next = [table |-> u, calls |-> further, ret |-> outcome, mutated |-> changed,
              status |-> Running]
  BY DEF IsRunOf
<1>4. run.calls \o next.calls = all /\ (next.mutated \/ run.mutated) = noted
  BY <1>1, <1>2, <1>3 DEF Noted
<1>5. Then(run, next) = [[next EXCEPT !.calls = all] EXCEPT !.mutated = noted]
  BY <1>4 DEF Then
<1>6. [next EXCEPT !.calls = all] =
          [table |-> u, calls |-> all, ret |-> outcome, mutated |-> changed, status |-> Running]
  BY <1>3
<1>7. Then(run, next) =
          [table |-> u, calls |-> all, ret |-> outcome, mutated |-> noted, status |-> Running]
  BY <1>5, <1>6
<1> QED
  BY <1>1, <1>7 DEF IsRunOf

LEMMA AddedFacts ==
    ASSUME NEW t, TableOK(t), NEW k \in Key, \A p \in Contents(t) : ~ IsEqual(p, k)
    PROVE  \E r, calls : /\ IsRunOf(Added(t, k), r, calls \o <<Retain(k)>>, Hole, TRUE)
                         /\ TableOK(r) /\ r.count = t.count + 1
                         /\ Contents(r) = Contents(t) \cup {k} /\ Grew(t, r, calls)
<1>1. PICK room : room = IF IsFull(t) THEN Grown(t) ELSE Run(t, <<>>, None)
  OBVIOUS
<1>2. PICK u, calls, mutated :
          /\ IsRunOf(room, u, calls, None, mutated) /\ TableOK(u) /\ Grew(t, u, calls)
          /\ u.count = t.count /\ Contents(u) = Contents(t)
          /\ u.count + 1 <= FillLimit(u.size) /\ u.size # 0 /\ u.count < u.size
  <2>1. CASE IsFull(t)
    <3>1. PICK r : /\ IsRunOf(Grown(t), r, Alloc \o Free(t), None, TRUE)
                   /\ TableOK(r) /\ r.count = t.count /\ Contents(r) = Contents(t)
                   /\ r.size >= 4 /\ r.initial = FALSE
                   /\ r.count + 1 <= FillLimit(r.size)
      BY GrownFacts
    <3>2. r.size # 0 /\ r.count < r.size
      BY <3>1, TableFacts
    <3>3. Grew(t, r, Alloc \o Free(t))
      BY <3>1 DEF Grew
    <3>4. room = Grown(t)
      BY <1>1, <2>1
    <3> QED
      BY <3>1, <3>2, <3>3, <3>4
  <2>2. CASE ~ IsFull(t)
    <3>1. PICK n \in Nat, count \in Nat, limit \in Nat :
              n = t.size /\ count = t.count /\ limit = FillLimit(n) /\ limit <= n
      BY TableFacts, LimitFacts
    <3>2. count < limit
      BY <2>2, <3>1 DEF IsFull
    <3>3. n # 0 /\ count < n /\ count + 1 <= limit
      BY <3>1, <3>2
    <3>4. IsRunOf(room, t, <<>>, None, FALSE)
      BY <1>1, <2>2 DEF Run, IsRunOf
    <3>5. Grew(t, t, <<>>)
      BY DEF Grew
    <3>6. t.count + 1 <= FillLimit(t.size) /\ t.size # 0 /\ t.count < t.size
      BY <3>1, <3>3
    <3> QED
      BY <3>4, <3>5, <3>6
  <2> QED
    BY <2>1, <2>2
<1>3. PICK size, slots, count, n :
          /\ size \in Nat /\ count \in Nat /\ n \in BOOLEAN
          /\ size = u.size /\ slots = u.slots /\ count = u.count /\ n = u.initial
          /\ IsTable(u, size, count, slots, n) /\ Made(size, count, slots, n)
  BY <1>2, TableParts
<1> size \in Nat /\ count \in Nat /\ n \in BOOLEAN
  BY <1>3
<1>4. size \in Nat \ {0} /\ HasHole(slots, size) /\ Chained(slots, size)
      /\ Cardinality(Used(slots, size)) = count
  <2>1. HasHole(u.slots, u.size)
    BY <1>2, TableFacts
  <2> QED
    BY <1>2, <1>3, <2>1 DEF Made
<1>5. \A i \in Used(slots, size) : ~ IsEqual(slots[i], k)
  <2>1. Contents(u) = Stored(slots, size)
    BY <1>3 DEF Contents
  <2> QED
    BY <1>2, <2>1 DEF Stored
<1>6. PICK stored : stored = StorePointer(slots, size, k)
  OBVIOUS
<1>7. /\ Chained(stored, size)
      /\ Stored(stored, size) = Stored(slots, size) \cup {k}
      /\ \E h \in Slot(size) : /\ slots[h] = Hole
                               /\ Used(stored, size) = Used(slots, size) \cup {h}
  BY <1>4, <1>5, <1>6, StoreFacts
<1>8. Cardinality(Used(stored, size)) = count + 1
  <2>1. PICK h \in Slot(size) : slots[h] = Hole /\ Used(stored, size) = Used(slots, size) \cup {h}
    BY <1>7
  <2>2. h \notin Used(slots, size)
    BY <2>1 DEF Used
  <2>3. IsFiniteSet(Used(slots, size))
    BY UsedFinite
  <2> QED
    BY <1>4, <2>1, <2>2, <2>3, FS_AddElement
<1>9. PICK c \in Nat : c = count + 1
  OBVIOUS
<1>10. PICK r : IsTable(r, size, c, stored, n)
  BY DEF IsTable
<1>11. c <= FillLimit(size)
  BY <1>2, <1>3, <1>9
<1>12. TableOK(r) /\ Contents(r) = Stored(stored, size)
  <2>1. Made(size, c, stored, n)
    BY <1>3, <1>7, <1>8, <1>9, <1>11 DEF Made
  <2> QED
    BY <1>10, <2>1, TableMade
<1>13. IsRunOf(Added(t, k), r, calls \o <<Retain(k)>>, Hole, TRUE)
  <2>1. r = [u EXCEPT !.count = @ + 1, !.slots = StorePointer(@, u.size, k)]
    <3>1. u = [size |-> size, count |-> count, slots |-> slots, initial |-> n]
      BY <1>3 DEF IsTable
    <3>2. r = [size |-> size, count |-> c, slots |-> stored, initial |-> n]
      BY <1>10 DEF IsTable
    <3>3. u.count + 1 = c /\ StorePointer(u.slots, u.size, k) = stored
      BY <1>3, <1>6, <1>9
    <3>4. PICK w : w = [u EXCEPT !.count = c]
      OBVIOUS
    <3>5. w = [size |-> size, count |-> c, slots |-> slots, initial |-> n]
      BY <3>1, <3>4
    <3>6. r = [w EXCEPT !.slots = stored]
      BY <3>2, <3>5
    <3> QED
      BY ONLY <3>3, <3>4, <3>6
  <2>2. room.table = u /\ room.calls = calls /\ room.mutated = mutated
    BY <1>2 DEF IsRunOf
  <2>3. PICK next : next = Mutated(Run(r, <<Retain(k)>>, Hole))
    OBVIOUS
  <2>4. Added(t, k) = Then(room, next)
    BY <1>1, <2>1, <2>2, <2>3 DEF Added
  <2>5. next = [table |-> r, calls |-> <<Retain(k)>>, ret |-> Hole, mutated |-> TRUE,
                status |-> Running]
    BY <2>3 DEF Mutated, Run
  <2>6. IsRunOf(next, r, <<Retain(k)>>, Hole, TRUE)
    BY <2>5 DEF IsRunOf
  <2>7. IsRunOf(Then(room, next), r, calls \o <<Retain(k)>>, Hole, Noted(TRUE, mutated))
    BY <1>2, <2>6, ThenFacts
  <2> QED
    BY <2>4, <2>7 DEF IsRunOf, Noted
<1>14. Contents(r) = Contents(t) \cup {k}
  BY <1>2, <1>3, <1>7, <1>12 DEF Contents
<1>15. r.count = t.count + 1
  BY <1>2, <1>3, <1>9, <1>10 DEF IsTable
<1>16. Grew(t, r, calls)
  <2>1. r.size = u.size /\ r.initial = u.initial
    BY <1>3, <1>10 DEF IsTable
  <2> QED
    BY <1>2, <2>1 DEF Grew
<1> QED
  BY <1>12, <1>13, <1>14, <1>15, <1>16

Swapped(t, k, old, r) ==
    /\ TableOK(r) /\ r.count = t.count /\ r.size = t.size /\ r.initial = t.initial
    /\ Contents(r) = (Contents(t) \ {old}) \cup {k}

LEMMA ReplacedFacts ==
    ASSUME NEW t, TableOK(t), NEW k \in Key, NEW old, old \in Contents(t), IsEqual(old, k)
    PROVE  \E r : /\ IsRunOf(Replaced(t, k, old), r, <<Retain(k), Release(old)>>, old, TRUE)
                  /\ Swapped(t, k, old, r)
<1>1. PICK size, slots, count, n :
          /\ size \in Nat /\ count \in Nat /\ n \in BOOLEAN
          /\ size = t.size /\ slots = t.slots /\ count = t.count /\ n = t.initial
          /\ IsTable(t, size, count, slots, n) /\ Made(size, count, slots, n)
  BY TableParts
<1> size \in Nat /\ count \in Nat /\ n \in BOOLEAN
  BY <1>1
<1>2. k # Hole
  BY PointerSetAssumption
<1>3. PICK f \in Used(slots, size) : f = FindIndex(t, k) /\ old = slots[f]
  <2>1. PICK i \in Used(t.slots, t.size) : old = t.slots[i]
    BY DEF Contents, Stored
  <2>2. FindIndex(t, k) = i
    BY <2>1, HasFacts
  <2> QED
    BY <1>1, <2>1, <2>2
<1>4. Chained(slots, size) /\ slots \in Cells(size) /\ Cardinality(Used(slots, size)) = count
  BY <1>1 DEF Made, Chained
<1>5. PICK s : s = [slots EXCEPT ![f] = k]
  OBVIOUS
<1>6. f \in Slot(size) /\ slots[f] # Hole /\ slots[f] \in Key
  BY <1>1, TableFacts
<1>7. s \in Cells(size) /\ s[f] = k /\ \A i \in Slot(size) : i # f => s[i] = slots[i]
  BY <1>4, <1>5, <1>6 DEF Cells
<1>8. Used(s, size) = Used(slots, size)
  BY <1>2, <1>6, <1>7 DEF Used
<1>9. size \in Nat \ {0}
  BY <1>6 DEF Slot
<1>10. \A i \in Used(slots, size) : /\ i \in Slot(size) /\ slots[i] \in Key
                                    /\ Home(s, size, i) = Home(slots, size, i)
                                    /\ \A l \in Key : IsEqual(s[i], l) <=> IsEqual(slots[i], l)
                                    /\ s[i] \in Key
  <2> TAKE i \in Used(slots, size)
  <2>1. i \in Slot(size) /\ slots[i] \in Key
    BY <1>1, TableFacts
  <2>2. CASE i = f
    <3>1. HashForSize(slots[f], size) = HashForSize(k, size)
      BY <1>3, <1>6, <1>9, HomeFacts
    <3> QED
      BY <1>3, <1>7, <2>1, <2>2, <3>1 DEF Home, IsEqual
  <2>3. CASE i # f
    BY <1>7, <2>1, <2>3 DEF Home
  <2> QED
    BY <2>2, <2>3
<1>11. Distinct(s, size)
  <2> SUFFICES ASSUME NEW i \in Used(slots, size), NEW j \in Used(slots, size),
                      IsEqual(s[i], s[j])
               PROVE  i = j
    BY <1>8 DEF Distinct
  <2>1. IsEqual(slots[i], s[j])
    BY <1>10
  <2>2. IsEqual(s[j], slots[i])
    BY <2>1 DEF IsEqual
  <2>3. slots[i] \in Key
    BY <1>10
  <2>4. IsEqual(slots[j], slots[i])
    BY <1>10, <2>2, <2>3
  <2> QED
    BY <1>4, <2>4 DEF Chained, Distinct
<1>12. Unbroken(s, size)
  <2>1. \A j \in Slot(size) : s[j] # Hole <=> slots[j] # Hole
    BY <1>2, <1>6, <1>7
  <2> QED
    BY <1>4, <1>8, <1>10, <2>1 DEF Chained, Unbroken
<1>13. PICK r : IsTable(r, size, count, s, n)
  BY DEF IsTable
<1>14. TableOK(r) /\ Contents(r) = Stored(s, size)
  <2>1. Made(size, count, s, n)
    BY <1>1, <1>4, <1>7, <1>8, <1>11, <1>12 DEF Chained, Made
  <2> QED
    BY <1>13, <2>1, TableMade
<1>15. IsRunOf(Replaced(t, k, old), r, <<Retain(k), Release(old)>>, old, TRUE)
  <2>1. [t EXCEPT !.slots[FindIndex(t, k)] = k] = r
    BY <1>1, <1>3, <1>5, <1>13 DEF IsTable
  <2>2. PICK calls : calls = <<Retain(k), Release(old)>>
    OBVIOUS
  <2>3. Replaced(t, k, old) = Mutated(Run(r, calls, old))
    BY <2>1, <2>2 DEF Replaced
  <2> QED
    BY <2>2, <2>3 DEF Mutated, Run, IsRunOf
<1>16. Stored(s, size) = (Stored(slots, size) \ {slots[f]}) \cup {k}
  <2>1. \A i \in Used(slots, size) : i # f => s[i] = slots[i] /\ slots[i] # slots[f]
    <3> TAKE i \in Used(slots, size)
    <3>1. i # f => s[i] = slots[i]
      BY <1>7, <1>10
    <3>2. slots[i] = slots[f] => i = f
      BY <1>4 DEF Chained, Distinct, IsEqual
    <3> QED
      BY <3>1, <3>2
  <2> QED
    BY <1>7, <1>8, <2>1 DEF Stored
<1>17. Stored(slots, size) = Contents(t)
  BY <1>1 DEF Contents
<1>18. r.count = t.count /\ r.size = t.size /\ r.initial = t.initial
  BY <1>1, <1>13 DEF IsTable
<1> QED
  BY <1>3, <1>14, <1>15, <1>16, <1>17, <1>18 DEF Swapped

LEMMA RemovedFacts ==
    ASSUME NEW t, TableOK(t), NEW k \in Key, NEW old \in Contents(t), IsEqual(old, k)
    PROVE  /\ ~ (t.count < t.size) => Removed(t, k) = Stopped(Hung)
           /\ t.count < t.size =>
                  \E r : /\ IsRunOf(Removed(t, k), r, <<Release(old)>>, 1, TRUE)
                         /\ TableOK(r) /\ r.size = t.size /\ r.initial = t.initial
                         /\ Contents(r) = Contents(t) \ {old}
<1>1. PICK size, slots, count, n :
          /\ size \in Nat /\ count \in Nat /\ n \in BOOLEAN
          /\ size = t.size /\ slots = t.slots /\ count = t.count /\ n = t.initial
          /\ IsTable(t, size, count, slots, n) /\ Made(size, count, slots, n)
  BY TableParts
<1> size \in Nat /\ count \in Nat /\ n \in BOOLEAN
  BY <1>1
<1>2. PICK f \in Used(slots, size) : f = FindIndex(t, k) /\ old = slots[f]
  <2>1. PICK i \in Used(t.slots, t.size) : old = t.slots[i]
    BY DEF Contents, Stored
  <2>2. FindIndex(t, k) = i
    BY <2>1, HasFacts
  <2> QED
    BY <1>1, <2>1, <2>2
<1>3. /\ Chained(slots, size) /\ SizeOK(size) /\ slots \in Cells(size)
      /\ Cardinality(Used(slots, size)) = count /\ count <= size
  <2>1. t.count <= t.size
    BY TableFacts
  <2> QED
    BY <1>1, <2>1 DEF Made, Chained
<1>4. size \in Nat \ {0}
  BY <1>2 DEF Used, Slot
<1>5. Cardinality(Occupied(t)) = count
  BY <1>1, <1>3 DEF Occupied, Used
<1>6. ASSUME ~ (t.count < t.size) PROVE Removed(t, k) = Stopped(Hung)
  <2>1. count = size
    BY <1>1, <1>3, <1>6
  <2> QED
    BY <1>1, <1>5, <2>1 DEF Removed
<1>7. ASSUME t.count < t.size
      PROVE  \E r : /\ IsRunOf(Removed(t, k), r, <<Release(old)>>, 1, TRUE)
                    /\ TableOK(r) /\ r.size = t.size /\ r.initial = t.initial
                    /\ Contents(r) = Contents(t) \ {old}
  <2>1. HasHole(slots, size)
    BY <1>1, <1>7, TableFacts
  <2>2. PICK s : s = CloseGap(slots, size, f)
    OBVIOUS
  <2>3. /\ Chained(s, size)
        /\ Stored(s, size) = {slots[x] : x \in Used(slots, size) \ {f}}
        /\ \E d \in Used(slots, size) : Used(s, size) = Used(slots, size) \ {d}
    BY <1>3, <1>4, <2>1, <2>2, CloseGapFacts DEF Closed
  <2>4. PICK c \in Nat : c = count - 1 /\ Cardinality(Used(s, size)) = c /\ c < count
    <3>1. PICK d \in Used(slots, size) : Used(s, size) = Used(slots, size) \ {d}
      BY <2>3
    <3>2. IsFiniteSet(Used(slots, size)) /\ Cardinality(Used(s, size)) \in Nat
      BY UsedFinite
    <3>3. Cardinality(Used(s, size)) = Cardinality(Used(slots, size)) - 1
      BY <3>1, <3>2, FS_RemoveElement
    <3>4. PICK c \in Nat : c = Cardinality(Used(s, size)) /\ c = count - 1
      BY <1>3, <3>2, <3>3
    <3>5. c < count
      BY <3>4
    <3> QED
      BY <3>4, <3>5
  <2>5. PICK r : IsTable(r, size, c, s, n)
    BY DEF IsTable
  <2>6. c <= FillLimit(size)
    <3>1. PICK limit \in Nat : limit = FillLimit(size)
      BY LimitFacts
    <3>2. count <= limit
      BY <1>1, <3>1 DEF Made
    <3> QED
      BY <2>4, <3>1, <3>2
  <2>7. TableOK(r) /\ Contents(r) = Stored(s, size)
    <3>1. Made(size, c, s, n)
      BY <1>3, <2>3, <2>4, <2>6 DEF Made
    <3> QED
      BY <2>5, <3>1, TableMade
  <2>8. Stored(s, size) = Contents(t) \ {slots[f]}
    <3>1. \A i \in Used(slots, size) : slots[i] = slots[f] => i = f
      BY <1>3 DEF Chained, Distinct, IsEqual
    <3>2. Contents(t) = {slots[x] : x \in Used(slots, size)}
      BY <1>1 DEF Contents, Stored
    <3>3. {slots[x] : x \in Used(slots, size) \ {f}} =
              {slots[x] : x \in Used(slots, size)} \ {slots[f]}
      BY <3>1
    <3> QED
      BY <2>3, <3>2, <3>3
  <2>9. IsRunOf(Removed(t, k), r, <<Release(old)>>, 1, TRUE)
    <3>1. [t EXCEPT !.count = @ - 1, !.slots = CloseGap(@, t.size, FindIndex(t, k))] = r
      <4>1. PICK w : w = [t EXCEPT !.count = c]
        OBVIOUS
      <4>2. w = [size |-> size, count |-> c, slots |-> slots, initial |-> n]
        BY <1>1, <4>1 DEF IsTable
      <4>3. r = [w EXCEPT !.slots = s]
        BY <2>5, <4>2 DEF IsTable
      <4>4. t.count - 1 = c /\ CloseGap(t.slots, t.size, FindIndex(t, k)) = s
        BY <1>1, <1>2, <2>2, <2>4
      <4> QED
        BY ONLY <4>1, <4>3, <4>4
    <3>2. t.slots[FindIndex(t, k)] = old
      BY <1>1, <1>2
    <3>3. Cardinality(Occupied(t)) # t.size
      <4>1. count # size
        BY <1>1, <1>7
      <4> QED
        BY <1>1, <1>5, <4>1
    <3>4. PICK calls : calls = <<Release(old)>>
      OBVIOUS
    <3>5. Removed(t, k) = Mutated(Run(r, calls, 1))
      BY ONLY <3>1, <3>2, <3>3, <3>4 DEF Removed
    <3> QED
      BY <3>4, <3>5 DEF Mutated, Run, IsRunOf
  <2>10. r.size = t.size /\ r.initial = t.initial
    BY <1>1, <2>5 DEF IsTable
  <2> QED
    BY <1>2, <2>7, <2>8, <2>9, <2>10
<1> QED
  BY <1>6, <1>7

LEMMA ClearedFacts ==
    ASSUME NEW t, TableOK(t), NEW r, r = [t EXCEPT !.count = 0, !.slots = Blank(t.size)]
    PROVE  TableOK(r) /\ r.size = t.size /\ r.initial = t.initial /\ Contents(r) = {}
<1>1. PICK size, slots, count, n :
          /\ size \in Nat /\ count \in Nat /\ n \in BOOLEAN
          /\ size = t.size /\ slots = t.slots /\ count = t.count /\ n = t.initial
          /\ IsTable(t, size, count, slots, n) /\ Made(size, count, slots, n)
  BY TableParts
<1> size \in Nat /\ count \in Nat /\ n \in BOOLEAN
  BY <1>1
<1>2. r = Table(size, n)
  <2>1. PICK blank : blank = Blank(size)
    OBVIOUS
  <2>2. PICK w : w = [t EXCEPT !.count = 0]
    OBVIOUS
  <2>3. w = [size |-> size, count |-> 0, slots |-> slots, initial |-> n]
    BY <1>1, <2>2 DEF IsTable
  <2>4. r = [w EXCEPT !.slots = blank]
    BY <1>1, <2>1, <2>2
  <2> QED
    BY <2>1, <2>3, <2>4 DEF Table
<1> QED
  <2>1. SizeOK(size)
    BY <1>1 DEF Made
  <2> QED
    BY <1>1, <1>2, <2>1, BlankTable

LEMMA ShrunkRun ==
    ASSUME NEW t, TableOK(t), IsSparseSize(t, t.size)
    PROVE  \E r : /\ IsRunOf(Resized(t, ShrunkSize(t)), r, Alloc \o Free(t), None, TRUE)
                  /\ TableOK(r) /\ Contents(r) = Contents(t)
                  /\ r.size >= 4 /\ r.initial = FALSE
<1>1. PICK size \in Nat : size = ShrunkSize(t) /\ size >= 4 /\ SizeOK(size)
                          /\ t.count < FillLimit(size)
  BY ShrunkFacts
<1>2. t.count <= FillLimit(size)
  <2>1. PICK room \in Nat, count \in Nat : room = FillLimit(size) /\ count = t.count
    BY LimitFacts, TableFacts
  <2> QED
    BY <1>1, <2>1
<1>3. PICK r : r = Rehash(t, size)
  OBVIOUS
<1>4. Rehashed(t, size, r)
  <2>1. Roomy(t, size)
    BY <1>1, <1>2 DEF Roomy
  <2> QED
    BY <1>3, <2>1, RehashFacts
<1>5. PICK calls : calls = Alloc \o Free(t)
  OBVIOUS
<1>6. Resized(t, ShrunkSize(t)) = Mutated(Run(r, calls, None))
  BY <1>1, <1>3, <1>5 DEF Resized
<1>7. IsRunOf(Resized(t, ShrunkSize(t)), r, Alloc \o Free(t), None, TRUE)
  BY <1>5, <1>6 DEF Mutated, Run, IsRunOf
<1>8. r.size >= 4
  BY <1>1, <1>4 DEF Rehashed
<1> QED
  BY <1>4, <1>7, <1>8 DEF Rehashed

(* The three ways in which a key is written.                               *)
WroteNew(t, k, r, calls, result, mutated) ==
    /\ \A p \in Contents(t) : ~ IsEqual(p, k)
    /\ \E room : calls = room \o <<Retain(k)>> /\ Grew(t, r, room)
    /\ result = Hole /\ mutated = TRUE
    /\ Contents(r) = Contents(t) \cup {k} /\ r.count = t.count + 1

WroteNothing(t, k, mode, r, calls, result, mutated) ==
    \E old \in Contents(t) :
        /\ IsEqual(old, k) /\ r = t /\ calls = <<>> /\ mutated = FALSE
        /\ \/ mode = "insert" /\ result = old
           \/ mode = "overwrite" /\ old = k /\ result = Hole

WroteOver(t, k, mode, r, calls, result, mutated) ==
    \E old \in Contents(t) :
        /\ IsEqual(old, k) /\ old # k /\ mode = "overwrite"
        /\ calls = <<Retain(k), Release(old)>> /\ result = old /\ mutated = TRUE
        /\ Contents(r) = (Contents(t) \ {old}) \cup {k}
        /\ r.count = t.count /\ r.size = t.size /\ r.initial = t.initial

Wrote(t, k, mode, r, calls, result, mutated) ==
    \/ WroteNew(t, k, r, calls, result, mutated)
    \/ WroteNothing(t, k, mode, r, calls, result, mutated)
    \/ WroteOver(t, k, mode, r, calls, result, mutated)

(* A write that does not end is in a storage without a hole.               *)
LEMMA WriteFacts ==
    ASSUME NEW t, TableOK(t), NEW k \in Key, NEW mode \in {"insert", "overwrite"}
    PROVE  /\ ~ ProbeEnds(t, k) => /\ WriteKey(t, k, mode) = Stopped(Hung)
                                   /\ t.count = t.size /\ t.count # 0
           /\ ProbeEnds(t, k) =>
                  \E r, calls, result, mutated :
                      /\ IsRunOf(WriteKey(t, k, mode), r, calls, result, mutated)
                      /\ TableOK(r) /\ Wrote(t, k, mode, r, calls, result, mutated)
<1>1. ASSUME ~ ProbeEnds(t, k)
      PROVE  WriteKey(t, k, mode) = Stopped(Hung) /\ t.count = t.size /\ t.count # 0
  <2>1. ~ (t.count < t.size) /\ t.count # 0 /\ t.count <= t.size
    BY <1>1, HasFacts, TableFacts
  <2>2. t.count \in Nat /\ t.size \in Nat
    BY TableFacts
  <2>3. t.count = t.size
    BY <2>1, <2>2
  <2> QED
    BY <1>1, <2>1, <2>3 DEF WriteKey
<1>2. ASSUME ProbeEnds(t, k)
      PROVE  \E r, calls, result, mutated :
                 /\ IsRunOf(WriteKey(t, k, mode), r, calls, result, mutated)
                 /\ TableOK(r) /\ Wrote(t, k, mode, r, calls, result, mutated)
  <2>1. CASE ~ Has(t, k)
    <3>1. WriteKey(t, k, mode) = Added(t, k)
      BY <1>2, <2>1 DEF WriteKey
    <3>2. \A p \in Contents(t) : ~ IsEqual(p, k)
      BY <2>1, ContentsFacts
    <3>3. PICK r, calls : /\ IsRunOf(Added(t, k), r, calls \o <<Retain(k)>>, Hole, TRUE)
                          /\ TableOK(r) /\ r.count = t.count + 1
                          /\ Contents(r) = Contents(t) \cup {k} /\ Grew(t, r, calls)
      BY <3>2, AddedFacts
    <3>4. WroteNew(t, k, r, calls \o <<Retain(k)>>, Hole, TRUE)
      BY <3>2, <3>3 DEF WroteNew
    <3> QED
      BY <3>1, <3>3, <3>4 DEF Wrote
  <2>2. CASE Has(t, k)
    <3>1. PICK old \in Contents(t) : old = Found(t, k) /\ IsEqual(old, k)
      BY <1>2, <2>2, ContentsFacts
    <3>2. t.slots[FindIndex(t, k)] = old
      BY <3>1 DEF Found
    <3>3. WriteKey(t, k, mode) = IF mode = "insert" THEN Run(t, <<>>, old)
                                 ELSE IF old = k THEN Run(t, <<>>, Hole)
                                 ELSE Replaced(t, k, old)
      BY <1>2, <2>2, <3>2 DEF WriteKey
    <3>4. CASE mode = "insert"
      <4>1. IsRunOf(WriteKey(t, k, mode), t, <<>>, old, FALSE)
        BY <3>3, <3>4 DEF Run, IsRunOf
      <4>2. WroteNothing(t, k, mode, t, <<>>, old, FALSE)
        BY <3>1, <3>4 DEF WroteNothing
      <4> QED
        BY <4>1, <4>2 DEF Wrote
    <3>5. CASE mode # "insert" /\ old = k
      <4>1. IsRunOf(WriteKey(t, k, mode), t, <<>>, Hole, FALSE)
        BY <3>3, <3>5 DEF Run, IsRunOf
      <4>2. WroteNothing(t, k, mode, t, <<>>, Hole, FALSE)
        BY <3>1, <3>5 DEF WroteNothing
      <4> QED
        BY <4>1, <4>2 DEF Wrote
    <3>6. CASE mode # "insert" /\ old # k
      <4>1. PICK r : /\ IsRunOf(Replaced(t, k, old), r, <<Retain(k), Release(old)>>, old, TRUE)
                     /\ Swapped(t, k, old, r)
        BY <3>1, ReplacedFacts
      <4>2. WriteKey(t, k, mode) = Replaced(t, k, old) /\ mode = "overwrite"
        BY <3>3, <3>6
      <4>3. WroteOver(t, k, mode, r, <<Retain(k), Release(old)>>, old, TRUE)
        BY <3>1, <3>6, <4>1, <4>2 DEF WroteOver, Swapped
      <4> QED
        BY <4>1, <4>2, <4>3 DEF Wrote, Swapped
    <3> QED
      BY <3>4, <3>5, <3>6
  <2> QED
    BY <2>1, <2>2
<1> QED
  BY <1>1, <1>2

-----------------------------------------------------------------------------
(* ---- References ----                                                    *)

Pointer == Key \cup {Storage}
Counted == Owned \cup {Storage}
Calls   == Seq({-1, 1} \X Pointer)

LEMMA PointerFacts ==
    /\ Owned \subseteq Pointer /\ Counted \subseteq Pointer /\ Storage \notin Key
    /\ Storage \notin Owned /\ Hole \notin Key
BY PointerSetAssumption DEF Pointer, Counted

LEMMA PairConcat ==
    ASSUME NEW a, NEW b
    PROVE  <<a>> \o <<b>> = <<a, b>>
<1> DEFINE c == <<a>> \o <<b>>
<1>1. c \in Seq({a, b}) /\ Len(c) = 2 /\ c[1] = a /\ c[2] = b
  OBVIOUS
<1> HIDE DEF c
<1>2. c = [i \in 1 .. 2 |-> c[i]]
  BY <1>1
<1>3. <<a, b>> = [i \in 1 .. 2 |-> c[i]]
  BY <1>1
<1> QED
  BY <1>2, <1>3 DEF c

LEMMA ConcatFacts ==
    /\ \A a, b \in Calls : a \o b \in Calls
    /\ \A a, b, c \in Calls : (a \o b) \o c = a \o (b \o c)
    /\ \A a \in Calls : a \o <<>> = a /\ <<>> \o a = a
    /\ <<>> \in Calls
    /\ \A p \in Pointer : Retain(p) \in {-1, 1} \X Pointer /\ Release(p) \in {-1, 1} \X Pointer
    /\ \A p \in Pointer : <<Retain(p)>> \in Calls /\ <<Release(p)>> \in Calls
    /\ \A p, q : <<Retain(p), Release(q)>> = <<Retain(p)>> \o <<Release(q)>>
<1>1. ASSUME NEW a \in Calls, NEW b \in Calls PROVE a \o b \in Calls
  BY DEF Calls
<1>2. ASSUME NEW a \in Calls, NEW b \in Calls, NEW c \in Calls
      PROVE  (a \o b) \o c = a \o (b \o c)
  BY DEF Calls
<1>3. \A a \in Calls : a \o <<>> = a /\ <<>> \o a = a
  BY DEF Calls
<1>4. <<>> \in Calls
  BY DEF Calls
<1>5. \A p \in Pointer : Retain(p) \in {-1, 1} \X Pointer /\ Release(p) \in {-1, 1} \X Pointer
  BY DEF Retain, Release
<1>6. \A p \in Pointer : <<Retain(p)>> \in Calls /\ <<Release(p)>> \in Calls
  BY <1>5 DEF Calls
<1>7. \A a, b : <<a, b>> = <<a>> \o <<b>>
  BY PairConcat
<1> QED
  BY <1>1, <1>2, <1>3, <1>4, <1>5, <1>6, <1>7

(* c[n] are the reference counts after n of the calls.                     *)
IsCount(c, r, calls) ==
    c = [n \in 0 .. Len(calls) |->
            IF n = 0 THEN r
            ELSE IF calls[n][2] \in Counted
                 THEN [c[n - 1] EXCEPT ![calls[n][2]] = @ + calls[n][1]]
                 ELSE c[n - 1]]

Gone(c, calls) ==
    {p \in Owned : \E n \in DOMAIN calls : calls[n] = <<-1, p>> /\ c[n][p] <= 0}

(* The calls turn the counts r into s; the last references to gone go.     *)
Ran(r, calls, s, gone) ==
    \E c : IsCount(c, r, calls) /\ s = c[Len(calls)] /\ gone = Gone(c, calls)

LEMMA CountUnique ==
    ASSUME NEW calls \in Calls, NEW r, NEW c, NEW d, IsCount(c, r, calls), IsCount(d, r, calls)
    PROVE  c = d
<1>1. PICK l \in Nat : l = Len(calls)
  BY DEF Calls
<1> DEFINE f(g, n) == IF n = 0 THEN r
                      ELSE IF calls[n][2] \in Counted
                           THEN [g[n - 1] EXCEPT ![calls[n][2]] = @ + calls[n][1]]
                           ELSE g[n - 1]
           T == {n \in Nat : n <= l => c[n] = d[n]}
<1>2. /\ c = [n \in 0 .. l |-> f(c, n)] /\ d = [n \in 0 .. l |-> f(d, n)]
  BY <1>1 DEF IsCount
<1>3. 0 \in T
  BY <1>2
<1>4. ASSUME NEW n \in Nat, n \in T PROVE n + 1 \in T
  <2> SUFFICES ASSUME n + 1 <= l PROVE c[n + 1] = d[n + 1]
    OBVIOUS
  <2>1. n + 1 \in 0 .. l /\ (n + 1) - 1 = n /\ n <= l
    OBVIOUS
  <2>2. c[n] = d[n]
    BY <1>4, <2>1
  <2>3. c[n + 1] = f(c, n + 1) /\ d[n + 1] = f(d, n + 1)
    <3> HIDE DEF f
    <3> QED
      BY <1>2, <2>1
  <2> QED
    BY <2>1, <2>2, <2>3
<1> HIDE DEF T
<1>5. \A n \in Nat : n \in T
  BY <1>3, <1>4, Induction
<1>6. \A n \in 0 .. l : c[n] = d[n]
  BY <1>5 DEF T
<1> HIDE DEF f
<1> QED
  BY <1>2, <1>6

LEMMA RanCallbacks ==
    ASSUME NEW calls \in Calls, NEW tables, NEW s, NEW gone,
           Ran(refs, calls, s, gone), MakeCalls(calls, tables)
    PROVE  /\ refs' = s
           /\ dangling' = {p \in dangling \cup gone : Holders(tables, p) # {}}
<1>1. PICK c : IsCount(c, refs, calls) /\ s = c[Len(calls)] /\ gone = Gone(c, calls)
  BY DEF Ran
<1> DEFINE d == CHOOSE g : IsCount(g, refs, calls)
<1>2. IsCount(d, refs, calls)
  BY <1>1
<1>3. d = c
  <2> HIDE DEF d
  <2> QED
    BY <1>1, <1>2, CountUnique
<1>4. /\ refs' = d[Len(calls)]
      /\ dangling' = {p \in dangling \cup Gone(d, calls) : Holders(tables, p) # {}}
  BY DEF MakeCalls, IsCount, Gone, Counted
<1> QED
  BY <1>1, <1>3, <1>4

LEMMA RanNothing == \A r : Ran(r, <<>>, r, {})
<1> SUFFICES ASSUME NEW r PROVE Ran(r, <<>>, r, {})
  OBVIOUS
<1>1. PICK c : c = [n \in 0 .. 0 |-> r]
  OBVIOUS
<1>2. Len(<<>>) = 0 /\ DOMAIN <<>> = {}
  OBVIOUS
<1>3. c[0] = r
  BY <1>1
<1>4. IsCount(c, r, <<>>)
  BY <1>1, <1>2 DEF IsCount
<1>5. Gone(c, <<>>) = {}
  BY <1>2 DEF Gone
<1> QED
  BY <1>2, <1>3, <1>4, <1>5 DEF Ran

LEMMA RanNothingGone == \A r, s, gone : Ran(r, <<>>, s, gone) => gone = {}
<1>1. DOMAIN <<>> = {}
  OBVIOUS
<1> QED
  BY <1>1 DEF Ran, Gone

LEMMA RanConcat ==
    ASSUME NEW a \in Calls, NEW b \in Calls, NEW r, NEW s, NEW u, NEW g, NEW h,
           Ran(r, a, s, g), Ran(s, b, u, h)
    PROVE  Ran(r, a \o b, u, g \cup h)
<1>1. PICK l \in Nat, m \in Nat : l = Len(a) /\ m = Len(b)
  BY DEF Calls
<1>2. PICK c : IsCount(c, r, a) /\ s = c[l] /\ g = Gone(c, a)
  BY <1>1 DEF Ran
<1>3. PICK d : IsCount(d, s, b) /\ u = d[m] /\ h = Gone(d, b)
  BY <1>1 DEF Ran
<1>4. PICK ab : ab = a \o b
  OBVIOUS
<1>5. /\ ab \in Calls /\ Len(ab) = l + m /\ DOMAIN ab = 1 .. l + m
      /\ DOMAIN a = 1 .. l /\ DOMAIN b = 1 .. m
      /\ \A n \in 1 .. l : ab[n] = a[n]
      /\ \A n \in 1 .. m : ab[l + n] = b[n]
  BY <1>1, <1>4 DEF Calls
<1> DEFINE f(g0, calls, n) == IF calls[n][2] \in Counted
                              THEN [g0[n - 1] EXCEPT ![calls[n][2]] = @ + calls[n][1]]
                              ELSE g0[n - 1]
           e == [n \in 0 .. l + m |-> IF n <= l THEN c[n] ELSE d[n - l]]
<1>6. /\ c[0] = r /\ d[0] = s
      /\ \A n \in 1 .. l : c[n] = f(c, a, n)
      /\ \A n \in 1 .. m : d[n] = f(d, b, n)
  <2>1. c = [n \in 0 .. l |-> IF n = 0 THEN r ELSE f(c, a, n)]
    BY <1>1, <1>2 DEF IsCount
  <2>2. d = [n \in 0 .. m |-> IF n = 0 THEN s ELSE f(d, b, n)]
    BY <1>1, <1>3 DEF IsCount
  <2> HIDE DEF f
  <2>3. (\A n \in 1 .. l : n \in 0 .. l /\ n # 0) /\ (\A n \in 1 .. m : n \in 0 .. m /\ n # 0)
    OBVIOUS
  <2>4. 0 \in 0 .. l /\ 0 \in 0 .. m
    OBVIOUS
  <2>5. c[0] = r /\ \A n \in 1 .. l : c[n] = f(c, a, n)
    BY <2>1, <2>3, <2>4
  <2>6. d[0] = s /\ \A n \in 1 .. m : d[n] = f(d, b, n)
    BY <2>2, <2>3, <2>4
  <2> QED
    BY <2>5, <2>6
<1>7. /\ \A n \in 0 .. l : e[n] = c[n]
      /\ \A n \in 0 .. m : e[l + n] = d[n]
  <2>1. \A n \in 0 .. l : n \in 0 .. l + m /\ n <= l
    OBVIOUS
  <2>2. \A n \in 1 .. m : l + n \in 0 .. l + m /\ ~ (l + n <= l) /\ (l + n) - l = n
    OBVIOUS
  <2>3. \A n \in 0 .. m : n = 0 \/ n \in 1 .. m
    OBVIOUS
  <2>4. \A n \in 0 .. l : e[n] = c[n]
    BY <2>1
  <2>5. \A n \in 1 .. m : e[l + n] = d[n]
    BY <2>2
  <2>6. l \in 0 .. l /\ l + 0 = l
    OBVIOUS
  <2> HIDE DEF e
  <2> QED
    BY <1>2, <1>6, <2>3, <2>4, <2>5, <2>6
<1>8. \A n \in 1 .. l + m : n \in 1 .. l \/ \E k \in 1 .. m : n = l + k
  <2> TAKE n \in 1 .. l + m
  <2>1. n <= l \/ (n - l \in 1 .. m /\ n = l + (n - l))
    OBVIOUS
  <2> QED
    BY <2>1
<1>9. e[0] = r /\ \A n \in 1 .. l + m : e[n] = f(e, ab, n)
  <2>1. \A n \in 1 .. l : n - 1 \in 0 .. l /\ n \in 0 .. l
    OBVIOUS
  <2>2. \A n \in 1 .. l : e[n] = f(e, ab, n)
    <3> TAKE n \in 1 .. l
    <3>1. e[n] = c[n] /\ e[n - 1] = c[n - 1] /\ ab[n] = a[n]
      <4> HIDE DEF e
      <4> QED
        BY <1>5, <1>7, <2>1
    <3>2. c[n] = f(c, a, n)
      BY <1>6
    <3> HIDE DEF e
    <3> QED
      BY <3>1, <3>2
  <2>3. \A k \in 1 .. m : e[l + k] = f(e, ab, l + k)
    <3> TAKE k \in 1 .. m
    <3>1. k - 1 \in 0 .. m /\ k \in 0 .. m /\ (l + k) - 1 = l + (k - 1)
      OBVIOUS
    <3>2. e[l + k] = d[k] /\ e[(l + k) - 1] = d[k - 1] /\ ab[l + k] = b[k]
      <4> HIDE DEF e
      <4> QED
        BY <1>5, <1>7, <3>1
    <3>3. d[k] = f(d, b, k)
      BY <1>6
    <3> HIDE DEF e
    <3> QED
      BY <3>2, <3>3
  <2>4. e[0] = r
    <3>1. 0 \in 0 .. l
      OBVIOUS
    <3> HIDE DEF e
    <3> QED
      BY <1>6, <1>7, <3>1
  <2> HIDE DEF e, f
  <2> QED
    BY <1>8, <2>2, <2>3, <2>4
<1>10. IsCount(e, r, ab)
  <2>1. e = [n \in 0 .. l + m |-> e[n]]
    OBVIOUS
  <2>2. \A n \in 0 .. l + m : n = 0 \/ n \in 1 .. l + m
    OBVIOUS
  <2>3. \A n \in 0 .. l + m : e[n] = IF n = 0 THEN r ELSE f(e, ab, n)
    <3> HIDE DEF e, f
    <3> QED
      BY <1>9, <2>2
  <2> HIDE DEF e
  <2> QED
    BY <1>5, <2>1, <2>3 DEF IsCount
<1>11. Gone(e, ab) = g \cup h
  <2>1. ASSUME NEW p \in Owned
        PROVE  (\E n \in 1 .. l + m : ab[n] = <<-1, p>> /\ e[n][p] <= 0)
                  <=> \/ \E n \in 1 .. l : a[n] = <<-1, p>> /\ c[n][p] <= 0
                      \/ \E n \in 1 .. m : b[n] = <<-1, p>> /\ d[n][p] <= 0
    <3>1. \A n \in 1 .. l : n \in 1 .. l + m /\ e[n] = c[n] /\ ab[n] = a[n]
      <4>1. \A n \in 1 .. l : n \in 0 .. l /\ n \in 1 .. l + m
        OBVIOUS
      <4> HIDE DEF e
      <4> QED
        BY <1>5, <1>7, <4>1
    <3>2. \A n \in 1 .. m : l + n \in 1 .. l + m /\ e[l + n] = d[n] /\ ab[l + n] = b[n]
      <4>1. \A n \in 1 .. m : n \in 0 .. m /\ l + n \in 1 .. l + m
        OBVIOUS
      <4> HIDE DEF e
      <4> QED
        BY <1>5, <1>7, <4>1
    <3> HIDE DEF e
    <3> QED
      BY <1>8, <3>1, <3>2
  <2> HIDE DEF e
  <2> QED
    BY <1>2, <1>3, <1>5, <2>1 DEF Gone
<1>12. e[l + m] = u
  <2>1. m \in 0 .. m
    OBVIOUS
  <2> HIDE DEF e
  <2> QED
    BY <1>3, <1>7, <2>1
<1> HIDE DEF e
<1> QED
  BY <1>4, <1>5, <1>10, <1>11, <1>12 DEF Ran

LEMMA RanOne ==
    ASSUME NEW r, NEW p \in Pointer, NEW d \in {-1, 1}
    PROVE  Ran(r, <<<<d, p>>>>, IF p \in Counted THEN [r EXCEPT ![p] = @ + d] ELSE r,
               IF p \in Owned /\ d = -1 /\ [r EXCEPT ![p] = @ + d][p] <= 0 THEN {p} ELSE {})
<1> DEFINE s == IF p \in Counted THEN [r EXCEPT ![p] = @ + d] ELSE r
<1>1. PICK call, calls : call = <<d, p>> /\ calls = <<call>>
  OBVIOUS
<1>2. PICK c : c = [n \in 0 .. 1 |-> IF n = 0 THEN r ELSE s]
  OBVIOUS
<1>3. c[0] = r /\ c[1] = s /\ Len(calls) = 1 /\ DOMAIN calls = {1} /\ calls[1] = call
  BY <1>1, <1>2
<1>4. call[1] = d /\ call[2] = p /\ \A q : call = <<-1, q>> <=> d = -1 /\ q = p
  BY <1>1
<1>5. \A n \in 0 .. 1 : n = 0 \/ (n = 1 /\ n - 1 = 0)
  OBVIOUS
<1>6. \A n \in 0 .. 1 : c[n] = IF n = 0 THEN r
                               ELSE IF calls[n][2] \in Counted
                                    THEN [c[n - 1] EXCEPT ![calls[n][2]] = @ + calls[n][1]]
                                    ELSE c[n - 1]
  <2> TAKE n \in 0 .. 1
  <2>1. CASE n = 0
    BY <1>3, <2>1
  <2>2. CASE n = 1
    <3>1. n - 1 = 0
      BY <2>2
    <3> HIDE DEF s
    <3>2. c[n] = s /\ c[n - 1] = r /\ calls[n][2] = p /\ calls[n][1] = d /\ n # 0
      BY <1>3, <1>4, <2>2, <3>1
    <3> QED
      BY <3>2 DEF s
  <2> QED
    BY <1>5, <2>1, <2>2
<1>7. c = [n \in 0 .. 1 |-> c[n]]
  BY <1>2
<1> HIDE DEF s
<1>8. IsCount(c, r, calls)
  BY <1>3, <1>6, <1>7 DEF IsCount
<1>9. Gone(c, calls) = IF p \in Owned /\ d = -1 /\ s[p] <= 0 THEN {p} ELSE {}
  BY <1>3, <1>4 DEF Gone
<1>10. Ran(r, calls, s, Gone(c, calls))
  BY <1>3, <1>8 DEF Ran
<1>11. (p \in Owned /\ d = -1 /\ s[p] <= 0)
           <=> (p \in Owned /\ d = -1 /\ [r EXCEPT ![p] = @ + d][p] <= 0)
  BY DEF s, Counted
<1>12. Gone(c, calls) = IF p \in Owned /\ d = -1 /\ [r EXCEPT ![p] = @ + d][p] <= 0
                        THEN {p} ELSE {}
  BY <1>9, <1>11
<1> QED
  BY <1>1, <1>10, <1>12 DEF s

-----------------------------------------------------------------------------
(* cont[l] is what a set has references to; None stands for the temporary  *)
(* set of a union or intersection                                          *)

Place == SetId \cup {None}

ContOK(cont) == cont \in [Place -> SUBSET Pointer]

Held(cont, p) == {l \in Place : p \in cont[l]}

Put(cont, m, A)     == [cont EXCEPT ![m] = A]
With(cont, m, p)    == [cont EXCEPT ![m] = @ \cup {p}]
Without(cont, m, p) == [cont EXCEPT ![m] = @ \ {p}]

(* every pointer is retained once for each place that has it               *)
Counts(r, cont) ==
    /\ r \in [Pointer -> Nat]
    /\ \A p \in Counted : r[p] = Cardinality(Held(cont, p))
    /\ \A p \in Pointer \ Counted : r[p] = 0

(* After these callbacks, starting from refs, the counts are those of the  *)
(* given contents, and what has been given up is in no set.                *)
Settled(calls, cont) ==
    /\ calls \in Calls /\ ContOK(cont)
    /\ \E s, gone : /\ Ran(refs, calls, s, gone)
                    /\ Counts(s, cont)
                    /\ \A p \in gone : Held(cont, p) = {}

LEMMA PlaceFacts ==
    /\ IsFiniteSet(Place) /\ None \in Place /\ None \notin SetId /\ SetId \subseteq Place
    /\ IsFiniteSet(SetId) /\ Cardinality(SetId) \in Nat
<1>1. IsFiniteSet(SetId) /\ None \notin SetId
  BY PointerSetAssumption
<1>2. IsFiniteSet(SetId \cup {None}) /\ Cardinality(SetId) \in Nat
  BY <1>1, FS_AddElement, FS_CardinalityType
<1> QED
  BY <1>1, <1>2 DEF Place

LEMMA HeldFinite ==
    ASSUME NEW cont, NEW p
    PROVE  IsFiniteSet(Held(cont, p)) /\ Cardinality(Held(cont, p)) \in Nat
<1>1. Held(cont, p) \subseteq Place
  BY DEF Held
<1> QED
  BY <1>1, PlaceFacts, FS_Subset, FS_CardinalityType

LEMMA PutFacts ==
    ASSUME NEW cont, ContOK(cont), NEW m \in Place
    PROVE  /\ \A A : Put(cont, m, A)[m] = A /\ \A l \in Place : l # m => Put(cont, m, A)[l] = cont[l]
           /\ \A A, B : Put(Put(cont, m, A), m, B) = Put(cont, m, B)
           /\ \A A : A \subseteq Pointer => ContOK(Put(cont, m, A))
           /\ Put(cont, m, cont[m]) = cont
           /\ \A p : With(cont, m, p) = Put(cont, m, cont[m] \cup {p})
           /\ \A p : Without(cont, m, p) = Put(cont, m, cont[m] \ {p})
BY DEF ContOK, Put, With, Without

LEMMA HeldMore ==
    ASSUME NEW cont, ContOK(cont), NEW m \in Place, NEW p \in Pointer, p \notin cont[m],
           NEW more, more = With(cont, m, p)
    PROVE  /\ ContOK(more)
           /\ Cardinality(Held(more, p)) = Cardinality(Held(cont, p)) + 1
           /\ \A q : q # p => Held(more, q) = Held(cont, q)
<1>1. more = [l \in Place |-> IF l = m THEN cont[m] \cup {p} ELSE cont[l]]
  BY DEF ContOK, With
<1>2. ContOK(more)
  BY <1>1 DEF ContOK
<1>3. Held(more, p) = Held(cont, p) \cup {m} /\ m \notin Held(cont, p)
  BY <1>1 DEF Held
<1>4. Cardinality(Held(more, p)) = Cardinality(Held(cont, p)) + 1
  BY <1>3, HeldFinite, FS_AddElement
<1>5. \A q : q # p => Held(more, q) = Held(cont, q)
  BY <1>1 DEF Held
<1> QED
  BY <1>2, <1>4, <1>5

LEMMA HeldLess ==
    ASSUME NEW cont, ContOK(cont), NEW m \in Place, NEW p, p \in cont[m],
           NEW less, less = Without(cont, m, p)
    PROVE  /\ ContOK(less) /\ p \in Pointer
           /\ Cardinality(Held(cont, p)) = Cardinality(Held(less, p)) + 1
           /\ Cardinality(Held(less, p)) = 0 => Held(less, p) = {}
           /\ \A q : q # p => Held(less, q) = Held(cont, q)
           /\ \A q : Held(less, q) \subseteq Held(cont, q)
<1>1. less = [l \in Place |-> IF l = m THEN cont[m] \ {p} ELSE cont[l]]
  BY DEF ContOK, Without
<1>2. ContOK(less) /\ p \in Pointer
  BY <1>1 DEF ContOK
<1>3. p \notin less[m] /\ cont = With(less, m, p)
  <2>1. cont = [l \in Place |-> cont[l]]
    BY DEF ContOK
  <2>2. (cont[m] \ {p}) \cup {p} = cont[m]
    OBVIOUS
  <2> QED
    BY <1>1, <2>1, <2>2 DEF With
<1>4. /\ Cardinality(Held(cont, p)) = Cardinality(Held(less, p)) + 1
      /\ \A q : q # p => Held(cont, q) = Held(less, q)
  BY <1>2, <1>3, HeldMore
<1>5. Cardinality(Held(less, p)) = 0 => Held(less, p) = {}
  BY HeldFinite, FS_EmptySet
<1>6. \A q : Held(less, q) \subseteq Held(cont, q)
  BY <1>1 DEF Held
<1> QED
  BY <1>2, <1>4, <1>5, <1>6

LEMMA SettledNothing ==
    ASSUME NEW cont, ContOK(cont), Counts(refs, cont)
    PROVE  Settled(<<>>, cont)
<1>1. <<>> \in Calls
  BY ConcatFacts
<1>2. Ran(refs, <<>>, refs, {})
  BY RanNothing
<1> QED
  BY <1>1, <1>2 DEF Settled

(* no key has been released                                                *)
Keeping(calls) == \A n \in DOMAIN calls, p \in Owned : calls[n] # <<-1, p>>

(* A pointer is retained for a set that does not have it.  If there was a  *)
(* release before, then some set has had the pointer all the time.         *)
LEMMA SettledRetain ==
    ASSUME NEW calls, NEW cont, Settled(calls, cont),
           NEW m \in Place, NEW p \in Pointer, p \notin cont[m],
           Keeping(calls) \/ p \notin Owned \/ Held(cont, p) # {}
    PROVE  Settled(calls \o <<Retain(p)>>, With(cont, m, p))
<1>1. PICK s, gone : /\ Ran(refs, calls, s, gone) /\ Counts(s, cont)
                     /\ \A q \in gone : Held(cont, q) = {}
  BY DEF Settled
<1>2. /\ s \in [Pointer -> Nat] /\ \A q \in Counted : s[q] = Cardinality(Held(cont, q))
      /\ \A q \in Pointer \ Counted : s[q] = 0
  BY <1>1 DEF Counts
<1>3. calls \in Calls /\ ContOK(cont) /\ <<Retain(p)>> \in Calls
  BY ConcatFacts DEF Settled
<1>4. PICK u : u = IF p \in Counted THEN [s EXCEPT ![p] = @ + 1] ELSE s
  OBVIOUS
<1>5. Ran(s, <<Retain(p)>>, u, {})
  <2>1. PICK d \in {-1, 1} : d = 1
    OBVIOUS
  <2>2. d # -1
    BY <2>1
  <2>3. Ran(s, <<<<d, p>>>>, IF p \in Counted THEN [s EXCEPT ![p] = @ + d] ELSE s,
            IF p \in Owned /\ d = -1 /\ [s EXCEPT ![p] = @ + d][p] <= 0 THEN {p} ELSE {})
    BY RanOne
  <2>4. (IF p \in Owned /\ d = -1 /\ [s EXCEPT ![p] = @ + d][p] <= 0 THEN {p} ELSE {}) = {}
    BY <2>2
  <2> QED
    BY <1>4, <2>1, <2>3, <2>4 DEF Retain
<1>6. Ran(refs, calls \o <<Retain(p)>>, u, gone)
  <2>1. Ran(refs, calls \o <<Retain(p)>>, u, gone \cup {})
    BY <1>1, <1>3, <1>5, RanConcat
  <2>2. gone \cup {} = gone
    OBVIOUS
  <2> QED
    BY <2>1, <2>2
<1>7. PICK more : more = With(cont, m, p)
  OBVIOUS
<1>8. /\ ContOK(more)
      /\ Cardinality(Held(more, p)) = Cardinality(Held(cont, p)) + 1
      /\ \A q : q # p => Held(more, q) = Held(cont, q)
  BY <1>3, <1>7, HeldMore
<1>9. Counts(u, more)
  <2>1. u \in [Pointer -> Nat]
    BY <1>2, <1>4
  <2>2. ASSUME NEW q \in Counted PROVE u[q] = Cardinality(Held(more, q))
    BY <1>2, <1>4, <1>8, PointerFacts
  <2>3. \A q \in Pointer \ Counted : u[q] = 0
    BY <1>2, <1>4
  <2> QED
    BY <2>1, <2>2, <2>3 DEF Counts
<1>10. gone \subseteq Owned /\ (Keeping(calls) => gone = {})
  BY <1>1 DEF Ran, Gone, Keeping
<1>11. \A q \in gone : Held(more, q) = {}
  BY <1>1, <1>8, <1>10
<1>12. calls \o <<Retain(p)>> \in Calls
  BY <1>3, ConcatFacts
<1> QED
  BY <1>6, <1>7, <1>8, <1>9, <1>11, <1>12 DEF Settled

LEMMA SettledRelease ==
    ASSUME NEW calls, NEW cont, Settled(calls, cont), NEW m \in Place, NEW p, p \in cont[m]
    PROVE  Settled(calls \o <<Release(p)>>, Without(cont, m, p))
<1>1. PICK s, gone : /\ Ran(refs, calls, s, gone) /\ Counts(s, cont)
                     /\ \A q \in gone : Held(cont, q) = {}
  BY DEF Settled
<1>2. /\ s \in [Pointer -> Nat] /\ \A q \in Counted : s[q] = Cardinality(Held(cont, q))
      /\ \A q \in Pointer \ Counted : s[q] = 0
  BY <1>1 DEF Counts
<1>3. calls \in Calls /\ ContOK(cont)
  BY DEF Settled
<1>4. PICK less : less = Without(cont, m, p)
  OBVIOUS
<1>5. /\ ContOK(less) /\ p \in Pointer
      /\ Cardinality(Held(cont, p)) = Cardinality(Held(less, p)) + 1
      /\ Cardinality(Held(less, p)) = 0 => Held(less, p) = {}
      /\ \A q : q # p => Held(less, q) = Held(cont, q)
      /\ \A q : Held(less, q) \subseteq Held(cont, q)
  BY <1>3, <1>4, HeldLess
<1> p \in Pointer
  BY <1>5
<1>6. <<Release(p)>> \in Calls /\ calls \o <<Release(p)>> \in Calls
  BY <1>3, ConcatFacts
<1>7. PICK a \in Nat, b \in Nat : a = s[p] /\ b = Cardinality(Held(less, p))
  BY <1>2, HeldFinite
<1>8. p \in Counted => a = b + 1
  BY <1>2, <1>5, <1>7
<1>9. PICK u : u = IF p \in Counted THEN [s EXCEPT ![p] = @ + -1] ELSE s
  OBVIOUS
<1>10. p \in Counted => u[p] = b /\ [s EXCEPT ![p] = @ + -1][p] = b
  <2>1. a = b + 1 => a + -1 = b
    OBVIOUS
  <2> QED
    BY <1>2, <1>7, <1>8, <1>9, <2>1
<1>11. PICK h : h = IF p \in Owned /\ [s EXCEPT ![p] = @ + -1][p] <= 0 THEN {p} ELSE {}
  OBVIOUS
<1>12. Ran(s, <<Release(p)>>, u, h)
  <2>1. PICK d \in {-1, 1} : d = -1
    OBVIOUS
  <2>2. Ran(s, <<<<d, p>>>>, IF p \in Counted THEN [s EXCEPT ![p] = @ + d] ELSE s,
            IF p \in Owned /\ d = -1 /\ [s EXCEPT ![p] = @ + d][p] <= 0 THEN {p} ELSE {})
    BY RanOne
  <2> QED
    BY <1>9, <1>11, <2>1, <2>2 DEF Release
<1>13. Ran(refs, calls \o <<Release(p)>>, u, gone \cup h)
  BY <1>1, <1>3, <1>6, <1>12, RanConcat
<1>14. Counts(u, less)
  <2>1. u \in [Pointer -> Nat]
    BY <1>2, <1>7, <1>9, <1>10
  <2>2. ASSUME NEW q \in Counted PROVE u[q] = Cardinality(Held(less, q))
    BY <1>2, <1>5, <1>7, <1>9, <1>10, <2>2, PointerFacts
  <2>3. \A q \in Pointer \ Counted : u[q] = 0
    BY <1>2, <1>9
  <2> QED
    BY <2>1, <2>2, <2>3 DEF Counts
<1>15. \A q \in gone \cup h : Held(less, q) = {}
  <2>1. \A q \in gone : Held(less, q) = {}
    BY <1>1, <1>5
  <2>2. ASSUME NEW q \in h PROVE Held(less, q) = {}
    <3>1. q = p /\ p \in Owned /\ [s EXCEPT ![p] = @ + -1][p] <= 0
      BY <1>11, <2>2
    <3>2. p \in Counted
      BY <3>1 DEF Counted
    <3>3. b <= 0
      BY <1>10, <3>1, <3>2
    <3>4. b = 0
      BY <3>3
    <3> QED
      BY <1>5, <1>7, <3>1, <3>4
  <2> QED
    BY <2>1, <2>2
<1> QED
  BY <1>4, <1>5, <1>6, <1>13, <1>14, <1>15 DEF Settled

(* A storage that a set gets for another one.                              *)
LEMMA SettledMoved ==
    ASSUME NEW calls, NEW cont, Settled(calls, cont)
    PROVE  Settled(calls \o (Alloc \o <<Release(Storage)>>), cont)
<1>1. PICK s, gone : /\ Ran(refs, calls, s, gone) /\ Counts(s, cont)
                     /\ \A q \in gone : Held(cont, q) = {}
  BY DEF Settled
<1>2. s \in [Pointer -> Nat] /\ calls \in Calls
  BY <1>1 DEF Counts, Settled
<1>3. Storage \in Pointer /\ Storage \in Counted /\ Storage \notin Owned
  BY PointerFacts DEF Pointer, Counted
<1>4. PICK n \in Nat : n = s[Storage]
  BY <1>2, <1>3
<1>5. PICK u : u = [s EXCEPT ![Storage] = n + 1]
  OBVIOUS
<1>6. Ran(s, <<Retain(Storage)>>, u, {})
  <2>1. PICK d \in {-1, 1} : d = 1
    OBVIOUS
  <2>2. Ran(s, <<<<d, Storage>>>>,
            IF Storage \in Counted THEN [s EXCEPT ![Storage] = @ + d] ELSE s,
            IF Storage \in Owned /\ d = -1 /\ [s EXCEPT ![Storage] = @ + d][Storage] <= 0
            THEN {Storage} ELSE {})
    BY <1>3, RanOne
  <2> QED
    BY <1>3, <1>4, <1>5, <2>1, <2>2 DEF Retain
<1>7. Ran(u, <<Release(Storage)>>, s, {})
  <2>1. PICK d \in {-1, 1} : d = -1
    OBVIOUS
  <2>2. Ran(u, <<<<d, Storage>>>>,
            IF Storage \in Counted THEN [u EXCEPT ![Storage] = @ + d] ELSE u,
            IF Storage \in Owned /\ d = -1 /\ [u EXCEPT ![Storage] = @ + d][Storage] <= 0
            THEN {Storage} ELSE {})
    BY <1>3, RanOne
  <2>3. (n + 1) + -1 = n
    OBVIOUS
  <2>4. u[Storage] = n + 1
    BY <1>2, <1>3, <1>5
  <2>5. [u EXCEPT ![Storage] = @ + d] = [u EXCEPT ![Storage] = n]
    BY <2>1, <2>3, <2>4
  <2>6. [u EXCEPT ![Storage] = n] = s
    BY <1>2, <1>3, <1>4, <1>5
  <2> QED
    BY <1>3, <2>1, <2>2, <2>5, <2>6 DEF Release
<1>8. /\ <<Retain(Storage)>> \in Calls /\ <<Release(Storage)>> \in Calls
      /\ <<Retain(Storage)>> \o <<Release(Storage)>> \in Calls
      /\ calls \o (<<Retain(Storage)>> \o <<Release(Storage)>>) \in Calls
  BY <1>2, <1>3, ConcatFacts
<1>9. Ran(s, <<Retain(Storage)>> \o <<Release(Storage)>>, s, {} \cup {})
  BY <1>6, <1>7, <1>8, RanConcat
<1>10. Ran(refs, calls \o (<<Retain(Storage)>> \o <<Release(Storage)>>), s, gone \cup ({} \cup {}))
  BY <1>1, <1>2, <1>8, <1>9, RanConcat
<1>11. gone \cup ({} \cup {}) = gone
  OBVIOUS
<1> QED
  BY <1>1, <1>8, <1>10, <1>11 DEF Settled, Alloc

-----------------------------------------------------------------------------
(* What operations do to the references *)

(* the keys of a table, and its storage if malloc gave it                  *)
Assets(t) == Contents(t) \cup (IF t.size = 0 \/ t.initial THEN {} ELSE {Storage})

LEMMA AssetsFacts ==
    ASSUME NEW t, TableOK(t)
    PROVE  /\ Assets(t) \subseteq Pointer /\ Contents(t) \subseteq Key
           /\ Storage \in Assets(t) <=> t.size # 0 /\ ~ t.initial
           /\ \A k \in Key : k \in Assets(t) <=> k \in Contents(t)
           /\ Free(t) = IF Storage \in Assets(t) THEN <<Release(Storage)>> ELSE <<>>
           /\ Free(t) \in Calls /\ Alloc \in Calls /\ Alloc \o Free(t) \in Calls
           /\ Storage \in Assets(t) => Assets(t) = Contents(t) \cup {Storage}
           /\ Storage \notin Assets(t) => Assets(t) = Contents(t)
<1>1. Contents(t) \subseteq Key /\ Storage \notin Contents(t)
  BY ContentsFacts, PointerFacts
<1>2. Storage \in Pointer
  BY DEF Pointer
<1>3. Assets(t) \subseteq Pointer
  BY <1>1, <1>2 DEF Assets, Pointer
<1>4. Storage \in Assets(t) <=> t.size # 0 /\ ~ t.initial
  BY <1>1 DEF Assets
<1>5. \A k \in Key : k \in Assets(t) <=> k \in Contents(t)
  BY PointerFacts DEF Assets
<1>6. Free(t) = IF Storage \in Assets(t) THEN <<Release(Storage)>> ELSE <<>>
  BY <1>4 DEF Free
<1>7. Free(t) \in Calls /\ Alloc \in Calls
  BY <1>2, <1>6, ConcatFacts DEF Alloc
<1>8. Alloc \o Free(t) \in Calls
  BY <1>7, ConcatFacts
<1>9. /\ Storage \in Assets(t) => Assets(t) = Contents(t) \cup {Storage}
      /\ Storage \notin Assets(t) => Assets(t) = Contents(t)
  BY <1>4 DEF Assets
<1> QED
  BY <1>1, <1>3, <1>4, <1>5, <1>6, <1>7, <1>8, <1>9

LEMMA KeepingFacts ==
    /\ Keeping(<<>>)
    /\ \A p \in Pointer : Keeping(<<Retain(p)>>)
    /\ Keeping(<<Release(Storage)>>)
    /\ \A a, b \in Calls : Keeping(a) /\ Keeping(b) => Keeping(a \o b)
<1>1. DOMAIN <<>> = {} /\ \A a : DOMAIN <<a>> = {1} /\ <<a>>[1] = a
  OBVIOUS
<1>2. \A p, q : Retain(p) # <<-1, q>> /\ (Release(p) = <<-1, q>> => p = q)
  BY DEF Retain, Release
<1>3. Keeping(<<>>)
  BY <1>1 DEF Keeping
<1>4. \A p \in Pointer : Keeping(<<Retain(p)>>)
  BY <1>1, <1>2 DEF Keeping
<1>5. Keeping(<<Release(Storage)>>)
  BY <1>1, <1>2, PointerFacts DEF Keeping
<1>6. ASSUME NEW a \in Calls, NEW b \in Calls, Keeping(a), Keeping(b) PROVE Keeping(a \o b)
  <2>1. PICK l \in Nat, m \in Nat : l = Len(a) /\ m = Len(b)
    BY DEF Calls
  <2>2. PICK ab : ab = a \o b
    OBVIOUS
  <2>3. /\ DOMAIN ab = 1 .. l + m /\ DOMAIN a = 1 .. l /\ DOMAIN b = 1 .. m
        /\ \A n \in 1 .. l : ab[n] = a[n]
        /\ \A n \in 1 .. m : ab[l + n] = b[n]
    BY <2>1, <2>2 DEF Calls
  <2>4. \A n \in 1 .. l + m : n \in 1 .. l \/ \E k \in 1 .. m : n = l + k
    <3> TAKE n \in 1 .. l + m
    <3>1. n <= l \/ (n - l \in 1 .. m /\ n = l + (n - l))
      OBVIOUS
    <3> QED
      BY <3>1
  <2>5. ASSUME NEW n \in 1 .. l + m, NEW p \in Owned PROVE ab[n] # <<-1, p>>
    BY <1>6, <2>3, <2>4 DEF Keeping
  <2> QED
    BY <2>2, <2>3, <2>5 DEF Keeping
<1> QED
  BY <1>3, <1>4, <1>5, <1>6

(* the references of m are those that the table t has                      *)
Holding(cont, m, t) == m \in Place /\ TableOK(t) /\ cont[m] = Assets(t)

(* a key can be retained: nothing was released, or somebody has it anyway  *)
Available(calls, cont, k) == Keeping(calls) \/ Held(cont, k) # {}

LEMMA SettledGrow ==
    ASSUME NEW calls, NEW cont, Settled(calls, cont), NEW m, NEW t, Holding(cont, m, t),
           NEW more, more = Put(cont, m, Contents(t) \cup {Storage})
    PROVE  /\ Settled(calls \o (Alloc \o Free(t)), more)
           /\ \A k \in Key : Available(calls, cont, k) =>
                                 Available(calls \o (Alloc \o Free(t)), more, k)
<1>0. m \in Place /\ TableOK(t) /\ cont[m] = Assets(t)
  BY DEF Holding
<1> m \in Place
  BY <1>0
<1>1. calls \in Calls /\ ContOK(cont) /\ Storage \in Pointer /\ Storage \notin Owned
  BY PointerFacts DEF Settled, Pointer
<1>2. CASE Storage \in Assets(t)
  <2>1. Free(t) = <<Release(Storage)>> /\ Assets(t) = Contents(t) \cup {Storage}
    BY <1>0, <1>2, AssetsFacts
  <2>2. more = cont
    BY <1>0, <1>1, <2>1, PutFacts
  <2>3. Settled(calls \o (Alloc \o <<Release(Storage)>>), cont)
    BY SettledMoved
  <2> QED
    <3>1. Keeping(Alloc \o Free(t)) /\ Alloc \o Free(t) \in Calls
      <4>1. Keeping(Alloc) /\ Keeping(<<Release(Storage)>>)
        BY <1>1, KeepingFacts DEF Alloc
      <4>2. Alloc \in Calls /\ Free(t) \in Calls /\ Alloc \o Free(t) \in Calls
        BY <1>0, AssetsFacts
      <4> QED
        BY <2>1, <4>1, <4>2, KeepingFacts
    <3>2. Keeping(calls) => Keeping(calls \o (Alloc \o Free(t)))
      BY <1>1, <3>1, KeepingFacts
    <3> QED
      BY <2>1, <2>2, <2>3, <3>2 DEF Available
<1>3. CASE Storage \notin Assets(t)
  <2>1. Free(t) = <<>> /\ Assets(t) = Contents(t)
    BY <1>0, <1>3, AssetsFacts
  <2>2. Alloc \o Free(t) = <<Retain(Storage)>>
    <3>1. <<Retain(Storage)>> \in Calls
      BY <1>1, ConcatFacts
    <3> QED
      BY <2>1, <3>1, ConcatFacts DEF Alloc
  <2>3. Settled(calls \o <<Retain(Storage)>>, With(cont, m, Storage))
    BY <1>0, <1>1, <1>3, SettledRetain
  <2>4. With(cont, m, Storage) = more
    BY <1>0, <1>1, <2>1, PutFacts
  <2>5. \A k \in Key : Held(more, k) = Held(cont, k)
    BY <1>0, <1>1, <1>3, <2>4, HeldMore, PointerFacts
  <2>6. Keeping(calls) => Keeping(calls \o <<Retain(Storage)>>)
    BY <1>1, ConcatFacts, KeepingFacts
  <2> QED
    BY <2>2, <2>3, <2>4, <2>5, <2>6 DEF Available
<1> QED
  BY <1>2, <1>3

(* write_generic secures the new key before it gives up the old one.       *)
LEMMA SettledWrite ==
    ASSUME NEW calls, NEW cont, Settled(calls, cont), NEW m, NEW t, Holding(cont, m, t),
           NEW k \in Key, Available(calls, cont, k), NEW mode,
           NEW r, TableOK(r), NEW written, NEW result, NEW mutated,
           Wrote(t, k, mode, r, written, result, mutated)
    PROVE  /\ Settled(calls \o written, Put(cont, m, Assets(r)))
           /\ written \in Calls /\ Holding(Put(cont, m, Assets(r)), m, r)
<1>0. m \in Place /\ TableOK(t) /\ cont[m] = Assets(t)
  BY DEF Holding
<1> m \in Place
  BY <1>0
<1>1. calls \in Calls /\ ContOK(cont) /\ k \in Pointer
  BY DEF Settled, Pointer
<1>2. PICK T, A : T = Contents(t) /\ A = Assets(t) /\ A = cont[m]
  BY <1>0
<1>3. Holding(Put(cont, m, Assets(r)), m, r)
  BY <1>1, PutFacts DEF Holding
<1>4. CASE WroteNew(t, k, r, written, result, mutated)
  <2>1. PICK room : /\ \A p \in T : ~ IsEqual(p, k)
                    /\ written = room \o <<Retain(k)>> /\ Grew(t, r, room)
                    /\ Contents(r) = T \cup {k}
    BY <1>2, <1>4 DEF WroteNew
  <2>2. k \notin T
    BY <2>1 DEF IsEqual
  <2>3. <<Retain(k)>> \in Calls
    BY <1>1, ConcatFacts
  <2>4. CASE room = <<>> /\ r.size = t.size /\ r.initial = t.initial
    <3>1. Assets(r) = A \cup {k}
      BY <1>2, <2>1, <2>4 DEF Assets
    <3>2. written = <<Retain(k)>>
      BY <2>1, <2>3, <2>4, ConcatFacts
    <3>3. k \notin cont[m]
      BY <1>0, <1>2, <2>2, AssetsFacts
    <3>4. Settled(calls \o <<Retain(k)>>, With(cont, m, k))
      BY <1>1, <3>3, SettledRetain DEF Available
    <3>5. With(cont, m, k) = Put(cont, m, Assets(r))
      BY <1>1, <1>2, <3>1, PutFacts
    <3> QED
      BY <1>3, <2>3, <3>2, <3>4, <3>5
  <2>5. CASE room = Alloc \o Free(t) /\ r.size >= 4 /\ r.initial = FALSE
    <3>1. PICK mid : mid = Put(cont, m, T \cup {Storage})
      OBVIOUS
    <3>2. /\ Settled(calls \o room, mid)
          /\ Available(calls \o room, mid, k)
      BY <1>2, <2>5, <3>1, SettledGrow
    <3>3. mid[m] = T \cup {Storage} /\ k \notin mid[m]
      BY <1>1, <2>2, <3>1, PutFacts, PointerFacts
    <3>4. PICK sofar : sofar = calls \o room
      OBVIOUS
    <3>5. ContOK(mid) /\ Settled(sofar, mid) /\ Available(sofar, mid, k)
      BY <3>2, <3>4 DEF Settled
    <3>6. Settled(sofar \o <<Retain(k)>>, With(mid, m, k))
      BY <1>1, <3>3, <3>5, SettledRetain DEF Available
    <3>7. With(mid, m, k) = Put(cont, m, Assets(r))
      <4>1. r.size # 0
        BY <2>5
      <4>2. Assets(r) = (T \cup {k}) \cup {Storage}
        BY <2>1, <2>5, <4>1 DEF Assets
      <4>3. With(mid, m, k) = Put(mid, m, mid[m] \cup {k})
        BY <3>5, PutFacts
      <4>4. mid[m] \cup {k} = Assets(r)
        BY <3>3, <4>2
      <4>5. Put(Put(cont, m, T \cup {Storage}), m, Assets(r)) = Put(cont, m, Assets(r))
        BY <1>1, PutFacts
      <4> QED
        BY <3>1, <4>3, <4>4, <4>5
    <3>8. room \in Calls
      BY <1>0, <2>5, AssetsFacts
    <3>9. written \in Calls /\ sofar \o <<Retain(k)>> = calls \o written
      BY <1>1, <2>1, <2>3, <3>4, <3>8, ConcatFacts
    <3> QED
      BY <1>3, <3>6, <3>7, <3>9
  <2> QED
    BY <2>1, <2>4, <2>5 DEF Grew
<1>5. CASE WroteNothing(t, k, mode, r, written, result, mutated)
  <2>1. r = t /\ written = <<>>
    BY <1>5 DEF WroteNothing
  <2>2. calls \o <<>> = calls /\ <<>> \in Calls
    BY <1>1, ConcatFacts
  <2>3. Put(cont, m, Assets(r)) = cont
    BY <1>0, <1>1, <2>1, PutFacts
  <2> QED
    BY <1>3, <2>1, <2>2, <2>3
<1>6. CASE WroteOver(t, k, mode, r, written, result, mutated)
  <2>1. PICK old \in T : /\ IsEqual(old, k) /\ old # k
                         /\ written = <<Retain(k), Release(old)>>
                         /\ Contents(r) = (T \ {old}) \cup {k}
                         /\ r.size = t.size /\ r.initial = t.initial
    BY <1>2, <1>6 DEF WroteOver
  <2>2. old \in Key /\ old \in Pointer /\ old \in cont[m]
    BY <1>0, <1>2, AssetsFacts DEF Assets
  <2>3. k \notin cont[m]
    <3>1. k \in T => FALSE
      <4>1. k \in T => IsEqual(old, k) /\ old = k
        BY <1>0, <1>2, <2>1, ContentsFacts
      <4> QED
        BY <2>1, <4>1
    <3> QED
      BY <1>0, <1>2, <3>1, AssetsFacts
  <2>4. PICK mid, sofar : mid = With(cont, m, k) /\ sofar = calls \o <<Retain(k)>>
    OBVIOUS
  <2>5. Settled(sofar, mid)
    BY <1>1, <2>3, <2>4, SettledRetain DEF Available
  <2>6. ContOK(mid) /\ mid = Put(cont, m, A \cup {k}) /\ mid[m] = A \cup {k}
    BY <1>1, <1>2, <2>4, <2>5, PutFacts DEF Settled
  <2>7. Settled(sofar \o <<Release(old)>>, Without(mid, m, old))
    BY <1>2, <2>2, <2>5, <2>6, SettledRelease
  <2>8. Without(mid, m, old) = Put(cont, m, Assets(r))
    <3>1. Assets(r) = (A \cup {k}) \ {old}
      <4>1. old # Storage
        BY <2>2, PointerFacts
      <4> QED
        BY <1>2, <2>1, <4>1 DEF Assets
    <3>2. Without(mid, m, old) = Put(mid, m, mid[m] \ {old})
      BY DEF Put, Without
    <3>3. mid[m] \ {old} = Assets(r)
      BY <2>6, <3>1
    <3>4. Put(Put(cont, m, A \cup {k}), m, Assets(r)) = Put(cont, m, Assets(r))
      BY <1>1, PutFacts
    <3> QED
      BY <2>6, <3>2, <3>3, <3>4
  <2>9. written \in Calls /\ sofar \o <<Release(old)>> = calls \o written
    <3>1. PICK a \in Calls, b \in Calls : a = <<Retain(k)>> /\ b = <<Release(old)>>
      BY <1>1, <2>2, ConcatFacts
    <3>2. written = a \o b
      BY <2>1, <3>1, ConcatFacts
    <3> QED
      BY <1>1, <2>4, <3>1, <3>2, ConcatFacts
  <2> QED
    BY <1>3, <2>7, <2>8, <2>9
<1> QED
  BY <1>4, <1>5, <1>6 DEF Wrote

-----------------------------------------------------------------------------
(* Setting many keys                                                       *)

LEMMA StatusFacts == Running # Hung /\ Running # Aborted /\ Hung # Aborted
<1>1. \A a, b : Cardinality({a, b}) # 3
  <2> SUFFICES ASSUME NEW a, NEW b PROVE Cardinality({a, b}) # 3
    OBVIOUS
  <2>1. IsFiniteSet({a}) /\ Cardinality({a}) = 1
    BY FS_Singleton
  <2>2. {a, b} = {a} \cup {b}
    OBVIOUS
  <2>3. Cardinality({a} \cup {b}) = IF b \in {a} THEN Cardinality({a}) ELSE Cardinality({a}) + 1
    BY <2>1, FS_AddElement
  <2> QED
    BY <2>1, <2>2, <2>3
<1>2. Cardinality({Running, Hung, Aborted}) = 3
  BY PointerSetAssumption
<1>3. ASSUME Running = Hung PROVE FALSE
  <2>1. {Running, Hung, Aborted} = {Hung, Aborted}
    BY <1>3
  <2> QED
    BY <1>1, <1>2, <2>1
<1>4. ASSUME Running = Aborted PROVE FALSE
  <2>1. {Running, Hung, Aborted} = {Hung, Aborted}
    BY <1>4
  <2> QED
    BY <1>1, <1>2, <2>1
<1>5. ASSUME Hung = Aborted PROVE FALSE
  <2>1. {Running, Hung, Aborted} = {Running, Hung}
    BY <1>5
  <2> QED
    BY <1>1, <1>2, <2>1
<1> QED
  BY <1>3, <1>4, <1>5

LEMMA StoppedFacts ==
    ASSUME NEW how
    PROVE  Stopped(how) = [table |-> None, calls |-> <<>>, ret |-> None, mutated |-> FALSE,
                           status |-> how]
<1>1. PICK e, f : e = <<>> /\ f = FALSE
  OBVIOUS
<1>2. PICK x : x = Run(None, e, None)
  OBVIOUS
<1>3. x = [table |-> None, calls |-> e, ret |-> None, mutated |-> f, status |-> Running]
  BY <1>1, <1>2 DEF Run
<1>4. [x EXCEPT !.status = how] =
          [table |-> None, calls |-> e, ret |-> None, mutated |-> f, status |-> how]
  BY <1>3
<1> QED
  BY <1>1, <1>2, <1>4 DEF Stopped

IsHung(run, calls, mutated) ==
    run = [table |-> None, calls |-> calls, ret |-> None, mutated |-> mutated, status |-> Hung]

LEMMA SetItemFacts ==
    ASSUME NEW run, NEW t, NEW calls, NEW mutated, IsRunOf(run, t, calls, None, mutated),
           TableOK(t), NEW k \in Key
    PROVE  /\ ~ ProbeEnds(t, k) =>
                  /\ t.count = t.size /\ t.count # 0
                  /\ IsHung(SetItem(run, k), calls \o <<>>, Noted(FALSE, mutated))
           /\ ProbeEnds(t, k) =>
                  \E r, written, result, w :
                      /\ IsRunOf(SetItem(run, k), r, calls \o written, None, Noted(w, mutated))
                      /\ TableOK(r) /\ Wrote(t, k, "overwrite", r, written, result, w)
<1>1. run.status = Running /\ run.table = t /\ run.calls = calls /\ run.mutated = mutated
  BY DEF IsRunOf
<1>2. PICK next : next = WriteKey(t, k, "overwrite")
  OBVIOUS
<1>3. SetItem(run, k) = [Then(run, next) EXCEPT !.ret = None]
  BY <1>1, <1>2 DEF SetItem, HasStopped
<1>4. PICK x : x = Then(run, next)
  OBVIOUS
<1>5. ASSUME ~ ProbeEnds(t, k)
      PROVE  /\ t.count = t.size /\ t.count # 0
             /\ IsHung(SetItem(run, k), calls \o <<>>, Noted(FALSE, mutated))
  <2>1. next = Stopped(Hung) /\ t.count = t.size /\ t.count # 0
    BY <1>2, <1>5, WriteFacts
  <2>2. next = [table |-> None, calls |-> <<>>, ret |-> None, mutated |-> FALSE, status |-> Hung]
    BY <2>1, StoppedFacts
  <2>3. PICK all, noted : all = calls \o <<>> /\ noted = Noted(FALSE, mutated)
    OBVIOUS
  <2>4. run.calls \o next.calls = all /\ (next.mutated \/ run.mutated) = noted
    BY <1>1, <2>2, <2>3 DEF Noted
  <2>5. PICK y : y = [next EXCEPT !.calls = all]
    OBVIOUS
  <2>6. y = [table |-> None, calls |-> all, ret |-> None, mutated |-> FALSE, status |-> Hung]
    BY <2>2, <2>5
  <2>7. x = [y EXCEPT !.mutated = noted]
    BY <1>4, <2>4, <2>5 DEF Then
  <2>8. x = [table |-> None, calls |-> all, ret |-> None, mutated |-> noted, status |-> Hung]
    BY <2>6, <2>7
  <2>9. [x EXCEPT !.ret = None] =
            [table |-> None, calls |-> all, ret |-> None, mutated |-> noted, status |-> Hung]
    BY <2>8
  <2> QED
    BY <1>3, <1>4, <2>1, <2>3, <2>9 DEF IsHung
<1>6. ASSUME ProbeEnds(t, k)
      PROVE  \E r, written, result, w :
                 /\ IsRunOf(SetItem(run, k), r, calls \o written, None, Noted(w, mutated))
                 /\ TableOK(r) /\ Wrote(t, k, "overwrite", r, written, result, w)
  <2>1. PICK r, written, result, w :
            /\ IsRunOf(next, r, written, result, w)
            /\ TableOK(r) /\ Wrote(t, k, "overwrite", r, written, result, w)
    BY <1>2, <1>6, WriteFacts
  <2>2. IsRunOf(x, r, calls \o written, result, Noted(w, mutated))
    <3>1. IsRunOf(next, r, written, result, w)
      BY <2>1
    <3>2. IsRunOf(run, t, calls, None, mutated)
      OBVIOUS
    <3>3. IsRunOf(Then(run, next), r, calls \o written, result, Noted(w, mutated))
      BY ONLY <3>1, <3>2, ThenFacts
    <3> QED
      BY <1>4, <3>3
  <2>3. PICK all, noted : all = calls \o written /\ noted = Noted(w, mutated)
    OBVIOUS
  <2>4. x = [table |-> r, calls |-> all, ret |-> result, mutated |-> noted, status |-> Running]
    BY <2>2, <2>3 DEF IsRunOf
  <2>5. [x EXCEPT !.ret = None] =
            [table |-> r, calls |-> all, ret |-> None, mutated |-> noted, status |-> Running]
    BY <2>4
  <2>6. IsRunOf(SetItem(run, k), r, calls \o written, None, Noted(w, mutated))
    BY <1>3, <1>4, <2>3, <2>5 DEF IsRunOf
  <2> QED
    BY <2>1, <2>6
<1> QED
  BY <1>5, <1>6

Tables == {t \in [size : Nat, count : Nat, slots : UNION {Cells(n) : n \in Nat},
                  initial : BOOLEAN] : TableOK(t)}

(* what a loop of sets can be in: a run that goes on, or has stopped       *)
Partial == [table : Tables, calls : Calls, ret : {None}, mutated : BOOLEAN, status : {Running}]
             \cup [table : {None}, calls : Calls, ret : {None}, mutated : BOOLEAN,
                   status : {Hung, Aborted}]

SetStep(run, cell)      == IF cell = Hole THEN run ELSE SetItem(run, cell)
ReleaseStep(calls, cell) == IF cell = Hole THEN calls ELSE Append(calls, Release(cell))

LEMMA TablesFacts == \A t : t \in Tables <=> TableOK(t)
<1> SUFFICES ASSUME NEW t, TableOK(t) PROVE t \in Tables
  BY DEF Tables
<1>1. t \in [size : Nat, count : Nat, slots : Cells(t.size), initial : BOOLEAN]
  BY DEF TableOK
<1>2. Cells(t.size) \in {Cells(n) : n \in Nat}
  BY <1>1
<1>3. t.slots \in UNION {Cells(n) : n \in Nat}
  BY <1>1, <1>2
<1>4. t \in [size : Nat, count : Nat, slots : UNION {Cells(n) : n \in Nat}, initial : BOOLEAN]
  BY <1>1, <1>3
<1> QED
  BY <1>4 DEF Tables

LEMMA PartialFacts ==
    /\ \A run \in Partial :
           \/ /\ run.status = Running /\ TableOK(run.table) /\ run.calls \in Calls
              /\ run.mutated \in BOOLEAN
              /\ IsRunOf(run, run.table, run.calls, None, run.mutated)
           \/ HasStopped(run)
    /\ \A run, t, calls, mutated :
           IsRunOf(run, t, calls, None, mutated) /\ TableOK(t) /\ calls \in Calls
               /\ mutated \in BOOLEAN => run \in Partial
    /\ \A how \in {Hung, Aborted} : Stopped(how) \in Partial
<1>1. ASSUME NEW run \in Partial
      PROVE  \/ /\ run.status = Running /\ TableOK(run.table) /\ run.calls \in Calls
                /\ run.mutated \in BOOLEAN
                /\ IsRunOf(run, run.table, run.calls, None, run.mutated)
             \/ HasStopped(run)
  <2>1. CASE run \in [table : Tables, calls : Calls, ret : {None}, mutated : BOOLEAN,
                      status : {Running}]
    <3>1. /\ run.status = Running /\ run.table \in Tables /\ run.calls \in Calls
          /\ run.mutated \in BOOLEAN
      BY <2>1
    <3>2. IsRunOf(run, run.table, run.calls, None, run.mutated)
      BY <2>1 DEF IsRunOf
    <3> QED
      BY <3>1, <3>2, TablesFacts
  <2>2. CASE run \in [table : {None}, calls : Calls, ret : {None}, mutated : BOOLEAN,
                      status : {Hung, Aborted}]
    BY <2>2, StatusFacts DEF HasStopped
  <2> QED
    BY <2>1, <2>2 DEF Partial
<1>2. ASSUME NEW run, NEW t, NEW calls, NEW mutated, IsRunOf(run, t, calls, None, mutated),
             TableOK(t), calls \in Calls, mutated \in BOOLEAN
      PROVE  run \in Partial
  <2>1. t \in Tables
    BY <1>2, TablesFacts
  <2> QED
    BY <1>2, <2>1 DEF IsRunOf, Partial
<1>3. \A how \in {Hung, Aborted} : Stopped(how) \in Partial
  BY StoppedFacts, ConcatFacts DEF Partial
<1> QED
  BY <1>1, <1>2, <1>3

LEMMA WroteTyped ==
    ASSUME NEW t, TableOK(t), NEW k \in Key, NEW mode, NEW r, NEW written, NEW result, NEW w,
           Wrote(t, k, mode, r, written, result, w)
    PROVE  written \in Calls /\ w \in BOOLEAN /\ result \in Key \cup {Hole}
<1>1. k \in Pointer /\ \A p \in Contents(t) : p \in Key /\ p \in Pointer
  BY AssetsFacts DEF Pointer
<1>2. CASE WroteNew(t, k, r, written, result, w)
  <2>1. PICK room : written = room \o <<Retain(k)>> /\ Grew(t, r, room)
    BY <1>2 DEF WroteNew
  <2>2. room \in Calls
    <3>1. room = <<>> \/ room = Alloc \o Free(t)
      BY <2>1 DEF Grew
    <3> QED
      BY <3>1, AssetsFacts, ConcatFacts
  <2>3. written \in Calls
    <3>1. <<Retain(k)>> \in Calls
      BY <1>1, ConcatFacts
    <3> QED
      BY <2>1, <2>2, <3>1, ConcatFacts
  <2> QED
    BY <1>2, <2>3 DEF WroteNew
<1>3. CASE WroteNothing(t, k, mode, r, written, result, w)
  BY <1>1, <1>3, ConcatFacts DEF WroteNothing
<1>4. CASE WroteOver(t, k, mode, r, written, result, w)
  <2>1. PICK old \in Contents(t) : written = <<Retain(k), Release(old)>> /\ result = old /\ w = TRUE
    BY <1>4 DEF WroteOver
  <2>2. PICK a \in Calls, b \in Calls : a = <<Retain(k)>> /\ b = <<Release(old)>>
    BY <1>1, ConcatFacts
  <2>3. written = a \o b
    BY <2>1, <2>2, ConcatFacts
  <2>4. written \in Calls
    BY <2>2, <2>3, ConcatFacts
  <2>5. w \in BOOLEAN /\ result \in Key \cup {Hole}
    BY <1>1, <2>1
  <2> QED
    BY <2>4, <2>5
<1> QED
  BY <1>2, <1>3, <1>4 DEF Wrote

LEMMA SetStepTyped ==
    ASSUME NEW run \in Partial, NEW cell \in Key \cup {Hole}
    PROVE  SetStep(run, cell) \in Partial
<1>1. CASE cell = Hole \/ HasStopped(run)
  BY <1>1 DEF SetStep, SetItem
<1>2. CASE cell # Hole /\ ~ HasStopped(run)
  <2>1. PICK t, calls, mutated :
            /\ TableOK(t) /\ calls \in Calls /\ mutated \in BOOLEAN
            /\ IsRunOf(run, t, calls, None, mutated)
    BY <1>2, PartialFacts
  <2>2. cell \in Key /\ SetStep(run, cell) = SetItem(run, cell)
    BY <1>2 DEF SetStep
  <2>3. CASE ~ ProbeEnds(t, cell)
    <3>1. IsHung(SetItem(run, cell), calls \o <<>>, Noted(FALSE, mutated))
      BY <2>1, <2>2, <2>3, SetItemFacts
    <3>2. PICK all, noted : all = calls \o <<>> /\ noted = Noted(FALSE, mutated)
      OBVIOUS
    <3>3. all \in Calls /\ noted \in BOOLEAN
      BY <2>1, <3>2, ConcatFacts DEF Noted
    <3>4. SetItem(run, cell) = [table |-> None, calls |-> all, ret |-> None,
                                mutated |-> noted, status |-> Hung]
      BY <3>1, <3>2 DEF IsHung
    <3> QED
      BY <2>2, <3>3, <3>4 DEF Partial
  <2>4. CASE ProbeEnds(t, cell)
    <3>1. PICK r, written, result, w :
              /\ IsRunOf(SetItem(run, cell), r, calls \o written, None, Noted(w, mutated))
              /\ TableOK(r) /\ Wrote(t, cell, "overwrite", r, written, result, w)
      BY <2>1, <2>2, <2>4, SetItemFacts
    <3>2. written \in Calls /\ w \in BOOLEAN
      BY <2>1, <2>2, <3>1, WroteTyped
    <3>3. calls \o written \in Calls /\ Noted(w, mutated) \in BOOLEAN
      BY <2>1, <3>2, ConcatFacts DEF Noted
    <3> QED
      BY <2>2, <3>1, <3>3, PartialFacts
  <2> QED
    BY <2>3, <2>4
<1> QED
  BY <1>1, <1>2

(* What holds before the first slot, and after a slot whenever it held     *)
(* before, holds when all the keys are set.                                *)
LEMMA SetInduction ==
    ASSUME NEW n \in Nat, NEW cells \in Cells(n), NEW run \in Partial, NEW G,
           <<0, run>> \in G,
           \A i \in Slot(n), x \in Partial :
               <<i, x>> \in G => <<i + 1, SetStep(x, cells[i])>> \in G
    PROVE  <<n, SetItems(run, cells, n)>> \in G /\ SetItems(run, cells, n) \in Partial
<1>3. \A k \in 1 .. n : k - 1 \in Slot(n) /\ cells[k - 1] \in Key \cup {Hole}
  <2>1. \A k \in 1 .. n : k - 1 \in Slot(n)
    BY DEF Slot
  <2> QED
    BY <2>1 DEF Cells
<1> DEFINE step == [x \in Partial |-> [k \in Nat |->
                       IF k \in 1 .. n THEN SetStep(x, cells[k - 1]) ELSE x]]
<1>5. PICK f \in [0 .. n -> Partial] : IsRun(f, n, run, step)
  <2>1. \A x \in Partial, k \in 1 .. n : SetStep(x, cells[k - 1]) \in Partial
    BY <1>3, SetStepTyped
  <2>2. step \in [Partial -> [Nat -> Partial]]
    BY <2>1
  <2> HIDE DEF step
  <2> QED
    BY <2>2, RunExists
<1>6. \A k \in 1 .. n : f[k] = SetStep(f[k - 1], cells[k - 1])
  <2> TAKE k \in 1 .. n
  <2>1. k - 1 \in 0 .. n /\ k \in Nat /\ f[k - 1] \in Partial
    OBVIOUS
  <2>2. f[k] = step[f[k - 1]][k]
    BY <1>5 DEF IsRun
  <2> QED
    BY <2>1, <2>2
<1>7. f[0] = run
  BY <1>5 DEF IsRun
<1> DEFINE Eq(g) == g = [k \in 0 .. n |->
                IF k = 0 THEN run
                ELSE IF cells[k - 1] = Hole THEN g[k - 1]
                ELSE SetItem(g[k - 1], cells[k - 1])]
           set == CHOOSE g : Eq(g)
<1>8. Eq(f)
  <2>1. \A k \in 1 .. n : f[k] = IF cells[k - 1] = Hole THEN f[k - 1]
                                 ELSE SetItem(f[k - 1], cells[k - 1])
    BY <1>6 DEF SetStep
  <2>2. \A k \in 0 .. n : k = 0 \/ k \in 1 .. n
    OBVIOUS
  <2> HIDE DEF step
  <2> QED
    BY <1>7, <2>1, <2>2
<1>9. Eq(set)
  BY <1>8
<1>10. SetItems(run, cells, n) = set[n]
  BY DEF SetItems
<1> HIDE DEF set, step
<1>11. set[0] = run /\ \A k \in 1 .. n : set[k] = SetStep(set[k - 1], cells[k - 1])
  <2>1. \A k \in 1 .. n : k \in 0 .. n /\ k # 0
    OBVIOUS
  <2>2. 0 \in 0 .. n
    OBVIOUS
  <2> QED
    BY <1>9, <2>1, <2>2 DEF SetStep
<1> HIDE DEF Eq
<1> DEFINE T == {k \in Nat : k <= n => <<k, set[k]>> \in G /\ set[k] \in Partial}
<1>12. 0 \in T
  BY <1>11
<1>13. ASSUME NEW k \in Nat, k \in T, k + 1 <= n
       PROVE  <<k + 1, set[k + 1]>> \in G /\ set[k + 1] \in Partial
  <2>1. k + 1 \in 1 .. n /\ (k + 1) - 1 = k /\ k \in Slot(n) /\ k <= n
    BY <1>13 DEF Slot
  <2>2. <<k, set[k]>> \in G /\ set[k] \in Partial
    BY <1>13, <2>1
  <2>3. set[k + 1] = SetStep(set[k], cells[k])
    BY <1>11, <2>1
  <2>4. cells[k] \in Key \cup {Hole}
    BY <2>1 DEF Cells
  <2>5. <<k + 1, SetStep(set[k], cells[k])>> \in G
    BY <2>1, <2>2
  <2> QED
    BY <2>2, <2>3, <2>4, <2>5, SetStepTyped
<1>14. \A k \in Nat : k \in T
  <2>1. \A k \in Nat : k \in T => k + 1 \in T
    BY <1>13
  <2> HIDE DEF T
  <2> QED
    BY <1>12, <2>1, Induction
<1>15. n \in T
  BY <1>14
<1> QED
  BY <1>10, <1>15

LEMMA ReleaseInduction ==
    ASSUME NEW t, TableOK(t), NEW G, <<0, <<>>>> \in G,
           \A n \in Slot(t.size), calls \in Calls :
               <<n, calls>> \in G => <<n + 1, ReleaseStep(calls, t.slots[n])>> \in G
    PROVE  <<t.size, ReleaseAll(t)>> \in G /\ ReleaseAll(t) \in Calls
<1>1. PICK n \in Nat : n = t.size
  BY TableFacts
<1>2. PICK cells \in Cells(n) : cells = t.slots
  BY <1>1, TableFacts
<1>3. \A k \in 1 .. n : k - 1 \in Slot(n) /\ cells[k - 1] \in Key \cup {Hole}
  <2>1. \A k \in 1 .. n : k - 1 \in Slot(n)
    BY DEF Slot
  <2> QED
    BY <2>1 DEF Cells
<1>0. \A x \in Calls, cell \in Key \cup {Hole} : ReleaseStep(x, cell) \in Calls
  <2> TAKE x \in Calls, cell \in Key \cup {Hole}
  <2>1. cell # Hole => Release(cell) \in {-1, 1} \X Pointer
    BY ConcatFacts DEF Pointer
  <2> QED
    BY <2>1 DEF ReleaseStep, Calls
<1> DEFINE step == [x \in Calls |-> [k \in Nat |->
                       IF k \in 1 .. n THEN ReleaseStep(x, cells[k - 1]) ELSE x]]
<1>4. <<>> \in Calls
  BY DEF Calls
<1>5. PICK f \in [0 .. n -> Calls] : IsRun(f, n, <<>>, step)
  <2>1. \A x \in Calls, k \in 1 .. n : ReleaseStep(x, cells[k - 1]) \in Calls
    BY <1>0, <1>3
  <2>2. step \in [Calls -> [Nat -> Calls]]
    BY <2>1
  <2> HIDE DEF step
  <2> QED
    BY <1>4, <2>2, RunExists
<1>6. \A k \in 1 .. n : f[k] = ReleaseStep(f[k - 1], cells[k - 1])
  <2> TAKE k \in 1 .. n
  <2>1. k - 1 \in 0 .. n /\ k \in Nat /\ f[k - 1] \in Calls
    OBVIOUS
  <2>2. f[k] = step[f[k - 1]][k]
    BY <1>5 DEF IsRun
  <2> QED
    BY <2>1, <2>2
<1>7. f[0] = <<>>
  BY <1>5 DEF IsRun
<1> DEFINE Eq(g) == g = [k \in 0 .. n |->
                IF k = 0 THEN <<>>
                ELSE IF cells[k - 1] = Hole THEN g[k - 1]
                ELSE Append(g[k - 1], Release(cells[k - 1]))]
           calls == CHOOSE g : Eq(g)
<1>8. Eq(f)
  <2>1. \A k \in 1 .. n : f[k] = IF cells[k - 1] = Hole THEN f[k - 1]
                                 ELSE Append(f[k - 1], Release(cells[k - 1]))
    BY <1>6 DEF ReleaseStep
  <2>2. \A k \in 0 .. n : k = 0 \/ k \in 1 .. n
    OBVIOUS
  <2> HIDE DEF step
  <2> QED
    BY <1>7, <2>1, <2>2
<1>9. Eq(calls)
  BY <1>8
<1>10. ReleaseAll(t) = calls[n]
  BY <1>1, <1>2 DEF ReleaseAll
<1> HIDE DEF calls, step
<1>11. calls[0] = <<>> /\ \A k \in 1 .. n : calls[k] = ReleaseStep(calls[k - 1], cells[k - 1])
  <2>1. \A k \in 1 .. n : k \in 0 .. n /\ k # 0
    OBVIOUS
  <2>2. 0 \in 0 .. n
    OBVIOUS
  <2> QED
    BY <1>9, <2>1, <2>2 DEF ReleaseStep
<1> HIDE DEF Eq
<1> DEFINE T == {k \in Nat : k <= n => <<k, calls[k]>> \in G /\ calls[k] \in Calls}
<1>12. 0 \in T
  BY <1>4, <1>11
<1>13. ASSUME NEW k \in Nat, k \in T, k + 1 <= n
       PROVE  <<k + 1, calls[k + 1]>> \in G /\ calls[k + 1] \in Calls
  <2>1. k + 1 \in 1 .. n /\ (k + 1) - 1 = k /\ k \in Slot(n) /\ k <= n
    BY <1>13 DEF Slot
  <2>2. <<k, calls[k]>> \in G /\ calls[k] \in Calls
    BY <1>13, <2>1
  <2>3. calls[k + 1] = ReleaseStep(calls[k], cells[k])
    BY <1>11, <2>1
  <2>4. cells[k] \in Key \cup {Hole}
    BY <2>1 DEF Cells
  <2>5. <<k + 1, ReleaseStep(calls[k], cells[k])>> \in G
    BY <1>1, <1>2, <2>1, <2>2
  <2> QED
    BY <1>0, <2>2, <2>3, <2>4, <2>5
<1>14. \A k \in Nat : k \in T
  <2>1. \A k \in Nat : k \in T => k + 1 \in T
    BY <1>13
  <2> HIDE DEF T
  <2> QED
    BY <1>12, <2>1, Induction
<1>15. n \in T
  BY <1>14
<1> QED
  BY <1>1, <1>10, <1>15

(* the first n slots that are in use, and their keys                       *)
Taken(cells, size, n) == {i \in Used(cells, size) : i < n}
Front(cells, size, n) == {cells[i] : i \in Taken(cells, size, n)}

LEMMA FrontFacts ==
    ASSUME NEW size \in Nat, NEW cells \in Cells(size), Distinct(cells, size)
    PROVE  /\ Front(cells, size, 0) = {} /\ Taken(cells, size, 0) = {}
           /\ Front(cells, size, size) = Stored(cells, size)
           /\ Taken(cells, size, size) = Used(cells, size)
           /\ \A n \in Slot(size) :
                  /\ Front(cells, size, n) \subseteq Stored(cells, size)
                  /\ cells[n] \in Key \cup {Hole}
                  /\ cells[n] = Hole => /\ Front(cells, size, n + 1) = Front(cells, size, n)
                                        /\ Taken(cells, size, n + 1) = Taken(cells, size, n)
                  /\ cells[n] # Hole =>
                        /\ cells[n] \in Stored(cells, size) /\ cells[n] \in Key
                        /\ Front(cells, size, n + 1) = Front(cells, size, n) \cup {cells[n]}
                        /\ Taken(cells, size, n + 1) = Taken(cells, size, n) \cup {n}
                        /\ n \in Used(cells, size) /\ n \notin Taken(cells, size, n)
                        /\ \A p \in Front(cells, size, n) : ~ IsEqual(p, cells[n])
<1> DEFINE F(n) == Taken(cells, size, n)
<1>1. F(0) = {} /\ F(size) = Used(cells, size)
  BY DEF Used, Slot, Taken
<1>2. ASSUME NEW n \in Slot(size)
      PROVE  /\ cells[n] = Hole => F(n + 1) = F(n)
             /\ cells[n] # Hole => F(n + 1) = F(n) \cup {n} /\ n \in Used(cells, size) /\ n \notin F(n)
  BY DEF Used, Slot, Taken
<1>3. \A n : F(n) \subseteq Used(cells, size)
  BY DEF Taken
<1>4. \A n : Front(cells, size, n) = {cells[i] : i \in F(n)}
  BY DEF Front
<1> HIDE DEF F
<1>5. ASSUME NEW n \in Slot(size)
      PROVE  /\ Front(cells, size, n) \subseteq Stored(cells, size)
             /\ cells[n] \in Key \cup {Hole}
             /\ cells[n] = Hole => Front(cells, size, n + 1) = Front(cells, size, n)
             /\ cells[n] # Hole =>
                   /\ cells[n] \in Stored(cells, size) /\ cells[n] \in Key
                   /\ Front(cells, size, n + 1) = Front(cells, size, n) \cup {cells[n]}
                   /\ \A p \in Front(cells, size, n) : ~ IsEqual(p, cells[n])
  <2>1. Front(cells, size, n) \subseteq Stored(cells, size)
    BY <1>3, <1>4 DEF Stored
  <2>2. cells[n] \in Key \cup {Hole}
    BY DEF Cells
  <2>3. cells[n] = Hole => Front(cells, size, n + 1) = Front(cells, size, n)
    BY <1>2, <1>4
  <2>4. ASSUME cells[n] # Hole
        PROVE  /\ cells[n] \in Stored(cells, size)
               /\ Front(cells, size, n + 1) = Front(cells, size, n) \cup {cells[n]}
               /\ \A p \in Front(cells, size, n) : ~ IsEqual(p, cells[n])
    <3>1. F(n + 1) = F(n) \cup {n} /\ n \in Used(cells, size) /\ n \notin F(n)
      BY <1>2, <2>4
    <3>2. {cells[i] : i \in F(n) \cup {n}} = {cells[i] : i \in F(n)} \cup {cells[n]}
      OBVIOUS
    <3>3. ASSUME NEW p \in Front(cells, size, n) PROVE ~ IsEqual(p, cells[n])
      <4>1. PICK i \in F(n) : p = cells[i]
        BY <1>4
      <4>2. i \in Used(cells, size) /\ i # n
        BY <1>3, <3>1
      <4> QED
        BY <3>1, <4>1, <4>2 DEF Distinct
    <3> QED
      BY <1>4, <3>1, <3>2, <3>3 DEF Stored
  <2> QED
    BY <2>1, <2>2, <2>3, <2>4
<1>6. Front(cells, size, 0) = {} /\ Front(cells, size, size) = Stored(cells, size)
  BY <1>1, <1>4 DEF Stored
<1> QED
  BY <1>1, <1>2, <1>5, <1>6 DEF F

(* what is there when the keys S have been set in a table that held T      *)
Merged(S, T) == S \cup {p \in T : \A l \in S : ~ IsEqual(l, p)}

(* k is the next key; C is there before it is set, and D afterwards        *)
Merging(S, T, k, C, D) ==
    /\ C = Merged(S, T) /\ D = Merged(S \cup {k}, T)
    /\ \A p, q \in C : IsEqual(p, q) => p = q
    /\ \A p \in S : ~ IsEqual(p, k)

LEMMA MergedFacts ==
    ASSUME NEW S, NEW T, NEW k, NEW C, NEW D, Merging(S, T, k, C, D)
    PROVE  /\ (\A p \in C : ~ IsEqual(p, k)) => C \cup {k} = D
           /\ \A old \in C : IsEqual(old, k) => (C \ {old}) \cup {k} = D /\ old \in T
           /\ k \in T => k \in C
<1>0. /\ C = Merged(S, T) /\ D = Merged(S \cup {k}, T)
      /\ \A p, q \in C : IsEqual(p, q) => p = q
      /\ \A p \in S : ~ IsEqual(p, k)
  BY DEF Merging
<1>1. D = (S \cup {k}) \cup {p \in T : ~ IsEqual(k, p) /\ \A l \in S : ~ IsEqual(l, p)}
  BY <1>0 DEF Merged
<1>2. C = S \cup {p \in T : \A l \in S : ~ IsEqual(l, p)}
  BY <1>0 DEF Merged
<1>3. \A p : IsEqual(p, k) <=> IsEqual(k, p)
  BY DEF IsEqual
<1>4. \A p, q : IsEqual(p, k) /\ IsEqual(q, k) => IsEqual(p, q)
  BY DEF IsEqual
<1>5. IsEqual(k, k)
  BY DEF IsEqual
<1>6. ASSUME \A p \in C : ~ IsEqual(p, k) PROVE C \cup {k} = D
  BY <1>1, <1>2, <1>3, <1>6
<1>7. ASSUME NEW old \in C, IsEqual(old, k) PROVE (C \ {old}) \cup {k} = D /\ old \in T
  <2>1. old \notin S /\ old \in T
    BY <1>0, <1>2, <1>7
  <2>2. \A p \in C : IsEqual(p, k) => p = old
    BY <1>0, <1>4, <1>7
  <2> QED
    BY <1>1, <1>2, <1>3, <1>7, <2>1, <2>2
<1>8. ASSUME k \in T PROVE k \in C
  <2>1. \A l \in S : ~ IsEqual(l, k)
    BY <1>0
  <2> QED
    BY <1>2, <1>8, <2>1
<1> QED
  BY <1>6, <1>7, <1>8

(* The keys in the cells are in the table already, or another set has a    *)
(* reference to them, while they are set one after the other.              *)
CanSet(t, cont, m, cells, size) ==
    /\ TableOK(t) /\ ContOK(cont) /\ m \in Place
    /\ size \in Nat /\ cells \in Cells(size) /\ Distinct(cells, size)
    /\ \A k \in Stored(cells, size) :
           k \in Contents(t) \/ \E l \in Place : l # m /\ k \in cont[l]

(* r has the storage of t or a larger one of malloc                        *)
Enlarged(t, r) ==
    /\ r.size = t.size \/ r.size >= 4
    /\ r.initial => t.initial /\ r.size = t.size

(* the keys of the first n cells have been set                             *)
Setting(t, cont, m, cells, size, n, r, calls, mutated) ==
    /\ TableOK(r) /\ mutated \in BOOLEAN
    /\ Contents(r) = Merged(Front(cells, size, n), Contents(t))
    /\ Settled(calls, Put(cont, m, Assets(r)))
    /\ r.count <= t.count + Cardinality(Taken(cells, size, n))
    /\ Enlarged(t, r)
    /\ mutated \/ r = t

LEMMA SettingStarts ==
    ASSUME NEW t, NEW cont, NEW m, NEW cells, NEW size, CanSet(t, cont, m, cells, size),
           NEW calls, Settled(calls, cont), cont[m] = Assets(t), NEW mutated \in BOOLEAN
    PROVE  Setting(t, cont, m, cells, size, 0, t, calls, mutated)
<1>1. TableOK(t) /\ ContOK(cont) /\ m \in Place
  BY DEF CanSet
<1>2. Front(cells, size, 0) = {} /\ Taken(cells, size, 0) = {}
  BY FrontFacts DEF CanSet
<1>3. Merged({}, Contents(t)) = Contents(t)
  BY DEF Merged
<1>4. Put(cont, m, Assets(t)) = cont
  BY <1>1, PutFacts
<1>5. Cardinality({}) = 0
  BY FS_EmptySet
<1>6. t.count <= t.count + 0
  BY <1>1, TableFacts
<1> QED
  BY <1>1, <1>2, <1>3, <1>4, <1>5, <1>6 DEF Setting, Enlarged

LEMMA TakenMore ==
    ASSUME NEW size \in Nat, NEW cells \in Cells(size), Distinct(cells, size), NEW n \in Slot(size)
    PROVE  /\ Cardinality(Taken(cells, size, n)) \in Nat
           /\ cells[n] # Hole =>
                  /\ Cardinality(Taken(cells, size, n + 1)) = Cardinality(Taken(cells, size, n)) + 1
                  /\ Cardinality(Taken(cells, size, n)) + 1 <= Cardinality(Used(cells, size))
<1>1. IsFiniteSet(Used(cells, size)) /\ Cardinality(Used(cells, size)) \in Nat
  BY UsedFinite
<1>2. \A x : Taken(cells, size, x) \subseteq Used(cells, size)
  BY DEF Taken
<1>3. \A x : IsFiniteSet(Taken(cells, size, x)) /\ Cardinality(Taken(cells, size, x)) \in Nat
             /\ Cardinality(Taken(cells, size, x)) <= Cardinality(Used(cells, size))
  BY <1>1, <1>2, FS_Subset, FS_CardinalityType
<1>4. ASSUME cells[n] # Hole
      PROVE  Cardinality(Taken(cells, size, n + 1)) = Cardinality(Taken(cells, size, n)) + 1
  <2>1. Taken(cells, size, n + 1) = Taken(cells, size, n) \cup {n} /\ n \notin Taken(cells, size, n)
    BY <1>4, FrontFacts
  <2> QED
    BY <1>3, <2>1, FS_AddElement
<1> QED
  BY <1>3, <1>4

LEMMA WroteFacts ==
    ASSUME NEW t, TableOK(t), NEW k \in Key, NEW r, TableOK(r),
           NEW written, NEW result, NEW w, Wrote(t, k, "overwrite", r, written, result, w)
    PROVE  /\ w \in BOOLEAN /\ (w \/ r = t)
           /\ Enlarged(t, r)
           /\ r.count <= t.count + 1
           /\ \/ (\A p \in Contents(t) : ~ IsEqual(p, k)) /\ Contents(r) = Contents(t) \cup {k}
              \/ \E old \in Contents(t) :
                     IsEqual(old, k) /\ Contents(r) = (Contents(t) \ {old}) \cup {k}
<1>0. t.count \in Nat /\ r.count \in Nat
  BY TableFacts
<1>1. CASE WroteNew(t, k, r, written, result, w)
  <2>1. PICK room : Grew(t, r, room)
    BY <1>1 DEF WroteNew
  <2>2. Enlarged(t, r)
    BY <2>1 DEF Grew, Enlarged
  <2>3. w = TRUE /\ r.count = t.count + 1 /\ Contents(r) = Contents(t) \cup {k}
        /\ \A p \in Contents(t) : ~ IsEqual(p, k)
    BY <1>1 DEF WroteNew
  <2> QED
    BY <1>0, <2>2, <2>3
<1>2. CASE WroteNothing(t, k, "overwrite", r, written, result, w)
  <2>1. PICK old \in Contents(t) : IsEqual(old, k) /\ r = t /\ w = FALSE /\ old = k
    BY <1>2 DEF WroteNothing
  <2>2. Contents(r) = (Contents(t) \ {old}) \cup {k}
    BY <2>1
  <2>3. t.size \in Nat /\ r.count <= t.count + 1
    BY <1>0, <2>1, TableFacts
  <2>4. w \in BOOLEAN /\ (w \/ r = t) /\ Enlarged(t, r)
    BY <2>1 DEF Enlarged
  <2> QED
    BY <2>1, <2>2, <2>3, <2>4
<1>3. CASE WroteOver(t, k, "overwrite", r, written, result, w)
  <2>1. PICK old \in Contents(t) :
            /\ IsEqual(old, k) /\ w = TRUE /\ Contents(r) = (Contents(t) \ {old}) \cup {k}
            /\ r.count = t.count /\ r.size = t.size /\ r.initial = t.initial
    BY <1>3 DEF WroteOver
  <2>2. Enlarged(t, r)
    BY <2>1 DEF Enlarged
  <2> QED
    BY <1>0, <2>1, <2>2
<1> QED
  BY <1>1, <1>2, <1>3 DEF Wrote

(* a loop of sets that came to no end, and why                             *)
Halted(x, t, cells, size) ==
    /\ x.status = Hung
    /\ t.size = 2 /\ t.count + Cardinality(Used(cells, size)) > 2

(* a loop of sets after n cells                                            *)
Loop(x, t, cont, m, cells, size, n) ==
    \/ Halted(x, t, cells, size)
    \/ \E r, calls, mutated :
           /\ IsRunOf(x, r, calls, None, mutated)
           /\ Setting(t, cont, m, cells, size, n, r, calls, mutated)

LEMMA SettingStep ==
    ASSUME NEW t, NEW cont, NEW m, NEW cells, NEW size, CanSet(t, cont, m, cells, size),
           NEW n \in Slot(size), NEW r, NEW calls, NEW mutated,
           Setting(t, cont, m, cells, size, n, r, calls, mutated),
           NEW x, IsRunOf(x, r, calls, None, mutated)
    PROVE  Loop(SetStep(x, cells[n]), t, cont, m, cells, size, n + 1)
<1>1. /\ TableOK(t) /\ ContOK(cont) /\ m \in Place
      /\ size \in Nat /\ cells \in Cells(size) /\ Distinct(cells, size)
      /\ \A k \in Stored(cells, size) :
             k \in Contents(t) \/ \E l \in Place : l # m /\ k \in cont[l]
  BY DEF CanSet
<1>2. /\ TableOK(r) /\ mutated \in BOOLEAN
      /\ Contents(r) = Merged(Front(cells, size, n), Contents(t))
      /\ Settled(calls, Put(cont, m, Assets(r)))
      /\ r.count <= t.count + Cardinality(Taken(cells, size, n))
      /\ Enlarged(t, r)
      /\ mutated \/ r = t
  BY DEF Setting
<1>3. CASE cells[n] = Hole
  <2>1. Front(cells, size, n + 1) = Front(cells, size, n)
        /\ Taken(cells, size, n + 1) = Taken(cells, size, n)
    BY <1>1, <1>3, FrontFacts
  <2>2. SetStep(x, cells[n]) = x
    BY <1>3 DEF SetStep
  <2>3. Setting(t, cont, m, cells, size, n + 1, r, calls, mutated)
    BY <1>2, <2>1 DEF Setting
  <2> QED
    BY <2>2, <2>3 DEF Loop
<1>4. CASE cells[n] # Hole
  <2>1. PICK k \in Key : k = cells[n]
    BY <1>1, <1>4, FrontFacts
  <2>2. PICK S, M, T : S = Front(cells, size, n) /\ M = Front(cells, size, n + 1) /\ T = Contents(t)
    OBVIOUS
  <2>3. M = S \cup {k} /\ k \in Stored(cells, size) /\ \A p \in S : ~ IsEqual(p, k)
    BY <1>1, <1>4, <2>1, <2>2, FrontFacts
  <2>4. PICK a, b, u : /\ a = Cardinality(Taken(cells, size, n))
                       /\ b = Cardinality(Taken(cells, size, n + 1))
                       /\ u = Cardinality(Used(cells, size))
    OBVIOUS
  <2>5. a \in Nat /\ b = a + 1 /\ a + 1 <= u /\ u \in Nat
    BY <1>1, <1>4, <2>4, TakenMore, UsedFinite
  <2>6. SetStep(x, cells[n]) = SetItem(x, k)
    BY <1>4, <2>1 DEF SetStep
  <2>7. Contents(r) = Merged(S, T) /\ r.count <= t.count + a
    BY <1>2, <2>2, <2>4
  <2>8. \A p, q \in Contents(r) : IsEqual(p, q) => p = q
    BY <1>2, ContentsFacts
  <2>9. t.count \in Nat /\ r.count \in Nat /\ t.size \in Nat /\ r.size \in Nat
        /\ (r.size >= 4 => r.count < r.size) /\ (r.size = 0 => r.count = 0)
        /\ (r.size # 0 => r.size = 2 \/ r.size >= 4)
    BY <1>1, <1>2, TableFacts
  <2>10. CASE ~ ProbeEnds(r, k)
    <3>1. /\ r.count = r.size /\ r.count # 0
          /\ IsHung(SetItem(x, k), calls \o <<>>, Noted(FALSE, mutated))
      BY <1>2, <2>10, SetItemFacts
    <3>2. SetItem(x, k).status = Hung
      BY <3>1 DEF IsHung
    <3>3. r.size = 2 /\ r.count = 2
      BY <2>9, <3>1
    <3>4. t.size = 2
      BY <1>2, <3>3 DEF Enlarged
    <3>5. t.count + u > 2
      BY <2>5, <2>7, <2>9, <3>3
    <3> QED
      BY <2>4, <2>6, <3>2, <3>4, <3>5 DEF Loop, Halted
  <2>11. CASE ProbeEnds(r, k)
    <3>1. PICK v, written, result, w :
              /\ IsRunOf(SetItem(x, k), v, calls \o written, None, Noted(w, mutated))
              /\ TableOK(v) /\ Wrote(r, k, "overwrite", v, written, result, w)
      BY <1>2, <2>11, SetItemFacts
    <3>2. /\ w \in BOOLEAN /\ (w \/ v = r)
          /\ Enlarged(r, v)
          /\ v.count <= r.count + 1
          /\ \/ (\A p \in Contents(r) : ~ IsEqual(p, k)) /\ Contents(v) = Contents(r) \cup {k}
             \/ \E old \in Contents(r) :
                    IsEqual(old, k) /\ Contents(v) = (Contents(r) \ {old}) \cup {k}
      BY <1>2, <3>1, WroteFacts
    <3>3. Contents(v) = Merged(M, T)
      <4>1. PICK C, D : C = Contents(r) /\ D = Merged(M, T)
        OBVIOUS
      <4>3. Merging(S, T, k, C, D)
        BY <2>3, <2>7, <2>8, <4>1 DEF Merging
      <4>2. /\ (\A p \in C : ~ IsEqual(p, k)) => C \cup {k} = D
            /\ \A old \in C : IsEqual(old, k) => (C \ {old}) \cup {k} = D /\ old \in T
        BY <4>3, MergedFacts
      <4> QED
        BY <3>2, <4>1, <4>2
    <3>4. PICK held : held = Put(cont, m, Assets(r))
      OBVIOUS
    <3>5. held[m] = Assets(r) /\ \A l \in Place : l # m => held[l] = cont[l]
      BY <1>1, <3>4, PutFacts
    <3>6. Holding(held, m, r)
      BY <1>1, <1>2, <3>5 DEF Holding
    <3>7. Available(calls, held, k)
      <4>1. CASE k \in Contents(t)
        <5>1. k \in Contents(r)
          <6>1. \A l \in S : ~ IsEqual(l, k)
            BY <2>3
          <6> QED
            BY <2>2, <2>7, <4>1, <6>1 DEF Merged
        <5>2. k \in held[m]
          BY <3>5, <5>1 DEF Assets
        <5> QED
          BY <1>1, <5>2 DEF Available, Held
      <4>2. CASE \E l \in Place : l # m /\ k \in cont[l]
        BY <3>5, <4>2 DEF Available, Held
      <4> QED
        BY <1>1, <2>3, <4>1, <4>2
    <3>8. Settled(calls, held)
      BY <1>2, <3>4
    <3>9. Settled(calls \o written, Put(held, m, Assets(v)))
      BY <1>2, <3>1, <3>6, <3>7, <3>8, SettledWrite
    <3>10. Put(held, m, Assets(v)) = Put(cont, m, Assets(v))
      BY <1>1, <3>4, PutFacts
    <3>11. v.count <= t.count + b
      <4>1. v.count \in Nat
        BY <3>1, TableFacts
      <4> QED
        BY <2>5, <2>7, <2>9, <3>2, <4>1
    <3>12. Enlarged(t, v)
      BY <1>2, <3>2 DEF Enlarged
    <3>13. Noted(w, mutated) \in BOOLEAN /\ (Noted(w, mutated) \/ v = t)
      BY <1>2, <3>2 DEF Noted
    <3>14. PICK all, noted : all = calls \o written /\ noted = Noted(w, mutated)
      OBVIOUS
    <3>15. Setting(t, cont, m, cells, size, n + 1, v, all, noted)
      BY <2>2, <2>4, <3>1, <3>3, <3>9, <3>10, <3>11, <3>12, <3>13, <3>14 DEF Setting
    <3>16. IsRunOf(SetItem(x, k), v, all, None, noted)
      BY <3>1, <3>14
    <3> QED
      BY <2>6, <3>15, <3>16 DEF Loop
  <2> QED
    BY <2>10, <2>11
<1> QED
  BY <1>3, <1>4

(* All the keys are set, or a storage of two slots did not do.             *)
LEMMA SetItemsFacts ==
    ASSUME NEW t, NEW cont, NEW m, NEW cells, NEW size, CanSet(t, cont, m, cells, size),
           NEW calls, Settled(calls, cont), cont[m] = Assets(t), NEW mutated \in BOOLEAN,
           NEW run, IsRunOf(run, t, calls, None, mutated)
    PROVE  Loop(SetItems(run, cells, size), t, cont, m, cells, size, size)
<1> DEFINE Good(n, x) == Loop(x, t, cont, m, cells, size, n)
<1> DEFINE G == {y \in (0 .. size) \X Partial : Good(y[1], y[2])}
<1>1. TableOK(t) /\ size \in Nat /\ cells \in Cells(size) /\ calls \in Calls
  BY DEF CanSet, Settled
<1>2. run \in Partial
  BY <1>1, PartialFacts
<1>3. Good(0, run)
  <2>1. Setting(t, cont, m, cells, size, 0, t, calls, mutated)
    BY SettingStarts
  <2> QED
    BY <2>1 DEF Loop
<1>4. ASSUME NEW n \in Slot(size), NEW x \in Partial, Good(n, x)
      PROVE  Good(n + 1, SetStep(x, cells[n]))
  <2>1. CASE Halted(x, t, cells, size)
    <3>1. SetStep(x, cells[n]) = x
      BY <2>1, StatusFacts DEF SetStep, SetItem, Halted, HasStopped
    <3> QED
      BY <2>1, <3>1 DEF Loop
  <2>2. ASSUME NEW r, NEW made, NEW noted, IsRunOf(x, r, made, None, noted),
               Setting(t, cont, m, cells, size, n, r, made, noted)
        PROVE  Good(n + 1, SetStep(x, cells[n]))
    BY <2>2, SettingStep
  <2> QED
    BY <1>4, <2>1, <2>2 DEF Loop
<1> HIDE DEF Good
<1>5. <<0, run>> \in G
  BY <1>1, <1>2, <1>3
<1>6. \A i \in Slot(size), x \in Partial :
          <<i, x>> \in G => <<i + 1, SetStep(x, cells[i])>> \in G
  <2> SUFFICES ASSUME NEW i \in Slot(size), NEW x \in Partial, <<i, x>> \in G
               PROVE  <<i + 1, SetStep(x, cells[i])>> \in G
    OBVIOUS
  <2>1. Good(i, x)
    OBVIOUS
  <2>2. Good(i + 1, SetStep(x, cells[i]))
    BY <1>4, <2>1
  <2>3. SetStep(x, cells[i]) \in Partial
    BY <1>1, SetStepTyped DEF Cells
  <2>4. i + 1 \in 0 .. size
    BY <1>1 DEF Slot
  <2> QED
    BY <2>2, <2>3, <2>4
<1> HIDE DEF G
<1>7. <<size, SetItems(run, cells, size)>> \in G
  BY <1>1, <1>2, <1>5, <1>6, SetInduction
<1>8. Good(size, SetItems(run, cells, size))
  BY <1>7 DEF G
<1> QED
  BY <1>8 DEF Good

-----------------------------------------------------------------------------
(* Giving up a table *)

LEMMA ReleaseAppended ==
    ASSUME NEW a \in Calls, NEW b \in Calls, NEW p \in Pointer
    PROVE  /\ Append(b, Release(p)) = b \o <<Release(p)>>
           /\ a \o Append(b, Release(p)) = (a \o b) \o <<Release(p)>>
<1>1. PICK e : e = Release(p) /\ e \in {-1, 1} \X Pointer
  BY ConcatFacts
<1>2. Append(b, e) = b \o <<e>>
  BY <1>1 DEF Calls
<1>3. <<e>> \in Calls
  BY <1>1 DEF Calls
<1>4. a \o (b \o <<e>>) = (a \o b) \o <<e>>
  BY <1>3, ConcatFacts
<1> QED
  BY <1>1, <1>2, <1>4

(* done or reset releases each key once, and done the storage              *)
LEMMA SettledClear ==
    ASSUME NEW before, NEW cont, Settled(before, cont), NEW m, NEW t, Holding(cont, m, t)
    PROVE  /\ ReleaseAll(t) \in Calls
           /\ Settled(before \o ReleaseAll(t), Put(cont, m, Assets(t) \ Contents(t)))
           /\ Settled((before \o ReleaseAll(t)) \o Free(t), Put(cont, m, {}))
<1> DEFINE left(n) == Put(cont, m, Assets(t) \ Front(t.slots, t.size, n))
           Good(n, calls) == Settled(before \o calls, left(n))
           G == {g \in Nat \X Calls : Good(g[1], g[2])}
<1>1. TableOK(t) /\ cont[m] = Assets(t) /\ m \in Place /\ ContOK(cont) /\ before \in Calls
  BY DEF Holding, Settled
<1>2. PICK size, cells : size \in Nat /\ cells \in Cells(size) /\ size = t.size /\ cells = t.slots
  BY <1>1, TableFacts
<1>3. Distinct(cells, size)
  BY <1>1, <1>2 DEF TableOK, Chained
<1>4. \A n, calls : <<n, calls>> \in G <=> n \in Nat /\ calls \in Calls /\ Good(n, calls)
  OBVIOUS
<1> HIDE DEF G, Good
<1>5. <<0, <<>>>> \in G
  <2>1. Front(cells, size, 0) = {}
    BY <1>2, <1>3, FrontFacts
  <2>2. Assets(t) \ Front(t.slots, t.size, 0) = cont[m]
    BY <1>1, <1>2, <2>1
  <2>3. left(0) = cont
    BY <1>1, <2>2, PutFacts
  <2>4. before \o <<>> = before /\ <<>> \in Calls
    BY <1>1, ConcatFacts
  <2> QED
    BY <1>1, <1>4, <2>3, <2>4 DEF Good
<1>6. ASSUME NEW n \in Slot(t.size), NEW calls \in Calls, <<n, calls>> \in G
      PROVE  <<n + 1, ReleaseStep(calls, t.slots[n])>> \in G
  <2>1. n \in Nat /\ n + 1 \in Nat /\ Good(n, calls)
    BY <1>1, <1>4, <1>6, TableFacts DEF Slot
  <2>2. PICK cell \in Key \cup {Hole} : cell = t.slots[n]
    BY <1>2, <1>3, FrontFacts
  <2>3. CASE cell = Hole
    <3>1. ReleaseStep(calls, cell) = calls
      BY <2>3 DEF ReleaseStep
    <3>2. Front(t.slots, t.size, n + 1) = Front(t.slots, t.size, n)
      <4>1. cells[n] = Hole /\ n \in Slot(size)
        BY <1>2, <2>2, <2>3
      <4>2. Front(cells, size, n + 1) = Front(cells, size, n)
        BY <1>2, <1>3, <4>1, FrontFacts
      <4> QED
        BY <1>2, <4>2
    <3>3. Good(n + 1, calls)
      BY <2>1, <3>2 DEF Good
    <3> QED
      BY <1>4, <2>1, <2>2, <3>1, <3>3
  <2>4. CASE cell # Hole
    <3>1. PICK F, M : F = Front(t.slots, t.size, n) /\ M = Front(t.slots, t.size, n + 1)
      OBVIOUS
    <3>2. cell \in Stored(cells, size) /\ M = F \cup {cell} /\ \A p \in F : ~ IsEqual(p, cell)
      BY <1>2, <1>3, <2>2, <2>4, <3>1, FrontFacts
    <3>3. cell \notin F /\ cell \in Assets(t) /\ cell \in Pointer
      BY <1>2, <2>2, <2>4, <3>2 DEF IsEqual, Assets, Contents, Pointer
    <3>4. PICK had, has : had = left(n) /\ has = left(n + 1)
      OBVIOUS
    <3>5. had[m] = Assets(t) \ F /\ has = Put(cont, m, Assets(t) \ M)
      BY <1>1, <3>1, <3>4, PutFacts
    <3>6. cell \in had[m]
      BY <3>3, <3>5
    <3>7. has = Without(had, m, cell)
      <4>1. Assets(t) \ M = (Assets(t) \ F) \ {cell}
        BY <3>2
      <4>2. Without(had, m, cell) = Put(cont, m, (Assets(t) \ F) \ {cell})
        BY <1>1, <3>1, <3>4 DEF ContOK, Put, Without
      <4> QED
        BY <3>5, <4>1, <4>2
    <3>8. Settled(before \o calls, had)
      BY <2>1, <3>4 DEF Good
    <3>9. Settled((before \o calls) \o <<Release(cell)>>, has)
      BY <1>1, <3>6, <3>7, <3>8, SettledRelease
    <3>10. ReleaseStep(calls, cell) = Append(calls, Release(cell))
      BY <2>4 DEF ReleaseStep
    <3>11. /\ Append(calls, Release(cell)) = calls \o <<Release(cell)>>
           /\ before \o Append(calls, Release(cell)) = (before \o calls) \o <<Release(cell)>>
      BY <1>1, <3>3, ReleaseAppended
    <3>12. calls \o <<Release(cell)>> \in Calls
      <4>1. <<Release(cell)>> \in Calls
        BY <3>3, ConcatFacts
      <4> QED
        BY <4>1, ConcatFacts
    <3>13. Good(n + 1, ReleaseStep(calls, cell))
      BY <3>4, <3>9, <3>10, <3>11 DEF Good
    <3> QED
      BY <1>4, <2>1, <2>2, <3>10, <3>11, <3>12, <3>13
  <2> QED
    BY <2>3, <2>4
<1>7. <<t.size, ReleaseAll(t)>> \in G /\ ReleaseAll(t) \in Calls
  BY <1>1, <1>5, <1>6, ReleaseInduction
<1>8. Good(t.size, ReleaseAll(t))
  BY <1>4, <1>7
<1>9. Assets(t) \ Front(t.slots, t.size, t.size) = Assets(t) \ Contents(t)
  BY <1>2, <1>3, FrontFacts DEF Contents
<1>10. PICK gone : gone = before \o ReleaseAll(t)
  OBVIOUS
<1>11. PICK rest : rest = Put(cont, m, Assets(t) \ Contents(t))
  OBVIOUS
<1>12. Settled(gone, rest)
  BY <1>8, <1>9, <1>10, <1>11 DEF Good
<1>13. Settled(gone \o Free(t), Put(cont, m, {}))
  <2>1. rest[m] = Assets(t) \ Contents(t)
    BY <1>1, <1>11, PutFacts
  <2>2. CASE Storage \in Assets(t)
    <3>1. Free(t) = <<Release(Storage)>> /\ Contents(t) \subseteq Key
      BY <1>1, <2>2, AssetsFacts
    <3>2. Storage \in rest[m] /\ rest[m] = {Storage}
      BY <1>1, <2>1, <2>2, <3>1, AssetsFacts, PointerFacts
    <3>3. Without(rest, m, Storage) = Put(cont, m, rest[m] \ {Storage})
      BY <1>1, <1>11 DEF ContOK, Put, Without
    <3>4. Put(cont, m, {}) = Without(rest, m, Storage)
      BY <3>2, <3>3
    <3>5. Settled(gone \o <<Release(Storage)>>, Put(cont, m, {}))
      BY <1>1, <1>12, <3>2, <3>4, SettledRelease
    <3> QED
      BY <3>1, <3>5
  <2>3. CASE Storage \notin Assets(t)
    <3>1. Free(t) = <<>> /\ Assets(t) = Contents(t)
      BY <1>1, <2>3, AssetsFacts
    <3>2. rest = Put(cont, m, {})
      BY <1>11, <3>1
    <3>3. gone \o <<>> = gone
      BY <1>12, ConcatFacts DEF Settled
    <3> QED
      BY <1>12, <3>1, <3>2, <3>3
  <2> QED
    BY <2>2, <2>3
<1> QED
  BY <1>7, <1>10, <1>11, <1>12, <1>13

LEMMA RunFacts ==
    ASSUME NEW t, NEW calls, NEW result
    PROVE  /\ IsRunOf(Run(t, calls, result), t, calls, result, FALSE)
           /\ IsRunOf(Mutated(Run(t, calls, result)), t, calls, result, TRUE)
<1>1. IsRunOf(Run(t, calls, result), t, calls, result, FALSE)
  BY DEF IsRunOf, Run
<1>2. PICK run : run = Run(t, calls, result)
  OBVIOUS
<1>3. PICK no, yes : no = FALSE /\ yes = TRUE
  OBVIOUS
<1>4. run = [table |-> t, calls |-> calls, ret |-> result, mutated |-> no, status |-> Running]
  BY <1>1, <1>2, <1>3 DEF IsRunOf
<1>5. [run EXCEPT !.mutated = yes]
        = [table |-> t, calls |-> calls, ret |-> result, mutated |-> yes, status |-> Running]
  BY <1>4
<1>6. IsRunOf(Mutated(run), t, calls, result, TRUE)
  BY <1>3, <1>5 DEF IsRunOf, Mutated
<1> QED
  BY <1>1, <1>2, <1>6

(* the references of one place go to an empty one                          *)
LEMMA SettledRenamed ==
    ASSUME NEW calls, NEW cont, Settled(calls, cont), NEW l \in Place, NEW m \in Place, l # m,
           cont[m] = {}, NEW other, ContOK(other), other[m] = cont[l], other[l] = {},
           \A x \in Place : x # l /\ x # m => other[x] = cont[x]
    PROVE  Settled(calls, other)
<1>1. ASSUME NEW p
      PROVE  /\ Cardinality(Held(other, p)) = Cardinality(Held(cont, p))
             /\ Held(cont, p) = {} => Held(other, p) = {}
  <2>1. IsFiniteSet(Held(cont, p))
    BY HeldFinite
  <2>2. CASE p \notin cont[l]
    <3>1. Held(other, p) = Held(cont, p)
      BY <2>2 DEF Held
    <3> QED
      BY <3>1
  <2>3. CASE p \in cont[l]
    <3>1. PICK rest : rest = Held(cont, p) \ {l}
      OBVIOUS
    <3>2. Held(cont, p) = rest \cup {l} /\ l \notin rest
      BY <2>3, <3>1 DEF Held
    <3>3. Held(other, p) = rest \cup {m} /\ m \notin rest
      BY <2>3, <3>1 DEF Held
    <3>4. IsFiniteSet(rest)
      BY <2>1, <3>1, FS_Subset
    <3>5. Cardinality(rest \cup {l}) = Cardinality(rest) + 1
          /\ Cardinality(rest \cup {m}) = Cardinality(rest) + 1
      BY <3>2, <3>3, <3>4, FS_AddElement
    <3> QED
      BY <3>2, <3>3, <3>5
  <2> QED
    BY <2>2, <2>3
<1>2. PICK s, gone : /\ Ran(refs, calls, s, gone) /\ Counts(s, cont)
                     /\ \A p \in gone : Held(cont, p) = {}
  BY DEF Settled
<1>3. Counts(s, other)
  BY <1>1, <1>2 DEF Counts
<1>4. \A p \in gone : Held(other, p) = {}
  BY <1>1, <1>2
<1> QED
  BY <1>2, <1>3, <1>4 DEF Settled

(* The temporary set is built before dst gives up what it holds, so that   *)
(* no key both have is ever without a reference.                           *)
LEMMA SwapFacts ==
    ASSUME NEW cont, ContOK(cont), cont[None] = {}, NEW dst \in SetId, NEW t, Holding(cont, dst, t),
           NEW r, TableOK(r), NEW calls, Settled(calls, Put(cont, None, Assets(r))),
           NEW run, NEW result, NEW mutated, IsRunOf(run, r, calls, result, mutated)
    PROVE  \E all : /\ IsRunOf(Swap(t, run), r, all, None, TRUE)
                    /\ Settled(all, Put(cont, dst, Assets(r)))
<1>1. None \in Place /\ dst \in Place /\ dst # None
  BY PlaceFacts
<1>2. PICK both, all, done : /\ both = Put(cont, None, Assets(r))
                             /\ all = (calls \o ReleaseAll(t)) \o Free(t)
                             /\ done = Put(both, dst, {})
  OBVIOUS
<1>3. Assets(r) \subseteq Pointer
  BY AssetsFacts
<1>4. ContOK(both) /\ both[None] = Assets(r) /\ \A x \in Place : x # None => both[x] = cont[x]
  BY <1>1, <1>2, <1>3, PutFacts
<1>5. Holding(both, dst, t)
  BY <1>1, <1>4 DEF Holding
<1>6. Settled(all, done)
  BY <1>2, <1>5, SettledClear
<1>7. /\ ContOK(done) /\ done[dst] = {} /\ done[None] = Assets(r)
      /\ \A x \in Place : x # None /\ x # dst => done[x] = cont[x]
  BY <1>1, <1>2, <1>4, PutFacts
<1>8. PICK final : final = Put(cont, dst, Assets(r))
  OBVIOUS
<1>9. /\ ContOK(final) /\ final[dst] = Assets(r)
      /\ \A x \in Place : x # dst => final[x] = cont[x]
  BY <1>1, <1>3, <1>8, PutFacts
<1>10. /\ final[dst] = done[None] /\ final[None] = {}
       /\ \A x \in Place : x # None /\ x # dst => final[x] = done[x]
  BY <1>1, <1>7, <1>9
<1>11. Settled(all, final)
  BY <1>1, <1>6, <1>7, <1>9, <1>10, SettledRenamed
<1>12. Swap(t, run) = Mutated(Run(r, all, None))
  BY <1>2 DEF Swap, HasStopped, IsRunOf
<1>13. IsRunOf(Swap(t, run), r, all, None, TRUE)
  BY <1>12, RunFacts
<1> QED
  BY <1>8, <1>11, <1>13

-----------------------------------------------------------------------------
(* Whole operations *)

(* A new storage: lent, of malloc, or none at all.                         *)
LEMMA NewFacts ==
    ASSUME NEW cont, ContOK(cont), Counts(refs, cont), NEW m \in Place, cont[m] = {},
           NEW size \in Nat, SizeOK(size), NEW initial \in BOOLEAN, NEW t, t = Table(size, initial),
           NEW calls, calls = IF size = 0 \/ initial THEN <<>> ELSE Alloc
    PROVE  /\ TableOK(t) /\ Contents(t) = {} /\ t.count = 0 /\ t.size = size /\ t.initial = initial
           /\ Settled(calls, Put(cont, m, Assets(t)))
<1>1. TableOK(t) /\ Contents(t) = {} /\ t.count = 0 /\ t.size = size /\ t.initial = initial
  BY BlankTable
<1>2. Settled(<<>>, cont)
  BY SettledNothing
<1>3. CASE size = 0 \/ initial
  <2>1. Assets(t) = cont[m] /\ calls = <<>>
    BY <1>1, <1>3 DEF Assets
  <2>2. Put(cont, m, Assets(t)) = cont
    BY <2>1, PutFacts
  <2> QED
    BY <1>1, <1>2, <2>1, <2>2
<1>4. CASE ~ (size = 0 \/ initial)
  <2>1. Assets(t) = {Storage} /\ calls = Alloc
    BY <1>1, <1>4 DEF Assets
  <2>2. Storage \in Pointer /\ Storage \notin Owned /\ Storage \notin cont[m]
    BY PointerFacts DEF Pointer
  <2>3. Settled(<<>> \o <<Retain(Storage)>>, With(cont, m, Storage))
    BY <1>2, <2>2, SettledRetain
  <2>4. <<Retain(Storage)>> \in Calls
    BY <2>2, ConcatFacts
  <2>5. <<>> \o <<Retain(Storage)>> = <<Retain(Storage)>>
    BY <2>4, ConcatFacts
  <2>6. With(cont, m, Storage) = Put(cont, m, {Storage})
    <3>1. With(cont, m, Storage) = Put(cont, m, cont[m] \cup {Storage})
      BY PutFacts
    <3> QED
      BY <3>1
  <2> QED
    BY <1>1, <2>1, <2>3, <2>5, <2>6 DEF Alloc
<1> QED
  BY <1>3, <1>4

LEMMA AllocatedRun ==
    ASSUME NEW size \in Nat, size >= 2
    PROVE  IsRunOf(Allocated(size), Table(size, FALSE), Alloc, None, FALSE)
<1>1. PICK t, calls : t = Table(size, FALSE) /\ calls = Alloc
  OBVIOUS
<1>2. Allocated(size) = Run(t, calls, None)
  <2>1. ~ (size < 2)
    OBVIOUS
  <2> QED
    BY <1>1, <2>1 DEF Allocated
<1>3. IsRunOf(Run(t, calls, None), t, calls, None, FALSE)
  BY RunFacts
<1> QED
  BY <1>1, <1>2, <1>3

LEMMA CellsFacts ==
    ASSUME NEW t, TableOK(t)
    PROVE  /\ t.size \in Nat /\ t.slots \in Cells(t.size) /\ Distinct(t.slots, t.size)
           /\ Stored(t.slots, t.size) = Contents(t)
           /\ t.count = Cardinality(Used(t.slots, t.size))
BY TableFacts DEF TableOK, Chained, Contents

(* Common are the keys of a that b has.                                    *)
LEMMA CommonFacts ==
    ASSUME NEW a, TableOK(a), NEW b, NEW cells, cells = Common(a, b)
    PROVE  /\ cells \in Cells(a.size) /\ Distinct(cells, a.size)
           /\ Stored(cells, a.size) = {k \in Contents(a) : Has(b, k)}
           /\ Cardinality(Used(cells, a.size)) <= a.count
<1>1. PICK size, slots, U : size = a.size /\ slots = a.slots /\ U = Used(slots, size)
  OBVIOUS
<1>2. /\ size \in Nat /\ slots \in Cells(size) /\ Distinct(slots, size)
      /\ Contents(a) = {slots[i] : i \in U} /\ a.count = Cardinality(U)
  BY <1>1, CellsFacts DEF Stored
<1>3. Occupied(a) = U
  BY <1>1 DEF Occupied, Used
<1>4. cells = [i \in Slot(size) |-> IF i \in U /\ Has(b, slots[i]) THEN slots[i] ELSE Hole]
  BY <1>1, <1>3 DEF Common
<1>5. \A i \in U : i \in Slot(size) /\ slots[i] \in Key /\ slots[i] # Hole
  BY <1>1, TableFacts
<1>6. cells \in Cells(size)
  BY <1>4, <1>5 DEF Cells
<1>7. \A i : i \in Used(cells, size) <=> i \in U /\ Has(b, slots[i])
  BY <1>4, <1>5 DEF Used
<1>8. \A i \in Used(cells, size) : cells[i] = slots[i]
  BY <1>4, <1>5, <1>7
<1>9. Distinct(cells, size)
  BY <1>1, <1>2, <1>7, <1>8 DEF Distinct
<1>10. Stored(cells, size) = {k \in Contents(a) : Has(b, k)}
  BY <1>2, <1>7, <1>8 DEF Stored
<1>11. Cardinality(Used(cells, size)) <= a.count
  <2>1. IsFiniteSet(U)
    BY <1>1, <1>2, UsedFinite
  <2>2. Used(cells, size) \subseteq U
    BY <1>7
  <2> QED
    BY <1>2, <2>1, <2>2, FS_Subset
<1> QED
  BY <1>1, <1>6, <1>9, <1>10, <1>11

(* what an optional operand has                                            *)
KeysIn(a) == IF a = None THEN {} ELSE Contents(a)

Operand(a) == a = None \/ TableOK(a)

(* Keys set one by one: how it ends, from a table t of m.                  *)
Filled(run, t, cont, m, S, n) ==
    \/ run.status = Hung /\ t.size = 2 /\ t.count + n > 2
    \/ \E r, calls, mutated :
           /\ IsRunOf(run, r, calls, None, mutated) /\ mutated \in BOOLEAN
           /\ TableOK(r) /\ Contents(r) = Merged(S, Contents(t))
           /\ Settled(calls, Put(cont, m, Assets(r)))
           /\ r.count <= t.count + n
           /\ Enlarged(t, r)
           /\ mutated \/ r = t

(* t is what the run has made of the place m, from the places in cont      *)
Making(run, t, calls, mutated, cont, m) ==
    /\ IsRunOf(run, t, calls, None, mutated) /\ mutated \in BOOLEAN /\ TableOK(t)
    /\ ContOK(cont) /\ m \in Place /\ Settled(calls, Put(cont, m, Assets(t)))

(* somebody else has the keys as long as they are not in t                 *)
Secured(S, t, cont, m) ==
    \A k \in S : k \in Contents(t) \/ \E l \in Place : l # m /\ k \in cont[l]

LEMMA FillFacts ==
    ASSUME NEW run, NEW t, NEW calls, NEW mutated, NEW cont, NEW m,
           Making(run, t, calls, mutated, cont, m),
           NEW size \in Nat, NEW cells, cells \in Cells(size), Distinct(cells, size),
           Secured(Stored(cells, size), t, cont, m)
    PROVE  Filled(SetItems(run, cells, size), t, cont, m, Stored(cells, size),
                  Cardinality(Used(cells, size)))
<1>1. /\ IsRunOf(run, t, calls, None, mutated) /\ mutated \in BOOLEAN /\ TableOK(t)
      /\ ContOK(cont) /\ m \in Place /\ Settled(calls, Put(cont, m, Assets(t)))
  BY DEF Making
<1>2. PICK base : base = Put(cont, m, Assets(t))
  OBVIOUS
<1>3. Assets(t) \subseteq Pointer
  BY <1>1, AssetsFacts
<1>4. /\ ContOK(base) /\ base[m] = Assets(t) /\ \A l \in Place : l # m => base[l] = cont[l]
      /\ \A A : Put(base, m, A) = Put(cont, m, A)
  BY <1>1, <1>2, <1>3, PutFacts
<1>5. CanSet(t, base, m, cells, size)
  BY <1>1, <1>4 DEF CanSet, Secured
<1>6. Settled(calls, base)
  BY <1>1, <1>2
<1>7. PICK x : x = SetItems(run, cells, size)
  OBVIOUS
<1>8. Loop(x, t, base, m, cells, size, size)
  BY <1>1, <1>4, <1>5, <1>6, <1>7, SetItemsFacts
<1>9. CASE Halted(x, t, cells, size)
  BY <1>7, <1>9 DEF Halted, Filled
<1>10. ASSUME NEW r, NEW made, NEW noted, IsRunOf(x, r, made, None, noted),
              Setting(t, base, m, cells, size, size, r, made, noted)
       PROVE  Filled(x, t, cont, m, Stored(cells, size), Cardinality(Used(cells, size)))
  <2>1. Front(cells, size, size) = Stored(cells, size) /\ Taken(cells, size, size) = Used(cells, size)
    BY FrontFacts
  <2>2. /\ TableOK(r) /\ noted \in BOOLEAN
        /\ Contents(r) = Merged(Stored(cells, size), Contents(t))
        /\ Settled(made, Put(base, m, Assets(r)))
        /\ r.count <= t.count + Cardinality(Used(cells, size))
        /\ Enlarged(t, r)
        /\ noted \/ r = t
    BY <1>10, <2>1 DEF Setting
  <2>3. Settled(made, Put(cont, m, Assets(r)))
    BY <1>4, <2>2
  <2> QED
    BY <1>10, <2>2, <2>3 DEF Filled
<1> QED
  BY <1>7, <1>8, <1>9, <1>10 DEF Loop

LEMMA SetAllFacts ==
    ASSUME NEW run, NEW t, NEW calls, NEW mutated, NEW cont, NEW m,
           Making(run, t, calls, mutated, cont, m),
           NEW a, Operand(a), Secured(KeysIn(a), t, cont, m)
    PROVE  Filled(SetAll(run, a), t, cont, m, KeysIn(a), CountOf(a))
<1>1. CASE a = None
  <2>1. SetAll(run, a) = run /\ KeysIn(a) = {} /\ CountOf(a) = 0
    BY <1>1 DEF SetAll, KeysIn, CountOf
  <2>2. /\ IsRunOf(run, t, calls, None, mutated) /\ mutated \in BOOLEAN /\ TableOK(t)
        /\ Settled(calls, Put(cont, m, Assets(t)))
    BY DEF Making
  <2>3. Merged({}, Contents(t)) = Contents(t) /\ Enlarged(t, t) /\ t.count <= t.count + 0
    BY <2>2, TableFacts DEF Merged, Enlarged
  <2> QED
    BY <2>1, <2>2, <2>3 DEF Filled
<1>2. CASE a # None
  <2>1. PICK size, cells, S, n : /\ size = a.size /\ cells = a.slots
                                 /\ S = Stored(cells, size) /\ n = Cardinality(Used(cells, size))
    OBVIOUS
  <2>2. /\ size \in Nat /\ cells \in Cells(size) /\ Distinct(cells, size)
        /\ S = KeysIn(a) /\ n = CountOf(a)
    BY <1>2, <2>1, CellsFacts DEF Operand, KeysIn, CountOf
  <2>3. Secured(Stored(cells, size), t, cont, m)
    BY <2>1, <2>2
  <2>4. SetAll(run, a) = SetItems(run, cells, size)
    BY <1>2, <2>1 DEF SetAll
  <2>5. Filled(SetItems(run, cells, size), t, cont, m, Stored(cells, size),
               Cardinality(Used(cells, size)))
    BY <2>2, <2>3, FillFacts
  <2> QED
    BY <2>1, <2>2, <2>4, <2>5
<1> QED
  BY <1>1, <1>2

(* A run that goes on leaves the table r of the place m with the keys S.   *)
Leaves(run, cont, m, S, r) ==
    \E calls, mutated :
        /\ IsRunOf(run, r, calls, None, mutated) /\ mutated \in BOOLEAN
        /\ TableOK(r) /\ Contents(r) = S /\ Settled(calls, Put(cont, m, Assets(r)))

(* a temporary set: its storage is one of malloc                           *)
Temporary(run, cont, S) == \E r : Leaves(run, cont, None, S, r) /\ ~ r.initial

(* the keys of an operand are those of a live set                          *)
Lives(a, cont) == a # None => \E s \in SetId : cont[s] = Assets(a)

LEMMA LivesSecured ==
    ASSUME NEW a, NEW cont, Lives(a, cont), NEW t, NEW S, S \subseteq KeysIn(a)
    PROVE  Secured(S, t, cont, None)
<1> SUFFICES ASSUME NEW k \in S PROVE \E l \in Place : l # None /\ k \in cont[l]
  BY DEF Secured
<1>1. a # None /\ k \in Contents(a)
  BY DEF KeysIn
<1>2. PICK s \in SetId : cont[s] = Assets(a)
  BY <1>1 DEF Lives
<1>3. k \in cont[s] /\ s \in Place /\ s # None
  BY <1>1, <1>2, PlaceFacts DEF Assets
<1> QED
  BY <1>3

LEMMA TemporaryNothing ==
    ASSUME NEW cont, ContOK(cont), Counts(refs, cont), cont[None] = {},
           NEW run, run = Run(Table(0, FALSE), <<>>, None)
    PROVE  Temporary(run, cont, {})
<1>1. PICK t, calls, size, initial :
          /\ t = Table(0, FALSE) /\ calls = <<>> /\ size = 0 /\ initial = FALSE
  OBVIOUS
<1>2. size \in Nat /\ SizeOK(size) /\ initial \in BOOLEAN /\ None \in Place
      /\ t = Table(size, initial) /\ calls = IF size = 0 \/ initial THEN <<>> ELSE Alloc
  BY <1>1, PlaceFacts, SizeFacts
<1>3. /\ TableOK(t) /\ Contents(t) = {} /\ t.initial = initial
      /\ Settled(calls, Put(cont, None, Assets(t)))
  BY <1>2, NewFacts
<1>4. IsRunOf(run, t, calls, None, FALSE)
  BY <1>1, RunFacts
<1> QED
  BY <1>1, <1>3, <1>4 DEF Temporary, Leaves

(* the storage a temporary set starts with                                 *)
LEMMA TemporaryStarts ==
    ASSUME NEW cont, ContOK(cont), Counts(refs, cont), cont[None] = {},
           NEW size \in Nat, SizeOK(size), size >= 2
    PROVE  \E t, calls, mutated :
               /\ Making(Allocated(size), t, calls, mutated, cont, None)
               /\ t.size = size /\ t.count = 0 /\ t.initial = FALSE /\ Contents(t) = {}
<1>1. PICK t, calls, initial : t = Table(size, initial) /\ calls = Alloc /\ initial = FALSE
  OBVIOUS
<1>2. None \in Place /\ initial \in BOOLEAN /\ calls = IF size = 0 \/ initial THEN <<>> ELSE Alloc
  <2>1. (size = 0 \/ initial) = FALSE
    BY <1>1
  <2> QED
    BY <1>1, <2>1, PlaceFacts
<1>3. /\ TableOK(t) /\ Contents(t) = {} /\ t.count = 0 /\ t.size = size /\ t.initial = initial
      /\ Settled(calls, Put(cont, None, Assets(t)))
  BY <1>1, <1>2, NewFacts
<1>4. IsRunOf(Allocated(size), t, calls, None, FALSE)
  BY <1>1, AllocatedRun
<1> QED
  BY <1>1, <1>2, <1>3, <1>4 DEF Making

(* the keys of a that b has an equal one of                                *)
SharedKeys(a, b) == {k \in KeysIn(a) : \E l \in KeysIn(b) : IsEqual(l, k)}

Tiny(a) == a # None /\ a.size = 2

LEMMA HangsTiny ==
    ASSUME NEW t, TableOK(t), NEW k \in Key, ~ ProbeEnds(t, k)
    PROVE  t.size = 2
<1>1. ~ (t.count < t.size \/ t.count = 0)
  BY HasFacts
<1>2. /\ t.size \in Nat /\ t.count \in Nat
      /\ (t.size # 0 => t.size = 2 \/ t.size >= 4)
      /\ (t.size = 0 => t.count = 0) /\ (t.size >= 4 => t.count < t.size)
  BY TableFacts
<1> QED
  BY <1>1, <1>2

LEMMA StopStatus == \A how : Stopped(how).status = how
BY StoppedFacts

(* The temporary set of an intersection.                                   *)
LEMMA IntersectionFacts ==
    ASSUME NEW cont, ContOK(cont), Counts(refs, cont), cont[None] = {},
           NEW a, Operand(a), Lives(a, cont), NEW b, Operand(b),
           NEW run, run = Intersection(a, b)
    PROVE  \/ run.status = Aborted
           \/ run.status = Hung /\ (Tiny(a) \/ Tiny(b))
           \/ Temporary(run, cont, SharedKeys(a, b))
<1>1. CASE a = None \/ b = None
  <2>1. run = Run(Table(0, FALSE), <<>>, None)
    BY <1>1 DEF Intersection
  <2>2. SharedKeys(a, b) = {}
    BY <1>1 DEF SharedKeys, KeysIn
  <2> QED
    BY <2>1, <2>2, TemporaryNothing
<1>2. CASE ~ (a = None \/ b = None)
  <2>1. TableOK(a) /\ TableOK(b) /\ KeysIn(a) = Contents(a) /\ KeysIn(b) = Contents(b)
    BY <1>2 DEF Operand, KeysIn
  <2>2. CASE a.size < 2
    <3>1. run = Stopped(Aborted)
      BY <1>2, <2>2 DEF Intersection
    <3> QED
      BY <3>1, StopStatus
  <2>3. CASE ~ (a.size < 2) /\ \E i \in Occupied(a) : ~ ProbeEnds(b, a.slots[i])
    <3>1. run = Stopped(Hung)
      BY <1>2, <2>3 DEF Intersection
    <3>2. PICK i \in Occupied(a) : ~ ProbeEnds(b, a.slots[i])
      BY <2>3
    <3>3. a.slots[i] \in Key
      BY <2>1, TableFacts DEF Occupied, Used
    <3>4. b.size = 2
      BY <2>1, <3>2, <3>3, HangsTiny
    <3> QED
      BY <1>2, <3>1, <3>4, StopStatus DEF Tiny
  <2>4. CASE ~ (a.size < 2) /\ ~ (\E i \in Occupied(a) : ~ ProbeEnds(b, a.slots[i]))
    <3>1. PICK size, cells, S : size = a.size /\ cells = Common(a, b) /\ S = Stored(cells, size)
      OBVIOUS
    <3>2. run = SetItems(Allocated(size), cells, size)
      BY <1>2, <2>4, <3>1 DEF Intersection
    <3>3. size \in Nat /\ SizeOK(size) /\ size >= 2
      BY <2>1, <2>4, <3>1, TableFacts DEF TableOK
    <3>4. /\ cells \in Cells(size) /\ Distinct(cells, size)
          /\ S = {k \in Contents(a) : Has(b, k)}
      BY <2>1, <3>1, CommonFacts
    <3>5. PICK t, calls, mutated :
              /\ Making(Allocated(size), t, calls, mutated, cont, None)
              /\ t.size = size /\ t.count = 0 /\ t.initial = FALSE /\ Contents(t) = {}
      BY <3>3, TemporaryStarts
    <3>6. S \subseteq KeysIn(a)
      BY <2>1, <3>4
    <3>7. Secured(S, t, cont, None)
      BY <3>6, LivesSecured
    <3>8. Filled(run, t, cont, None, S, Cardinality(Used(cells, size)))
      BY <3>1, <3>2, <3>3, <3>4, <3>5, <3>7, FillFacts
    <3>9. S = SharedKeys(a, b)
      <4>1. ASSUME NEW k \in Contents(a)
            PROVE  Has(b, k) <=> \E l \in Contents(b) : IsEqual(l, k)
        <5>1. PICK i \in Occupied(a) : k = a.slots[i]
          BY DEF Contents, Stored, Used, Occupied
        <5>2. ProbeEnds(b, k) /\ k \in Key
          BY <2>1, <2>4, <5>1, ContentsFacts
        <5> QED
          BY <2>1, <5>2, ContentsFacts
      <4> QED
        BY <2>1, <3>4, <4>1 DEF SharedKeys
    <3>10. CASE run.status = Hung /\ t.size = 2
      BY <1>2, <3>1, <3>5, <3>10 DEF Tiny
    <3>11. ASSUME NEW r, NEW made, NEW noted,
                  /\ IsRunOf(run, r, made, None, noted) /\ noted \in BOOLEAN
                  /\ TableOK(r) /\ Contents(r) = Merged(S, Contents(t))
                  /\ Settled(made, Put(cont, None, Assets(r)))
                  /\ Enlarged(t, r)
           PROVE  Temporary(run, cont, S)
      <4>1. Merged(S, Contents(t)) = S
        BY <3>5 DEF Merged
      <4>2. Leaves(run, cont, None, S, r)
        BY <3>11, <4>1 DEF Leaves
      <4>3. ~ r.initial
        BY <3>5, <3>11 DEF Enlarged
      <4> QED
        BY <4>2, <4>3 DEF Temporary
    <3> QED
      BY <3>8, <3>9, <3>10, <3>11 DEF Filled
  <2> QED
    BY <2>2, <2>3, <2>4
<1> QED
  BY <1>1, <1>2

LEMMA StoppedStays ==
    ASSUME NEW run \in Partial, HasStopped(run), NEW a, Operand(a)
    PROVE  SetAll(run, a) = run
<1>1. CASE a = None
  BY <1>1 DEF SetAll
<1>2. CASE a # None
  <2>1. PICK n, cells : n \in Nat /\ cells \in Cells(n) /\ n = a.size /\ cells = a.slots
    BY <1>2, CellsFacts DEF Operand
  <2> DEFINE G == {y \in (0 .. n) \X Partial : y[2] = run}
  <2>2. <<0, run>> \in G
    BY <2>1
  <2>3. \A i \in Slot(n), x \in Partial :
            <<i, x>> \in G => <<i + 1, SetStep(x, cells[i])>> \in G
    <3> SUFFICES ASSUME NEW i \in Slot(n), NEW x \in Partial, <<i, x>> \in G
                 PROVE  <<i + 1, SetStep(x, cells[i])>> \in G
      OBVIOUS
    <3>1. x = run /\ i + 1 \in 0 .. n
      BY <2>1 DEF Slot
    <3>2. SetStep(x, cells[i]) = run
      BY <3>1 DEF SetStep, SetItem
    <3> QED
      BY <3>1, <3>2
  <2> HIDE DEF G
  <2>4. <<n, SetItems(run, cells, n)>> \in G
    BY <2>1, <2>2, <2>3, SetInduction
  <2>5. SetItems(run, cells, n) = run
    BY <2>4 DEF G
  <2> QED
    BY <1>2, <2>1, <2>5 DEF SetAll
<1> QED
  BY <1>1, <1>2

LEMMA OperandCount ==
    ASSUME NEW a, Operand(a)
    PROVE  CountOf(a) \in Nat
BY TableFacts DEF Operand, CountOf

(* The temporary set of a union has room for all the keys of both: it does *)
(* not hang, however small it is.                                          *)
LEMMA UnionFacts ==
    ASSUME NEW cont, ContOK(cont), Counts(refs, cont), cont[None] = {},
           NEW a, Operand(a), Lives(a, cont), NEW b, Operand(b), Lives(b, cont),
           NEW run, run = UnionOf(a, b)
    PROVE  \/ run.status = Aborted
           \/ Temporary(run, cont, Merged(KeysIn(b), KeysIn(a)))
<1>1. CASE a = None /\ b = None
  <2>1. run = Run(Table(0, FALSE), <<>>, None)
    BY <1>1 DEF UnionOf
  <2>2. Merged(KeysIn(b), KeysIn(a)) = {}
    BY <1>1 DEF Merged, KeysIn
  <2> QED
    BY <2>1, <2>2, TemporaryNothing
<1>2. CASE ~ (a = None /\ b = None)
  <2>1. PICK n, m, size : n = CountOf(a) /\ m = CountOf(b) /\ size = Pow2Round(n + m)
    OBVIOUS
  <2>2. n \in Nat /\ m \in Nat
    BY <2>1, OperandCount
  <2>3. PICK base, half : base = Allocated(size) /\ half = SetAll(base, a)
    OBVIOUS
  <2>4. run = SetAll(half, b)
    BY <1>2, <2>1, <2>3 DEF UnionOf
  <2>5. size \in Nat /\ size >= n + m /\ \E e \in Nat : size = Power[e]
    <3>1. n + m \in Nat
      BY <2>2
    <3> QED
      BY <2>1, <3>1, RoundFacts
  <2>6. CASE size < 2
    <3>1. base = Stopped(Aborted)
      BY <2>3, <2>6 DEF Allocated
    <3>2. base \in Partial /\ HasStopped(base) /\ base.status = Aborted
      BY <3>1, PartialFacts, StopStatus, StatusFacts DEF HasStopped
    <3>3. half = base /\ run = base
      BY <2>3, <2>4, <3>2, StoppedStays
    <3> QED
      BY <3>2, <3>3
  <2>7. CASE size >= 2
    <3>1. SizeOK(size)
      BY <2>5, <2>7, SizeFacts
    <3>2. PICK t, calls, mutated :
              /\ Making(base, t, calls, mutated, cont, None)
              /\ t.size = size /\ t.count = 0 /\ t.initial = FALSE /\ Contents(t) = {}
      BY <2>3, <2>5, <2>7, <3>1, TemporaryStarts
    <3>3. PICK S, T : S = KeysIn(a) /\ T = KeysIn(b)
      OBVIOUS
    <3>4. Secured(S, t, cont, None)
      BY <3>3, LivesSecured
    <3>5. Filled(half, t, cont, None, S, n)
      BY <2>1, <2>3, <3>2, <3>3, <3>4, SetAllFacts
    <3>6. ~ (t.size = 2 /\ t.count + n > 2)
      BY <2>2, <2>5, <3>2
    <3>7. PICK r, made, noted :
              /\ IsRunOf(half, r, made, None, noted) /\ noted \in BOOLEAN
              /\ TableOK(r) /\ Contents(r) = Merged(S, Contents(t))
              /\ Settled(made, Put(cont, None, Assets(r)))
              /\ r.count <= t.count + n
              /\ Enlarged(t, r)
      BY <3>5, <3>6 DEF Filled
    <3>8. Making(half, r, made, noted, cont, None)
      BY <3>2, <3>7 DEF Making
    <3>9. Contents(r) = S
      BY <3>2, <3>7 DEF Merged
    <3>10. Secured(T, r, cont, None)
      BY <3>3, LivesSecured
    <3>11. Filled(run, r, cont, None, T, m)
      BY <2>1, <2>4, <3>3, <3>8, <3>10, SetAllFacts
    <3>12. ~ (r.size = 2 /\ r.count + m > 2)
      <4>1. r.count \in Nat /\ r.count <= n /\ (r.size = size \/ r.size >= 4)
        BY <2>2, <3>2, <3>7, TableFacts DEF Enlarged
      <4> QED
        BY <2>2, <2>5, <4>1
    <3>13. PICK u, all, marked :
              /\ IsRunOf(run, u, all, None, marked) /\ marked \in BOOLEAN
              /\ TableOK(u) /\ Contents(u) = Merged(T, Contents(r))
              /\ Settled(all, Put(cont, None, Assets(u)))
              /\ Enlarged(r, u)
      BY <3>11, <3>12 DEF Filled
    <3>14. Leaves(run, cont, None, Merged(T, S), u)
      BY <3>9, <3>13 DEF Leaves
    <3>15. ~ u.initial
      BY <3>2, <3>7, <3>13 DEF Enlarged
    <3> QED
      BY <3>3, <3>14, <3>15 DEF Temporary
  <2> QED
    BY <2>5, <2>6, <2>7
<1> QED
  BY <1>1, <1>2

-----------------------------------------------------------------------------
(* ---- The sets of a program ----                                         *)

(* what each set has references to                                         *)
Cont(tables) ==
    [l \in Place |-> IF l \in SetId /\ tables[l] # None THEN Assets(tables[l]) ELSE {}]

Sized(t) == t.size <= MaxSize[1]

LentOK(t) == t.initial => t.size \in StaticCapacities

TablesOK(tables) ==
    /\ tables = [s \in SetId |-> tables[s]]
    /\ \A s \in SetId : tables[s] # None =>
           TableOK(tables[s]) /\ Sized(tables[s]) /\ LentOK(tables[s])

Results == Key \cup {0, 1, Hole, None}

(* Only a storage of two slots can be full.                                *)
Trap == \E s \in SetId : sets[s] # None /\ sets[s].size = 2

(* The inductive invariant.                                                *)
SetsInv ==
    /\ TablesOK(sets)
    /\ Counts(refs, Cont(sets)) /\ dangling = {}
    /\ ret \in Results /\ moved \in Live \cup {None}
    /\ status \in {Running, Aborted} \/ (status = Hung /\ Trap)

LEMMA SizedNotNone ==
    ASSUME NEW t, TableOK(t), Sized(t)
    PROVE  t # None
<1>1. PICK size, n, count, slots, initial :
          /\ size \in Nat /\ count \in Nat /\ initial \in BOOLEAN /\ n = MaxSize[1]
          /\ slots \in [0 .. size - 1 -> Key \cup {Hole}] /\ size <= n
          /\ t = [size |-> size, count |-> count, slots |-> slots, initial |-> initial]
  BY TableFacts, TableParts DEF Sized, IsTable, Cells, Slot
<1>2. n \in Nat /\ size \in 0 .. n
  BY <1>1, PointerSetAssumption
<1>3. None \notin [size : {size}, count : Nat, slots : [0 .. size - 1 -> Key \cup {Hole}],
                   initial : BOOLEAN]
  BY <1>1, <1>2, PointerSetAssumption
<1> QED
  BY <1>1, <1>3

LEMMA ContFacts ==
    ASSUME NEW tables, TablesOK(tables)
    PROVE  /\ ContOK(Cont(tables)) /\ Cont(tables)[None] = {}
           /\ \A s \in SetId : tables[s] # None =>
                  Holding(Cont(tables), s, tables[s]) /\ Cont(tables)[s] = Assets(tables[s])
           /\ \A s \in SetId : tables[s] = None => Cont(tables)[s] = {}
           /\ \A p \in Key : Holders(tables, p) = Held(Cont(tables), p)
           /\ \A p : Held(Cont(tables), p) \subseteq SetId
           /\ Held(Cont(tables), Storage)
                = {s \in SetId : tables[s] # None /\ tables[s].size # 0 /\ ~ tables[s].initial}
<1> DEFINE c == Cont(tables)
<1>1. \A s \in SetId : tables[s] # None => TableOK(tables[s]) /\ Assets(tables[s]) \subseteq Pointer
  BY AssetsFacts DEF TablesOK
<1>2. /\ \A s \in SetId : tables[s] # None => c[s] = Assets(tables[s])
      /\ \A s \in SetId : tables[s] = None => c[s] = {}
      /\ c[None] = {}
  BY PlaceFacts DEF Cont
<1>3. c = [l \in Place |-> c[l]]
  BY DEF Cont
<1>4. \A l \in Place : c[l] \in SUBSET Pointer
  BY <1>1, <1>2 DEF Place
<1> HIDE DEF c
<1>5. ContOK(c)
  BY <1>3, <1>4 DEF ContOK
<1>6. \A s \in SetId : tables[s] # None => Holding(c, s, tables[s])
  BY <1>1, <1>2, PlaceFacts DEF Holding
<1>7. \A p : Held(c, p) = {s \in SetId : tables[s] # None /\ p \in Assets(tables[s])}
  BY <1>2 DEF Held, Place
<1>8. ASSUME NEW p \in Key PROVE Holders(tables, p) = Held(c, p)
  <2>1. \A s \in SetId : tables[s] # None =>
            (p \in Assets(tables[s]) <=> p \in Contents(tables[s]))
    BY <1>1, AssetsFacts
  <2>2. \A t : p \in Contents(t) <=> \E i \in Occupied(t) : t.slots[i] = p
    BY DEF Contents, Stored, Used, Occupied
  <2>3. Held(c, p) = {s \in SetId : tables[s] # None /\ p \in Contents(tables[s])}
    BY <1>7, <2>1
  <2> QED
    BY <2>2, <2>3 DEF Holders
<1>9. Held(c, Storage)
        = {s \in SetId : tables[s] # None /\ tables[s].size # 0 /\ ~ tables[s].initial}
  <2>1. \A s \in SetId : tables[s] # None =>
            (Storage \in Assets(tables[s]) <=> tables[s].size # 0 /\ ~ tables[s].initial)
    BY <1>1, AssetsFacts
  <2> QED
    BY <1>7, <2>1
<1>10. \A p : Held(c, p) \subseteq SetId
  BY <1>7
<1> QED
  BY <1>2, <1>5, <1>6, <1>8, <1>9, <1>10 DEF c

(* One table of the program is replaced, or goes.                          *)
Replaceable(u) == u = None \/ (TableOK(u) /\ Sized(u) /\ LentOK(u))

Changed(tables, s, u, new) ==
    /\ TablesOK(new)
    /\ new[s] = u /\ \A l \in SetId : l # s => new[l] = tables[l]
    /\ Cont(new) = Put(Cont(tables), s, IF u = None THEN {} ELSE Assets(u))

LEMMA TablesChange ==
    ASSUME NEW tables, TablesOK(tables), NEW s \in SetId, NEW u, Replaceable(u),
           NEW new, new = [tables EXCEPT ![s] = u]
    PROVE  Changed(tables, s, u, new)
<1>1. new = [l \in SetId |-> IF l = s THEN u ELSE tables[l]]
  BY DEF TablesOK
<1>2. TablesOK(new)
  BY <1>1 DEF TablesOK, Replaceable
<1>3. \A l \in SetId : new[l] = IF l = s THEN u ELSE tables[l]
  BY <1>1
<1>4. Cont(new) = Put(Cont(tables), s, IF u = None THEN {} ELSE Assets(u))
  <2>1. Cont(tables) = [l \in Place |->
            IF l \in SetId /\ tables[l] # None THEN Assets(tables[l]) ELSE {}]
    BY DEF Cont
  <2>2. Put(Cont(tables), s, IF u = None THEN {} ELSE Assets(u))
          = [l \in Place |-> IF l = s THEN (IF u = None THEN {} ELSE Assets(u))
                             ELSE Cont(tables)[l]]
    BY <2>1 DEF Put
  <2>3. ASSUME NEW l \in Place
        PROVE  (IF l \in SetId /\ new[l] # None THEN Assets(new[l]) ELSE {})
                 = (IF l = s THEN (IF u = None THEN {} ELSE Assets(u)) ELSE Cont(tables)[l])
    BY <1>3 DEF Cont
  <2> QED
    BY <2>2, <2>3 DEF Cont
<1> QED
  BY <1>2, <1>3, <1>4 DEF Changed

LEMMA FamiliesFacts ==
    /\ Families = [s \in SetId |-> Families[s]]
    /\ \A s \in SetId : Families[s] = IF sets[s] = None THEN None ELSE Contents(sets[s])
<1>1. \A t : {t.slots[i] : i \in Occupied(t)} = Contents(t)
  BY DEF Contents, Stored, Used, Occupied
<1> QED
  BY <1>1 DEF Families

Become(s, C, R) == ret' = R /\ Families' = [Families EXCEPT ![s] = C]

Visible == \A s \in Live : sets'[s] # None /\ sets'[s].slots # sets[s].slots => moved' = s

(* What a step on s does: the keys are C and the result is R afterwards.   *)
Kept(s, C, R) ==
    /\ SetsInv' /\ Visible
    /\ UNCHANGED <<Families, ret>> \/ Become(s, C, R)

(* the run of a step that comes to no end, and why                         *)
Blocked(run) == run.status = Aborted \/ (run.status = Hung /\ Trap)

(* the run of a step that does                                             *)
Effect(run, s, C, R) ==
    \E r, calls, mutated :
        /\ IsRunOf(run, r, calls, R, mutated) /\ mutated \in BOOLEAN
        /\ TableOK(r) /\ Contents(r) = C /\ LentOK(r)
        /\ Settled(calls, Put(Cont(sets), s, Assets(r)))
        /\ mutated \/ sets[s] = None \/ r.slots = sets[s].slots

(* The callbacks of a step that fit what it does to the references of s.   *)
LEMMA CallsFit ==
    ASSUME SetsInv, NEW new, TablesOK(new), NEW calls, Settled(calls, Cont(new)),
           sets' = new, MakeCalls(calls, new)
    PROVE  Counts(refs, Cont(sets))' /\ dangling' = {}
<1>1. calls \in Calls
  BY DEF Settled
<1>2. PICK s, gone : /\ Ran(refs, calls, s, gone) /\ Counts(s, Cont(new))
                     /\ \A p \in gone : Held(Cont(new), p) = {}
  BY DEF Settled
<1>3. /\ refs' = s
      /\ dangling' = {p \in dangling \cup gone : Holders(new, p) # {}}
  BY <1>1, <1>2, RanCallbacks
<1>4. gone \subseteq Key
  BY <1>2, PointerSetAssumption DEF Ran, Gone
<1>5. \A p \in gone : Holders(new, p) = {}
  BY <1>2, <1>4, ContFacts
<1>6. dangling' = {}
  BY <1>3, <1>5 DEF SetsInv
<1>7. PICK c, d : c = Cont(new) /\ d = Cont(sets') /\ c = d
  OBVIOUS
<1>8. Counts(refs', Cont(sets'))
  BY <1>2, <1>3, <1>7
<1> QED
  BY <1>6, <1>8

LEMMA LiveCount ==
    ASSUME NEW s \in SetId
    PROVE  MaxSize[Cardinality(Live \cup {s})] \in 0 .. MaxSize[1]
<1>1. IsFiniteSet(SetId) /\ Live \cup {s} \subseteq SetId
  BY PlaceFacts DEF Live
<1>2. PICK L, n : L = Live \cup {s} /\ n = Cardinality(L)
  OBVIOUS
<1>3. IsFiniteSet(L) /\ n <= Cardinality(SetId) /\ n \in Nat /\ Cardinality(SetId) \in Nat
  BY <1>1, <1>2, FS_Subset, FS_CardinalityType
<1>4. n # 0
  BY <1>2, <1>3, FS_EmptySet
<1>5. n \in 1 .. Cardinality(SetId)
  BY <1>3, <1>4
<1> QED
  BY <1>2, <1>5, PointerSetAssumption

LEMMA OperateFacts ==
    ASSUME SetsInv, NEW s \in SetId, NEW run, Operate(s, run),
           NEW C, NEW R \in Results, Blocked(run) \/ Effect(run, s, C, R)
    PROVE  Kept(s, C, R)
<1>1. CASE Blocked(run)
  <2>1. run.status \in {Hung, Aborted} /\ HasStopped(run)
    BY <1>1, StatusFacts DEF Blocked, HasStopped
  <2>2. status' = run.status /\ UNCHANGED <<sets, refs, dangling, ret, moved>>
    BY <2>1 DEF Operate
  <2>3. UNCHANGED <<Families, ret>> /\ Visible
    BY <2>2 DEF Families, Visible
  <2>4. status' \in {Running, Aborted} \/ (status' = Hung /\ Trap')
    BY <1>1, <2>2 DEF Blocked, Trap
  <2>5. SetsInv'
    <3>1. TablesOK(sets)' /\ (Counts(refs, Cont(sets)) /\ dangling = {})'
      BY <2>2 DEF SetsInv, TablesOK, Counts, Cont
    <3>2. (ret \in Results /\ moved \in Live \cup {None})'
      BY <2>2 DEF SetsInv, Live
    <3> QED
      BY <2>4, <3>1, <3>2 DEF SetsInv
  <2> QED
    BY <2>3, <2>5 DEF Kept
<1>2. CASE Effect(run, s, C, R)
  <2>1. PICK r, calls, mutated :
            /\ IsRunOf(run, r, calls, R, mutated) /\ mutated \in BOOLEAN
            /\ TableOK(r) /\ Contents(r) = C /\ LentOK(r)
            /\ Settled(calls, Put(Cont(sets), s, Assets(r)))
            /\ mutated \/ sets[s] = None \/ r.slots = sets[s].slots
    BY <1>2 DEF Effect
  <2>2. /\ run.table = r /\ run.calls = calls /\ run.ret = R /\ run.mutated = mutated
        /\ run.status = Running
    BY <2>1 DEF IsRunOf
  <2>3. ~ HasStopped(run)
    BY <2>2 DEF HasStopped
  <2>4. PICK new : new = [sets EXCEPT ![s] = r]
    OBVIOUS
  <2>5. /\ sets' = new /\ Bounded(s, sets') /\ MakeCalls(calls, sets')
        /\ ret' = R /\ moved' = (IF mutated THEN s ELSE None) /\ status' = status
        /\ status = Running
    BY <2>2, <2>3, <2>4 DEF Operate
  <2>6. TablesOK(sets)
    BY DEF SetsInv
  <2>7. Sized(r)
    <3>1. new[s] = r
      BY <2>4, <2>6 DEF TablesOK
    <3>2. sets'[s].size <= MaxSize[Cardinality(Live \cup {s})]
      BY <2>5 DEF Bounded
    <3>3. r.size <= MaxSize[Cardinality(Live \cup {s})]
      BY <2>5, <3>1, <3>2
    <3>4. PICK a, b, c : a = r.size /\ b = MaxSize[Cardinality(Live \cup {s})] /\ c = MaxSize[1]
      OBVIOUS
    <3>5. a \in Nat /\ c \in Nat /\ b \in 0 .. c /\ a <= b
      BY <2>1, <3>3, <3>4, LiveCount, TableFacts, PointerSetAssumption
    <3>6. a <= c
      BY <3>5
    <3> QED
      BY <3>4, <3>6 DEF Sized
  <2>8. r # None
    BY <2>1, <2>7, SizedNotNone
  <2>9. /\ TablesOK(new) /\ new[s] = r /\ \A l \in SetId : l # s => new[l] = sets[l]
        /\ Cont(new) = Put(Cont(sets), s, IF r = None THEN {} ELSE Assets(r))
    <3>1. Replaceable(r)
      BY <2>1, <2>7 DEF Replaceable
    <3>2. Changed(sets, s, r, new)
      BY <2>4, <2>6, <3>1, TablesChange
    <3> QED
      BY <3>2 DEF Changed
  <2>10. Settled(calls, Cont(new))
    BY <2>1, <2>8, <2>9
  <2>11. MakeCalls(calls, new)
    BY <2>5
  <2>12. Counts(refs, Cont(sets))' /\ dangling' = {}
    BY <2>5, <2>9, <2>10, <2>11, CallsFit
  <2>13. (ret \in Results /\ moved \in Live \cup {None})'
    <3>1. s \in Live'
      BY <2>5, <2>8, <2>9 DEF Live
    <3> QED
      BY <2>1, <2>5, <3>1 DEF Results
  <2>14. TablesOK(sets)'
    BY <2>5, <2>9 DEF TablesOK
  <2>15. SetsInv'
    BY <2>5, <2>12, <2>13, <2>14 DEF SetsInv
  <2>16. Visible
    <3> SUFFICES ASSUME NEW l \in SetId, sets[l] # None, sets'[l].slots # sets[l].slots
                 PROVE  moved' = l
      BY DEF Visible, Live
    <3>1. l = s /\ r.slots # sets[s].slots
      BY <2>5, <2>9
    <3> QED
      BY <2>1, <2>5, <3>1
  <2>17. Families' = [Families EXCEPT ![s] = C]
    <3>1. \A l \in SetId : Families'[l] = IF l = s THEN C ELSE Families[l]
      <4>1. \A t : {t.slots[i] : i \in Occupied(t)} = Contents(t)
        BY DEF Contents, Stored, Used, Occupied
      <4> QED
        BY <2>1, <2>5, <2>8, <2>9, <4>1 DEF Families
    <3>2. Families' = [l \in SetId |-> Families'[l]]
      BY DEF Families
    <3> QED
      BY <3>1, <3>2, FamiliesFacts
  <2> QED
    BY <2>5, <2>15, <2>16, <2>17 DEF Kept, Become
<1> QED
  BY <1>1, <1>2

-----------------------------------------------------------------------------
(* ---- Operations ----                                                    *)

LEMMA InvFacts ==
    ASSUME SetsInv
    PROVE  /\ ContOK(Cont(sets)) /\ Cont(sets)[None] = {} /\ Counts(refs, Cont(sets))
           /\ Settled(<<>>, Cont(sets))
           /\ \A s \in Live : /\ s \in SetId /\ s \in Place /\ sets[s] # None
                              /\ TableOK(sets[s]) /\ LentOK(sets[s])
                              /\ Holding(Cont(sets), s, sets[s])
                              /\ Cont(sets)[s] = Assets(sets[s])
                              /\ Put(Cont(sets), s, Assets(sets[s])) = Cont(sets)
           /\ \A s \in SetId : sets[s] = None => Cont(sets)[s] = {}
<1>1. TablesOK(sets) /\ Counts(refs, Cont(sets))
  BY DEF SetsInv
<1>2. ContOK(Cont(sets)) /\ Cont(sets)[None] = {}
      /\ \A s \in SetId : sets[s] = None => Cont(sets)[s] = {}
  BY <1>1, ContFacts
<1>3. Settled(<<>>, Cont(sets))
  BY <1>1, <1>2, SettledNothing
<1>4. ASSUME NEW s \in Live
      PROVE  /\ s \in SetId /\ s \in Place /\ sets[s] # None
             /\ TableOK(sets[s]) /\ LentOK(sets[s])
             /\ Holding(Cont(sets), s, sets[s])
             /\ Cont(sets)[s] = Assets(sets[s])
             /\ Put(Cont(sets), s, Assets(sets[s])) = Cont(sets)
  <2>1. s \in SetId /\ sets[s] # None /\ s \in Place
    BY PlaceFacts DEF Live
  <2>2. TableOK(sets[s]) /\ LentOK(sets[s])
    BY <1>1, <2>1 DEF TablesOK
  <2>3. Holding(Cont(sets), s, sets[s]) /\ Cont(sets)[s] = Assets(sets[s])
    BY <1>1, <2>1, ContFacts
  <2>4. Put(Cont(sets), s, Cont(sets)[s]) = Cont(sets)
    BY <1>2, <2>1, PutFacts
  <2> QED
    BY <2>1, <2>2, <2>3, <2>4
<1> QED
  BY <1>1, <1>2, <1>3, <1>4

(* What leaves the table alone.                                            *)
LEMMA EffectSame ==
    ASSUME SetsInv, NEW s \in Live, NEW R, NEW run, run = Run(sets[s], <<>>, R)
    PROVE  Effect(run, s, Contents(sets[s]), R)
<1>1. PICK t, calls : t = sets[s] /\ calls = <<>>
  OBVIOUS
<1>2. IsRunOf(run, t, calls, R, FALSE)
  BY <1>1, RunFacts
<1>3. Settled(calls, Put(Cont(sets), s, Assets(t))) /\ TableOK(t) /\ LentOK(t)
  BY <1>1, InvFacts
<1> QED
  BY <1>1, <1>2, <1>3 DEF Effect

LEMMA EffectNew ==
    ASSUME SetsInv, NEW s \in SetId, sets[s] = None,
           NEW size \in Nat, SizeOK(size), NEW initial \in BOOLEAN,
           initial => size \in StaticCapacities,
           NEW calls, calls = IF size = 0 \/ initial THEN <<>> ELSE Alloc,
           NEW run, run = Run(Table(size, initial), calls, None)
    PROVE  Effect(run, s, {}, None)
<1>1. PICK t : t = Table(size, initial)
  OBVIOUS
<1>2. s \in Place /\ Cont(sets)[s] = {} /\ ContOK(Cont(sets)) /\ Counts(refs, Cont(sets))
  BY InvFacts, PlaceFacts
<1>3. /\ TableOK(t) /\ Contents(t) = {} /\ t.size = size /\ t.initial = initial
      /\ Settled(calls, Put(Cont(sets), s, Assets(t)))
  BY <1>1, <1>2, NewFacts
<1>4. IsRunOf(run, t, calls, None, FALSE)
  BY <1>1, RunFacts
<1>5. LentOK(t)
  BY <1>3 DEF LentOK
<1> QED
  BY <1>3, <1>4, <1>5 DEF Effect

LEMMA EffectAllocated ==
    ASSUME SetsInv, NEW s \in SetId, sets[s] = None, NEW capacity \in Nat
    PROVE  /\ Effect(Allocated(SizeForCapacity(capacity)), s, {}, None)
           /\ Effect(PointersetRun(capacity), s, {}, None)
<1>1. PICK size \in Nat : size = SizeForCapacity(capacity) /\ SizeOK(size) /\ size >= 4
  BY CapacityFacts
<1>2. PICK calls, no : calls = Alloc /\ no = FALSE
  OBVIOUS
<1>3. (size = 0 \/ no) = FALSE /\ ~ (size < 2) /\ no \in BOOLEAN
  <2>1. size # 0 /\ ~ (size < 2)
    BY <1>1
  <2> QED
    BY <1>2, <2>1
<1>4. Allocated(size) = Run(Table(size, no), calls, None)
  BY <1>2, <1>3 DEF Allocated
<1>5. Effect(Allocated(size), s, {}, None)
  <2>1. calls = IF size = 0 \/ no THEN <<>> ELSE Alloc
    BY <1>2, <1>3
  <2>2. no => size \in StaticCapacities
    BY <1>2
  <2> QED
    BY <1>1, <1>3, <1>4, <2>1, <2>2, EffectNew
<1>6. ASSUME capacity = 0 PROVE Effect(PointersetRun(capacity), s, {}, None)
  <2>1. PICK zero, nothing : zero = 0 /\ nothing = <<>>
    OBVIOUS
  <2>2. PointersetRun(capacity) = Run(Table(zero, no), nothing, None)
    BY <1>2, <1>6, <2>1 DEF PointersetRun
  <2>3. nothing = IF zero = 0 \/ no THEN <<>> ELSE Alloc
    BY <2>1
  <2>4. zero \in Nat /\ SizeOK(zero) /\ (no => zero \in StaticCapacities)
    BY <1>2, <2>1, SizeFacts
  <2> QED
    BY <1>3, <2>2, <2>3, <2>4, EffectNew
<1> QED
  BY <1>1, <1>5, <1>6 DEF PointersetRun

LEMMA LentSize ==
    ASSUME NEW capacity \in Nat, capacity >= 4, capacity = Pow2Round(capacity)
    PROVE  SizeOK(capacity)
<1>1. \E e \in Nat : capacity = Power[e]
  <2>1. PICK e \in 0 .. capacity : Pow2Round(capacity) = Power[e]
    BY RoundFacts
  <2> QED
    BY <2>1
<1>2. capacity >= 2
  OBVIOUS
<1> QED
  BY <1>1, <1>2, SizeFacts

(* init and its variants                                                   *)
LEMMA CreateSteps ==
    ASSUME SetsInv, NEW s \in SetId, NEW c,
           \/ c \in Capacities /\ (Create(s, c) \/ CreatePointerset(s, c))
           \/ c \in StaticCapacities /\ InitWithStaticPointers(s, c)
    PROVE  sets[s] = None /\ Kept(s, {}, None)
<1>1. c \in Nat /\ None \in Results
  BY PointerSetAssumption DEF Results
<1>2. ASSUME Create(s, c) \/ CreatePointerset(s, c) PROVE sets[s] = None /\ Kept(s, {}, None)
  <2>1. sets[s] = None
    BY <1>2 DEF Create, CreatePointerset
  <2>2. PICK run : Operate(s, run) /\ Effect(run, s, {}, None)
    BY <1>1, <1>2, <2>1, EffectAllocated DEF Create, CreatePointerset
  <2> QED
    BY <1>1, <2>1, <2>2, OperateFacts
<1>3. ASSUME c \in StaticCapacities, InitWithStaticPointers(s, c)
      PROVE  sets[s] = None /\ Kept(s, {}, None)
  <2>1. PICK run : /\ Operate(s, run)
                   /\ run = IF c >= MinSize /\ c = Pow2Round(c) THEN Run(Table(c, TRUE), <<>>, None)
                            ELSE Stopped(Aborted)
    BY <1>3 DEF InitWithStaticPointers
  <2>2. sets[s] = None
    BY <1>3 DEF InitWithStaticPointers
  <2>3. CASE c >= MinSize /\ c = Pow2Round(c)
    <3>1. PICK yes, calls : yes = TRUE /\ calls = <<>>
      OBVIOUS
    <3>2. run = Run(Table(c, yes), calls, None)
      BY <2>1, <2>3, <3>1
    <3>3. SizeOK(c)
      BY <1>1, <2>3, LentSize DEF MinSize
    <3>4. /\ yes \in BOOLEAN /\ (yes => c \in StaticCapacities)
          /\ calls = IF c = 0 \/ yes THEN <<>> ELSE Alloc
      BY <1>3, <3>1
    <3>5. Effect(run, s, {}, None)
      BY <1>1, <2>2, <3>2, <3>3, <3>4, EffectNew
    <3> QED
      BY <1>1, <2>1, <2>2, <3>5, OperateFacts
  <2>4. CASE ~ (c >= MinSize /\ c = Pow2Round(c))
    <3>1. Blocked(run)
      BY <2>1, <2>4, StopStatus DEF Blocked
    <3> QED
      BY <1>1, <2>1, <2>2, <3>1, OperateFacts
  <2> QED
    BY <2>3, <2>4
<1> QED
  BY <1>2, <1>3

LEMMA Returning ==
    ASSUME NEW w, NEW R, NEW run, run = [w EXCEPT !.ret = R]
    PROVE  /\ \A how : w = Stopped(how) => run.status = how
           /\ \A t, calls, result, mutated :
                  IsRunOf(w, t, calls, result, mutated) => IsRunOf(run, t, calls, R, mutated)
BY StoppedFacts DEF IsRunOf

LEMMA WroteEnlarged ==
    ASSUME NEW t, NEW k, NEW mode, NEW r, NEW written, NEW result, NEW w,
           Wrote(t, k, mode, r, written, result, w)
    PROVE  Enlarged(t, r) /\ w \in BOOLEAN /\ (w \/ r = t)
<1>1. CASE WroteNew(t, k, r, written, result, w)
  <2>1. PICK room : Grew(t, r, room)
    BY <1>1 DEF WroteNew
  <2>2. Enlarged(t, r)
    BY <2>1 DEF Grew, Enlarged
  <2> QED
    BY <1>1, <2>2 DEF WroteNew
<1>2. CASE WroteNothing(t, k, mode, r, written, result, w)
  BY <1>2 DEF WroteNothing, Enlarged
<1>3. CASE WroteOver(t, k, mode, r, written, result, w)
  BY <1>3 DEF WroteOver, Enlarged
<1> QED
  BY <1>1, <1>2, <1>3 DEF Wrote

(* The keys after a key was set.                                           *)
LEMMA WroteSet ==
    ASSUME NEW t, TableOK(t), NEW k \in Key, NEW r, TableOK(r), NEW written, NEW result, NEW w,
           Wrote(t, k, "overwrite", r, written, result, w)
    PROVE  Contents(r) = Merged({k}, Contents(t))
<1>1. PICK C, D : C = Contents(t) /\ D = Merged({k}, C)
  OBVIOUS
<1>2. D = {k} \cup {p \in C : ~ IsEqual(k, p)}
  BY <1>1 DEF Merged
<1>3. \A p : IsEqual(p, k) <=> IsEqual(k, p)
  BY DEF IsEqual
<1>4. \A p, q \in C : IsEqual(p, k) /\ IsEqual(q, k) => p = q
  <2>1. \A p, q \in C : IsEqual(p, q) => p = q
    BY <1>1, ContentsFacts
  <2> QED
    BY <2>1 DEF IsEqual
<1>5. \/ (\A p \in C : ~ IsEqual(p, k)) /\ Contents(r) = C \cup {k}
      \/ \E old \in C : IsEqual(old, k) /\ Contents(r) = (C \ {old}) \cup {k}
  BY <1>1, WroteFacts
<1> QED
  BY <1>1, <1>2, <1>3, <1>4, <1>5

(* The keys after a key was inserted, and what was there already.          *)
LEMMA WroteInsert ==
    ASSUME NEW t, TableOK(t), NEW k \in Key, NEW r, NEW written, NEW result, NEW w,
           Wrote(t, k, "insert", r, written, result, w)
    PROVE  /\ Contents(r) = Merged(Contents(t), {k})
           /\ result = Hole => \A p \in Contents(t) : ~ IsEqual(p, k)
           /\ result # Hole => result \in Contents(t) /\ IsEqual(result, k)
<1>1. PICK C : C = Contents(t)
  OBVIOUS
<1>2. Merged(C, {k}) = C \cup {p \in {k} : \A l \in C : ~ IsEqual(l, p)}
  BY DEF Merged
<1>3. C \subseteq Key /\ Hole \notin Key
  BY <1>1, ContentsFacts, PointerFacts
<1>4. CASE WroteNew(t, k, r, written, result, w)
  <2>1. (\A p \in C : ~ IsEqual(p, k)) /\ result = Hole /\ Contents(r) = C \cup {k}
    BY <1>1, <1>4 DEF WroteNew
  <2> QED
    BY <1>1, <1>2, <2>1
<1>5. CASE WroteNothing(t, k, "insert", r, written, result, w)
  <2>1. PICK old \in C : IsEqual(old, k) /\ r = t /\ result = old
    BY <1>1, <1>5 DEF WroteNothing
  <2>2. result # Hole
    BY <1>3, <2>1
  <2>3. Merged(C, {k}) = C
    BY <1>2, <2>1
  <2> QED
    BY <1>1, <2>1, <2>2, <2>3
<1>6. ~ WroteOver(t, k, "insert", r, written, result, w)
  BY DEF WroteOver
<1> QED
  BY <1>4, <1>5, <1>6 DEF Wrote

LEMMA WriteEffect ==
    ASSUME SetsInv, NEW s \in Live, NEW k \in Key, NEW mode \in {"insert", "overwrite"},
           NEW w, w = WriteKey(sets[s], k, mode), NEW R, NEW run, run = [w EXCEPT !.ret = R]
    PROVE  \/ Blocked(run)
           \/ \E r, written, mutated : /\ TableOK(r)
                                       /\ Wrote(sets[s], k, mode, r, written, w.ret, mutated)
                                       /\ Effect(run, s, Contents(r), R)
<1>1. PICK t, cont : t = sets[s] /\ cont = Cont(sets)
  OBVIOUS
<1>2. /\ s \in SetId /\ t # None /\ TableOK(t) /\ LentOK(t) /\ Holding(cont, s, t)
      /\ Settled(<<>>, cont)
  BY <1>1, InvFacts
<1>3. CASE ~ ProbeEnds(t, k)
  <2>1. w = Stopped(Hung)
    BY <1>1, <1>2, <1>3, WriteFacts
  <2>2. run.status = Hung
    BY <2>1, Returning
  <2>3. Trap
    BY <1>1, <1>2, <1>3, HangsTiny DEF Trap
  <2> QED
    BY <2>2, <2>3 DEF Blocked
<1>4. CASE ProbeEnds(t, k)
  <2>1. PICK r, written, result, mutated :
            /\ IsRunOf(w, r, written, result, mutated)
            /\ TableOK(r) /\ Wrote(t, k, mode, r, written, result, mutated)
    BY <1>1, <1>2, <1>4, WriteFacts
  <2>2. w.ret = result
    BY <2>1 DEF IsRunOf
  <2>3. IsRunOf(run, r, written, R, mutated)
    BY <2>1, Returning
  <2>4. Enlarged(t, r) /\ mutated \in BOOLEAN /\ (mutated \/ r = t)
    BY <2>1, WroteEnlarged
  <2>5. LentOK(r)
    BY <1>2, <2>4 DEF LentOK, Enlarged
  <2>6. Available(<<>>, cont, k)
    BY KeepingFacts DEF Available
  <2>7. PICK none : none = <<>>
    OBVIOUS
  <2>8. /\ Settled(none \o written, Put(cont, s, Assets(r))) /\ written \in Calls
    BY <1>2, <2>1, <2>6, <2>7, SettledWrite
  <2>9. none \o written = written
    BY <2>7, <2>8, ConcatFacts
  <2>10. Effect(run, s, Contents(r), R)
    BY <1>1, <2>1, <2>3, <2>4, <2>5, <2>8, <2>9 DEF Effect
  <2> QED
    BY <1>1, <2>1, <2>2, <2>10
<1> QED
  BY <1>3, <1>4

SetStepped(s, k) == s \in Live /\ Kept(s, Merged({k}, Contents(sets[s])), None)

HasEqual(S, k) == \E l \in S : IsEqual(l, k)

LEMMA SetSteps ==
    ASSUME SetsInv, NEW s \in SetId, NEW k \in Key, Set(s, k)
    PROVE  SetStepped(s, k)
<1>1. s \in Live /\ None \in Results
  BY DEF Set, Results
<1>2. PICK w, run, R, mode : /\ w = WriteKey(sets[s], k, mode) /\ run = [w EXCEPT !.ret = R]
                             /\ Operate(s, run) /\ R = None /\ mode = "overwrite"
  BY DEF Set
<1>3. mode \in {"insert", "overwrite"} /\ TableOK(sets[s])
  BY <1>1, <1>2, InvFacts
<1>4. PICK C : C = Merged({k}, Contents(sets[s]))
  OBVIOUS
<1>5. Blocked(run) \/ Effect(run, s, C, R)
  <2>1. CASE Blocked(run)
    BY <2>1
  <2>2. ASSUME NEW r, NEW written, NEW mutated, TableOK(r),
               Wrote(sets[s], k, mode, r, written, w.ret, mutated),
               Effect(run, s, Contents(r), R)
        PROVE  Effect(run, s, C, R)
    <3>1. Wrote(sets[s], k, "overwrite", r, written, w.ret, mutated)
      BY <1>2, <2>2
    <3>2. Contents(r) = C
      BY <1>3, <1>4, <2>2, <3>1, WroteSet
    <3> QED
      BY <2>2, <3>2
  <2> QED
    BY <1>1, <1>2, <1>3, <2>1, <2>2, WriteEffect
<1>6. Kept(s, C, None)
  BY <1>1, <1>2, <1>5, OperateFacts
<1> QED
  BY <1>1, <1>4, <1>6 DEF SetStepped

(* l is the key equal to k that is in S after k was inserted               *)
Registers(S, k, l) == IF HasEqual(S, k) THEN l \in S /\ IsEqual(l, k) ELSE l = k

(* insert tells whether it inserted, register returns the key that is in   *)
(* the set in the end                                                      *)
LEMMA InsertSteps ==
    ASSUME SetsInv, NEW s \in SetId, NEW k \in Key, NEW S, S = Contents(sets[s])
    PROVE  /\ Insert(s, k) =>
                  s \in Live /\ Kept(s, Merged(S, {k}), IF HasEqual(S, k) THEN 0 ELSE 1)
           /\ Register(s, k) =>
                  /\ s \in Live
                  /\ \E l : Registers(S, k, l) /\ Kept(s, Merged(S, {k}), l)
<1>1. PICK mode, w : mode = "insert" /\ w = WriteKey(sets[s], k, mode)
  OBVIOUS
<1>2. mode \in {"insert", "overwrite"}
  BY <1>1
<1>3. ASSUME s \in Live, NEW R, NEW run, run = [w EXCEPT !.ret = R]
      PROVE  \/ Blocked(run)
             \/ /\ Effect(run, s, Merged(S, {k}), R)
                /\ w.ret = Hole => ~ HasEqual(S, k)
                /\ w.ret # Hole => w.ret \in S /\ IsEqual(w.ret, k)
  <2>0. TableOK(sets[s])
    BY <1>3, InvFacts
  <2>1. ASSUME NEW r, NEW written, NEW mutated, TableOK(r),
               Wrote(sets[s], k, mode, r, written, w.ret, mutated),
               Effect(run, s, Contents(r), R)
        PROVE  /\ Effect(run, s, Merged(S, {k}), R)
               /\ w.ret = Hole => ~ HasEqual(S, k)
               /\ w.ret # Hole => w.ret \in S /\ IsEqual(w.ret, k)
    <3>1. Wrote(sets[s], k, "insert", r, written, w.ret, mutated)
      BY <1>1, <2>1
    <3>2. /\ Contents(r) = Merged(S, {k})
          /\ w.ret = Hole => \A p \in S : ~ IsEqual(p, k)
          /\ w.ret # Hole => w.ret \in S /\ IsEqual(w.ret, k)
      BY <2>0, <3>1, WroteInsert
    <3> QED
      BY <2>1, <3>2 DEF HasEqual
  <2> QED
    BY <1>1, <1>2, <1>3, <2>1, WriteEffect
<1>4. ASSUME NEW run, Operate(s, run), NEW C, NEW l \in Results,
             Blocked(run) \/ Effect(run, s, C, l)
      PROVE  Kept(s, C, l)
  BY <1>4, OperateFacts
<1>5. ASSUME Insert(s, k)
      PROVE  s \in Live /\ Kept(s, Merged(S, {k}), IF HasEqual(S, k) THEN 0 ELSE 1)
  <2>1. s \in Live
    BY <1>5 DEF Insert
  <2>2. PICK R, run : /\ R = IF w.ret = Hole THEN 1 ELSE 0
                      /\ run = [w EXCEPT !.ret = R] /\ Operate(s, run)
    BY <1>1, <1>5 DEF Insert
  <2>3. PICK l, C : l = (IF HasEqual(S, k) THEN 0 ELSE 1) /\ C = Merged(S, {k})
    OBVIOUS
  <2>4. l \in Results
    BY <2>3 DEF Results
  <2>5. Blocked(run) \/ Effect(run, s, C, l)
    <3>1. \/ Blocked(run)
          \/ /\ Effect(run, s, C, R)
             /\ w.ret = Hole => ~ HasEqual(S, k)
             /\ w.ret # Hole => w.ret \in S /\ IsEqual(w.ret, k)
      BY <1>3, <2>1, <2>2, <2>3
    <3> QED
      BY <2>2, <2>3, <3>1 DEF HasEqual
  <2> QED
    BY <1>4, <2>1, <2>2, <2>3, <2>4, <2>5
<1>6. ASSUME Register(s, k)
      PROVE  /\ s \in Live
             /\ \E l : Registers(S, k, l) /\ Kept(s, Merged(S, {k}), l)
  <2>1. s \in Live /\ S \subseteq Key
    BY <1>6, InvFacts, ContentsFacts DEF Register
  <2>2. PICK R, run : /\ R = IF w.ret = Hole THEN k ELSE w.ret
                      /\ run = [w EXCEPT !.ret = R] /\ Operate(s, run)
    BY <1>1, <1>6 DEF Register
  <2>3. PICK C : C = Merged(S, {k})
    OBVIOUS
  <2>4. CASE Blocked(run)
    <3>1. PICK l \in Results : Registers(S, k, l)
      BY <2>1 DEF HasEqual, Results, Registers
    <3> QED
      BY <1>4, <2>1, <2>2, <2>4, <3>1
  <2>5. CASE ~ Blocked(run)
    <3>1. /\ Effect(run, s, C, R)
          /\ w.ret = Hole => ~ HasEqual(S, k)
          /\ w.ret # Hole => w.ret \in S /\ IsEqual(w.ret, k)
      BY <1>3, <2>1, <2>2, <2>3, <2>5
    <3>2. Registers(S, k, R) /\ R \in Results
      BY <2>1, <2>2, <3>1 DEF HasEqual, Results, Registers
    <3>3. Kept(s, C, R)
      BY <1>4, <2>2, <3>1, <3>2
    <3> QED
      BY <2>1, <2>3, <3>2, <3>3
  <2> QED
    BY <2>4, <2>5
<1> QED
  BY <1>5, <1>6

(* get finds the very pointer, or else one that is equal                   *)
LEMMA GetFacts ==
    ASSUME NEW t, TableOK(t), NEW k \in Key, ProbeEnds(t, k)
    PROVE  IF HasEqual(Contents(t), k)
           THEN Get(t, k) \in Contents(t) /\ IsEqual(Get(t, k), k)
           ELSE Get(t, k) = Hole
<1>1. Get(t, k) = IF t.count = 0 THEN Hole
                  ELSE IF t.size <= 32 /\ \E i \in Occupied(t) : t.slots[i] = k THEN k
                  ELSE Found(t, k)
  BY DEF Get, Found
<1>2. HasEqual(Contents(t), k) <=> Has(t, k)
  BY ContentsFacts DEF HasEqual
<1>3. (\E i \in Occupied(t) : t.slots[i] = k) => k \in Contents(t)
  BY DEF Contents, Stored, Used, Occupied
<1>4. IsEqual(k, k)
  BY DEF IsEqual
<1>5. Has(t, k) <=> t.count # 0 /\ Found(t, k) # Hole
  BY DEF Has, Found
<1>6. Has(t, k) => Found(t, k) \in Contents(t) /\ IsEqual(Found(t, k), k)
  BY ContentsFacts
<1>7. k \in Contents(t) => HasEqual(Contents(t), k)
  BY <1>4 DEF HasEqual
<1>8. CASE t.count = 0
  BY <1>1, <1>2, <1>5, <1>8
<1>9. CASE t.count # 0 /\ t.size <= 32 /\ \E i \in Occupied(t) : t.slots[i] = k
  <2>1. Get(t, k) = k
    BY <1>1, <1>9
  <2> QED
    BY <1>3, <1>4, <1>7, <1>9, <2>1
<1>10. CASE t.count # 0 /\ ~ (t.size <= 32 /\ \E i \in Occupied(t) : t.slots[i] = k)
  <2>1. Get(t, k) = Found(t, k)
    BY <1>1, <1>10
  <2> QED
    BY <1>2, <1>5, <1>6, <1>10, <2>1
<1> QED
  BY <1>8, <1>9, <1>10

Looked(S, k, l) == IF HasEqual(S, k) THEN l \in S /\ IsEqual(l, k) ELSE l = Hole

LEMMA LookupSteps ==
    ASSUME SetsInv, NEW s \in SetId, NEW k \in Key, Lookup(s, k), NEW S, S = Contents(sets[s])
    PROVE  s \in Live /\ \E l : Looked(S, k, l) /\ Kept(s, S, l)
<1>1. PICK run : /\ s \in Live /\ Operate(s, run)
                 /\ run = IF ProbeEnds(sets[s], k) THEN Run(sets[s], <<>>, Get(sets[s], k))
                          ELSE Stopped(Hung)
  BY DEF Lookup
<1>2. TableOK(sets[s]) /\ s \in SetId /\ sets[s] # None /\ S \subseteq Key
  BY <1>1, InvFacts, ContentsFacts
<1>3. CASE ProbeEnds(sets[s], k)
  <2>1. PICK l : l = Get(sets[s], k)
    OBVIOUS
  <2>2. Looked(S, k, l)
    BY <1>2, <1>3, <2>1, GetFacts DEF Looked
  <2>3. l \in Results
    BY <1>2, <2>2 DEF Looked, Results
  <2>4. Effect(run, s, S, l)
    BY <1>1, <1>3, <2>1, EffectSame
  <2>5. Kept(s, S, l)
    BY <1>1, <2>3, <2>4, OperateFacts
  <2> QED
    BY <1>1, <2>2, <2>5
<1>4. CASE ~ ProbeEnds(sets[s], k)
  <2>1. Blocked(run)
    BY <1>1, <1>2, <1>4, HangsTiny, StopStatus DEF Blocked, Trap
  <2>2. PICK l \in Results : Looked(S, k, l)
    BY <1>2 DEF HasEqual, Results, Looked
  <2>3. Kept(s, S, l)
    BY <1>1, <2>1, <2>2, OperateFacts
  <2> QED
    BY <1>1, <2>2, <2>3
<1> QED
  BY <1>3, <1>4

Unequal(S, k) == {l \in S : ~ IsEqual(l, k)}

LEMMA EffectRemoved ==
    ASSUME SetsInv, NEW s \in Live, NEW k \in Key, NEW old \in Contents(sets[s]), IsEqual(old, k),
           NEW run, run = Removed(sets[s], k)
    PROVE  Blocked(run) \/ Effect(run, s, Unequal(Contents(sets[s]), k), 1)
<1>1. PICK t, cont : t = sets[s] /\ cont = Cont(sets)
  OBVIOUS
<1>2. /\ s \in SetId /\ s \in Place /\ t # None /\ TableOK(t) /\ LentOK(t)
      /\ cont[s] = Assets(t) /\ ContOK(cont) /\ Settled(<<>>, cont)
  BY <1>1, InvFacts
<1>3. /\ ~ (t.count < t.size) => run = Stopped(Hung)
      /\ t.count < t.size =>
             \E r : /\ IsRunOf(run, r, <<Release(old)>>, 1, TRUE)
                    /\ TableOK(r) /\ r.size = t.size /\ r.initial = t.initial
                    /\ Contents(r) = Contents(t) \ {old}
  <2>1. old \in Contents(t) /\ run = Removed(t, k)
    BY <1>1
  <2>2. /\ ~ (t.count < t.size) => Removed(t, k) = Stopped(Hung)
        /\ t.count < t.size =>
               \E r : /\ IsRunOf(Removed(t, k), r, <<Release(old)>>, 1, TRUE)
                      /\ TableOK(r) /\ r.size = t.size /\ r.initial = t.initial
                      /\ Contents(r) = Contents(t) \ {old}
    BY <1>2, <2>1, RemovedFacts
  <2> QED
    BY <2>1, <2>2
<1>4. CASE ~ (t.count < t.size)
  <2>1. Has(t, k)
    BY <1>1, <1>2, ContentsFacts
  <2>2. /\ t.size \in Nat /\ t.count \in Nat
        /\ (t.size # 0 => t.size = 2 \/ t.size >= 4)
        /\ (t.size = 0 => t.count = 0) /\ (t.size >= 4 => t.count < t.size)
    BY <1>2, TableFacts
  <2>3. t.size = 2
    BY <1>4, <2>1, <2>2 DEF Has
  <2> QED
    BY <1>1, <1>2, <1>3, <1>4, <2>3, StopStatus DEF Blocked, Trap
<1>5. CASE t.count < t.size
  <2>1. PICK r : /\ IsRunOf(run, r, <<Release(old)>>, 1, TRUE)
                 /\ TableOK(r) /\ r.size = t.size /\ r.initial = t.initial
                 /\ Contents(r) = Contents(t) \ {old}
    BY <1>3, <1>5
  <2>2. PICK calls, nothing, R, yes : /\ calls = <<Release(old)>> /\ nothing = <<>>
                                      /\ R = 1 /\ yes = TRUE
    OBVIOUS
  <2>3. old \in Key /\ old \in cont[s] /\ old # Storage
    BY <1>1, <1>2, ContentsFacts, PointerFacts DEF Assets
  <2>4. Settled(nothing \o <<Release(old)>>, Without(cont, s, old))
    BY <1>2, <2>2, <2>3, SettledRelease
  <2>5. calls \in Calls
    BY <2>2, <2>3, ConcatFacts DEF Pointer
  <2>6. nothing \o calls = calls
    BY <2>2, <2>5, ConcatFacts
  <2>7. Assets(r) = Assets(t) \ {old}
    BY <1>2, <2>1, <2>3 DEF Assets
  <2>8. Without(cont, s, old) = Put(cont, s, Assets(r))
    <3>1. Without(cont, s, old) = Put(cont, s, cont[s] \ {old})
      BY <1>2, PutFacts
    <3> QED
      BY <1>2, <2>7, <3>1
  <2>9. Settled(calls, Put(cont, s, Assets(r)))
    BY <2>2, <2>4, <2>6, <2>8
  <2>10. Contents(r) = Unequal(Contents(t), k)
    <3>1. \A p, q \in Contents(t) : IsEqual(p, q) => p = q
      BY <1>2, ContentsFacts
    <3>2. \A p \in Contents(t) : IsEqual(p, k) <=> p = old
      BY <1>1, <3>1 DEF IsEqual
    <3> QED
      BY <2>1, <3>2 DEF Unequal
  <2>11. LentOK(r)
    BY <1>2, <2>1 DEF LentOK
  <2>12. IsRunOf(run, r, calls, R, yes) /\ yes \in BOOLEAN /\ yes
    BY <2>1, <2>2
  <2> QED
    BY <1>1, <2>1, <2>2, <2>9, <2>10, <2>11, <2>12 DEF Effect
<1> QED
  BY <1>4, <1>5

LEMMA RemoveSteps ==
    ASSUME SetsInv, NEW s \in SetId, NEW k \in Key, Remove(s, k), NEW S, S = Contents(sets[s])
    PROVE  s \in Live /\ Kept(s, Unequal(S, k), IF HasEqual(S, k) THEN 1 ELSE 0)
<1>1. PICK run : /\ s \in Live /\ Operate(s, run)
                 /\ run = IF ~ ProbeEnds(sets[s], k) THEN Stopped(Hung)
                          ELSE IF Has(sets[s], k) THEN Removed(sets[s], k)
                          ELSE Run(sets[s], <<>>, 0)
  BY DEF Remove
<1>2. TableOK(sets[s]) /\ s \in SetId /\ sets[s] # None
  BY <1>1, InvFacts
<1>3. PICK R, C : R = (IF HasEqual(S, k) THEN 1 ELSE 0) /\ C = Unequal(S, k)
  OBVIOUS
<1>4. R \in Results
  BY <1>3 DEF Results
<1>5. Blocked(run) \/ Effect(run, s, C, R)
  <2>1. CASE ~ ProbeEnds(sets[s], k)
    BY <1>1, <1>2, <2>1, HangsTiny, StopStatus DEF Blocked, Trap
  <2>2. CASE ProbeEnds(sets[s], k) /\ Has(sets[s], k)
    <3>1. PICK old \in S : IsEqual(old, k)
      BY <1>2, <2>2, ContentsFacts
    <3>2. R = 1
      BY <1>3, <3>1 DEF HasEqual
    <3>3. run = Removed(sets[s], k)
      BY <1>1, <2>2
    <3> QED
      BY <1>1, <1>3, <3>1, <3>2, <3>3, EffectRemoved
  <2>3. CASE ProbeEnds(sets[s], k) /\ ~ Has(sets[s], k)
    <3>1. \A p \in S : ~ IsEqual(p, k)
      BY <1>2, <2>3, ContentsFacts
    <3>2. R = 0 /\ C = S
      BY <1>3, <3>1 DEF HasEqual, Unequal
    <3>3. run = Run(sets[s], <<>>, R)
      BY <1>1, <2>3, <3>2
    <3> QED
      BY <1>1, <3>2, <3>3, EffectSame
  <2> QED
    BY <2>1, <2>2, <2>3
<1>6. Kept(s, C, R)
  BY <1>1, <1>4, <1>5, OperateFacts
<1> QED
  BY <1>1, <1>3, <1>6

(* reset drops the keys and keeps the storage                              *)
LEMMA ResetSteps ==
    ASSUME SetsInv, NEW s \in SetId, Reset(s)
    PROVE  s \in Live /\ Kept(s, {}, None)
<1>1. PICK r, calls, run, R, yes :
          /\ s \in Live /\ Operate(s, run) /\ run = Mutated(Run(r, calls, R))
          /\ r = [sets[s] EXCEPT !.count = 0, !.slots = Blank(sets[s].size)]
          /\ calls = ReleaseAll(sets[s]) /\ R = None /\ yes = TRUE
  BY DEF Reset
<1>2. PICK t, cont : t = sets[s] /\ cont = Cont(sets)
  OBVIOUS
<1>3. /\ TableOK(t) /\ LentOK(t) /\ Holding(cont, s, t) /\ Settled(<<>>, cont)
  BY <1>1, <1>2, InvFacts
<1>4. TableOK(r) /\ r.size = t.size /\ r.initial = t.initial /\ Contents(r) = {}
  BY <1>1, <1>2, <1>3, ClearedFacts
<1>5. PICK nothing : nothing = <<>>
  OBVIOUS
<1>6. /\ calls \in Calls
      /\ Settled(nothing \o calls, Put(cont, s, Assets(t) \ Contents(t)))
  BY <1>1, <1>2, <1>3, <1>5, SettledClear
<1>7. nothing \o calls = calls
  BY <1>5, <1>6, ConcatFacts
<1>8. Assets(r) = Assets(t) \ Contents(t)
  BY <1>3, <1>4, AssetsFacts, PointerFacts DEF Assets
<1>9. Settled(calls, Put(cont, s, Assets(r)))
  BY <1>6, <1>7, <1>8
<1>10. IsRunOf(run, r, calls, R, yes) /\ yes \in BOOLEAN /\ yes
  BY <1>1, RunFacts
<1>11. LentOK(r)
  BY <1>3, <1>4 DEF LentOK
<1>12. Effect(run, s, {}, R)
  BY <1>2, <1>4, <1>9, <1>10, <1>11 DEF Effect
<1>13. R \in Results
  BY <1>1 DEF Results
<1>14. Kept(s, {}, R)
  BY <1>1, <1>12, <1>13, OperateFacts
<1> QED
  BY <1>1, <1>14

LEMMA ShrinkSteps ==
    ASSUME SetsInv, NEW s \in SetId, ShrinkIfNeeded(s)
    PROVE  s \in Live /\ Kept(s, Contents(sets[s]), None)
<1>1. PICK run, t, R, size :
          /\ s \in Live /\ Operate(s, run) /\ t = sets[s] /\ R = None /\ size = ShrunkSize(t)
          /\ run = IF IsSparseSize(t, t.size) /\ size < t.size
                   THEN Resized(t, size) ELSE Run(t, <<>>, R)
  BY DEF ShrinkIfNeeded
<1>2. PICK cont : cont = Cont(sets)
  OBVIOUS
<1>3. /\ TableOK(t) /\ LentOK(t) /\ Holding(cont, s, t) /\ Settled(<<>>, cont)
  BY <1>1, <1>2, InvFacts
<1>4. CASE IsSparseSize(t, t.size) /\ size < t.size
  <2>1. PICK r : /\ IsRunOf(Resized(t, ShrunkSize(t)), r, Alloc \o Free(t), None, TRUE)
                 /\ TableOK(r) /\ Contents(r) = Contents(t)
                 /\ r.size >= 4 /\ r.initial = FALSE
    BY <1>3, <1>4, ShrunkRun
  <2>2. PICK calls, nothing, yes : calls = Alloc \o Free(t) /\ nothing = <<>> /\ yes = TRUE
    OBVIOUS
  <2>3. IsRunOf(run, r, calls, R, yes) /\ yes \in BOOLEAN /\ yes
    BY <1>1, <1>4, <2>1, <2>2
  <2>4. PICK more : more = Put(cont, s, Contents(t) \cup {Storage})
    OBVIOUS
  <2>5. Settled(nothing \o (Alloc \o Free(t)), more)
    BY <1>3, <2>2, <2>4, SettledGrow
  <2>6. calls \in Calls
    BY <1>3, <2>2, AssetsFacts
  <2>7. nothing \o calls = calls
    BY <2>2, <2>6, ConcatFacts
  <2>8. Assets(r) = Contents(t) \cup {Storage}
    BY <2>1, TableFacts DEF Assets
  <2>9. Settled(calls, Put(cont, s, Assets(r)))
    BY <2>2, <2>4, <2>5, <2>7, <2>8
  <2>10. LentOK(r)
    BY <2>1 DEF LentOK
  <2>11. Effect(run, s, Contents(t), R)
    BY <1>2, <2>1, <2>3, <2>9, <2>10 DEF Effect
  <2>12. R \in Results
    BY <1>1 DEF Results
  <2>13. Kept(s, Contents(t), R)
    BY <1>1, <2>11, <2>12, OperateFacts
  <2> QED
    BY <1>1, <2>13
<1>5. CASE ~ (IsSparseSize(t, t.size) /\ size < t.size)
  <2>1. run = Run(sets[s], <<>>, R)
    BY <1>1, <1>5
  <2>2. Effect(run, s, Contents(sets[s]), R) /\ R \in Results
    BY <1>1, <2>1, EffectSame DEF Results
  <2>3. Kept(s, Contents(sets[s]), R)
    BY <1>1, <2>2, OperateFacts
  <2> QED
    BY <1>1, <2>3
<1> QED
  BY <1>4, <1>5

(* done releases each key and frees the storage, unless it is the caller's *)
LEMMA DoneSteps ==
    ASSUME SetsInv, NEW s \in SetId, Done(s)
    PROVE  s \in Live /\ Kept(s, None, None)
<1>1. PICK new, calls, u :
          /\ s \in Live /\ status = Running /\ u = None
          /\ new = [sets EXCEPT ![s] = u] /\ calls = ReleaseAll(sets[s]) \o Free(sets[s])
          /\ sets' = new /\ MakeCalls(calls, sets')
          /\ ret' = None /\ moved' = None /\ status' = status
  BY DEF Done
<1>2. PICK t, cont : t = sets[s] /\ cont = Cont(sets)
  OBVIOUS
<1>3. TableOK(t) /\ Holding(cont, s, t) /\ Settled(<<>>, cont)
  BY <1>1, <1>2, InvFacts
<1>4. Replaceable(u) /\ TablesOK(sets)
  BY <1>1 DEF Replaceable, SetsInv
<1>5. Changed(sets, s, u, new)
  BY <1>1, <1>4, TablesChange
<1>6. /\ TablesOK(new) /\ new[s] = None /\ (\A l \in SetId : l # s => new[l] = sets[l])
      /\ Cont(new) = Put(cont, s, {})
  BY <1>1, <1>2, <1>5 DEF Changed
<1>7. PICK nothing, all : nothing = <<>> /\ all = ReleaseAll(t)
  OBVIOUS
<1>8. all \in Calls /\ Settled((nothing \o all) \o Free(t), Put(cont, s, {}))
  BY <1>3, <1>7, SettledClear
<1>9. nothing \o all = all
  BY <1>7, <1>8, ConcatFacts
<1>10. Settled(calls, Cont(new))
  BY <1>1, <1>2, <1>6, <1>7, <1>8, <1>9
<1>11. MakeCalls(calls, new)
  BY <1>1
<1>12. Counts(refs, Cont(sets))' /\ dangling' = {}
  BY <1>1, <1>6, <1>10, <1>11, CallsFit
<1>13. (TablesOK(sets) /\ ret \in Results /\ moved \in Live \cup {None})'
  BY <1>1, <1>6 DEF TablesOK, Results
<1>14. SetsInv'
  BY <1>1, <1>12, <1>13 DEF SetsInv
<1>15. Visible
  BY <1>1, <1>6 DEF Visible, Live
<1>16. Families' = [Families EXCEPT ![s] = None]
  <2>1. \A l \in SetId : Families'[l] = IF l = s THEN None ELSE Families[l]
    BY <1>1, <1>6 DEF Families
  <2>2. Families' = [l \in SetId |-> Families'[l]]
    BY DEF Families
  <2> QED
    BY <2>1, <2>2, FamiliesFacts
<1> QED
  BY <1>1, <1>14, <1>15, <1>16 DEF Kept, Become

(* Keys set one by one in a new set, or in one there is.                   *)
LEMMA EffectFilled ==
    ASSUME SetsInv, NEW s \in SetId, NEW run, NEW t, NEW S, NEW n,
           Filled(run, t, Cont(sets), s, S, n), LentOK(t),
           \/ sets[s] = None /\ t.size # 2
           \/ s \in Live /\ t = sets[s]
    PROVE  Blocked(run) \/ Effect(run, s, Merged(S, Contents(t)), None)
<1>1. CASE run.status = Hung /\ t.size = 2 /\ t.count + n > 2
  BY <1>1 DEF Blocked, Trap, Live
<1>2. ASSUME NEW r, NEW calls, NEW mutated,
             /\ IsRunOf(run, r, calls, None, mutated) /\ mutated \in BOOLEAN
             /\ TableOK(r) /\ Contents(r) = Merged(S, Contents(t))
             /\ Settled(calls, Put(Cont(sets), s, Assets(r)))
             /\ Enlarged(t, r)
             /\ mutated \/ r = t
      PROVE  Effect(run, s, Merged(S, Contents(t)), None)
  <2>1. LentOK(r)
    BY <1>2 DEF LentOK, Enlarged
  <2>2. mutated \/ sets[s] = None \/ r.slots = sets[s].slots
    BY <1>2
  <2> QED
    BY <1>2, <2>1, <2>2 DEF Effect
<1> QED
  BY <1>1, <1>2 DEF Filled

LEMMA SecuredByLive ==
    ASSUME SetsInv, NEW dst \in SetId, NEW src \in Live, NEW t,
           dst = src => t = sets[src]
    PROVE  /\ Operand(sets[src]) /\ KeysIn(sets[src]) = Contents(sets[src])
           /\ CountOf(sets[src]) = sets[src].count
           /\ Secured(Contents(sets[src]), t, Cont(sets), dst)
<1>1. /\ TableOK(sets[src]) /\ sets[src] # None /\ src \in Place
      /\ Cont(sets)[src] = Assets(sets[src])
  BY InvFacts
<1>2. \A k \in Contents(sets[src]) : k \in Cont(sets)[src]
  BY <1>1 DEF Assets
<1> QED
  BY <1>1, <1>2 DEF Operand, KeysIn, CountOf, Secured

LEMMA CopyItemsSteps ==
    ASSUME SetsInv, NEW dst \in SetId, NEW src \in SetId, CopyItems(dst, src)
    PROVE  /\ dst \in Live /\ src \in Live
           /\ Kept(dst, Merged(Contents(sets[src]), Contents(sets[dst])), None)
<1>1. PICK run, t, base, nothing, no :
          /\ dst \in Live /\ src \in Live /\ Operate(dst, run) /\ run = SetAll(base, sets[src])
          /\ base = Run(t, nothing, None) /\ t = sets[dst] /\ nothing = <<>> /\ no = FALSE
  BY DEF CopyItems
<1>2. PICK cont : cont = Cont(sets)
  OBVIOUS
<1>3. /\ TableOK(t) /\ LentOK(t) /\ ContOK(cont) /\ dst \in Place
      /\ Settled(nothing, Put(cont, dst, Assets(t)))
  BY <1>1, <1>2, InvFacts
<1>4. IsRunOf(base, t, nothing, None, no)
  BY <1>1, RunFacts
<1>5. Making(base, t, nothing, no, cont, dst)
  BY <1>1, <1>3, <1>4 DEF Making
<1>6. PICK a, S : a = sets[src] /\ S = Contents(a)
  OBVIOUS
<1>7. Operand(a) /\ KeysIn(a) = S /\ Secured(KeysIn(a), t, cont, dst)
  BY <1>1, <1>2, <1>6, SecuredByLive
<1>8. Filled(run, t, cont, dst, S, CountOf(a))
  BY <1>1, <1>5, <1>6, <1>7, SetAllFacts
<1>9. Blocked(run) \/ Effect(run, dst, Merged(S, Contents(t)), None)
  BY <1>1, <1>2, <1>3, <1>8, EffectFilled
<1>10. None \in Results
  BY DEF Results
<1>11. Kept(dst, Merged(S, Contents(t)), None)
  BY <1>1, <1>9, <1>10, OperateFacts
<1> QED
  BY <1>1, <1>6, <1>11

(* A copy starts with a storage that is large enough, or with none.        *)
LEMMA CopiedRun ==
    ASSUME SetsInv, NEW dst \in SetId, sets[dst] = None, NEW src \in Live,
           NEW size \in Nat, SizeOK(size), size # 2, NEW no, no = FALSE,
           NEW calls, calls = IF size = 0 \/ no THEN <<>> ELSE Alloc,
           NEW run, run = SetAll(Run(Table(size, no), calls, None), sets[src]),
           Operate(dst, run)
    PROVE  Kept(dst, Contents(sets[src]), None)
<1>1. PICK t, base, cont : /\ t = Table(size, no) /\ base = Run(t, calls, None)
                           /\ cont = Cont(sets)
  OBVIOUS
<1>2. ContOK(cont) /\ Counts(refs, cont) /\ dst \in Place /\ cont[dst] = {} /\ no \in BOOLEAN
  BY <1>1, InvFacts, PlaceFacts
<1>3. /\ TableOK(t) /\ Contents(t) = {} /\ t.size = size /\ t.initial = no
      /\ Settled(calls, Put(cont, dst, Assets(t)))
  BY <1>1, <1>2, NewFacts
<1>4. IsRunOf(base, t, calls, None, no)
  BY <1>1, RunFacts
<1>5. Making(base, t, calls, no, cont, dst)
  BY <1>2, <1>3, <1>4 DEF Making
<1>6. PICK a, S : a = sets[src] /\ S = Contents(a)
  OBVIOUS
<1>7. dst # src
  BY DEF Live
<1>8. Operand(a) /\ KeysIn(a) = S /\ Secured(KeysIn(a), t, cont, dst)
  BY <1>1, <1>6, <1>7, SecuredByLive
<1>9. Filled(run, t, cont, dst, S, CountOf(a))
  BY <1>1, <1>5, <1>6, <1>8, SetAllFacts
<1>10. LentOK(t)
  BY <1>3 DEF LentOK
<1>11. Blocked(run) \/ Effect(run, dst, Merged(S, Contents(t)), None)
  BY <1>1, <1>3, <1>9, <1>10, EffectFilled
<1>12. Merged(S, Contents(t)) = S
  BY <1>3 DEF Merged
<1>13. None \in Results
  BY DEF Results
<1>14. Blocked(run) \/ Effect(run, dst, S, None)
  BY <1>11, <1>12
<1> QED
  BY <1>6, <1>13, <1>14, OperateFacts

LEMMA CopySteps ==
    ASSUME SetsInv, NEW dst \in SetId, NEW src \in SetId,
           Copy(dst, src) \/ CopyPointerset(dst, src)
    PROVE  sets[dst] = None /\ src \in Live /\ Kept(dst, Contents(sets[src]), None)
<1>1. PICK run, count : /\ sets[dst] = None /\ src \in Live /\ Operate(dst, run)
                        /\ count = sets[src].count
                        /\ \/ run = SetAll(Allocated(SizeForCapacity(count)), sets[src])
                           \/ run = SetAll(PointersetRun(count), sets[src])
  BY DEF Copy, CopyPointerset
<1>2. count \in Nat
  BY <1>1, InvFacts, TableFacts
<1>3. PICK size \in Nat : size = SizeForCapacity(count) /\ SizeOK(size) /\ size >= 4
  BY <1>2, CapacityFacts
<1>4. PICK no, zero : no = FALSE /\ zero = 0
  OBVIOUS
<1>5. ASSUME run = SetAll(Allocated(size), sets[src])
      PROVE  Kept(dst, Contents(sets[src]), None)
  <2>1. size # 0 /\ size # 2 /\ ~ (size < 2)
    BY <1>3
  <2>2. PICK calls : calls = Alloc
    OBVIOUS
  <2>3. Allocated(size) = Run(Table(size, no), calls, None)
    BY <1>4, <2>1, <2>2 DEF Allocated
  <2>4. calls = IF size = 0 \/ no THEN <<>> ELSE Alloc
    BY <1>4, <2>1, <2>2
  <2> QED
    BY <1>1, <1>3, <1>4, <1>5, <2>1, <2>3, <2>4, CopiedRun
<1>6. ASSUME run = SetAll(PointersetRun(count), sets[src])
      PROVE  Kept(dst, Contents(sets[src]), None)
  <2>1. CASE count = 0
    <3>1. PICK calls : calls = <<>>
      OBVIOUS
    <3>2. PointersetRun(count) = Run(Table(zero, no), calls, None)
      BY <1>4, <2>1, <3>1 DEF PointersetRun
    <3>3. calls = IF zero = 0 \/ no THEN <<>> ELSE Alloc
      BY <1>4, <3>1
    <3>4. zero \in Nat /\ SizeOK(zero) /\ zero # 2
      BY <1>4, SizeFacts
    <3> QED
      BY <1>1, <1>4, <1>6, <3>2, <3>3, <3>4, CopiedRun
  <2>2. CASE count # 0
    BY <1>3, <1>5, <1>6, <2>2 DEF PointersetRun
  <2> QED
    BY <2>1, <2>2
<1> QED
  BY <1>1, <1>3, <1>5, <1>6

(* ---- Union and intersection ----                                        *)

LEMMA OperandLives ==
    ASSUME SetsInv, NEW a \in Operands, NEW x, x = TableOf(a)
    PROVE  Operand(x) /\ Lives(x, Cont(sets)) /\ (Tiny(x) => Trap)
<1>1. CASE a = None
  <2>1. x = None
    BY <1>1 DEF TableOf
  <2> QED
    BY <2>1 DEF Operand, Lives, Tiny
<1>2. CASE a # None
  <2>1. a \in Live /\ x = sets[a]
    BY <1>2 DEF Operands, TableOf
  <2>2. a \in SetId /\ x # None /\ TableOK(x) /\ Cont(sets)[a] = Assets(x)
    BY <2>1, InvFacts
  <2>3. Tiny(x) => Trap
    BY <2>1, <2>2 DEF Tiny, Trap
  <2> QED
    BY <2>2, <2>3 DEF Operand, Lives
<1> QED
  BY <1>1, <1>2

LEMMA EffectSwapped ==
    ASSUME SetsInv, NEW dst \in Live, NEW run, NEW S, Temporary(run, Cont(sets), S),
           NEW swapped, swapped = Swap(sets[dst], run)
    PROVE  Effect(swapped, dst, S, None)
<1>1. PICK r, calls, mutated :
          /\ IsRunOf(run, r, calls, None, mutated) /\ mutated \in BOOLEAN
          /\ TableOK(r) /\ Contents(r) = S /\ ~ r.initial
          /\ Settled(calls, Put(Cont(sets), None, Assets(r)))
  BY DEF Temporary, Leaves
<1>2. PICK cont, t, yes : cont = Cont(sets) /\ t = sets[dst] /\ yes = TRUE
  OBVIOUS
<1>3. ContOK(cont) /\ cont[None] = {} /\ dst \in SetId /\ Holding(cont, dst, t)
  BY <1>2, InvFacts
<1>4. Settled(calls, Put(cont, None, Assets(r)))
  BY <1>1, <1>2
<1>5. PICK all : /\ IsRunOf(Swap(t, run), r, all, None, TRUE)
                 /\ Settled(all, Put(cont, dst, Assets(r)))
  BY <1>1, <1>3, <1>4, SwapFacts
<1>6. IsRunOf(swapped, r, all, None, yes) /\ Settled(all, Put(Cont(sets), dst, Assets(r)))
  BY <1>2, <1>5
<1>7. LentOK(r)
  BY <1>1 DEF LentOK
<1>8. yes \in BOOLEAN /\ (yes \/ sets[dst] = None \/ r.slots = sets[dst].slots)
  BY <1>2
<1> QED
  BY <1>1, <1>6, <1>7, <1>8 DEF Effect

LEMMA SwapSteps ==
    ASSUME SetsInv, NEW dst \in Live, NEW run, NEW S,
           \/ run.status = Aborted
           \/ run.status = Hung /\ Trap
           \/ Temporary(run, Cont(sets), S),
           Operate(dst, Swap(sets[dst], run))
    PROVE  Kept(dst, S, None)
<1>1. PICK swapped : swapped = Swap(sets[dst], run)
  OBVIOUS
<1>2. Blocked(swapped) \/ Effect(swapped, dst, S, None)
  <2>1. CASE run.status = Aborted \/ (run.status = Hung /\ Trap)
    <3>1. HasStopped(run)
      BY <2>1, StatusFacts DEF HasStopped
    <3>2. swapped = run
      BY <1>1, <3>1 DEF Swap
    <3> QED
      BY <2>1, <3>2 DEF Blocked
  <2>2. CASE Temporary(run, Cont(sets), S)
    BY <1>1, <2>2, EffectSwapped
  <2> QED
    BY <2>1, <2>2
<1>3. None \in Results /\ dst \in SetId /\ Operate(dst, swapped)
  BY <1>1 DEF Results, Live
<1> QED
  BY <1>2, <1>3, OperateFacts

LEMMA IntersectSteps ==
    ASSUME SetsInv, NEW dst \in SetId, NEW a \in Operands, NEW b \in Operands,
           Intersect(dst, a, b)
    PROVE  dst \in Live /\ Kept(dst, SharedKeys(TableOf(a), TableOf(b)), None)
<1>1. dst \in Live /\ Operate(dst, Swap(sets[dst], Intersection(TableOf(a), TableOf(b))))
  BY DEF Intersect
<1>2. PICK x, y, run, cont : /\ x = TableOf(a) /\ y = TableOf(b)
                             /\ run = Intersection(x, y) /\ cont = Cont(sets)
  OBVIOUS
<1>3. /\ Operand(x) /\ Lives(x, cont) /\ Operand(y)
      /\ (Tiny(x) => Trap) /\ (Tiny(y) => Trap)
  BY <1>2, OperandLives
<1>4. ContOK(cont) /\ Counts(refs, cont) /\ cont[None] = {}
  BY <1>2, InvFacts
<1>5. \/ run.status = Aborted
      \/ run.status = Hung /\ (Tiny(x) \/ Tiny(y))
      \/ Temporary(run, cont, SharedKeys(x, y))
  BY <1>2, <1>3, <1>4, IntersectionFacts
<1>6. \/ run.status = Aborted
      \/ run.status = Hung /\ Trap
      \/ Temporary(run, Cont(sets), SharedKeys(x, y))
  BY <1>2, <1>3, <1>5
<1>7. Operate(dst, Swap(sets[dst], run))
  BY <1>1, <1>2
<1>8. Kept(dst, SharedKeys(x, y), None)
  BY <1>1, <1>6, <1>7, SwapSteps
<1> QED
  BY <1>1, <1>2, <1>8

LEMMA UnionSteps ==
    ASSUME SetsInv, NEW dst \in SetId, NEW a \in Operands, NEW b \in Operands,
           Union(dst, a, b)
    PROVE  dst \in Live /\ Kept(dst, Merged(KeysIn(TableOf(b)), KeysIn(TableOf(a))), None)
<1>1. dst \in Live /\ Operate(dst, Swap(sets[dst], UnionOf(TableOf(a), TableOf(b))))
  BY DEF Union
<1>2. PICK x, y, run, cont : /\ x = TableOf(a) /\ y = TableOf(b)
                             /\ run = UnionOf(x, y) /\ cont = Cont(sets)
  OBVIOUS
<1>3. Operand(x) /\ Lives(x, cont) /\ Operand(y) /\ Lives(y, cont)
  BY <1>2, OperandLives
<1>4. ContOK(cont) /\ Counts(refs, cont) /\ cont[None] = {}
  BY <1>2, InvFacts
<1>5. PICK S : S = Merged(KeysIn(y), KeysIn(x))
  OBVIOUS
<1>6. run.status = Aborted \/ Temporary(run, Cont(sets), S)
  BY <1>2, <1>3, <1>4, <1>5, UnionFacts
<1>7. Operate(dst, Swap(sets[dst], run))
  BY <1>1, <1>2
<1>8. Kept(dst, S, None)
  BY <1>1, <1>6, <1>7, SwapSteps
<1> QED
  BY <1>1, <1>2, <1>5, <1>8

-----------------------------------------------------------------------------
(* ---- Every step ----                                                    *)

LEMMA SetsStart == Init => SetsInv
<1> SUFFICES ASSUME Init PROVE SetsInv
  OBVIOUS
<1>1. sets = [s \in SetId |-> None] /\ \A s \in SetId : sets[s] = None
  BY DEF Init
<1>2. TablesOK(sets)
  BY <1>1 DEF TablesOK
<1>3. \A p : Held(Cont(sets), p) = {}
  BY <1>1 DEF Held, Cont
<1>4. refs \in [Pointer -> Nat] /\ \A p \in Pointer : refs[p] = 0
  BY DEF Init, Pointer
<1>5. Counts(refs, Cont(sets))
  BY <1>3, <1>4, PointerFacts, FS_EmptySet DEF Counts
<1> QED
  BY <1>2, <1>5 DEF Init, SetsInv, Results

(* every step on a set                                                     *)
LEMMA StepSteps ==
    ASSUME SetsInv, Next
    PROVE  \E s \in SetId : \E C, R : Kept(s, C, R)
<1>1. ASSUME NEW s \in SetId, NEW c \in Capacities, Create(s, c) \/ CreatePointerset(s, c)
      PROVE  \E C, R : Kept(s, C, R)
  BY <1>1, CreateSteps
<1>2. ASSUME NEW s \in SetId, NEW c \in StaticCapacities, InitWithStaticPointers(s, c)
      PROVE  \E C, R : Kept(s, C, R)
  BY <1>2, CreateSteps
<1>3. ASSUME NEW s \in SetId, Done(s) \/ Reset(s) \/ ShrinkIfNeeded(s)
      PROVE  \E C, R : Kept(s, C, R)
  BY <1>3, DoneSteps, ResetSteps, ShrinkSteps
<1>4. ASSUME NEW s \in SetId, NEW k \in Key,
             Set(s, k) \/ Insert(s, k) \/ Register(s, k) \/ Lookup(s, k) \/ Remove(s, k)
      PROVE  \E C, R : Kept(s, C, R)
  <2>1. PICK S : S = Contents(sets[s])
    OBVIOUS
  <2>2. Set(s, k) => SetStepped(s, k)
    BY SetSteps
  <2>3. /\ Insert(s, k) => Kept(s, Merged(S, {k}), IF HasEqual(S, k) THEN 0 ELSE 1)
        /\ Register(s, k) => \E l : Kept(s, Merged(S, {k}), l)
    BY <2>1, InsertSteps
  <2>4. Lookup(s, k) => \E l : Kept(s, S, l)
    BY <2>1, LookupSteps
  <2>5. Remove(s, k) => Kept(s, Unequal(S, k), IF HasEqual(S, k) THEN 1 ELSE 0)
    BY <2>1, RemoveSteps
  <2> QED
    BY <1>4, <2>2, <2>3, <2>4, <2>5 DEF SetStepped
<1>5. ASSUME NEW dst \in SetId, NEW src \in SetId,
             CopyItems(dst, src) \/ Copy(dst, src) \/ CopyPointerset(dst, src)
      PROVE  \E C, R : Kept(dst, C, R)
  BY <1>5, CopyItemsSteps, CopySteps
<1>6. ASSUME NEW dst \in SetId, NEW a \in Operands, NEW b \in Operands,
             Intersect(dst, a, b) \/ Union(dst, a, b)
      PROVE  \E C, R : Kept(dst, C, R)
  BY <1>6, IntersectSteps, UnionSteps
<1> QED
  BY <1>1, <1>2, <1>3, <1>4, <1>5, <1>6 DEF Next

LEMMA SetsKept ==
    ASSUME SetsInv, [Next]_vars
    PROVE  SetsInv' /\ Visible
<1>1. CASE Next
  <2>1. PICK s \in SetId : \E C, R : Kept(s, C, R)
    BY <1>1, StepSteps
  <2> QED
    BY <2>1 DEF Kept
<1>2. CASE UNCHANGED vars
  <2>1. UNCHANGED <<sets, refs, dangling, ret, moved, status>>
    BY <1>2 DEF vars
  <2>2. TablesOK(sets)' /\ (Counts(refs, Cont(sets)) /\ dangling = {})'
    BY <2>1 DEF SetsInv, TablesOK, Counts, Cont
  <2>3. (ret \in Results /\ moved \in Live \cup {None})'
    BY <2>1 DEF SetsInv, Live
  <2>4. (status \in {Running, Aborted} \/ (status = Hung /\ Trap))'
    BY <2>1 DEF SetsInv, Trap
  <2>5. Visible
    BY <2>1 DEF Visible
  <2> QED
    BY <2>2, <2>3, <2>4, <2>5 DEF SetsInv
<1> QED
  BY <1>1, <1>2

(* What every operation keeps: each table can be probed, and each pointer  *)
(* is retained once for each set that has it.                              *)
THEOREM AlwaysSets == Spec => []SetsInv
<1>1. SetsInv /\ [Next]_vars => SetsInv'
  BY SetsKept
<1> QED
  BY <1>1, SetsStart, PTL DEF Spec

-----------------------------------------------------------------------------
LEMMA StorageSize ==
    ASSUME NEW t, TableOK(t), Sized(t)
    PROVE  t.size \in {0} \cup {Power[e] : e \in 1 .. MaxSize[1]} /\ t.size <= MaxSize[1]
<1>1. PICK n, m : n = t.size /\ m = MaxSize[1] /\ n \in Nat /\ m \in Nat /\ n <= m
  BY TableFacts, PointerSetAssumption DEF Sized
<1>2. CASE n = 0
  BY <1>1, <1>2
<1>3. ASSUME NEW e \in Nat, e >= 1, n = Power[e]
      PROVE  n \in {Power[d] : d \in 1 .. m}
  <2>1. PICK p : p = Power[e] /\ p \in Nat /\ p > e
    BY PowerFacts
  <2>2. e <= m
    BY <1>1, <1>3, <2>1
  <2>3. e \in 1 .. m
    BY <1>1, <1>3, <2>2
  <2> QED
    BY <1>3, <2>3
<1>4. n = 0 \/ \E e \in Nat : e >= 1 /\ n = Power[e]
  BY <1>1 DEF TableOK, SizeOK
<1> QED
  BY <1>1, <1>2, <1>3, <1>4

LEMMA InvOwnership == SetsInv => OwnershipExact
<1> SUFFICES ASSUME SetsInv PROVE OwnershipExact
  OBVIOUS
<1>1. TablesOK(sets) /\ Counts(refs, Cont(sets)) /\ dangling = {}
  BY DEF SetsInv
<1>2. PICK cont : cont = Cont(sets)
  OBVIOUS
<1>3. /\ \A p \in Key : Holders(sets, p) = Held(cont, p)
      /\ \A p : Held(cont, p) \subseteq SetId
      /\ Held(cont, Storage)
           = {s \in SetId : sets[s] # None /\ sets[s].size # 0 /\ ~ sets[s].initial}
  BY <1>1, <1>2, ContFacts
<1>4. /\ refs \in [Pointer -> Nat]
      /\ \A p \in Counted : refs[p] = Cardinality(Held(cont, p))
      /\ \A p \in Pointer \ Counted : refs[p] = 0
  BY <1>1, <1>2 DEF Counts
<1>5. \A p : Cardinality(Held(cont, p)) \in 0 .. Cardinality(SetId)
  <2>1. TAKE p
  <2>2. Held(cont, p) \subseteq SetId
    BY <1>3
  <2>3. IsFiniteSet(SetId) /\ Cardinality(SetId) \in Nat
    BY PlaceFacts
  <2>4. /\ IsFiniteSet(Held(cont, p))
        /\ Cardinality(Held(cont, p)) \in Nat
        /\ Cardinality(Held(cont, p)) <= Cardinality(SetId)
    BY <2>2, <2>3, FS_Subset, FS_CardinalityType
  <2> QED
    BY <2>3, <2>4
<1>6. refs \in [Key \cup {Storage} -> 0 .. Cardinality(SetId)]
  <2>1. Cardinality(SetId) \in Nat
    BY PlaceFacts
  <2>2. ASSUME NEW p \in Pointer PROVE refs[p] \in 0 .. Cardinality(SetId)
    BY <1>4, <1>5, <2>1
  <2> QED
    BY <1>4, <2>2 DEF Pointer
<1>7. ASSUME NEW s \in Live
      PROVE  LET t == sets[s]
             IN  /\ t.size \in {0} \cup {Power[e] : e \in 1 .. MaxSize[1]} /\ t.size <= MaxSize[1]
                 /\ t.slots \in [Slot(t.size) -> Key \cup {Hole}]
                 /\ t.count = Cardinality(Occupied(t))
                 /\ t.initial => t.size \in StaticCapacities
  <2>1. TableOK(sets[s]) /\ Sized(sets[s]) /\ LentOK(sets[s])
    BY <1>1 DEF TablesOK, Live
  <2>2. PICK t : t = sets[s]
    OBVIOUS
  <2>3. t.size \in {0} \cup {Power[e] : e \in 1 .. MaxSize[1]} /\ t.size <= MaxSize[1]
    BY <2>1, <2>2, StorageSize
  <2>4. t.slots \in [Slot(t.size) -> Key \cup {Hole}]
    BY <2>1, <2>2, TableFacts DEF Cells
  <2>5. t.count = Cardinality(Occupied(t))
    BY <2>1, <2>2 DEF TableOK, Used, Occupied
  <2>6. t.initial => t.size \in StaticCapacities
    BY <2>1, <2>2 DEF LentOK
  <2> QED
    BY <2>2, <2>3, <2>4, <2>5, <2>6
<1>8. ret \in Key \cup {0, 1, Hole, None} /\ moved \in Live \cup {None}
      /\ status \in {Running, Hung, Aborted}
  BY DEF SetsInv, Results
<1>9. \A p \in Owned : refs[p] = Cardinality(Holders(sets, p))
  BY <1>3, <1>4, PointerSetAssumption DEF Counted
<1>10. refs[Storage] = Cardinality({s \in Live : sets[s].size # 0 /\ ~ sets[s].initial})
  <2>1. {s \in Live : sets[s].size # 0 /\ ~ sets[s].initial} = Held(cont, Storage)
    BY <1>3 DEF Live
  <2> QED
    BY <1>4, <2>1 DEF Counted
<1> QED
  BY <1>1, <1>6, <1>7, <1>8, <1>9, <1>10 DEF OwnershipExact

(* A key is retained once for each set that holds it, and each storage of  *)
(* malloc belongs to one set: through growth out of lent storage, copies   *)
(* into a set itself, and unions and intersections that swap their result  *)
(* in for one of their operands.                                           *)
THEOREM AlwaysOwnershipExact == Spec => []OwnershipExact
BY AlwaysSets, InvOwnership, PTL

LEMMA InvTiny == SetsInv => OnlyTinyTablesHang
<1> SUFFICES ASSUME SetsInv PROVE OnlyTinyTablesHang
  OBVIOUS
<1>1. \A s \in Live : sets[s].count <= FillLimit(sets[s].size)
  BY DEF SetsInv, TablesOK, TableOK, Live
<1>2. ASSUME status = Hung PROVE \E s \in Live : sets[s].size \in 1 .. MinSize - 1
  <2>1. PICK s \in SetId : sets[s] # None /\ sets[s].size = 2
    BY <1>2, StatusFacts DEF SetsInv, Trap
  <2> QED
    BY <2>1 DEF Live, MinSize
<1> QED
  BY <1>1, <1>2 DEF OnlyTinyTablesHang

(* Only the storage of two slots a union can leave is ever full, so that a *)
(* probe that does not end is in one of those.                             *)
THEOREM AlwaysOnlyTinyTablesHang == Spec => []OnlyTinyTablesHang
BY AlwaysSets, InvTiny, PTL

(* No step changes the slots of a set and leaves its counter: not growing, *)
(* closing a gap, or swapping in the result of a union.                    *)
THEOREM AlwaysMutationsVisible == Spec => MutationsVisible
<1>1. SetsInv /\ [Next]_vars =>
          [\A s \in Live : sets'[s] # None /\ sets'[s].slots # sets[s].slots => moved' = s]_vars
  BY SetsKept DEF Visible
<1> QED
  BY <1>1, AlwaysSets, PTL DEF Spec, MutationsVisible

-----------------------------------------------------------------------------
(* ---- The abstract family of sets ----                                   *)

(* The operators of the abstract specification are those of the proofs.    *)
LEMMA AbstractSets ==
    /\ \A S, T : Abstract!Over(S, T) = Merged(S, T)
    /\ \A S, k : Abstract!Has(S, k) <=> HasEqual(S, k)
    /\ \A S, k : Abstract!Equals(S, k) = {l \in S : IsEqual(l, k)}
    /\ \A S, k : S \ Abstract!Equals(S, k) = Unequal(S, k)
<1>1. \A S, k : Abstract!Equals(S, k) = {l \in S : IsEqual(l, k)}
  BY DEF Abstract!Equals, IsEqual
<1>2. \A S, k : Abstract!Has(S, k) <=> HasEqual(S, k)
  BY <1>1 DEF Abstract!Has, HasEqual
<1>3. \A S, T : Abstract!Over(S, T) = Merged(S, T)
  BY <1>2 DEF Abstract!Over, Merged, HasEqual
<1> QED
  BY <1>1, <1>2, <1>3 DEF Unequal

LEMMA FamiliesNow ==
    ASSUME SetsInv
    PROVE  /\ Abstract!Live = Live
           /\ \A s \in Live : Families[s] = Contents(sets[s])
           /\ \A s \in SetId : sets[s] = None => Families[s] = None
           /\ \A a \in Operands : Abstract!Content(a) = KeysIn(TableOf(a))
<1>1. \A s \in SetId : Families[s] = IF sets[s] = None THEN None ELSE Contents(sets[s])
  BY FamiliesFacts
<1>2. \A s \in Live : Contents(sets[s]) \subseteq Key
  BY InvFacts, ContentsFacts
<1>3. \A s \in Live : Contents(sets[s]) # None
  BY <1>2, PointerSetAssumption
<1>4. Abstract!Live = Live
  BY <1>1, <1>3 DEF Abstract!Live, Live
<1>5. \A s \in Live : Families[s] = Contents(sets[s])
  BY <1>1 DEF Live
<1>6. ASSUME NEW a \in Operands PROVE Abstract!Content(a) = KeysIn(TableOf(a))
  BY <1>5, <1>6, PlaceFacts DEF Abstract!Content, KeysIn, TableOf, Operands, Live
<1> QED
  BY <1>1, <1>4, <1>5, <1>6

Quiet == UNCHANGED <<Families, ret>>

LEMMA KeptAbstract ==
    ASSUME NEW s, NEW C, NEW R, Kept(s, C, R)
    PROVE  Quiet \/ Abstract!Become(s, C, R)
BY DEF Kept, Become, Abstract!Become, Quiet

LEMMA AbstractKeys ==
    ASSUME SetsInv, NEW s \in SetId, NEW k \in Key,
           Set(s, k) \/ Insert(s, k) \/ Register(s, k) \/ Lookup(s, k) \/ Remove(s, k)
    PROVE  \/ Quiet
           \/ Abstract!Set(s, k) \/ Abstract!Insert(s, k) \/ Abstract!Register(s, k)
           \/ Abstract!Lookup(s, k) \/ Abstract!Remove(s, k)
<1>1. PICK S : S = Contents(sets[s])
  OBVIOUS
<1>2. s \in Live => s \in Abstract!Live /\ Families[s] = S
  BY <1>1, FamiliesNow
<1>3. CASE Set(s, k)
  <2>1. s \in Live /\ Kept(s, Merged({k}, S), None)
    BY <1>1, <1>3, SetSteps DEF SetStepped
  <2>2. Quiet \/ Abstract!Become(s, Merged({k}, S), None)
    BY <2>1, KeptAbstract
  <2> QED
    BY <1>2, <2>1, <2>2, AbstractSets DEF Abstract!Set
<1>4. CASE Insert(s, k)
  <2>1. PICK R : R = IF HasEqual(S, k) THEN 0 ELSE 1
    OBVIOUS
  <2>2. s \in Live /\ Kept(s, Merged(S, {k}), R)
    BY <1>1, <1>4, <2>1, InsertSteps
  <2>3. Quiet \/ Abstract!Become(s, Merged(S, {k}), R)
    BY <2>2, KeptAbstract
  <2>4. R = IF Abstract!Has(S, k) THEN 0 ELSE 1
    BY <2>1, AbstractSets
  <2> QED
    BY <1>2, <2>2, <2>3, <2>4, AbstractSets DEF Abstract!Insert
<1>5. CASE Register(s, k)
  <2>1. PICK l : s \in Live /\ Registers(S, k, l) /\ Kept(s, Merged(S, {k}), l)
    BY <1>1, <1>5, InsertSteps
  <2>2. Quiet \/ Abstract!Become(s, Merged(S, {k}), l)
    BY <2>1, KeptAbstract
  <2>3. l \in Merged(S, {k}) /\ IsEqual(l, k)
    BY <2>1 DEF Registers, Merged, HasEqual, IsEqual
  <2>4. l \in Abstract!Equals(Merged(S, {k}), k)
    BY <2>3, AbstractSets
  <2> QED
    BY <1>2, <2>1, <2>2, <2>4, AbstractSets DEF Abstract!Register
<1>6. CASE Lookup(s, k)
  <2>1. PICK l : s \in Live /\ Looked(S, k, l) /\ Kept(s, S, l)
    BY <1>1, <1>6, LookupSteps
  <2>2. Quiet \/ Abstract!Become(s, S, l)
    BY <2>1, KeptAbstract
  <2>3. l \in IF Abstract!Has(S, k) THEN Abstract!Equals(S, k) ELSE {Hole}
    BY <2>1, AbstractSets DEF Looked
  <2> QED
    BY <1>2, <2>1, <2>2, <2>3 DEF Abstract!Lookup
<1>7. CASE Remove(s, k)
  <2>1. PICK R : R = IF HasEqual(S, k) THEN 1 ELSE 0
    OBVIOUS
  <2>2. s \in Live /\ Kept(s, Unequal(S, k), R)
    BY <1>1, <1>7, <2>1, RemoveSteps
  <2>3. Quiet \/ Abstract!Become(s, Unequal(S, k), R)
    BY <2>2, KeptAbstract
  <2>4. R = IF Abstract!Has(S, k) THEN 1 ELSE 0
    BY <2>1, AbstractSets
  <2> QED
    BY <1>2, <2>2, <2>3, <2>4, AbstractSets DEF Abstract!Remove
<1> QED
  BY <1>3, <1>4, <1>5, <1>6, <1>7

LEMMA AbstractStorage ==
    ASSUME SetsInv, NEW s \in SetId,
           \/ \E c \in Capacities : Create(s, c) \/ CreatePointerset(s, c)
           \/ \E c \in StaticCapacities : InitWithStaticPointers(s, c)
           \/ Done(s) \/ Reset(s) \/ ShrinkIfNeeded(s)
    PROVE  \/ Quiet
           \/ Abstract!Create(s) \/ Abstract!Done(s) \/ Abstract!Clear(s) \/ Abstract!Tidy(s)
<1>1. ASSUME sets[s] = None, Kept(s, {}, None)
      PROVE  Quiet \/ Abstract!Create(s)
  BY <1>1, KeptAbstract, FamiliesNow DEF Abstract!Create
<1>2. CASE \/ \E c \in Capacities : Create(s, c) \/ CreatePointerset(s, c)
           \/ \E c \in StaticCapacities : InitWithStaticPointers(s, c)
  BY <1>1, <1>2, CreateSteps
<1>3. CASE Done(s)
  BY <1>3, DoneSteps, KeptAbstract, FamiliesNow DEF Abstract!Done
<1>4. CASE Reset(s)
  BY <1>4, ResetSteps, KeptAbstract, FamiliesNow DEF Abstract!Clear
<1>5. CASE ShrinkIfNeeded(s)
  <2>1. s \in Live /\ Kept(s, Contents(sets[s]), None)
    BY <1>5, ShrinkSteps
  <2>2. Quiet \/ Abstract!Become(s, Contents(sets[s]), None)
    BY <2>1, KeptAbstract
  <2> QED
    BY <2>1, <2>2, FamiliesNow DEF Abstract!Tidy
<1> QED
  BY <1>2, <1>3, <1>4, <1>5

LEMMA AbstractCopies ==
    ASSUME SetsInv, NEW dst \in SetId, NEW src \in SetId,
           CopyItems(dst, src) \/ Copy(dst, src) \/ CopyPointerset(dst, src)
    PROVE  Quiet \/ Abstract!Merge(dst, src) \/ Abstract!Clone(dst, src)
<1>1. CASE CopyItems(dst, src)
  <2>1. PICK S : S = Merged(Contents(sets[src]), Contents(sets[dst]))
    OBVIOUS
  <2>2. dst \in Live /\ src \in Live /\ Kept(dst, S, None)
    BY <1>1, <2>1, CopyItemsSteps
  <2>3. Quiet \/ Abstract!Become(dst, S, None)
    BY <2>2, KeptAbstract
  <2>4. S = Abstract!Over(Families[src], Families[dst])
    BY <2>1, <2>2, FamiliesNow, AbstractSets
  <2> QED
    BY <2>2, <2>3, <2>4, FamiliesNow DEF Abstract!Merge
<1>2. CASE Copy(dst, src) \/ CopyPointerset(dst, src)
  <2>1. sets[dst] = None /\ src \in Live /\ Kept(dst, Contents(sets[src]), None)
    BY <1>2, CopySteps
  <2>2. Quiet \/ Abstract!Become(dst, Contents(sets[src]), None)
    BY <2>1, KeptAbstract
  <2> QED
    BY <2>1, <2>2, FamiliesNow DEF Abstract!Clone
<1> QED
  BY <1>1, <1>2

LEMMA AbstractSwaps ==
    ASSUME SetsInv, NEW dst \in SetId, NEW a \in Operands, NEW b \in Operands,
           Intersect(dst, a, b) \/ Union(dst, a, b)
    PROVE  Quiet \/ Abstract!Intersect(dst, a, b) \/ Abstract!Union(dst, a, b)
<1>1. PICK A, B : /\ A = KeysIn(TableOf(a)) /\ B = KeysIn(TableOf(b))
                  /\ Abstract!Content(a) = A /\ Abstract!Content(b) = B
  BY FamiliesNow
<1>2. CASE Intersect(dst, a, b)
  <2>1. PICK S : S = SharedKeys(TableOf(a), TableOf(b))
    OBVIOUS
  <2>2. dst \in Live /\ Kept(dst, S, None)
    BY <1>2, <2>1, IntersectSteps
  <2>3. Quiet \/ Abstract!Become(dst, S, None)
    BY <2>2, KeptAbstract
  <2>4. S = {k \in Abstract!Content(a) : Abstract!Has(Abstract!Content(b), k)}
    BY <1>1, <2>1, AbstractSets DEF SharedKeys, HasEqual
  <2> QED
    BY <2>2, <2>3, <2>4, FamiliesNow DEF Abstract!Intersect
<1>3. CASE Union(dst, a, b)
  <2>1. PICK S : S = Merged(KeysIn(TableOf(b)), KeysIn(TableOf(a)))
    OBVIOUS
  <2>2. dst \in Live /\ Kept(dst, S, None)
    BY <1>3, <2>1, UnionSteps
  <2>3. Quiet \/ Abstract!Become(dst, S, None)
    BY <2>2, KeptAbstract
  <2>4. S = Abstract!Over(Abstract!Content(b), Abstract!Content(a))
    BY <1>1, <2>1, AbstractSets
  <2> QED
    BY <2>2, <2>3, <2>4, FamiliesNow DEF Abstract!Union
<1> QED
  BY <1>2, <1>3

LEMMA AbstractStep ==
    ASSUME SetsInv, [Next]_vars
    PROVE  [Abstract!Next]_(<<Families, ret>>)
<1>1. SUFFICES Quiet \/ Abstract!Next
  BY DEF Quiet
<1>2. ASSUME NEW s \in SetId, NEW k \in Key,
             Set(s, k) \/ Insert(s, k) \/ Register(s, k) \/ Lookup(s, k) \/ Remove(s, k)
      PROVE  Quiet \/ Abstract!Next
  BY <1>2, AbstractKeys DEF Abstract!Next
<1>3. ASSUME NEW s \in SetId,
             \/ \E c \in Capacities : Create(s, c) \/ CreatePointerset(s, c)
             \/ \E c \in StaticCapacities : InitWithStaticPointers(s, c)
             \/ Done(s) \/ Reset(s) \/ ShrinkIfNeeded(s)
      PROVE  Quiet \/ Abstract!Next
  BY <1>3, AbstractStorage DEF Abstract!Next
<1>4. ASSUME NEW dst \in SetId, NEW src \in SetId,
             CopyItems(dst, src) \/ Copy(dst, src) \/ CopyPointerset(dst, src)
      PROVE  Quiet \/ Abstract!Next
  BY <1>4, AbstractCopies DEF Abstract!Next
<1>5. ASSUME NEW dst \in SetId, NEW a \in Operands, NEW b \in Operands,
             Intersect(dst, a, b) \/ Union(dst, a, b)
      PROVE  Quiet \/ Abstract!Next
  <2>1. Operands = Abstract!Live \cup {None}
    BY FamiliesNow DEF Operands
  <2>2. Quiet \/ Abstract!Intersect(dst, a, b) \/ Abstract!Union(dst, a, b)
    BY <1>5, AbstractSwaps
  <2> QED
    BY <2>1, <2>2 DEF Abstract!Next
<1>6. CASE UNCHANGED vars
  BY <1>6 DEF vars, Quiet, Families, Occupied
<1>7. CASE Next
  BY <1>2, <1>3, <1>4, <1>5, <1>7 DEF Next
<1> QED
  BY <1>6, <1>7

(* A set is a set up to is_equal: whatever storages probing, growth,       *)
(* removal, and the swap of a union leave, each operation has the effect   *)
(* and the result of the operation on sets of keys, dst among the operands *)
(* or not.                                                                 *)
THEOREM ImplementsSetFamily == Spec => RefinesSetFamily
<1>1. Init => Abstract!Init
  BY DEF Init, Abstract!Init, Families
<1>2. SetsInv /\ [Next]_vars => [Abstract!Next]_(Abstract!vars)
  BY AbstractStep DEF Abstract!vars
<1> QED
  BY <1>1, <1>2, AlwaysSets, PTL DEF Spec, RefinesSetFamily, Abstract!Spec

=============================================================================
