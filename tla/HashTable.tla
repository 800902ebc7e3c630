------------------------------ MODULE HashTable ------------------------------
(***************************************************************************)
(* The open-addressing hash table under mulle--pointermap-generic.c (and,  *)
(* without the values, under mulle--pointerset-generic.c): linear probing  *)
(* over a power-of-two storage, deletion by shifting the probe chain       *)
(* back, growth at 3/4 occupancy and shrinking to at most 3/4.             *)
(*                                                                         *)
(* Constant-level module: a table is a record and every operator returns   *)
(* a new one.  A slot is Hole (the code's "notakey") or a pair; the two    *)
(* parallel arrays of the code (keys, then values at offset _size) are one *)
(* function of pairs, because the code always writes both cells of a slot  *)
(* together and never reads the value of a hole.                           *)
(***************************************************************************)
EXTENDS Powers, FiniteSets

CONSTANTS
    Key,        \* key pointers
    Value,      \* value pointers
    Hole,       \* an empty slot
    Class,      \* Class[k]: keys are is_equal iff they have the same class
    Hash        \* Hash[k]: what the hash callback returns

Pairs == [key : Key, value : Value]

ASSUME HashTableAssumption ==
    /\ Hole \notin Pairs
    /\ DOMAIN Class = Key
    /\ Hash \in [Key -> Nat]
    \* the contract of the callbacks: equal keys have equal hashes
    /\ \A k, l \in Key : Class[k] = Class[l] => Hash[k] = Hash[l]

InitialSize == 4
MinSize     == 4

Slot(size) == 0 .. size - 1

IsEqual(k, l) == Class[k] = Class[l]

(* hash & (size - 2): the home slot, always even, of a table of size 2^n   *)
HashForSize(k, size) == (2 * (Hash[k] \div 2)) % size

(* mutant: no hole is reserved                                             *)
FillLimitWhole(size) == size

(* how many entries fit into a storage of this size                        *)
FillLimit(size) == size - (size \div 4)

IsFull(t) == t.count >= FillLimit(t.size)

IsSparseSize(t, size) == t.count < FillLimit(size \div 2)

IsSparse(t) == IsSparseSize(t, t.size)

(* mutant: a capacity is padded but not rounded                            *)
SizeUnrounded(capacity) ==
    IF capacity = 0 THEN 0
    ELSE IF capacity >= MinSize THEN capacity + (capacity \div 4) ELSE InitialSize

SizeForCapacity(capacity) ==
    IF capacity = 0 THEN 0
    ELSE IF capacity >= MinSize THEN Pow2Round(capacity + (capacity \div 4))
    ELSE InitialSize

EmptySlots(size) == [i \in Slot(size) |-> Hole]

NewTable(capacity) ==
    LET size == SizeForCapacity(capacity)
    IN  [size |-> size, count |-> 0, slots |-> EmptySlots(size), nMutations |-> 0]

Occupied(t) == {i \in Slot(t.size) : t.slots[i] # Hole}

-----------------------------------------------------------------------------
(* Probing *)

(* the d-th slot the probe for k looks at: (home + d) & mask               *)
ProbeSlot(k, size, d) == (HashForSize(k, size) + d) % size

(* the first of these slots on the probe for k                             *)
FirstProbe(k, size, stops) ==
    ProbeSlot(k, size, CHOOSE d \in Slot(size) :
        /\ ProbeSlot(k, size, d) \in stops
        /\ \A e \in 0 .. d - 1 : ProbeSlot(k, size, e) \notin stops)

(* find_index: the first slot of the probe that is a hole or holds an      *)
(* equal key.  Without such a slot the code would loop forever, and the    *)
(* CHOOSE has no value.                                                    *)
FindIndex(t, k) ==
    FirstProbe(k, t.size, {i \in Slot(t.size) :
                               t.slots[i] = Hole \/ IsEqual(t.slots[i].key, k)})

(* the code never looks into a table that has no entries                   *)
Has(t, k) == t.count # 0 /\ t.slots[FindIndex(t, k)] # Hole

(* store_key_value_generic: into the first hole of the probe               *)
StoreKeyValue(slots, size, pair) ==
    LET holes == {i \in Slot(size) : slots[i] = Hole}
    IN  [slots EXCEPT ![FirstProbe(pair.key, size, holes)] = pair]

(* copy_storage_generic: all pairs of t, in slot order, into a new storage *)
CopyStorage(t, size) ==
    LET copied[n \in 0 .. t.size] ==
            IF n = 0 THEN EmptySlots(size)
            ELSE IF t.slots[n - 1] = Hole THEN copied[n - 1]
            ELSE StoreKeyValue(copied[n - 1], size, t.slots[n - 1])
    IN  copied[t.size]

Mutated(t) == [t EXCEPT !.nMutations = @ + 1]

(* mutant: the storage is exchanged behind the enumerators' backs          *)
RehashUnnoticed(t, size) ==
    [t EXCEPT !.size = size, !.slots = CopyStorage(t, size)]

Rehash(t, size) ==
    Mutated([t EXCEPT !.size = size, !.slots = CopyStorage(t, size)])

Grow(t) == Rehash(t, IF t.size = 0 THEN InitialSize ELSE 2 * t.size)

(* The size shrink_generic arrives at: halve, and halve again while the    *)
(* result is itself sparse, but never below the initial size.              *)
ShrunkSize(t) ==
    LET halved[n \in 0 .. t.size] ==
            IF n = 0 THEN t.size \div 2
            ELSE IF halved[n - 1] >= InitialSize /\ IsSparseSize(t, halved[n - 1])
                 THEN halved[n - 1] \div 2
                 ELSE halved[n - 1]
        size == halved[t.size]
    IN  IF size < InitialSize THEN InitialSize ELSE size

ShrinkIfNeeded(t) ==
    IF IsSparse(t) /\ ShrunkSize(t) < t.size THEN Rehash(t, ShrunkSize(t)) ELSE t

-----------------------------------------------------------------------------
(* Deletion *)

(* mutant: pairs from a wrapped insert are not told apart                  *)
StaysPutUnwrapped(home, dst, i) == dst > i \/ home > dst

(* Whether the pair at slot i, whose home is home, must not be moved to    *)
(* the gap at dst: it would not be found there.                            *)
StaysPut(home, dst, i) ==
    IF home > i THEN dst > i /\ home > dst
                ELSE dst > i \/ home > dst

(* The loop of remove_generic: walk the chain behind the freed slot, pull  *)
(* every pair that may move into the gap, and leave the gap where the      *)
(* chain ends.                                                             *)
CloseGap(slots, size, found) ==
    LET walk[n \in 0 .. size] ==
            IF n = 0 THEN [slots |-> slots, dst |-> found, done |-> FALSE]
            ELSE LET w == walk[n - 1]
                     i == (found + n) % size
                 IN  IF w.done THEN w
                     ELSE IF w.slots[i] = Hole
                          THEN [w EXCEPT !.slots[w.dst] = Hole, !.done = TRUE]
                     ELSE IF StaysPut(HashForSize(w.slots[i].key, size), w.dst, i)
                          THEN w
                     ELSE [w EXCEPT !.slots[w.dst] = w.slots[i], !.dst = i]
    IN  walk[size].slots

(* mutant: a removal is not counted as a mutation                          *)
RemovedUnnoticed(t, k) ==
    [t EXCEPT !.count = @ - 1, !.slots = CloseGap(@, t.size, FindIndex(t, k))]

Removed(t, k) ==
    Mutated([t EXCEPT !.count = @ - 1,
                      !.slots = CloseGap(@, t.size, FindIndex(t, k))])

-----------------------------------------------------------------------------
(* Insertion and overwriting *)

(* a pair whose key is not in the table yet                                *)
Added(t, pair) ==
    LET room == IF IsFull(t) THEN Grow(t) ELSE t
    IN  Mutated([room EXCEPT !.count = @ + 1,
                             !.slots = StoreKeyValue(@, room.size, pair)])

Replaced(t, pair) == Mutated([t EXCEPT !.slots[FindIndex(t, pair.key)] = pair])

(* the pair the table has for a key, only meaningful if Has(t, k)          *)
PairOf(t, k) == t.slots[FindIndex(t, k)]
=============================================================================
