----------------------------- MODULE PointerSet ------------------------------
(***************************************************************************)
(* mulle__set and mulle__pointerset: sets of pointers in a probed table.   *)
(*                                                                         *)
(* The source repeats the table of the map without the values, so this     *)
(* module is a model of its own: what differs is the storage a caller can  *)
(* lend, and union and intersection, which build their result in a         *)
(* temporary set with a storage of their own measure.                      *)
(*                                                                         *)
(* Such a storage can be too small to keep a hole, and then a probe does   *)
(* not end; or too small to be allocated, which an assertion forbids.      *)
(* status says whether that has happened.  The callbacks are a reference   *)
(* count per owned pointer, and the storages malloc gave are counted as    *)
(* references to Storage.                                                  *)
(***************************************************************************)
EXTENDS Powers, FiniteSets, Sequences

CONSTANTS
    Key,               \* pointers that are stored and looked up
    Class,             \* Class[k]: keys are is_equal iff they have the same class
    Hash,              \* Hash[k]: what the hash callback returns
    Hole,              \* notakey, the content of an empty slot
    SetId,             \* the sets of the program
    Capacities,        \* the capacities sets are initialised with
    StaticCapacities,  \* the capacities of the storages callers lend
    Owned,             \* the pointers whose callbacks retain and release
    Storage,           \* stands for all the storages of malloc
    None,              \* no set, no result
    Running, Hung, Aborted,
    MaxSize,           \* bound: storages have MaxSize[n] slots when there are n sets
    Shared             \* bound: the keys used while there is more than one set

ASSUME PointerSetAssumption ==
    /\ DOMAIN Class = Key
    /\ Hash \in [Key -> Nat]
    /\ \A k, l \in Key : Class[k] = Class[l] => Hash[k] = Hash[l]
    /\ Owned \in {{}, Key}
    /\ {Hole, Storage, None} \cap Key = {}
    /\ Cardinality({Running, Hung, Aborted}) = 3
    /\ None \notin SetId \cup {Hole} /\ \A keys \in SUBSET Key : keys # None
    /\ IsFiniteSet(SetId)
    /\ MaxSize[1] \in Nat
    /\ \A n \in 1 .. Cardinality(SetId) : MaxSize[n] \in 0 .. MaxSize[1]
    /\ \A size \in 0 .. MaxSize[1] :
           None \notin [size : {size}, count : Nat, slots : [0 .. size - 1 -> Key \cup {Hole}],
                        initial : BOOLEAN]
    /\ Capacities \cup StaticCapacities \subseteq Nat

VARIABLES
    sets,       \* sets[s]: the table of s, None if s is not initialised
    refs,       \* refs[p]: retains minus releases, mallocs minus frees
    dangling,   \* pointers a set was left holding after their last release
    ret,        \* what the last operation returned
    moved,      \* the set whose mutation counter the last operation raised
    status      \* Hung in an endless probe, or Aborted by an assertion

vars == <<sets, refs, dangling, ret, moved, status>>

Live == {s \in SetId : sets[s] # None}

InitialSize == 4
MinSize     == 4

Slot(size) == 0 .. size - 1

-----------------------------------------------------------------------------
(* The table *)

IsEqual(k, l) == Class[k] = Class[l]

HashForSize(k, size) == (2 * (Hash[k] \div 2)) % size

(* mutant: no hole is reserved                                             *)
FillLimitWhole(size) == size

(* full when three quarters of the slots are taken                         *)
FillLimit(size) == size - (size \div 4)

IsFull(t) == t.count >= FillLimit(t.size)

IsSparseSize(t, size) == t.count < FillLimit(size \div 2)

Blank(size) == [i \in Slot(size) |-> Hole]

(* an empty set; initial says that its storage belongs to the caller       *)
Table(size, initial) ==
    [size |-> size, count |-> 0, slots |-> Blank(size), initial |-> initial]

Occupied(t) == {i \in Slot(t.size) : t.slots[i] # Hole}

(* the d-th slot the probe for k looks at                                  *)
ProbeSlot(k, size, d) == (HashForSize(k, size) + d) % size

(* the first of these slots on the probe for k                             *)
FirstProbe(k, size, stops) ==
    ProbeSlot(k, size, CHOOSE d \in Slot(size) :
        /\ ProbeSlot(k, size, d) \in stops
        /\ \A e \in 0 .. d - 1 : ProbeSlot(k, size, e) \notin stops)

(* the slots where a probe ends: holes, and keys that are equal            *)
Stops(slots, size, k) == {i \in Slot(size) : slots[i] = Hole \/ IsEqual(slots[i], k)}

(* a table without entries is not probed at all                            *)
ProbeEnds(t, k) ==
    t.count # 0 =>
        \E d \in Slot(t.size) : ProbeSlot(k, t.size, d) \in Stops(t.slots, t.size, k)

FindIndex(t, k) == FirstProbe(k, t.size, Stops(t.slots, t.size, k))

Has(t, k) == t.count # 0 /\ t.slots[FindIndex(t, k)] # Hole

(* store_pointer_generic: into the first hole of the probe                 *)
StorePointer(slots, size, k) ==
    LET holes == {i \in Slot(size) : slots[i] = Hole}
    IN  [slots EXCEPT ![FirstProbe(k, size, holes)] = k]

(* copy_storage_generic: all keys of t, in slot order, into a new storage  *)
CopyStorage(t, size) ==
    LET copied[n \in 0 .. t.size] ==
            IF n = 0 THEN Blank(size)
            ELSE IF t.slots[n - 1] = Hole THEN copied[n - 1]
            ELSE StorePointer(copied[n - 1], size, t.slots[n - 1])
    IN  copied[t.size]

Rehash(t, size) ==
    [t EXCEPT !.size = size, !.slots = CopyStorage(t, size), !.initial = FALSE]

(* Whether the pointer at slot i, whose probe starts at home, must not be  *)
(* moved to the gap at dst.                                                *)
StaysPut(home, dst, i) ==
    IF home > i THEN dst > i /\ home > dst ELSE dst > i \/ home > dst

(* The loop of remove_generic behind the freed slot.  It ends at a hole.   *)
CloseGap(slots, size, found) ==
    LET walk[n \in 0 .. size] ==
            IF n = 0 THEN [slots |-> slots, dst |-> found, done |-> FALSE]
            ELSE LET w == walk[n - 1]
                     i == (found + n) % size
                 IN  IF w.done THEN w
                     ELSE IF w.slots[i] = Hole
                          THEN [w EXCEPT !.slots[w.dst] = Hole, !.done = TRUE]
                     ELSE IF StaysPut(HashForSize(w.slots[i], size), w.dst, i) THEN w
                     ELSE [w EXCEPT !.slots[w.dst] = w.slots[i], !.dst = i]
    IN  walk[size].slots

-----------------------------------------------------------------------------
(* Runs: the table an operation leaves, the calls it makes of callbacks    *)
(* and allocator, in order, what it returns, whether it raised the         *)
(* mutation counter, and whether it ended.  The counter's value is left    *)
(* out: all that is ever asked of it is whether it is still the same.      *)

Run(t, calls, result) ==
    [table |-> t, calls |-> calls, ret |-> result, mutated |-> FALSE, status |-> Running]

Mutated(run) == [run EXCEPT !.mutated = TRUE]

Stopped(how) == [Run(None, <<>>, None) EXCEPT !.status = how]

HasStopped(run) == run.status # Running

(* the operation goes on with what next does to the table that run left    *)
Then(run, next) ==
    [next EXCEPT !.calls = run.calls \o @, !.mutated = @ \/ run.mutated]

Retain(p)  == <<1, p>>
Release(p) == <<-1, p>>

Alloc   == <<Retain(Storage)>>

(* a storage is freed unless there is none or it is the caller's           *)
Free(t) == IF t.size = 0 \/ t.initial THEN <<>> ELSE <<Release(Storage)>>

(* the keys of a table in the order of an enumeration                      *)
ReleaseAll(t) ==
    LET calls[n \in 0 .. t.size] ==
            IF n = 0 THEN <<>>
            ELSE IF t.slots[n - 1] = Hole THEN calls[n - 1]
            ELSE Append(calls[n - 1], Release(t.slots[n - 1]))
    IN  calls[t.size]

(* allocate_storage_generic asserts that there are at least two slots      *)
Allocated(size) ==
    IF size < 2 THEN Stopped(Aborted) ELSE Run(Table(size, FALSE), Alloc, None)

Resized(t, size) == Mutated(Run(Rehash(t, size), Alloc \o Free(t), None))

Grown(t) == Resized(t, IF t.size = 0 THEN InitialSize ELSE 2 * t.size)

ShrunkSize(t) ==
    LET halved[n \in 0 .. t.size] ==
            IF n = 0 THEN t.size \div 2
            ELSE IF halved[n - 1] >= InitialSize /\ IsSparseSize(t, halved[n - 1])
                 THEN halved[n - 1] \div 2
                 ELSE halved[n - 1]
    IN  IF halved[t.size] < InitialSize THEN InitialSize ELSE halved[t.size]

(* a key that is not in the table yet                                      *)
Added(t, k) ==
    LET room == IF IsFull(t) THEN Grown(t) ELSE Run(t, <<>>, None)
    IN  Then(room,
             Mutated(Run([room.table EXCEPT
                             !.count = @ + 1,
                             !.slots = StorePointer(@, room.table.size, k)],
                         <<Retain(k)>>, Hole)))

Replaced(t, k, old) ==
    Mutated(Run([t EXCEPT !.slots[FindIndex(t, k)] = k],
                <<Retain(k), Release(old)>>, old))

(* write_generic: returns the key that was there, or Hole                  *)
WriteKey(t, k, mode) ==
    IF ~ ProbeEnds(t, k) THEN Stopped(Hung)
    ELSE IF ~ Has(t, k) THEN Added(t, k)
    ELSE LET old == t.slots[FindIndex(t, k)]
         IN  IF mode = "insert" THEN Run(t, <<>>, old)
             ELSE IF old = k THEN Run(t, <<>>, Hole)
             ELSE Replaced(t, k, old)

SetItem(run, k) ==
    IF HasStopped(run) THEN run
    ELSE [Then(run, WriteKey(run.table, k, "overwrite")) EXCEPT !.ret = None]

(* every key in the cells, in the order of an enumeration, set in the      *)
(* table that run left                                                     *)
SetItems(run, cells, size) ==
    LET set[n \in 0 .. size] ==
            IF n = 0 THEN run
            ELSE IF cells[n - 1] = Hole THEN set[n - 1]
            ELSE SetItem(set[n - 1], cells[n - 1])
    IN  set[size]

Common(a, b) ==
    [i \in Slot(a.size) |-> IF i \in Occupied(a) /\ Has(b, a.slots[i]) THEN a.slots[i] ELSE Hole]

(* the temporary set of intersect: as large as a                           *)
Intersection(a, b) ==
    IF a = None \/ b = None THEN Run(Table(0, FALSE), <<>>, None)
    ELSE IF a.size < 2 THEN Stopped(Aborted)
    ELSE IF \E i \in Occupied(a) : ~ ProbeEnds(b, a.slots[i]) THEN Stopped(Hung)
    ELSE SetItems(Allocated(a.size), Common(a, b), a.size)

CountOf(a) == IF a = None THEN 0 ELSE a.count

SetAll(run, a) == IF a = None THEN run ELSE SetItems(run, a.slots, a.size)

(* The temporary set of union: the sum of the counts, rounded up, without  *)
(* the holes and the least size that init sees to.                         *)
UnionOf(a, b) ==
    IF a = None /\ b = None THEN Run(Table(0, FALSE), <<>>, None)
    ELSE SetAll(SetAll(Allocated(Pow2Round(CountOf(a) + CountOf(b))), a), b)

(* mutant: dst is emptied before the temporary set is built                *)
SwapEarly(old, run) ==
    IF HasStopped(run) THEN run
    ELSE Mutated(Run(run.table, ReleaseAll(old) \o Free(old) \o run.calls, None))

(* mutant: the counter of dst starts over with the temporary set           *)
SwapUnnoticed(old, run) ==
    IF HasStopped(run) THEN run
    ELSE Run(run.table, run.calls \o ReleaseAll(old) \o Free(old), None)

(* The temporary set takes the place of dst, whose keys and storage go and *)
(* whose counter is carried on.                                            *)
Swap(old, run) ==
    IF HasStopped(run) THEN run
    ELSE Mutated(Run(run.table, run.calls \o ReleaseAll(old) \o Free(old), None))

-----------------------------------------------------------------------------
(* Operations *)

Holders(tables, p) ==
    {s \in SetId : tables[s] # None /\ \E i \in Occupied(tables[s]) : tables[s].slots[i] = p}

(* The calls of an operation, each <<1, p>> for a retain or <<-1, p>> for  *)
(* a release.  A pointer that had its last release is gone, so no set may  *)
(* hold it when the operation is over.                                     *)
MakeCalls(calls, tables) ==
    LET count[n \in 0 .. Len(calls)] ==
            IF n = 0 THEN refs
            ELSE IF calls[n][2] \in Owned \cup {Storage}
            THEN [count[n - 1] EXCEPT ![calls[n][2]] = @ + calls[n][1]]
            ELSE count[n - 1]
        gone == {p \in Owned : \E n \in DOMAIN calls :
                                   calls[n] = <<-1, p>> /\ count[n][p] <= 0}
    IN  /\ refs' = count[Len(calls)]
        /\ dangling' = {p \in dangling \cup gone : Holders(tables, p) # {}}

(* bounds of the model, for the sets there are after an operation on s     *)
Bounded(s, tables) ==
    LET live == Live \cup {s}
    IN  \A m \in live :
            /\ tables[m].size <= MaxSize[Cardinality(live)]
            /\ Cardinality(live) > 1 =>
                   {tables[m].slots[i] : i \in Occupied(tables[m])} \subseteq Shared

(* One operation on s.  One that stops leaves no state anyone could        *)
(* observe.  (The quantifier has TLC evaluate a run once.)                 *)
Operate(s, operation) ==
    /\ status = Running
    /\ \E run \in {operation} :
        IF HasStopped(run)
        THEN status' = run.status /\ UNCHANGED <<sets, refs, dangling, ret, moved>>
        ELSE /\ sets' = [sets EXCEPT ![s] = run.table]
             /\ Bounded(s, sets')
             /\ MakeCalls(run.calls, sets')
             /\ ret' = run.ret
             /\ moved' = IF run.mutated THEN s ELSE None
             /\ UNCHANGED status

(* mulle__set_init: never without a storage                                *)
SizeForCapacity(capacity) ==
    IF capacity >= MinSize THEN Pow2Round(capacity + (capacity \div 4)) ELSE MinSize

Create(s, capacity) ==
    /\ sets[s] = None
    /\ Operate(s, Allocated(SizeForCapacity(capacity)))

(* mulle__pointerset_init, and a set that is only zeroed (MULLE_SET_DATA)  *)
PointersetRun(capacity) ==
    IF capacity = 0 THEN Run(Table(0, FALSE), <<>>, None)
    ELSE Allocated(SizeForCapacity(capacity))

CreatePointerset(s, capacity) ==
    /\ sets[s] = None
    /\ Operate(s, PointersetRun(capacity))

(* Lent storage is rounded down to a power of two, but initialising it     *)
(* asserts that its capacity is one, and it may not be smaller than 4.     *)
InitWithStaticPointers(s, capacity) ==
    /\ sets[s] = None
    /\ Operate(s, IF capacity >= MinSize /\ capacity = Pow2Round(capacity)
                  THEN Run(Table(capacity, TRUE), <<>>, None)
                  ELSE Stopped(Aborted))

Done(s) ==
    /\ status = Running
    /\ s \in Live
    /\ sets' = [sets EXCEPT ![s] = None]
    /\ MakeCalls(ReleaseAll(sets[s]) \o Free(sets[s]), sets')
    /\ ret' = None
    /\ moved' = None
    /\ UNCHANGED status

(* keeps the storage, and counts as a mutation even of an empty set        *)
Reset(s) ==
    /\ s \in Live
    /\ Operate(s, Mutated(Run([sets[s] EXCEPT !.count = 0,
                                              !.slots = Blank(sets[s].size)],
                              ReleaseAll(sets[s]), None)))

Set(s, k) ==
    /\ s \in Live
    /\ LET w == WriteKey(sets[s], k, "overwrite")
       IN  Operate(s, [w EXCEPT !.ret = None])

Insert(s, k) ==
    /\ s \in Live
    /\ LET w == WriteKey(sets[s], k, "insert")
       IN  Operate(s, [w EXCEPT !.ret = IF @ = Hole THEN 1 ELSE 0])

(* the key that is now in the set                                          *)
Register(s, k) ==
    /\ s \in Live
    /\ LET w == WriteKey(sets[s], k, "insert")
       IN  Operate(s, [w EXCEPT !.ret = IF @ = Hole THEN k ELSE @])

(* get: small tables are searched for the very pointer first               *)
Get(t, k) ==
    IF t.count = 0 THEN Hole
    ELSE IF t.size <= 32 /\ \E i \in Occupied(t) : t.slots[i] = k THEN k
    ELSE t.slots[FindIndex(t, k)]

Lookup(s, k) ==
    /\ s \in Live
    /\ Operate(s, IF ProbeEnds(sets[s], k) THEN Run(sets[s], <<>>, Get(sets[s], k))
                                           ELSE Stopped(Hung))

(* mutant: the freed slot becomes a hole and nothing moves up              *)
RemovedInPlace(t, k) ==
    Mutated(Run([t EXCEPT !.count = @ - 1, !.slots[FindIndex(t, k)] = Hole],
                <<Release(t.slots[FindIndex(t, k)])>>, 1))

(* without a hole, the loop that closes the gap does not end               *)
Removed(t, k) ==
    IF Cardinality(Occupied(t)) = t.size THEN Stopped(Hung)
    ELSE Mutated(Run([t EXCEPT !.count = @ - 1,
                               !.slots = CloseGap(@, t.size, FindIndex(t, k))],
                     <<Release(t.slots[FindIndex(t, k)])>>, 1))

Remove(s, k) ==
    /\ s \in Live
    /\ Operate(s, IF ~ ProbeEnds(sets[s], k) THEN Stopped(Hung)
                  ELSE IF Has(sets[s], k) THEN Removed(sets[s], k)
                  ELSE Run(sets[s], <<>>, 0))

ShrinkIfNeeded(s) ==
    /\ s \in Live
    /\ LET t == sets[s]
       IN  Operate(s, IF IsSparseSize(t, t.size) /\ ShrunkSize(t) < t.size
                      THEN Resized(t, ShrunkSize(t))
                      ELSE Run(t, <<>>, None))

CopyItems(dst, src) ==
    /\ dst \in Live /\ src \in Live
    /\ Operate(dst, SetAll(Run(sets[dst], <<>>, None), sets[src]))

Copy(dst, src) ==
    /\ sets[dst] = None /\ src \in Live
    /\ Operate(dst, SetAll(Allocated(SizeForCapacity(sets[src].count)), sets[src]))

(* The copy of a pointerset, which passes the callback that owns nothing:  *)
(* Owned = {}.  With owned keys this is a set whose storage a pointerset's *)
(* create made, and that copy_items filled with the callback of the sets.  *)
CopyPointerset(dst, src) ==
    /\ sets[dst] = None /\ src \in Live
    /\ Operate(dst, SetAll(PointersetRun(sets[src].count), sets[src]))

(* an operand of a union or intersection can be NULL                       *)
Operands == Live \cup {None}
TableOf(a) == IF a = None THEN None ELSE sets[a]

Intersect(dst, a, b) ==
    /\ dst \in Live /\ {a, b} \subseteq Operands
    /\ Operate(dst, Swap(sets[dst], Intersection(TableOf(a), TableOf(b))))

Union(dst, a, b) ==
    /\ dst \in Live /\ {a, b} \subseteq Operands
    /\ Operate(dst, Swap(sets[dst], UnionOf(TableOf(a), TableOf(b))))

-----------------------------------------------------------------------------
Init ==
    /\ sets = [s \in SetId |-> None]
    /\ refs = [p \in Key \cup {Storage} |-> 0]
    /\ dangling = {}
    /\ ret = None
    /\ moved = None
    /\ status = Running

Next ==
    \/ \E s \in SetId, c \in Capacities : Create(s, c)
    \/ \E s \in SetId, c \in Capacities : CreatePointerset(s, c)
    \/ \E s \in SetId, c \in StaticCapacities : InitWithStaticPointers(s, c)
    \/ \E s \in SetId : Done(s)
    \/ \E s \in SetId : Reset(s)
    \/ \E s \in SetId, k \in Key : Set(s, k)
    \/ \E s \in SetId, k \in Key : Insert(s, k)
    \/ \E s \in SetId, k \in Key : Register(s, k)
    \/ \E s \in SetId, k \in Key : Lookup(s, k)
    \/ \E s \in SetId, k \in Key : Remove(s, k)
    \/ \E s \in SetId : ShrinkIfNeeded(s)
    \/ \E dst, src \in SetId : CopyItems(dst, src)
    \/ \E dst, src \in SetId : Copy(dst, src)
    \/ \E dst, src \in SetId : CopyPointerset(dst, src)
    \/ \E dst \in SetId, a, b \in Operands : Intersect(dst, a, b)
    \/ \E dst \in SetId, a, b \in Operands : Union(dst, a, b)

Spec == Init /\ [][Next]_vars

-----------------------------------------------------------------------------
(* Type invariant: storages are powers of two, results are pointers of the *)
(* caller or flags.  And a key is retained once for each set that holds    *)
(* it, each storage of malloc belongs to one set: neither the temporary    *)
(* set of a union that is also an operand, nor growing out of a lent       *)
(* storage leaks or frees twice.  No set is left holding a key whose last  *)
(* reference is gone.                                                      *)
OwnershipExact ==
    /\ \A s \in Live :
        LET t == sets[s]
        IN  /\ t.size \in {0} \cup {Power[e] : e \in 1 .. MaxSize[1]} /\ t.size <= MaxSize[1]
            /\ t.slots \in [Slot(t.size) -> Key \cup {Hole}]
            /\ t.count = Cardinality(Occupied(t))
            /\ t.initial => t.size \in StaticCapacities
    /\ refs \in [Key \cup {Storage} -> 0 .. Cardinality(SetId)]
    /\ ret \in Key \cup {0, 1, Hole, None}
    /\ moved \in Live \cup {None}
    /\ status \in {Running, Hung, Aborted}
    /\ \A p \in Owned : refs[p] = Cardinality(Holders(sets, p))
    /\ refs[Storage] = Cardinality({s \in Live : sets[s].size # 0 /\ ~ sets[s].initial})
    /\ dangling = {}

(* A storage of init, growing or shrinking keeps a hole, so that an        *)
(* endless probe can only be in a set a union has made smaller than init   *)
(* ever would.                                                             *)
OnlyTinyTablesHang ==
    /\ \A s \in Live : sets[s].size >= MinSize => sets[s].count <= FillLimit(sets[s].size)
    /\ status = Hung => \E s \in Live : sets[s].size \in 1 .. MinSize - 1

(* The counter behind get_mutation_pointer grows whenever what a set holds *)
(* or where it holds it changes, a union or intersection that swaps the    *)
(* whole set included.                                                     *)
MutationsVisible ==
    [][\A s \in Live : sets'[s] # None /\ sets'[s].slots # sets[s].slots => moved' = s]_vars

(* the keys of every set                                                   *)
Families ==
    [s \in SetId |->
        IF sets[s] = None THEN None ELSE {sets[s].slots[i] : i \in Occupied(sets[s])}]

Abstract == INSTANCE SetFamily WITH held <- Families, ret <- ret

(* A set is a set up to is_equal: whatever storages the operations leave,  *)
(* each has the effect and the result of the operation on sets of keys,    *)
(* with dst among the operands of a union or intersection or not.          *)
RefinesSetFamily == Abstract!Spec

(* What src/set/mulle--set.c:58 says: a set needs a hole to find an end,   *)
(* and so it can not be smaller than four items.                           *)
EndIsFound == \A s \in Live : sets[s].count # 0 => sets[s].count < sets[s].size
=============================================================================
