----------------------------- MODULE PointerMap ------------------------------
(***************************************************************************)
(* mulle__map and mulle__pointermap: hash tables whose key and value       *)
(* callbacks retain what is stored and release what is given up.           *)
(*                                                                         *)
(* Every public operation that writes a map is one action: a map is not    *)
(* shared between threads, and a callback may not write the map that calls *)
(* it (the code asserts so).  What does interleave are the operations on   *)
(* several maps with each other and with an enumerator that is still open. *)
(*                                                                         *)
(* The callbacks are a reference count per owned pointer, refs.  A program *)
(* uses a map with one set of callbacks; with owned = {} they are the nops *)
(* of mulle__pointermap.                                                   *)
(***************************************************************************)
EXTENDS HashTable, Sequences

CONSTANTS
    Map,           \* the maps of the program
    Enumerable,    \* bound: the maps that are enumerated
    Capacities,    \* the capacities maps are created with
    Ownerships,    \* the sets of pointers whose callbacks may retain and release
    Null,          \* NULL: a missing value, or a value when Null \in Value
    None,          \* no map, no result
    Missing,       \* no value for a key, in the dictionaries that maps are
    MaxSize,       \* bound: no operation that would grow a storage beyond it
    MaxMutations   \* bound: no operation on a map that was changed so often

ASSUME PointerMapAssumption ==
    /\ Ownerships \subseteq {{}, Key, Value, Key \cup Value}
    /\ None \notin Map \cup Value \cup {Null}
    /\ Missing \notin Value
    /\ \A size \in 0 .. MaxSize :
           None \notin [size : {size}, count : Nat, slots : [Slot(size) -> Pairs \cup {Hole}],
                        nMutations : Nat]
    /\ None \notin [{Class[k] : k \in Key} -> Value \cup {Missing}]
    /\ Capacities \subseteq Nat
    /\ Enumerable \subseteq Map
    /\ \A c \in Capacities : SizeForCapacity(c) <= MaxSize
    /\ Key \cap Value = {}
    /\ IsFiniteSet(Map)
    /\ MaxSize \in Nat /\ MaxSize >= InitialSize
    /\ MaxMutations \in Nat

VARIABLES
    maps,       \* maps[m]: the table of m, None if m is not initialised
    refs,       \* refs[p]: retains minus releases of pointer p
    dangling,   \* pointers a map was left holding after their last release
    owned,      \* the pointers the program's callbacks retain and release
    rover,      \* the open enumerator, None if there is none
    ret         \* what the last writing operation returned

vars == <<maps, refs, dangling, owned, rover, ret>>

Pointer == Key \cup Value
Live    == {m \in Map : maps[m] # None}

-----------------------------------------------------------------------------
(* Callbacks *)

(* the places where the given tables hold the pointer                      *)
Holders(tables, p) ==
    {h \in Map \X Slot(MaxSize) :
        LET t == tables[h[1]]
        IN  /\ t # None
            /\ h[2] \in Occupied(t)
            /\ p \in {t.slots[h[2]].key, t.slots[h[2]].value}}

Retain(pair)  == <<<<1, pair.key>>, <<1, pair.value>>>>
Release(pair) == <<<<-1, pair.key>>, <<-1, pair.value>>>>

(* release_all: the pairs of a table in enumeration order                  *)
ReleaseAll(t) ==
    LET calls[n \in 0 .. t.size] ==
            IF n = 0 THEN <<>>
            ELSE IF t.slots[n - 1] = Hole THEN calls[n - 1]
            ELSE calls[n - 1] \o Release(t.slots[n - 1])
    IN  calls[t.size]

(* mutant: the old pair goes before the new one is secured                 *)
ReleaseFirst(pair, old) == Release(old) \o Retain(pair)

Exchange(pair, old) == Retain(pair) \o Release(old)

(* The callbacks of an operation, in the order the code calls them, each   *)
(* <<1, p>> for a retain or <<-1, p>> for a release.  A pointer whose      *)
(* count is zero after a release is gone, so a table must not hold it when *)
(* the operation is over.                                                  *)
RunCallbacks(calls, tables) ==
    LET count[n \in 0 .. Len(calls)] ==
            IF n = 0 THEN refs
            ELSE IF calls[n][2] \in owned
            THEN [count[n - 1] EXCEPT ![calls[n][2]] = @ + calls[n][1]]
            ELSE count[n - 1]
        gone == {p \in owned : \E n \in DOMAIN calls :
                                   calls[n] = <<-1, p>> /\ count[n][p] <= 0}
    IN  /\ refs' = count[Len(calls)]
        /\ dangling' = {p \in dangling \cup gone : Holders(tables, p) # {}}
        /\ UNCHANGED owned

(* one operation on map m: its new table, its callbacks, its result        *)
Operate(m, t, calls, result) ==
    LET tables == [maps EXCEPT ![m] = t]
    IN  /\ maps' = tables
        /\ RunCallbacks(calls, tables)
        /\ ret' = result
        /\ UNCHANGED rover

-----------------------------------------------------------------------------
(* write_pair_generic *)

(* What the three modes of a write do to a table.  An existing key is left *)
(* alone by "insert", and by the other modes when the very same pointers   *)
(* are written again; otherwise the new pair is retained before the old    *)
(* one is released.                                                        *)
WritePair(t, pair, mode) ==
    IF ~ Has(t, pair.key)
    THEN [table |-> Added(t, pair), calls |-> Retain(pair), old |-> Null]
    ELSE LET old == PairOf(t, pair.key)
         IN  IF mode = "insert" THEN [table |-> t, calls |-> <<>>, old |-> old.value]
             ELSE IF old = pair THEN [table |-> t, calls |-> <<>>, old |-> Null]
             ELSE [table |-> Replaced(t, pair),
                   calls |-> Exchange(pair, old),
                   old   |-> IF mode = "update" THEN old.value ELSE Null]

(* __get, without the quick check: NULL if the key is not there            *)
GetHashed(t, k) == IF Has(t, k) THEN PairOf(t, k).value ELSE Null

(* pointerequalitysearch: the value of the slot with this very pointer     *)
EqualitySearch(t, k) ==
    LET hits == {i \in Occupied(t) : t.slots[i].key = k}
    IN  IF hits = {} THEN Null
        ELSE t.slots[CHOOSE i \in hits : \A j \in hits : i <= j].value

(* mutant: small tables are only searched for the pointer                  *)
GetPointerOnly(t, k) ==
    IF t.size <= 32 THEN EqualitySearch(t, k) ELSE GetHashed(t, k)

(* get: small tables are searched for the pointer first                    *)
Get(t, k) ==
    IF t.size <= 32 /\ EqualitySearch(t, k) # Null THEN EqualitySearch(t, k)
    ELSE GetHashed(t, k)

(* the debug assertion of next: the map was not modified                   *)
Unmodified(r) == r.nMutations = maps[r.map].nMutations

(* Bounds of the model: the storage, the mutation counter, and after one   *)
(* modification under an open enumerator that is closed before the next.   *)
Bounded(m, n) ==
    /\ rover # None => Unmodified(rover)
    /\ maps[m].nMutations + n <= MaxMutations
    /\ IsFull(maps[m]) => 2 * maps[m].size <= MaxSize

Set(m, pair) ==
    /\ m \in Live /\ Bounded(m, 2)
    /\ LET w == WritePair(maps[m], pair, "overwrite")
       IN  Operate(m, w.table, w.calls, None)

(* 1 if the count went up                                                  *)
Insert(m, pair) ==
    /\ m \in Live /\ Bounded(m, 2)
    /\ LET w == WritePair(maps[m], pair, "insert")
       IN  Operate(m, w.table, w.calls,
                   IF w.table.count # maps[m].count THEN 1 ELSE 0)

(* the value now in the map: the new one if the count went up              *)
Register(m, pair) ==
    /\ m \in Live /\ Bounded(m, 2)
    /\ LET w == WritePair(maps[m], pair, "insert")
       IN  Operate(m, w.table, w.calls,
                   IF w.table.count # maps[m].count THEN pair.value
                   ELSE Get(w.table, pair.key))

(* only for values that are not released                                   *)
Update(m, pair) ==
    /\ m \in Live /\ Bounded(m, 2)
    /\ Value \cap owned = {}
    /\ LET w == WritePair(maps[m], pair, "update")
       IN  Operate(m, w.table, w.calls, w.old)

Remove(m, k) ==
    /\ m \in Live /\ Bounded(m, 1)
    /\ IF Has(maps[m], k)
       THEN Operate(m, Removed(maps[m], k), Release(PairOf(maps[m], k)), 1)
       ELSE Operate(m, maps[m], <<>>, 0)

ShrinkMap(m) ==
    /\ m \in Live /\ Bounded(m, 1)
    /\ Operate(m, ShrinkIfNeeded(maps[m]), <<>>, None)

-----------------------------------------------------------------------------
(* Setup, takedown, copying *)

Create(m, capacity) ==
    /\ maps[m] = None
    /\ Operate(m, NewTable(capacity), <<>>, None)

(* An enumerator must not outlive its map, so an open one is closed.       *)
Done(m) ==
    /\ m \in Live
    /\ maps' = [maps EXCEPT ![m] = None]
    /\ RunCallbacks(ReleaseAll(maps[m]), maps')
    /\ ret' = None
    /\ rover' = IF rover # None /\ rover.map = m THEN None ELSE rover

(* mutant: the storage goes, the references stay                           *)
ResetLeaking(m) ==
    /\ m \in Live /\ Bounded(m, 1)
    /\ Operate(m, [NewTable(0) EXCEPT !.nMutations = maps[m].nMutations + 1],
               <<>>, None)

(* mulle__map_reset: done and init, with the mutation counter carried over *)
Reset(m) ==
    /\ m \in Live /\ Bounded(m, 1)
    /\ IF maps[m].count = 0 THEN Operate(m, maps[m], <<>>, None)
       ELSE Operate(m, [NewTable(0) EXCEPT !.nMutations = maps[m].nMutations + 1],
                    ReleaseAll(maps[m]), None)

(* mulle__pointermap_reset: keeps the storage; no callbacks                *)
ResetPointermap(m) ==
    /\ m \in Live /\ Bounded(m, 1)
    /\ owned = {}
    /\ Operate(m, Mutated([maps[m] EXCEPT !.count = 0,
                                          !.slots = EmptySlots(maps[m].size)]),
               <<>>, None)

(* mutant: the enumeration that copies misses the last slot                *)
CopiedItemsShort(dst, src) ==
    LET copied[n \in 0 .. src.size] ==
            IF n = 0 THEN [table |-> dst, calls |-> <<>>]
            ELSE IF src.slots[n - 1] = Hole THEN copied[n - 1]
            ELSE LET c == copied[n - 1]
                     w == WritePair(c.table, src.slots[n - 1], "overwrite")
                 IN  [table |-> w.table, calls |-> c.calls \o w.calls]
    IN  copied[IF src.size = 0 THEN 0 ELSE src.size - 1]

(* every pair of src set in dst, in enumeration order                      *)
CopiedItems(dst, src) ==
    LET copied[n \in 0 .. src.size] ==
            IF n = 0 THEN [table |-> dst, calls |-> <<>>]
            ELSE IF src.slots[n - 1] = Hole THEN copied[n - 1]
            ELSE LET c == copied[n - 1]
                     w == WritePair(c.table, src.slots[n - 1], "overwrite")
                 IN  [table |-> w.table, calls |-> c.calls \o w.calls]
    IN  copied[src.size]

CopyItems(dst, src) ==
    /\ dst \in Live /\ src \in Live /\ dst # src
    /\ LET c == CopiedItems(maps[dst], maps[src])
       IN  /\ c.table.size <= MaxSize /\ c.table.nMutations <= MaxMutations
           /\ Operate(dst, c.table, c.calls, None)

(* mulle__map_copy: create with the count as capacity, then copy_items     *)
Copy(dst, src) ==
    /\ maps[dst] = None /\ src \in Live
    /\ LET c == CopiedItems(NewTable(maps[src].count), maps[src])
       IN  /\ c.table.size <= MaxSize /\ c.table.nMutations <= MaxMutations
           /\ Operate(dst, c.table, c.calls, None)

-----------------------------------------------------------------------------
(* Enumeration *)

Enumerate(m) ==
    /\ m \in Live \cap Enumerable
    /\ rover' = [map |-> m, left |-> maps[m].count, curr |-> 0,
                 nMutations |-> maps[m].nMutations, seen |-> <<>>]
    /\ UNCHANGED <<maps, refs, dangling, owned, ret>>

(* Next: walk past the holes to the next pair; seen is the history of what *)
(* was returned.  Running off the storage is a pair None.                  *)
EnumerateNext ==
    /\ rover # None /\ rover.left # 0
    /\ Unmodified(rover)
    /\ LET t    == maps[rover.map]
           rest == {i \in Occupied(t) : i >= rover.curr}
           i    == CHOOSE i \in rest : \A j \in rest : i <= j
       IN  rover' = IF rest = {}
                    THEN [rover EXCEPT !.left = @ - 1, !.curr = t.size + 1,
                                       !.seen = Append(@, None)]
                    ELSE [rover EXCEPT !.left = @ - 1, !.curr = i + 1,
                                       !.seen = Append(@, t.slots[i])]
    /\ UNCHANGED <<maps, refs, dangling, owned, ret>>

(* the end of a loop, exhausted or left early                              *)
EnumerateDone ==
    /\ rover # None
    /\ rover' = None
    /\ UNCHANGED <<maps, refs, dangling, owned, ret>>

-----------------------------------------------------------------------------
Init ==
    /\ maps = [m \in Map |-> None]
    /\ refs = [p \in Pointer |-> 0]
    /\ dangling = {}
    /\ owned \in Ownerships
    /\ rover = None
    /\ ret = None

Next ==
    \/ \E m \in Map, c \in Capacities : Create(m, c)
    \/ \E m \in Map : Done(m)
    \/ \E m \in Map, pair \in Pairs : Set(m, pair)
    \/ \E m \in Map, pair \in Pairs : Insert(m, pair)
    \/ \E m \in Map, pair \in Pairs : Register(m, pair)
    \/ \E m \in Map, pair \in Pairs : Update(m, pair)
    \/ \E m \in Map, k \in Key : Remove(m, k)
    \/ \E m \in Map : ShrinkMap(m)
    \/ \E m \in Map : Reset(m)
    \/ \E m \in Map : ResetPointermap(m)
    \/ \E dst, src \in Map : CopyItems(dst, src)
    \/ \E dst, src \in Map : Copy(dst, src)
    \/ \E m \in Map : Enumerate(m)
    \/ EnumerateNext
    \/ EnumerateDone

Spec == Init /\ [][Next]_vars

-----------------------------------------------------------------------------
(* The dictionary a table is *)

Classes == {Class[k] : k \in Key}

Dict(t) ==
    [c \in Classes |->
        LET held == {i \in Occupied(t) : Class[t.slots[i].key] = c}
        IN  IF held = {} THEN Missing ELSE t.slots[CHOOSE i \in held : TRUE].value]

Dicts == [m \in Map |-> IF maps[m] = None THEN None ELSE Dict(maps[m])]

Abstract == INSTANCE AbstractMap WITH Class <- Classes, dict <- Dicts, ret <- ret

-----------------------------------------------------------------------------
(* Type invariant: sizes are 0 or powers of two, the reference counts are  *)
(* counts, results are what the operations can return.                     *)
TypeOK ==
    /\ \A m \in Live :
        LET t == maps[m]
        IN  /\ t.size = 0 \/ \E e \in 2 .. MaxSize : t.size = Power[e]
            /\ t.size <= MaxSize
            /\ t.slots \in [Slot(t.size) -> Pairs \cup {Hole}]
            /\ t.count \in 0 .. t.size
            /\ t.nMutations \in 0 .. MaxMutations
    /\ refs \in [Pointer -> 0 .. Cardinality(Map) * MaxSize]
    /\ dangling \subseteq owned /\ owned \in Ownerships
    /\ rover # None => rover.map \in Live
    /\ ret \in Value \cup {0, 1, Null, None}

(* The probe for a stored key ends at the slot that holds it.  A gap in a  *)
(* chain, a pair moved before its home or a second equal key (what insert, *)
(* rehash and the deletion loop of remove_generic must avoid) breaks it.   *)
ProbeChains ==
    \A m \in Live : \A i \in Occupied(maps[m]) :
        FindIndex(maps[m], maps[m].slots[i].key) = i

(* _count is the number of stored pairs, a storage is never without a hole *)
(* (which is what ends an unsuccessful probe), and a smaller one that it   *)
(* may be exchanged for has room for at least one more pair, so that       *)
(* shrinking and growing do not alternate.                                 *)
HoleRemains ==
    \A m \in Live :
        LET shrunk == ShrinkIfNeeded(maps[m])
        IN  /\ maps[m].count = Cardinality(Occupied(maps[m]))
            /\ maps[m].size # 0 => maps[m].count < maps[m].size
            /\ shrunk.size \in 1 .. maps[m].size - 1 => ~ IsFull(shrunk)

(* get (which looks for the pointer first) and __get (which only hashes)   *)
(* return the same value, for every pointer equal to a stored key and for  *)
(* every absent key.                                                       *)
LookupsAgree ==
    \A m \in Live, k \in Key :
        LET equal == {i \in Occupied(maps[m]) : IsEqual(maps[m].slots[i].key, k)}
            value == IF equal = {} THEN Null
                     ELSE maps[m].slots[CHOOSE i \in equal : TRUE].value
        IN  Get(maps[m], k) = value /\ GetHashed(maps[m], k) = value

(* A pointer has been retained once for each place that holds it: nothing  *)
(* leaks and nothing is released twice, whatever the maps went through.    *)
OwnershipExact == \A p \in owned : refs[p] = Cardinality(Holders(maps, p))

(* No operation releases the last reference of a pointer a map still holds *)
(* afterwards: write_pair_generic retains before it releases, so setting   *)
(* the value a map already has never frees that value.                     *)
NoDangling == dangling = {}

(* The mutation counter protects an enumerator: as long as the assertion   *)
(* in next holds, the pairs it has returned and the pairs still in front   *)
(* of it are exactly the pairs of the map, each once, and it cannot run    *)
(* off the storage.                                                        *)
EnumeratorComplete ==
    rover # None /\ Unmodified(rover) =>
        LET t    == maps[rover.map]
            rest == {i \in Occupied(t) : i >= rover.curr}
            seen == {rover.seen[n] : n \in DOMAIN rover.seen}
        IN  /\ rover.left = Cardinality(rest)
            /\ Len(rover.seen) + rover.left = t.count
            /\ seen \cup {t.slots[i] : i \in rest} = {t.slots[i] : i \in Occupied(t)}

(* The word behind get_mutation_pointer changes, and only grows, whenever  *)
(* what the map holds or where it holds it changes.                        *)
MutationsVisible ==
    [][\A m \in Live : maps'[m] # None /\ maps'[m].slots # maps[m].slots
           => maps'[m].nMutations > maps[m].nMutations]_vars

(* A map is a dictionary: every operation on the table has the effect and  *)
(* the result of an operation on a partial function from keys to values.   *)
RefinesAbstractMap == Abstract!Spec
=============================================================================
