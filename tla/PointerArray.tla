---------------------------- MODULE PointerArray -----------------------------
(***************************************************************************)
(* mulle__pointerarray: a growing array of pointers.  An array is a record *)
(* of                                                                      *)
(*                                                                         *)
(*   items      what lies between _storage and _curr                       *)
(*   size       _sentinel - _storage, the capacity                         *)
(*   storage    what _storage points to: NULL, a malloc'ed block, memory   *)
(*              that the caller lent; Moved if the operation allocates it  *)
(*   initial    what _initial_storage points to                            *)
(*   mutations  how often the operation has bumped _n_mutations            *)
(*   freed      what the operation has passed to realloc or to free        *)
(*                                                                         *)
(* The operators are the functions of the C file: they map the array a     *)
(* function gets to the array it leaves.  Who frees which block, when      *)
(* storage # Moved becomes Moved, is the business of ArrayHeap.            *)
(***************************************************************************)
EXTENDS Slices, FiniteSets

CONSTANTS
    NULL,
    Moved,            \* the storage an operation gets from malloc or realloc
    NotFound,         \* mulle_not_found_e
    MinCapacity       \* what a realloc allocates at least

ASSUME PointerArrayAssumption ==
    /\ Moved # NULL
    /\ NotFound \notin Nat
    /\ MinCapacity \in Nat \ {0}

Count(a) == Len(a.items)
Bump(a)  == [a EXCEPT !.mutations = @ + 1]

-----------------------------------------------------------------------------
(* Memory *)

(* init: malloc only if there is a capacity                                *)
Fresh(capacity) ==
    [items |-> <<>>, size |-> capacity,
     storage |-> IF capacity = 0 THEN NULL ELSE Moved,
     initial |-> NULL, mutations |-> 0, freed |-> {}]

(* init_with_static_pointers: the storage is the caller's                  *)
FreshStatic(storage, capacity) ==
    [items |-> <<>>, size |-> capacity, storage |-> storage,
     initial |-> storage, mutations |-> 0, freed |-> {}]

(* done frees the storage unless it is the one that was lent               *)
Done(a) ==
    Bump(IF a.storage = a.initial THEN a ELSE [a EXCEPT !.freed = @ \cup {a.storage}])

(* A mutant: an enumerator keeps reading the old storage.                  *)
ReallocSilently(a, size) ==
    [a EXCEPT !.size = Max2(Pow2Round(size), MinCapacity), !.storage = Moved,
              !.freed = IF a.storage = a.initial THEN @ ELSE @ \cup {a.storage}]

(* realloc, of at least MinCapacity and a power of two: a lent storage is  *)
(* copied to malloc'ed memory.  _n_mutations moves on, an enumerator would *)
(* get garbage.                                                            *)
Realloc(a, size) ==
    Bump([a EXCEPT !.size = Max2(Pow2Round(size), MinCapacity), !.storage = Moved,
                   !.freed = IF a.storage = a.initial THEN @ ELSE @ \cup {a.storage}])

Grow(a) == Realloc(a, 2 * a.size)

(* A mutant: only what is missing is asked for, not the size plus that.    *)
GuaranteeMissing(a, n) ==
    Bump(IF a.size - Count(a) < n THEN Realloc(a, n - (a.size - Count(a))) ELSE a)

(* guarantee: room for n more                                              *)
Guarantee(a, n) ==
    LET available == a.size - Count(a)
    IN  Bump(IF available < n THEN Realloc(a, a.size + (n - available)) ELSE a)

(* advance, and the caller fills the room it returns with ps               *)
Advance(a, ps) ==
    LET roomy == Guarantee(a, Len(ps))
    IN  Bump([roomy EXCEPT !.items = @ \o ps])

-----------------------------------------------------------------------------
(* Operations at the end *)

AddGuaranteed(a, p) == Bump([a EXCEPT !.items = Append(@, p)])

Add(a, p) == AddGuaranteed(IF Count(a) = a.size THEN Grow(a) ELSE a, p)

(* other may be the array itself: the source is read from the new storage  *)
AddPointerarray(a, other, range) ==
    LET r == Validated(range, Count(other))
    IN  IF r.length = 0 THEN a ELSE Bump(Advance(a, Slice(other.items, r)))

GetLast(a) == IF a.items = <<>> THEN NULL ELSE a.items[Count(a)]

Pop(a) ==
    IF a.items = <<>> THEN a
    ELSE Bump([a EXCEPT !.items = SubSeq(@, 1, Count(a) - 1)])

-----------------------------------------------------------------------------
(* Operations anywhere *)

(* get and get_in_range                                                    *)
Get(a, i)            == a.items[i + 1]
GetInRange(a, range) == Slice(a.items, Validated(range, Count(a)))

Set(a, i, p) == Bump([a EXCEPT !.items[i + 1] = p])

(* set_zeroing: behind the end, the array is extended with NULLs           *)
SetZeroing(a, i, p) ==
    IF i < Count(a) THEN Set(a, i, p)
    ELSE LET zeroes == i - Count(a)
         IN  Bump(Advance(a, Append([k \in 1 .. zeroes |-> NULL], p)))

GetZeroing(a, i) == IF i < Count(a) THEN Get(a, i) ELSE NULL

(* get_zeroing_address: no mutation if the address is there already        *)
GetZeroingAddress(a, i) ==
    IF i < Count(a) THEN a ELSE Advance(a, [k \in 1 .. i - Count(a) + 1 |-> NULL])

(* The loops of the searches stop at the first hit.                        *)
First(hits) == CHOOSE i \in hits : \A j \in hits : i <= j

(* A mutant: the end is not taken into account.                            *)
FindToTheEnd(a, p, range) ==
    LET r    == Validated(range, Count(a))
        hits == {i \in r.location .. Count(a) - 1 : Get(a, i) = p}
    IN  IF hits = {} THEN NotFound ELSE First(hits)

FindInRange(a, p, range) ==
    LET r    == Validated(range, Count(a))
        hits == {i \in r.location .. r.location + r.length - 1 : Get(a, i) = p}
    IN  IF hits = {} THEN NotFound ELSE First(hits)

IsEqual(a, other) ==
    /\ Count(a) = Count(other)
    /\ \A i \in DOMAIN a.items : a.items[i] = other.items[i]

RemoveInRange(a, range) ==
    LET r == Intersection(range, Count(a))
    IN  IF r.length = 0 THEN a ELSE Bump([a EXCEPT !.items = Without(@, r)])

(* insert_in_range: its realloc asks for a power of two                    *)
InsertInRange(a, i, ps) ==
    LET count == Count(a) + Len(ps)
        roomy == IF count > a.size THEN Realloc(a, Pow2Round(count)) ELSE a
    IN  IF ps = <<>> THEN a ELSE Bump([roomy EXCEPT !.items = With(@, i, ps)])

(* the pointers that are no notakey move up, one after the other           *)
Compact(a, notakey) ==
    LET kept[n \in 0 .. Count(a)] ==
            IF n = 0 THEN <<>>
            ELSE IF a.items[n] = notakey THEN kept[n - 1]
            ELSE Append(kept[n - 1], a.items[n])
    IN  Bump([a EXCEPT !.items = kept[Count(a)]])

(* qsort: it is not stable, any permutation that is in order may come out  *)
Sortings(s, rank) ==
    LET orders == {f \in [DOMAIN s -> DOMAIN s] :
                      \A i, j \in DOMAIN s : f[i] = f[j] => i = j}
    IN  {t \in {[i \in DOMAIN s |-> s[f[i]]] : f \in orders} :
            \A i, j \in DOMAIN s : i < j => rank[t[i]] <= rank[t[j]]}

Sorted(a, items) == Bump([a EXCEPT !.items = items])

Reset(a) == Bump([a EXCEPT !.items = <<>>])

-----------------------------------------------------------------------------
(* Loops from the last item to the first.  afterwards[n] is the array when *)
(* the last n items have been looked at.                                   *)

(* A mutant: the index walks upward and skips the item behind a removed.   *)
RemoveUpward(a, p) ==
    LET step[i \in 0 .. Count(a)] ==
            IF i = 0 THEN a
            ELSE IF i <= Count(step[i - 1]) /\ Get(step[i - 1], i - 1) = p
                 THEN RemoveInRange(step[i - 1], Make(i - 1, 1))
                 ELSE step[i - 1]
    IN  step[Count(a)]

Remove(a, p) ==
    LET afterwards[n \in 0 .. Count(a)] ==
            IF n = 0 THEN a
            ELSE LET b == afterwards[n - 1]
                     i == Count(a) - n
                 IN  IF Get(b, i) = p THEN RemoveInRange(b, Make(i, 1)) ELSE b
    IN  afterwards[Count(a)]

(* remove_unique: the last occurrence                                      *)
RemoveUnique(a, p) ==
    LET hits == {i \in 0 .. Count(a) - 1 : Get(a, i) = p}
    IN  IF hits = {} THEN a
        ELSE RemoveInRange(a, Make(CHOOSE i \in hits : \A j \in hits : i >= j, 1))

-----------------------------------------------------------------------------
(* Two arrays *)

(* extract_pointers: what is left of the array.  A lent storage stays, and *)
(* the pointers are copied to new memory.                                  *)
Extracted(a) ==
    IF a.storage # NULL /\ a.storage = a.initial
    THEN Bump([a EXCEPT !.items = <<>>])
    ELSE Bump([a EXCEPT !.items = <<>>, !.size = 0, !.storage = NULL, !.initial = NULL])

(* absorb_array takes the storage of the victim as it is, lent or not, if  *)
(* there is none yet and the allocators agree.                             *)
Steals(a, sameAllocator) == a.storage = NULL /\ sameAllocator

Absorb(a, victim, sameAllocator) ==
    IF Steals(a, sameAllocator)
    THEN Bump([a EXCEPT !.items = victim.items, !.size = victim.size,
                        !.storage = victim.storage, !.initial = NULL])
    ELSE Advance(Bump(a), victim.items)

(* the victim keeps its _initial_storage and, when it is robbed, its count *)
(* of mutations                                                            *)
Absorbed(a, victim, sameAllocator) ==
    IF Steals(a, sameAllocator)
    THEN [victim EXCEPT !.items = <<>>, !.size = 0, !.storage = NULL]
    ELSE Reset(victim)
=============================================================================
