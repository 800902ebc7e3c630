---------------------------- MODULE PointerArrays ----------------------------
(***************************************************************************)
(* mulle_pointerarray: what a program does with arrays of pointers.  One   *)
(* action per function; a function that is given no array returns at once  *)
(* and changes nothing.                                                    *)
(***************************************************************************)
EXTENDS ArrayHeap

CONSTANTS
    Pointer,          \* what is put into the arrays, NULL besides
    Capacities,       \* capacities that init is called with
    LentCapacity,     \* and of the storage that is lent
    Rank              \* the comparison of qsort

Values == Pointer \cup {NULL}

Storage == Block \cup Id \cup {NULL}

ASSUME PointerArraysAssumption ==
    /\ Capacities \subseteq Nat /\ LentCapacity \in Nat /\ MaxItems \in Nat
    /\ None \notin [items : Seq(Object \cup Values), size : Nat, storage : Storage,
                    initial : Storage, mutations : {0}, freed : {{}}]
    /\ None \notin [array : Id, forward : BOOLEAN, at : Nat, end : Nat, storage : Storage,
                    robbed : BOOLEAN]
    /\ None \notin Seq(Object \cup Values)

InitArray(id, capacity, al) ==
    Establish(id, Fresh(capacity), al) /\ UNCHANGED refs

InitWithStaticPointer(id, al) ==
    /\ MayLend(id)
    /\ Establish(id, FreshStatic(id, LentCapacity), al)
    /\ UNCHANGED refs

DoneArray(id) == Dissolve(id, Done(arrays[id])) /\ UNCHANGED refs

(* A function that changes one array and returns nothing.                  *)
Change(id, a) == Update(id, a) /\ ret' = None /\ UNCHANGED refs

GuaranteeRoom(id, n) == Change(id, Guarantee(arrays[id], n))

GrowArray(id) == arrays[id].size < MaxItems /\ Change(id, Grow(arrays[id]))

AdvanceArray(id, ps) == HasRoom(Len(ps)) /\ Change(id, Advance(arrays[id], ps))

CompactArray(id, notakey) == Change(id, Compact(arrays[id], notakey))

AddGuaranteedPointer(id, p) ==
    /\ HasRoom(1) /\ Count(arrays[id]) < arrays[id].size
    /\ Change(id, AddGuaranteed(arrays[id], p))

AddPointer(id, p) == HasRoom(1) /\ Change(id, Add(arrays[id], p))

AddArrayOfPointers(id, other, range) ==
    /\ HasRoom(Validated(range, Count(arrays[other])).length)
    /\ Change(id, AddPointerarray(arrays[id], arrays[other], range))

PopPointer(id) ==
    /\ Update(id, Pop(arrays[id]))
    /\ ret' = GetLast(arrays[id])
    /\ UNCHANGED refs

RemoveLast(id) == Change(id, Pop(arrays[id]))

RemovePointersInRange(id, range) == Change(id, RemoveInRange(arrays[id], range))

RemoveAtIndex(id, i) == Change(id, RemoveInRange(arrays[id], Make(i, 1)))

RemovePointer(id, p) == Change(id, Remove(arrays[id], p))

InsertPointersInRange(id, i, ps) ==
    HasRoom(Len(ps)) /\ Change(id, InsertInRange(arrays[id], i, ps))

InsertPointer(id, i, p) == HasRoom(1) /\ Change(id, InsertInRange(arrays[id], i, <<p>>))

(* remove_unique returns the item that goes, or NULL                       *)
RemoveUniquePointer(id, p) ==
    /\ Update(id, RemoveUnique(arrays[id], p))
    /\ ret' = IF \E i \in DOMAIN arrays[id].items : arrays[id].items[i] = p THEN p ELSE NULL
    /\ UNCHANGED refs

QsortPointers(id) ==
    \E items \in Sortings(arrays[id].items, Rank) : Change(id, Sorted(arrays[id], items))

(* set returns the old pointer                                             *)
SetPointer(id, i, p) ==
    /\ Update(id, Set(arrays[id], i, p))
    /\ ret' = Get(arrays[id], i)
    /\ UNCHANGED refs

(* how many items set_zeroing and get_zeroing_address add                  *)
Missing(id, i) == IF i < Count(arrays[id]) THEN 0 ELSE i - Count(arrays[id]) + 1

SetZeroingPointer(id, i, p) ==
    HasRoom(Missing(id, i)) /\ Change(id, SetZeroing(arrays[id], i, p))

(* and *address is returned                                                *)
GetZeroingAddressOf(id, i) ==
    /\ HasRoom(Missing(id, i))
    /\ Update(id, GetZeroingAddress(arrays[id], i))
    /\ ret' = GetZeroing(arrays[id], i)
    /\ UNCHANGED refs

ResetPointers(id) == Change(id, Reset(arrays[id]))

(* extract_pointers returns all pointers                                   *)
ExtractPointers(id) ==
    /\ Extract(id, Extracted(arrays[id]))
    /\ ret' = arrays[id].items
    /\ UNCHANGED refs

(* absorb_array: a rover over a victim that is robbed is not invalidated.  *)
AbsorbArray(id, victim) ==
    LET same == Real(allocator[id]) = Real(allocator[victim])
        new  == [i \in {id, victim} |->
                    IF i = id THEN Absorb(arrays[id], arrays[victim], same)
                    ELSE Absorbed(arrays[id], arrays[victim], same)]
    IN  /\ id # victim
        /\ CommitTo(new, allocator)
        /\ rover' = IF rover # None /\ rover.array = victim /\ Steals(arrays[id], same)
                    THEN [rover EXCEPT !.robbed = TRUE] ELSE Enumerating(new)
        /\ stolen' = stolen \cup (IF Steals(arrays[id], same)
                                  THEN {arrays[victim].storage} \cap Id ELSE {})
        /\ ret' = None
        /\ UNCHANGED <<kind, allocator, refs>>

OpenEnumerator(id) ==
    /\ Enumerate(id) /\ ret' = None
    /\ UNCHANGED <<kind, arrays, allocator, memory, refs>>

OpenReverseEnumerator(id) ==
    /\ ReverseEnumerate(id) /\ ret' = None
    /\ UNCHANGED <<kind, arrays, allocator, memory, refs>>

PointerEnumeratorNext ==
    /\ ~ rover.robbed
    /\ EnumeratorNext
    /\ UNCHANGED <<kind, arrays, allocator, memory, refs>>

PointerReverseEnumeratorNext ==
    /\ ~ rover.robbed
    /\ ReverseEnumeratorNext
    /\ UNCHANGED <<kind, arrays, allocator, memory, refs>>

(* member: its loop leaves NULL behind when it finds nothing               *)
MemberPointer(a, p) == p = NULL \/ \E i \in DOMAIN a.items : a.items[i] = p
=============================================================================
