---------------------------- MODULE OwningArrays -----------------------------
(***************************************************************************)
(* mulle_array: what a program does with arrays that own their objects.    *)
(***************************************************************************)
EXTENDS PointerArrays

OwningOf(id) == Holding(arrays[id], refs)

(* A function that changes one array and the reference counts.             *)
ChangeOwning(id, h) ==
    \E done \in {h} : Update(id, done.array) /\ refs' = done.refs /\ ret' = None

(* init and create                                                         *)
InitOwning(id, capacity, al) == Establish(id, Fresh(capacity), al) /\ UNCHANGED refs

(* an array on the stack, of do_flexible                                   *)
InitOwningOnStack(id) ==
    /\ MayLend(id)
    /\ Establish(id, FreshStatic(id, LentCapacity), NULL)
    /\ UNCHANGED refs

(* done and destroy                                                        *)
DoneOwning(id) ==
    LET h == DoneOwned(OwningOf(id)) IN Dissolve(id, h.array) /\ refs' = h.refs

GuaranteeOwning(id, n) == Update(id, Guarantee(arrays[id], n)) /\ ret' = None /\ UNCHANGED refs

GrowOwning(id) ==
    /\ arrays[id].size < MaxItems
    /\ Update(id, Grow(arrays[id])) /\ ret' = None /\ UNCHANGED refs

AddObject(id, p) == HasRoom(1) /\ ChangeOwning(id, AddOwned(OwningOf(id), p))

(* add_guaranteed is _add with the room it needs                           *)
AddObjectGuaranteed(id, p) ==
    /\ HasRoom(1) /\ Count(arrays[id]) < arrays[id].size
    /\ ChangeOwning(id, On(Retained(OwningOf(id), <<p>>), AddGuaranteed(arrays[id], p)))

SetObject(id, i, p) == ChangeOwning(id, SetOwned(OwningOf(id), i, p))

AddArrayOfObjects(id, other, range) ==
    /\ HasRoom(Validated(range, Count(arrays[other])).length)
    /\ ChangeOwning(id, AddArray(OwningOf(id), arrays[other], range))

(* copy: a new array with the capacity of the count, which gets the items  *)
CopyArray(id, other) ==
    LET src == arrays[other]
        h   == CopyItems(Holding(Fresh(Count(src)), refs), src)
    IN  /\ HasRoom(Count(src))
        /\ Establish(id, h.array, allocator[other])
        /\ refs' = h.refs

RemoveObjectsInRange(id, range) ==
    ChangeOwning(id, RemoveOwnedInRange(OwningOf(id), range))

RemoveObject(id, p) == ChangeOwning(id, RemoveOwned(OwningOf(id), p))

RemoveUniqueObject(id, p) == ChangeOwning(id, RemoveUniqueOwned(OwningOf(id), p))

RemoveLastObject(id) == ChangeOwning(id, RemoveLastOwned(OwningOf(id)))

ResetObjects(id) == ChangeOwning(id, ResetOwned(OwningOf(id)))

QsortObjects(id) ==
    \E items \in Sortings(arrays[id].items, Rank) :
        ChangeOwning(id, On(OwningOf(id), Sorted(arrays[id], items)))

(* The enumerators of an owning array return notakey at the end and do not *)
(* assert; one that was invalidated must not be asked.                     *)
OpenOwningEnumerator(id) ==
    /\ Enumerate(id) /\ ret' = None
    /\ UNCHANGED <<kind, arrays, allocator, memory, refs>>

OpenOwningReverseEnumerator(id) ==
    /\ ReverseEnumerate(id) /\ ret' = None
    /\ UNCHANGED <<kind, arrays, allocator, memory, refs>>

OwningEnumeratorNext ==
    EnumeratorNext /\ UNCHANGED <<kind, arrays, allocator, memory, refs>>

OwningReverseEnumeratorNext ==
    ReverseEnumeratorNext /\ UNCHANGED <<kind, arrays, allocator, memory, refs>>
=============================================================================
