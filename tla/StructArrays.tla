---------------------------- MODULE StructArrays -----------------------------
(***************************************************************************)
(* mulle_structarray: what a program does with arrays of structs.  NULL is *)
(* the struct of all zeroes.                                               *)
(***************************************************************************)
EXTENDS PointerArrays

ChangeStructs(id, a) == Update(id, a) /\ ret' = None /\ UNCHANGED refs

InitStructs(id, capacity, al) ==
    Establish(id, FreshStructs(capacity), al) /\ UNCHANGED refs

InitStructsWithStaticStorage(id, al) ==
    /\ MayLend(id)
    /\ Establish(id, FreshStaticStructs(id, LentCapacity), al)
    /\ UNCHANGED refs

DoneStructArray(id) == Dissolve(id, DoneStructs(arrays[id])) /\ UNCHANGED refs

ResetStructArray(id) == ChangeStructs(id, ResetStructs(arrays[id]))

AddStructTo(id, x) == HasRoom(1) /\ ChangeStructs(id, AddStruct(arrays[id], x))

AddStructGuaranteed(id, x) ==
    /\ HasRoom(1) /\ Count(arrays[id]) < arrays[id].size
    /\ ChangeStructs(id, AddGuaranteedStruct(arrays[id], x))

(* pop copies the struct out, or returns 0                                 *)
PopStructFrom(id) ==
    /\ Update(id, PopStruct(arrays[id]))
    /\ ret' = IF arrays[id].items = <<>> THEN None ELSE GetLastStruct(arrays[id])
    /\ UNCHANGED refs

SetStructAt(id, i, x) ==
    /\ i < arrays[id].size
    /\ ChangeStructs(id, SetStruct(arrays[id], i, x))

GuaranteeStructRoom(id, n) == ChangeStructs(id, GuaranteeStructs(arrays[id], n))

GrowStructArray(id) ==
    arrays[id].size < MaxItems /\ ChangeStructs(id, GrowStructs(arrays[id]))

AdvanceStructArray(id, xs) ==
    HasRoom(Len(xs)) /\ ChangeStructs(id, AdvanceStructs(arrays[id], xs))

(* reserve is an advance for one struct                                    *)
ReserveStruct(id, x) == HasRoom(1) /\ ChangeStructs(id, AdvanceStructs(arrays[id], <<x>>))

AddArrayOfStructs(id, other, range) ==
    /\ HasRoom(Validated(range, Count(arrays[other])).length)
    /\ ChangeStructs(id, AddStructarray(arrays[id], arrays[other], range))

(* copy: a new array, without capacity, which gets the structs             *)
CopyStructArray(id, other, al) ==
    /\ HasRoom(Count(arrays[other]))
    /\ Establish(id, AddStructarray(Fresh(0), arrays[other], Make(0, All)), al)
    /\ UNCHANGED refs

(* set_count, and what is new is filled with xs                            *)
SetCountOf(id, n, xs) ==
    /\ Len(xs) = (IF n > Count(arrays[id]) THEN n - Count(arrays[id]) ELSE 0)
    /\ HasRoom(Len(xs))
    /\ ChangeStructs(id, SetCount(arrays[id], n, xs))

ZeroToCountOf(id, n) ==
    /\ HasRoom(Missing(id, n - 1))
    /\ ChangeStructs(id, ZeroToCount(arrays[id], n))

SizeStructsToFit(id) == ChangeStructs(id, SizeToFit(arrays[id]))

QsortStructs(id) ==
    \E items \in Sortings(arrays[id].items, Rank) :
        ChangeStructs(id, Sorted(arrays[id], items))

RemoveStructs(id, range) == ChangeStructs(id, RemoveStructsInRange(arrays[id], range))

RemoveStructAtIndex(id, i) ==
    ChangeStructs(id, RemoveStructsInRange(arrays[id], Make(i, 1)))

RemoveLastStruct(id) == ChangeStructs(id, PopStruct(arrays[id]))

InsertStructs(id, i, xs) ==
    HasRoom(Len(xs)) /\ ChangeStructs(id, InsertStructsInRange(arrays[id], i, xs))

(* extract_data returns what the data's length covers                      *)
ExtractStructs(id) ==
    /\ Extract(id, ExtractedStructs(arrays[id]))
    /\ ret' = ExtractedData(arrays[id])
    /\ UNCHANGED refs

OpenStructEnumerator(id) ==
    /\ Enumerate(id) /\ ret' = None
    /\ UNCHANGED <<kind, arrays, allocator, memory, refs>>

OpenStructReverseEnumerator(id) ==
    /\ ReverseEnumerate(id) /\ ret' = None
    /\ UNCHANGED <<kind, arrays, allocator, memory, refs>>

StructEnumeratorNext ==
    EnumeratorNext /\ UNCHANGED <<kind, arrays, allocator, memory, refs>>

StructReverseEnumeratorNext ==
    ReverseEnumeratorNext /\ UNCHANGED <<kind, arrays, allocator, memory, refs>>
=============================================================================
