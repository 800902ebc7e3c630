------------------------------- MODULE Arrays --------------------------------
(***************************************************************************)
(* The arrays of one kind that a program uses, and the promises they keep. *)
(***************************************************************************)
EXTENDS OwningArrays, StructArrays

CONSTANTS Kinds       \* which kinds of arrays there are

ASSUME ArraysAssumption == Kinds \subseteq {"pointers", "objects", "structs"}

Init ==
    /\ kind \in Kinds
    /\ arrays = [i \in Id |-> None]
    /\ allocator = [i \in Id |-> NULL]
    /\ heap = [b \in {} |-> Default] /\ misfreed = {} /\ stolen = {}
    /\ refs = [p \in Object |-> 0]
    /\ rover = None /\ ret = None /\ call = <<"none">>

(* sequences for advance and insert_in_range                               *)
Few == {<<>>} \cup {<<NULL, p>> : p \in Pointer}

PointerNext ==
    \/ \E id \in Id : \E al \in Allocator[id] :
          /\ call' = <<"init", id>>
          /\ InitWithStaticPointer(id, al) \/ \E n \in Capacities : InitArray(id, n, al)
    \/ \E id \in Live :
          \/ DoneArray(id) /\ call' = <<"done", id>>
          \/ \E n \in 0 .. 2 : GuaranteeRoom(id, n) /\ call' = <<"guarantee", id>>
          \/ GrowArray(id) /\ call' = <<"grow", id>>
          \/ \E ps \in Few : AdvanceArray(id, ps) /\ call' = <<"advance", id, ps>>
          \/ \E p \in Values : CompactArray(id, p) /\ call' = <<"compact", id, p>>
          \/ \E p \in Values : AddGuaranteedPointer(id, p) /\ call' = <<"add", id, p>>
          \/ \E p \in Values : AddPointer(id, p) /\ call' = <<"add", id, p>>
          \/ \E other \in Live : \E r \in RangesOf(other) :
                AddArrayOfPointers(id, other, r) /\ call' = <<"add_array", id, other, r>>
          \/ PopPointer(id) /\ call' = <<"pop", id>>
          \/ RemoveLast(id) /\ call' = <<"remove_last", id>>
          \/ \E r \in RangesOf(id) :
                RemovePointersInRange(id, r) /\ call' = <<"remove_in_range", id, r>>
          \/ \E i \in Indices(id) :
                RemoveAtIndex(id, i) /\ call' = <<"remove_in_range", id, Make(i, 1)>>
          \/ \E p \in Values : RemovePointer(id, p) /\ call' = <<"remove", id, p>>
          \/ \E i \in 0 .. Count(arrays[id]), ps \in Few :
                InsertPointersInRange(id, i, ps) /\ call' = <<"insert", id, i, ps>>
          \/ \E i \in 0 .. Count(arrays[id]), p \in Values :
                InsertPointer(id, i, p) /\ call' = <<"insert", id, i, <<p>> >>
          \/ \E p \in Values : RemoveUniquePointer(id, p) /\ call' = <<"remove_unique", id, p>>
          \/ QsortPointers(id) /\ call' = <<"qsort", id>>
          \/ \E i \in Indices(id), p \in Values :
                SetPointer(id, i, p) /\ call' = <<"set", id, i, p>>
          \/ \E i \in 0 .. MaxItems, p \in Values :
                SetZeroingPointer(id, i, p) /\ call' = <<"set_zeroing", id, i, p>>
          \/ \E i \in 0 .. MaxItems :
                GetZeroingAddressOf(id, i) /\ call' = <<"get_zeroing_address", id, i>>
          \/ ResetPointers(id) /\ call' = <<"reset", id>>
          \/ ExtractPointers(id) /\ call' = <<"extract_pointers", id>>
          \/ \E victim \in Live : AbsorbArray(id, victim) /\ call' = <<"absorb", id, victim>>
          \/ OpenEnumerator(id) /\ call' = <<"enumerate", id>>
          \/ OpenReverseEnumerator(id) /\ call' = <<"reverse_enumerate", id>>
    \/ /\ rover # None
       /\ PointerEnumeratorNext \/ PointerReverseEnumeratorNext
       /\ call' = <<"next">>

OwningNext ==
    \/ \E id \in Id : \E al \in Allocator[id] :
          /\ call' = <<"init", id>>
          /\ InitOwningOnStack(id) \/ \E n \in Capacities : InitOwning(id, n, al)
    \/ \E id \in Id, other \in Live : CopyArray(id, other) /\ call' = <<"copy", id, other>>
    \/ \E id \in Live :
          \/ DoneOwning(id) /\ call' = <<"done", id>>
          \/ \E n \in 0 .. 2 : GuaranteeOwning(id, n) /\ call' = <<"guarantee", id>>
          \/ GrowOwning(id) /\ call' = <<"grow", id>>
          \/ \E p \in Object :
                \/ AddObject(id, p) /\ call' = <<"add", id, p>>
                \/ AddObjectGuaranteed(id, p) /\ call' = <<"add", id, p>>
                \/ RemoveObject(id, p) /\ call' = <<"remove_object", id, p>>
                \/ RemoveUniqueObject(id, p) /\ call' = <<"remove_unique_object", id, p>>
                \/ \E i \in Indices(id) :
                      SetObject(id, i, p) /\ call' = <<"set_only", id, i, p>>
          \/ \E other \in Live : \E r \in RangesOf(other) :
                AddArrayOfObjects(id, other, r) /\ call' = <<"add_array", id, other, r>>
          \/ \E r \in RangesOf(id) :
                RemoveObjectsInRange(id, r) /\ call' = <<"remove_objects_in_range", id, r>>
          \/ RemoveLastObject(id) /\ call' = <<"remove_last", id>>
          \/ ResetObjects(id) /\ call' = <<"reset", id>>
          \/ QsortObjects(id) /\ call' = <<"qsort", id>>
          \/ OpenOwningEnumerator(id) /\ call' = <<"enumerate", id>>
          \/ OpenOwningReverseEnumerator(id) /\ call' = <<"reverse_enumerate", id>>
    \/ /\ rover # None
       /\ OwningEnumeratorNext \/ OwningReverseEnumeratorNext
       /\ call' = <<"next">>

StructNext ==
    \/ \E id \in Id : \E al \in Allocator[id] :
          \/ /\ call' = <<"init", id>>
             /\ \/ InitStructsWithStaticStorage(id, al)
                \/ \E n \in Capacities : InitStructs(id, n, al)
          \/ \E other \in Live :
                CopyStructArray(id, other, al) /\ call' = <<"copy", id, other>>
    \/ \E id \in Live :
          \/ DoneStructArray(id) /\ call' = <<"done", id>>
          \/ ResetStructArray(id) /\ call' = <<"reset", id>>
          \/ \E x \in Values : AddStructTo(id, x) /\ call' = <<"add", id, x>>
          \/ \E x \in Values : AddStructGuaranteed(id, x) /\ call' = <<"add", id, x>>
          \/ \E x \in Values : ReserveStruct(id, x) /\ call' = <<"add", id, x>>
          \/ PopStructFrom(id) /\ call' = <<"pop_struct", id>>
          \/ \E i \in 0 .. MaxItems, x \in Values :
                SetStructAt(id, i, x) /\ call' = <<"set_only", id, i, x>>
          \/ \E n \in 0 .. 2 : GuaranteeStructRoom(id, n) /\ call' = <<"guarantee", id>>
          \/ GrowStructArray(id) /\ call' = <<"grow", id>>
          \/ \E xs \in Few :
                AdvanceStructArray(id, xs) /\ call' = <<"advance", id, xs>>
          \/ \E other \in Live : \E r \in RangesOf(other) :
                AddArrayOfStructs(id, other, r) /\ call' = <<"add_array", id, other, r>>
          \/ \E n \in 0 .. MaxItems, xs \in Few :
                SetCountOf(id, n, xs) /\ call' = <<"set_count", id, n, xs>>
          \/ \E n \in 0 .. MaxItems :
                ZeroToCountOf(id, n) /\ call' = <<"zero_to_count", id, n>>
          \/ SizeStructsToFit(id) /\ call' = <<"size_to_fit", id>>
          \/ QsortStructs(id) /\ call' = <<"qsort", id>>
          \/ \E r \in RangesOf(id) : RemoveStructs(id, r) /\ call' = <<"remove_in_range", id, r>>
          \/ \E i \in Indices(id) :
                RemoveStructAtIndex(id, i) /\ call' = <<"remove_in_range", id, Make(i, 1)>>
          \/ RemoveLastStruct(id) /\ call' = <<"remove_last", id>>
          \/ \E i \in 0 .. Count(arrays[id]), xs \in Few :
                InsertStructs(id, i, xs) /\ call' = <<"insert", id, i, xs>>
          \/ ExtractStructs(id) /\ call' = <<"extract_data", id>>
          \/ OpenStructEnumerator(id) /\ call' = <<"enumerate", id>>
          \/ OpenStructReverseEnumerator(id) /\ call' = <<"reverse_enumerate", id>>
    \/ /\ rover # None
       /\ StructEnumeratorNext \/ StructReverseEnumeratorNext
       /\ call' = <<"next">>

(* After a free that does harm the program is undefined: it stops.         *)
Next ==
    \/ /\ misfreed = {}
       /\ \/ kind = "pointers" /\ PointerNext
          \/ kind = "objects" /\ OwningNext
          \/ kind = "structs" /\ StructNext
    \/ misfreed # {} /\ UNCHANGED vars

Spec == Init /\ [][Next]_vars

-----------------------------------------------------------------------------
(* Properties *)

Item == CASE kind = "pointers" -> Values [] kind = "objects" -> Object
          [] kind = "structs" -> Values

(* The fields are what the C types allow, and the items fit.               *)
TypeOK ==
    /\ kind \in Kinds
    /\ \A i \in Live :
          /\ arrays[i].items \in Seq(Item)
          /\ arrays[i].size \in Nat /\ Count(arrays[i]) <= arrays[i].size
          /\ arrays[i].storage \in Storage
          /\ arrays[i].initial \in Id \cup {NULL}
          /\ arrays[i].mutations = 0 /\ arrays[i].freed = {}
    /\ DOMAIN allocator = Id
    /\ \A i \in Id : allocator[i] \in {NULL} \cup UNION {Allocator[j] : j \in Id}
    /\ refs \in [Object -> Int]

(* Every block in use is the storage of exactly one array, with the        *)
(* allocator of that array; nothing leaks, and nothing is freed twice.     *)
(* Memory that is no block is lent, and an array has the storage that was  *)
(* lent to it unless absorb_array has passed it on; only such a storage is *)
(* ever freed wrongly.                                                     *)
HeapExact ==
    LET Owned == {arrays[i].storage : i \in Live}
    IN  /\ DOMAIN heap = Owned \cap Block
        /\ \A i, j \in Live : arrays[i].storage = arrays[j].storage /\ i # j
                                 => arrays[i].storage = NULL
        /\ \A i \in Live :
              /\ arrays[i].storage = NULL => arrays[i].size = 0
              /\ arrays[i].storage \in DOMAIN heap
                    => heap[arrays[i].storage] = Real(allocator[i])
              /\ arrays[i].storage \in Id
                    => \/ arrays[i].storage = i /\ arrays[i].initial = i
                       \/ arrays[i].storage \in stolen
        /\ misfreed \subseteq stolen

(* What dox/API_POINTERARRAY.md and the comment in absorb_array lead a     *)
(* caller to expect: a victim keeps the storage it was lent, so that       *)
(* nothing but malloc'ed memory is ever freed.                             *)
LentStorageIsNeverFreed == misfreed = {}

(* An enumerator that would not assert reads the storage of its array, not *)
(* memory that a realloc, an extract or a done has given away - with the   *)
(* exception of one over a victim whose storage was absorbed.              *)
EnumeratorSound ==
    rover # None =>
        \/ rover.robbed
        \/ /\ rover.array \in Live
           /\ rover.storage = arrays[rover.array].storage
           /\ Count(arrays[rover.array]) >= rover.at

Places    == UNION {{i} \X DOMAIN arrays[i].items : i \in Live}
ItemAt(w) == arrays[w[1]].items[w[2]]

(* Each owning array has retained each of its objects once per place, also *)
(* across overwriting with the same object, adding an array to itself,     *)
(* removals of equals and copies; other arrays retain nothing.             *)
OwnershipExact ==
    \A p \in Object :
        refs[p] = IF kind = "objects" THEN Cardinality({w \in Places : ItemAt(w) = p}) ELSE 0

(* The searches agree with their specification, in every range: the quick  *)
(* check for identity never hides that there is an equal object, and finds *)
(* nothing outside of the range.                                           *)
SearchesExact ==
    \A i \in Live : \A r \in RangesOf(i) :
        LET a      == arrays[i]
            within == {k \in Indices(i) : r.location <= k /\ Validated(r, Count(a)) # Make(0, 0)
                                            /\ (r.length = All \/ k < r.location + r.length)}
            At(k)  == a.items[k + 1]
            Found(k, hits) == IF hits = {} THEN k = NotFound ELSE k \in hits
        IN  IF kind = "objects"
            THEN \A p \in Object :
                    LET equal == {k \in within : Class[At(k)] = Class[p]}
                        same  == {k \in within : At(k) = p}
                        k     == FindOwnedInRange(a, p, r)
                    IN  /\ Found(k, equal)
                        /\ same # {} /\ Cardinality(within) <= QuickWindow => k \in same
                        /\ \A k2 \in same : k2 < k => k \in same
                        /\ r = Make(0, All) => (Member(a, p) <=> equal # {})
            ELSE \A p \in Values :
                    LET same == {k \in within : At(k) = p}
                        k    == FindInRange(a, p, r)
                    IN  /\ Found(k, same) /\ \A j \in same : k <= j
                        /\ r = Make(0, All) /\ p # NULL
                              => (MemberPointer(a, p) <=> same # {})

-----------------------------------------------------------------------------
(* What a valid enumerator has still to return *)
Rest ==
    IF rover = None THEN None
    ELSE IF rover.robbed THEN None
    ELSE LET s == arrays[rover.array].items
         IN  IF rover.forward THEN SubSeq(s, rover.at + 1, rover.end)
             ELSE [k \in 1 .. rover.at |-> s[rover.at + 1 - k]]

Lists == [i \in Id |-> IF arrays[i] = None THEN None ELSE arrays[i].items]

Abstract == INSTANCE SequenceStore WITH lists <- Lists, rest <- Rest

(* Each call does to the sequences what its operation promises, and an     *)
(* enumerator returns what was there when it was opened or is invalid.     *)
RefinesSequenceStore == Abstract!Spec
=============================================================================
