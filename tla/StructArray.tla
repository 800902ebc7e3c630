----------------------------- MODULE StructArray -----------------------------
(***************************************************************************)
(* mulle__structarray: a growing array of structs, which are copied in and *)
(* out.  Unlike a pointer array it doubles its size, it forgets its        *)
(* _initial_storage when it moves to malloc'ed memory, and it can shrink.  *)
(* All lengths are in structs here, except for what extract_data returns.  *)
(***************************************************************************)
EXTENDS PointerArray

CONSTANT SizeofStruct     \* _sizeof_struct, in bytes

ASSUME StructArrayAssumption == SizeofStruct \in Nat \ {0}

(* A mutant: the lent storage is still taken for the storage.              *)
ResizeKeepingInitial(a, size) ==
    IF a.initial # NULL /\ size <= a.size THEN a
    ELSE Bump([a EXCEPT !.size = size, !.storage = IF size = 0 THEN NULL ELSE Moved,
                        !.freed = IF a.initial = NULL THEN @ \cup {a.storage} ELSE @])

(* realloc, which a lent storage that is large enough ignores; a realloc   *)
(* to nothing frees                                                        *)
Resize(a, size) ==
    IF a.initial # NULL /\ size <= a.size THEN a
    ELSE Bump([a EXCEPT !.size = size, !.initial = NULL,
                        !.storage = IF size = 0 THEN NULL ELSE Moved,
                        !.freed = IF a.initial = NULL THEN @ \cup {a.storage} ELSE @])

(* done frees the storage if there is no lent one                          *)
DoneStructs(a) ==
    Bump(IF a.initial = NULL THEN [a EXCEPT !.freed = @ \cup {a.storage}] ELSE a)

Doubled(a) == 2 * Max2(a.size, 1)

GrowStructs(a) == Resize(a, Doubled(a))

(* init sizes the zeroed array to its capacity, and resets _n_mutations    *)
FreshStructs(capacity) == [Resize(Fresh(0), capacity) EXCEPT !.mutations = 0]

FreshStaticStructs(storage, capacity) == FreshStatic(storage, capacity)

GuaranteeStructs(a, n) ==
    LET available == a.size - Count(a)
    IN  Bump(IF available < n THEN Resize(a, Max2(Doubled(a), a.size + (n - available)))
             ELSE a)

(* advance and reserve, and the caller fills the room with ps              *)
AdvanceStructs(a, ps) ==
    LET roomy == GuaranteeStructs(a, Len(ps))
    IN  Bump([roomy EXCEPT !.items = @ \o ps])

AddGuaranteedStruct(a, x) == AddGuaranteed(a, x)

AddStruct(a, x) == AddGuaranteed(IF Count(a) = a.size THEN GrowStructs(a) ELSE a, x)

GetLastStruct(a) == GetLast(a)

PopStruct(a) == Pop(a)

(* set compares the index with the capacity: behind the count it writes    *)
(* what is no item                                                         *)
SetStruct(a, i, x) == IF i < Count(a) THEN Set(a, i, x) ELSE Bump(a)

(* no second bump, advance has done it                                     *)
AddStructarray(a, other, range) ==
    LET r == Validated(range, Count(other))
    IN  IF r.length = 0 THEN a ELSE AdvanceStructs(a, Slice(other.items, r))

SizeToFit(a) == Resize(a, Count(a))

(* set_count: what is new is the caller's to fill, with ps                 *)
SetCount(a, n, ps) ==
    IF n < Count(a) THEN SizeToFit(Bump([a EXCEPT !.items = SubSeq(@, 1, n)]))
    ELSE IF n = Count(a) THEN SizeToFit(a)
    ELSE AdvanceStructs(a, ps)

ZeroToCount(a, n) == SetCount(a, n, [k \in 1 .. n - Count(a) |-> NULL])

InsertStructsInRange(a, i, ps) ==
    LET count == Count(a) + Len(ps)
        roomy == IF count > a.size THEN Resize(a, Pow2Round(count)) ELSE a
    IN  IF ps = <<>> THEN a ELSE Bump([roomy EXCEPT !.items = With(@, i, ps)])

RemoveStructsInRange(a, range) == RemoveInRange(a, range)

ResetStructs(a) == Reset(a)

(* extract_data: a lent storage stays and is copied, anything else goes    *)
ExtractedStructs(a) == Extracted(a)

(* the data is as many BYTES long as the storage has structs               *)
ExtractedData(a) ==
    LET whole == a.size \div SizeofStruct
    IN  SubSeq(a.items, 1, IF whole < Count(a) THEN whole ELSE Count(a))
=============================================================================
