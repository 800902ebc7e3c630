------------------------------ MODULE ArrayHeap ------------------------------
(***************************************************************************)
(* What the three kinds of arrays have in common: the arrays a program     *)
(* has, the memory they hold, the reference counts of the objects in them, *)
(* and an enumerator.  The operations of a kind are in PointerArrays,      *)
(* OwningArrays and StructArrays; they compute what becomes of an array    *)
(* and let Commit do its mallocs and frees.                                *)
(***************************************************************************)
EXTENDS OwningArray, StructArray

CONSTANTS
    Id,               \* the arrays, and the storage that is lent to each
    Block,            \* what malloc returns
    Allocator,        \* what each of the arrays may be initialised with
    MaxItems,         \* bound: how many items all arrays hold together
    Default,          \* mulle_default_allocator, which NULL stands for
    None              \* no array, no enumerator, no result

ASSUME ArrayHeapAssumption ==
    /\ IsFiniteSet(Block) /\ IsFiniteSet(Id)
    /\ Id \cap Block = {}
    /\ {NULL, Moved} \cap (Id \cup Block) = {}
    /\ Cardinality(Id) <= Cardinality(Block)      \* malloc does not fail
    /\ None \notin Id

VARIABLES
    kind,             \* "pointers", "objects" or "structs"
    arrays,
    allocator,        \* the allocator an array was initialised with
    heap,             \* the allocator of each block that is in use
    misfreed,         \* what was freed though it is no block, or not so allocated
    stolen,           \* lent storages that absorb_array has passed on
    refs,             \* retains minus releases of each object
    rover,            \* an enumerator no operation has invalidated
    ret,              \* what the last operation returned
    call              \* its name and arguments

memory == <<heap, misfreed, stolen>>
vars   == <<kind, arrays, allocator, memory, refs, rover, ret, call>>

Sets == INSTANCE FiniteSetsExt

Live == {i \in Id : arrays[i] # None}

Real(al) == IF al = NULL THEN Default ELSE al

-----------------------------------------------------------------------------
(* Memory *)

Freed(new)  == (UNION {new[i].freed : i \in DOMAIN new}) \ {NULL, Moved}
Moving(new) == {i \in DOMAIN new : new[i].storage = Moved}

(* A free or realloc that does harm: it is not given a block in use, or    *)
(* the block of another allocator.                                         *)
Harm(new, als) ==
    {l \in Freed(new) : l \notin DOMAIN heap}
        \cup UNION {{l \in new[i].freed : l \in DOMAIN heap /\ heap[l] # Real(als[i])} :
                        i \in DOMAIN new}

(* malloc, and realloc: which of the free blocks it is cannot matter       *)
Unused(used) == CHOOSE b \in Block : b \notin used

(* The heap when the blocks are freed and b is what malloc or realloc      *)
(* returns, if it is called.                                               *)
HeapAfter(new, als, b) ==
    LET rest == DOMAIN heap \ Freed(new)
    IN  [l \in rest \cup (IF Moving(new) = {} THEN {} ELSE {b}) |->
            IF l \in rest THEN heap[l] ELSE Real(als[CHOOSE i \in Moving(new) : TRUE])]

Settled(a, b) ==
    [a EXCEPT !.storage = IF @ = Moved THEN b ELSE @, !.mutations = 0, !.freed = {}]

(* An enumerator remembers _n_mutations: when they have moved on, its next *)
(* asserts.  It is dropped then.                                           *)
Enumerating(new) ==
    IF rover # None /\ rover.array \in DOMAIN new /\ new[rover.array].mutations > 0
    THEN None ELSE rover

(* new: what becomes of the arrays an operation touches                    *)
CommitTo(new, als) ==
    \E b \in {Unused(DOMAIN heap \ Freed(new))} :
        /\ arrays' = [i \in Id |-> IF i \in DOMAIN new THEN Settled(new[i], b) ELSE arrays[i]]
        /\ heap' = HeapAfter(new, als, b)
        /\ misfreed' = misfreed \cup Harm(new, als)

Commit(new) ==
    /\ CommitTo(new, allocator)
    /\ rover' = Enumerating(new)
    /\ UNCHANGED <<kind, allocator, stolen>>

Update(id, a) == \E new \in {[i \in {id} |-> a]} : Commit(new)

(* init of id: the record a, and its allocator                             *)
Establish(id, a, al) ==
    /\ arrays[id] = None
    /\ allocator' = [allocator EXCEPT ![id] = al]
    /\ CommitTo([i \in {id} |-> a], allocator')
    /\ stolen' = stolen \ {a.storage}
    /\ ret' = None
    /\ UNCHANGED <<kind, rover>>

(* The caller lends its storage to one array at a time.                    *)
MayLend(id) == \A i \in Live : id \notin {arrays[i].storage, arrays[i].initial}

(* done of id, which leaves a: what a has freed is freed                   *)
Dissolve(id, a) ==
    LET new == [i \in {id} |-> a]
    IN  /\ arrays' = [arrays EXCEPT ![id] = None]
        /\ heap' = [l \in DOMAIN heap \ Freed(new) |-> heap[l]]
        /\ misfreed' = misfreed \cup Harm(new, allocator)
        /\ rover' = Enumerating(new)
        /\ ret' = None
        /\ UNCHANGED <<kind, allocator, stolen>>

(* extract of id, which leaves a: the storage of the array or, if that is  *)
(* lent, a malloc'ed copy is handed to the caller, who frees it.           *)
Extract(id, a) ==
    LET old    == arrays[id]
        handed == IF old.storage = old.initial THEN {} ELSE {old.storage} \ {NULL}
    IN  /\ heap' = [l \in DOMAIN heap \ handed |-> heap[l]]
        /\ misfreed' = misfreed \cup (handed \ DOMAIN heap)
        /\ arrays' = [arrays EXCEPT ![id] = Settled(a, NULL)]
        /\ rover' = Enumerating([i \in {id} |-> a])
        /\ UNCHANGED <<kind, allocator, stolen>>

-----------------------------------------------------------------------------
(* Enumerators, forward and in reverse: one at a time *)

Enumerate(id) ==
    rover = None /\ rover' = [array |-> id, forward |-> TRUE, at |-> 0, end |-> Count(arrays[id]),
              storage |-> arrays[id].storage, robbed |-> FALSE]

ReverseEnumerate(id) ==
    rover = None /\ rover' = [array |-> id, forward |-> FALSE, at |-> Count(arrays[id]), end |-> 0,
              storage |-> arrays[id].storage, robbed |-> FALSE]

EnumeratorNext ==
    /\ rover # None /\ rover.forward
    /\ IF rover.at < rover.end
       THEN /\ ret' = Get(arrays[rover.array], rover.at)
            /\ rover' = [rover EXCEPT !.at = @ + 1]
       ELSE ret' = NULL /\ rover' = None

ReverseEnumeratorNext ==
    /\ rover # None /\ ~ rover.forward
    /\ IF rover.at > rover.end
       THEN /\ ret' = Get(arrays[rover.array], rover.at - 1)
            /\ rover' = [rover EXCEPT !.at = @ - 1]
       ELSE ret' = NULL /\ rover' = None

-----------------------------------------------------------------------------
(* Bounds of the model *)

TotalItems == Sets!MapThenSumSet(LAMBDA i : Count(arrays[i]), Live)
HasRoom(n) == TotalItems + n <= MaxItems

Indices(id)   == 0 .. Count(arrays[id]) - 1
RangesOf(id)  == [location : 0 .. Count(arrays[id]),
                  length : {All, 1}]
=============================================================================
