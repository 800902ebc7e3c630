----------------------------- MODULE StructQueue -----------------------------
(***************************************************************************)
(* mulle__structqueue: the pointer queue with structs in the buckets, that *)
(* push copies in and pop copies out.  Besides, reserve returns a pointer  *)
(* into a bucket, which the caller fills and may keep.                     *)
(***************************************************************************)
EXTENDS PointerQueue

VARIABLE
    held              \* a pointer that reserve returned: the bucket and the
                      \* index, and how many structs are in front of it

structVars == <<vars, held>>

(* What is in front of the held struct when one is popped: it is no longer *)
(* the caller's when none is.                                              *)
Popped == IF held = None \/ count' = count THEN held
          ELSE IF held.ahead = 0 THEN None
          ELSE [held EXCEPT !.ahead = @ - 1]

(* A mutant: the pointer is computed when _write_index has moved on.       *)
ReserveBehind(x) ==
    /\ Push(x)
    /\ held' = [block |-> write', index |-> writeIndex' % BucketSize, ahead |-> count]

(* reserve, and the caller stores x: of the pointers it is told, it keeps  *)
(* the last.                                                               *)
Reserve(x) ==
    /\ Push(x)
    /\ held' = [block |-> write', index |-> writeIndex' - 1, ahead |-> count]

(* push: reserve, and memcpy                                               *)
PushStruct(x) == Push(x) /\ UNCHANGED held

PopStruct   == Pop /\ held' = Popped
ResetStructs == Reset /\ held' = None
DoneStructs == Done /\ held' = None

(* The caller writes through the pointer it has kept, though not while it  *)
(* enumerates the queue.                                                   *)
Update(x) ==
    /\ held # None /\ rover = None
    /\ storage' = [storage EXCEPT ![held.block][held.index] = x]
    /\ ret' = None
    /\ UNCHANGED <<next, allocated, fields, allowance, live, rover, held>>

(* grow and shrink called by themselves, where they do not lose structs:   *)
(* grow a queue without room in its last bucket, shrink one whose first    *)
(* bucket was read to its end.                                             *)
GrowQueue ==
    /\ live /\ writeIndex >= BucketSize
    /\ \E p \in Bucket : Grow(p)
    /\ writeIndex' = 0
    /\ Modify
    /\ UNCHANGED <<storage, count, allowance, live, ret, held>>

ShrinkQueue ==
    /\ live /\ readIndex >= BucketSize /\ read # NULL
    /\ FreeBucket(read)
    /\ IF next[read] = NULL
       THEN /\ read' = NULL /\ write' = NULL
            /\ readIndex' = BucketSize /\ writeIndex' = BucketSize
       ELSE read' = next[read] /\ readIndex' = 0 /\ UNCHANGED <<write, writeIndex>>
    /\ Modify
    /\ UNCHANGED <<count, allowance, live, ret, held>>

StructInit == Init /\ held = None

StructNext ==
    \/ \E x \in Item : PushStruct(x) \/ Reserve(x) \/ Update(x)
    \/ PopStruct
    \/ ResetStructs
    \/ DoneStructs
    \/ GrowQueue \/ ShrinkQueue
    \/ (Restart \/ Enumerate \/ EnumerateNext \/ EnumerateDone) /\ UNCHANGED held

StructSpec == StructInit /\ [][StructNext]_structVars
-----------------------------------------------------------------------------
(* Properties *)

Abstract == INSTANCE FIFOQueue WITH
    items <- IF live THEN Contents ELSE <<>>,
    ret   <- ret

(* Across bucket boundaries, spares and resets, a queue returns what was   *)
(* pushed, all of it, once and in order, and a struct as it was last       *)
(* written through the pointer of reserve.                                 *)
RefinesFIFOQueue == Abstract!Spec

(* The pointer that reserve returned stays good while other structs are    *)
(* pushed, popped and enumerated: as long as its struct is queued, it      *)
(* points to exactly the place that pop will read it from.                 *)
HeldExact ==
    held # None =>
        \E c \in Walks(read) :
            LET at == readIndex + held.ahead
            IN  /\ held.ahead < count
                /\ at < Len(c) * BucketSize
                /\ held.block = c[at \div BucketSize + 1]
                /\ held.index = at % BucketSize

(* Inductive invariant: the queue's, and where the held struct is.         *)
StructInv ==
    /\ QueueInv
    /\ held \in {None} \cup [block : Bucket, index : Index, ahead : Nat]
    /\ ~ live => held = None
    /\ HeldExact
=============================================================================
