---------------------------- MODULE PointerQueue -----------------------------
(***************************************************************************)
(* mulle__pointerqueue: a FIFO of pointers in a chain of buckets.  Items   *)
(* are written behind _write_index of the last bucket and read in front of *)
(* _read_index of the first; a bucket that has been read completely is     *)
(* freed by the next pop, into a list of at most spare_allowance spares    *)
(* that new buckets are taken from.                                        *)
(*                                                                         *)
(* Buckets and their _next pointers are explicit, because what can go      *)
(* wrong here is the plumbing: a stale _next, a bucket that is in the      *)
(* chain and among the spares, a bucket that is lost.                      *)
(***************************************************************************)
EXTENDS Integers, Sequences, FiniteSets, SequencesExt

CONSTANTS
    Bucket,           \* the memory blocks malloc can return for a bucket
    Item,             \* what can be queued
    NULL,
    None,             \* no result, no enumerator
    Stale,            \* an enumerator whose queue was modified
    BucketSize,
    Allowances        \* the spare allowances that init is called with

ASSUME QueueAssumption ==
    /\ IsFiniteSet(Bucket)
    /\ NULL \notin Bucket \cup Item
    /\ None \notin Item \cup {NULL, Stale}
    /\ BucketSize \in Nat /\ BucketSize > 0
    /\ Allowances \subseteq Nat /\ Allowances # {}

VARIABLES
    next,             \* next[b]: b->_next
    storage,          \* storage[b][i]: b->_storage[ i]
    allocated,        \* the blocks malloc has handed out
    read, write, spares,
    readIndex, writeIndex,
    count,
    spareAllowance,
    allowance,        \* the argument of init
    live,             \* between init and done
    rover,            \* the enumerator and what it has returned
    ret               \* what the last operation returned

blocks == <<next, storage, allocated>>
fields == <<read, write, spares, readIndex, writeIndex, count, spareAllowance>>
vars   == <<blocks, fields, allowance, live, rover, ret>>

Index == 0 .. BucketSize - 1

(* c is what a loop from p along _next passes before it gets to NULL.      *)
IsWalk(c, p) ==
    /\ p = IF c = <<>> THEN NULL ELSE c[1]
    /\ \A i \in DOMAIN c : next[c[i]] = IF i = Len(c) THEN NULL ELSE c[i + 1]

Walks(p) == {c \in BoundedSeq(Bucket, Cardinality(Bucket)) : IsWalk(c, p)}

Blocks(c) == {c[i] : i \in DOMAIN c}

-----------------------------------------------------------------------------
(* Buckets *)

(* A mutant: a fresh block makes room among the spares, too.               *)
NewBucketAllowing(p) ==
    /\ spareAllowance' = spareAllowance + 1
    /\ IF spares # NULL
       THEN p = spares /\ spares' = next[p] /\ UNCHANGED allocated
       ELSE p \notin allocated /\ allocated' = allocated \cup {p} /\ UNCHANGED spares

(* new_bucket: p is the first spare if there is one, else fresh memory     *)
NewBucket(p) ==
    \/ /\ spares # NULL /\ p = spares
       /\ spares' = next[p]
       /\ spareAllowance' = spareAllowance + 1
       /\ UNCHANGED allocated
    \/ /\ spares = NULL /\ p \in Bucket \ allocated
       /\ allocated' = allocated \cup {p}
       /\ UNCHANGED <<spares, spareAllowance>>

(* A mutant: the _next of a former spare is not cleared.                   *)
GrowUncleared(p) ==
    /\ NewBucket(p)
    /\ next' = IF write = NULL THEN next ELSE [next EXCEPT ![write] = p]
    /\ write' = p
    /\ read' = IF read = NULL THEN p ELSE read
    /\ readIndex' = IF read = NULL THEN 0 ELSE readIndex

(* grow: p becomes the write bucket, with _next cleared                    *)
Grow(p) ==
    /\ NewBucket(p)
    /\ next' = [b \in Bucket |-> IF b = p THEN NULL
                                 ELSE IF b = write THEN p ELSE next[b]]
    /\ write' = p
    /\ read' = IF read = NULL THEN p ELSE read
    /\ readIndex' = IF read = NULL THEN 0 ELSE readIndex

(* What a bucket out of use holds is abstracted to NULL, which no push     *)
(* writes: an item read from such a bucket would show.                     *)
Void == [i \in Index |-> NULL]

(* A mutant: the new spare is not counted.                                 *)
FreeBucketUncounted(q) ==
    /\ storage' = [storage EXCEPT ![q] = Void]
    /\ next' = [next EXCEPT ![q] = spares]
    /\ spares' = q
    /\ UNCHANGED <<spareAllowance, allocated>>

(* free_bucket                                                             *)
FreeBucket(q) ==
    /\ storage' = [storage EXCEPT ![q] = Void]
    /\ \/ /\ spareAllowance # 0
          /\ next' = [next EXCEPT ![q] = spares]
          /\ spares' = q
          /\ spareAllowance' = spareAllowance - 1
          /\ UNCHANGED allocated
       \/ /\ spareAllowance = 0
          /\ allocated' = allocated \ {q}
          /\ UNCHANGED <<next, spares, spareAllowance>>

-----------------------------------------------------------------------------
(* Operations *)

(* _n_mutations moves on: next of an enumerator opened before would assert *)
Modify == rover' = IF rover = None THEN None ELSE Stale

PushIntoBucket(x) ==
    /\ writeIndex < BucketSize
    /\ storage' = [storage EXCEPT ![write][writeIndex] = x]
    /\ writeIndex' = writeIndex + 1
    /\ UNCHANGED <<next, allocated, read, write, spares, readIndex, spareAllowance>>

PushAndGrow(x) ==
    /\ writeIndex >= BucketSize
    /\ \E p \in Bucket : Grow(p) /\ storage' = [storage EXCEPT ![p][0] = x]
    /\ writeIndex' = 1

Push(x) ==
    /\ live
    /\ PushIntoBucket(x) \/ PushAndGrow(x)
    /\ count' = count + 1
    /\ ret' = None
    /\ Modify
    /\ UNCHANGED <<allowance, live>>

(* A mutant: the item is not counted as popped when it empties the bucket. *)
PopFromBucketUncounted ==
    /\ readIndex < BucketSize
    /\ ~ (read = write /\ readIndex = writeIndex)
    /\ ret' = storage[read][readIndex]
    /\ readIndex' = readIndex + 1
    /\ count' = IF readIndex' = BucketSize THEN count ELSE count - 1
    /\ Modify
    /\ UNCHANGED <<blocks, read, write, spares, writeIndex, spareAllowance>>

(* Nothing to shrink, and pop_noshrink has nothing to return.              *)
PopNothing ==
    /\ readIndex < BucketSize \/ read = NULL
    /\ read = write /\ readIndex = writeIndex
    /\ ret' = NULL
    /\ UNCHANGED <<blocks, fields, rover>>

PopFromBucket ==
    /\ readIndex < BucketSize
    /\ ~ (read = write /\ readIndex = writeIndex)
    /\ ret' = storage[read][readIndex]
    /\ readIndex' = readIndex + 1
    /\ count' = count - 1
    /\ Modify
    /\ UNCHANGED <<blocks, read, write, spares, writeIndex, spareAllowance>>

(* shrink gives the only bucket away, there is nothing left to return      *)
PopLastBucket ==
    /\ readIndex >= BucketSize /\ read # NULL /\ next[read] = NULL
    /\ FreeBucket(read)
    /\ read' = NULL /\ write' = NULL
    /\ readIndex' = BucketSize /\ writeIndex' = BucketSize
    /\ ret' = NULL
    /\ Modify
    /\ UNCHANGED count

(* A mutant: _next is read when free_bucket has already changed it.        *)
PopNextBucketLate ==
    /\ readIndex >= BucketSize /\ read # NULL /\ next[read] # NULL
    /\ FreeBucket(read)
    /\ read' = next'[read]
    /\ readIndex' = 1
    /\ ret' = IF read' = NULL THEN NULL ELSE storage[read'][0]
    /\ count' = count - 1
    /\ Modify
    /\ UNCHANGED <<write, writeIndex>>

(* shrink moves on to the next bucket, whose first item is returned        *)
PopNextBucket ==
    /\ readIndex >= BucketSize /\ read # NULL /\ next[read] # NULL
    /\ FreeBucket(read)
    /\ read' = next[read]
    /\ IF next[read] = write /\ writeIndex = 0
       THEN readIndex' = 0 /\ ret' = NULL /\ UNCHANGED count
       ELSE readIndex' = 1 /\ ret' = storage[next[read]][0] /\ count' = count - 1
    /\ Modify
    /\ UNCHANGED <<write, writeIndex>>

Pop == /\ live
       /\ PopNothing \/ PopFromBucket \/ PopLastBucket \/ PopNextBucket
       /\ UNCHANGED <<allowance, live>>

(* _next after the first n buckets of c went to the spares, each in front  *)
(* of the one before.                                                      *)
OnSpares(c, n) ==
    [b \in Bucket |->
        IF n > 0 /\ b = c[1] THEN spares
        ELSE IF \E i \in 2 .. n : b = c[i]
             THEN c[(CHOOSE i \in 2 .. n : b = c[i]) - 1]
             ELSE next[b]]

(* A mutant: _count is not reset.                                          *)
ResetUncounted ==
    /\ live
    /\ \E c \in Walks(read), n \in 0 .. Cardinality(Bucket) :
        /\ n = IF spareAllowance < Len(c) THEN spareAllowance ELSE Len(c)
        /\ next' = OnSpares(c, n)
        /\ spares' = IF n = 0 THEN spares ELSE c[n]
        /\ spareAllowance' = spareAllowance - n
        /\ allocated' = allocated \ {c[i] : i \in n + 1 .. Len(c)}
    /\ read' = NULL /\ write' = NULL
    /\ readIndex' = BucketSize /\ writeIndex' = BucketSize
    /\ storage' = [b \in Bucket |-> Void]
    /\ ret' = None
    /\ Modify
    /\ UNCHANGED <<count, allowance, live>>

(* reset: buckets of the chain become spares as long as the allowance      *)
(* lasts, the others are freed                                             *)
Reset ==
    /\ live
    /\ \E c \in Walks(read), n \in 0 .. Cardinality(Bucket) :
        /\ n = IF spareAllowance < Len(c) THEN spareAllowance ELSE Len(c)
        /\ next' = OnSpares(c, n)
        /\ spares' = IF n = 0 THEN spares ELSE c[n]
        /\ spareAllowance' = spareAllowance - n
        /\ allocated' = allocated \ {c[i] : i \in n + 1 .. Len(c)}
    /\ read' = NULL /\ write' = NULL
    /\ readIndex' = BucketSize /\ writeIndex' = BucketSize
    /\ count' = 0
    /\ storage' = [b \in Bucket |-> Void]
    /\ ret' = None
    /\ Modify
    /\ UNCHANGED <<allowance, live>>

(* A mutant: the spares are forgotten.                                     *)
DoneKeepingSpares ==
    /\ live
    /\ live' = FALSE
    /\ \E c \in Walks(read) : allocated' = allocated \ Blocks(c)
    /\ storage' = [b \in Bucket |-> Void]
    /\ rover' = None /\ ret' = None
    /\ UNCHANGED <<next, fields, allowance>>

(* done frees the chain and the spares; an enumerator must not outlive it  *)
Done ==
    /\ live
    /\ live' = FALSE
    /\ \E c \in Walks(read), s \in Walks(spares) :
          allocated' = allocated \ (Blocks(c) \cup Blocks(s))
    /\ storage' = [b \in Bucket |-> Void]
    /\ rover' = None /\ ret' = None
    /\ UNCHANGED <<next, fields, allowance>>

(* init of a queue that was done                                           *)
Restart ==
    /\ ~ live
    /\ live' = TRUE
    /\ read' = NULL /\ write' = NULL /\ spares' = NULL
    /\ readIndex' = BucketSize /\ writeIndex' = BucketSize
    /\ count' = 0
    /\ allowance' \in Allowances /\ spareAllowance' = allowance'
    /\ ret' = None
    /\ UNCHANGED <<blocks, rover>>

-----------------------------------------------------------------------------
(* Enumeration *)

Enumerate ==
    /\ live
    /\ rover' = [curr |-> read, index |-> readIndex, seen |-> <<>>]
    /\ UNCHANGED <<blocks, fields, allowance, live, ret>>

Limit(b) == IF b = write THEN writeIndex ELSE BucketSize

(* Whether the enumerator goes on in the bucket after its current one.     *)
HasNextBucket(r) ==
    /\ r.index = BucketSize /\ r.curr # NULL
    /\ next[r.curr] # NULL /\ Limit(next[r.curr]) > 0

(* A mutant: the enumerator ends with its bucket.                          *)
AtEndOfBucket(r) == r.index >= Limit(r.curr)

AtEnd(r) == r.index >= Limit(r.curr) /\ ~ HasNextBucket(r)

Yield(b, i) ==
    rover' = [curr |-> b, index |-> i + 1, seen |-> Append(rover.seen, storage[b][i])]

EnumerateNext ==
    /\ rover \notin {None, Stale} /\ ~ AtEnd(rover)
    /\ IF rover.index < Limit(rover.curr)
       THEN Yield(rover.curr, rover.index)
       ELSE Yield(next[rover.curr], 0)
    /\ UNCHANGED <<blocks, fields, allowance, live, ret>>

(* the loop ends, because next returns 0 or because it is left             *)
EnumerateDone ==
    /\ rover # None
    /\ rover' = None
    /\ UNCHANGED <<blocks, fields, allowance, live, ret>>

-----------------------------------------------------------------------------
Init ==
    /\ next = [b \in Bucket |-> NULL]
    /\ storage = [b \in Bucket |-> Void]
    /\ allocated = {}
    /\ read = NULL /\ write = NULL /\ spares = NULL
    /\ readIndex = BucketSize /\ writeIndex = BucketSize
    /\ count = 0
    /\ allowance \in Allowances /\ spareAllowance = allowance
    /\ live = TRUE
    /\ rover = None
    /\ ret = None

Next ==
    \/ \E x \in Item : Push(x)
    \/ Pop
    \/ Reset
    \/ Done
    \/ Restart
    \/ Enumerate
    \/ EnumerateNext
    \/ EnumerateDone

Spec == Init /\ [][Next]_vars
-----------------------------------------------------------------------------
(* Properties *)

(* What a queue holds: count items from the read position on, bucket by    *)
(* bucket along the chain.                                                 *)
Contents ==
    LET c == CHOOSE c \in Walks(read) : TRUE
    IN  [i \in 1 .. count |->
            LET at == readIndex + i - 1
            IN  storage[c[at \div BucketSize + 1]][at % BucketSize]]

(* The fields hold buckets, indices and counters in their ranges; only the *)
(* enumerator and the result are open to anything that was queued.         *)
TypeOK ==
    /\ next \in [Bucket -> Bucket \cup {NULL}]
    /\ storage \in [Bucket -> [Index -> Item \cup {NULL}]]
    /\ allocated \subseteq Bucket
    /\ {read, write, spares} \subseteq Bucket \cup {NULL}
    /\ readIndex \in 0 .. BucketSize /\ writeIndex \in 0 .. BucketSize
    /\ count \in Nat
    /\ allowance \in Allowances /\ spareAllowance \in 0 .. allowance
    /\ live \in BOOLEAN
    /\ ret \in Item \cup {NULL, None}
    /\ rover \in {None, Stale} \cup
          [curr : Bucket \cup {NULL}, index : 0 .. BucketSize,
           seen : Seq(Item \cup {NULL})]

(* From _read the chain leads to _write and ends there, from _spares a     *)
(* second one ends, they share no bucket, and every block malloc gave out  *)
(* is in one of them: no grow, shrink or reset leaves a stale _next, frees *)
(* a bucket that is in use or forgets one.                                 *)
Chained ==
    live => \E c \in Walks(read), s \in Walks(spares) :
        /\ write = IF c = <<>> THEN NULL ELSE c[Len(c)]
        /\ Blocks(c) \cap Blocks(s) = {}
        /\ allocated = Blocks(c) \cup Blocks(s)

(* done gives back every block.                                            *)
NoLeak == ~ live => allocated = {}

(* The allowance is what a fresh queue has, less the spares it holds: the  *)
(* unsigned counter never wraps below 0, and no spare is ever lost to it.  *)
SparesBalanced ==
    live => \A s \in Walks(spares) : Len(s) + spareAllowance = allowance

(* _count is the number of items between the read and the write position.  *)
CountExact ==
    live => \A c \in Walks(read) :
        count = IF c = <<>> THEN 0
                ELSE (Len(c) - 1) * BucketSize + writeIndex - readIndex

(* The assertions of shrink and of pop_noshrink: a queue gives up its only *)
(* bucket when all that was written has been read, and whenever there is a *)
(* place to read from, in the first bucket or in the one a shrink moves on *)
(* to, it was counted.                                                     *)
AssertionsHold ==
    live /\ read # NULL =>
        /\ readIndex = BucketSize /\ next[read] = NULL =>
               write = read /\ writeIndex = readIndex /\ count = 0
        /\ readIndex = BucketSize /\ next[read] # NULL
              /\ (next[read] = write => writeIndex > 0) => count > 0
        /\ readIndex < BucketSize /\ (read # write \/ readIndex # writeIndex) =>
               count > 0

(* An enumerator returns the items in the order pop would, and stops after *)
(* the last of them and no earlier.                                        *)
EnumeratesAll ==
    rover \notin {None, Stale} =>
        /\ IsPrefix(rover.seen, Contents)
        /\ AtEnd(rover) => rover.seen = Contents

-----------------------------------------------------------------------------
(* Inductive invariant *)

(* The chain c and the spares s are separate, hold all that was allocated, *)
(* and the spares are balanced against the allowance.                      *)
Linked(c, s) ==
    /\ IsInjective(c) /\ IsInjective(s)
    /\ Blocks(c) \cap Blocks(s) = {}
    /\ allocated = Blocks(c) \cup Blocks(s)
    /\ Len(s) + spareAllowance = allowance

(* The read position is in the first bucket of c, the write position in    *)
(* the last one, and count is the distance between them.                   *)
Positioned(c) ==
    /\ write = IF c = <<>> THEN NULL ELSE c[Len(c)]
    /\ IF c = <<>>
       THEN readIndex = BucketSize /\ writeIndex = BucketSize /\ count = 0
       ELSE /\ Len(c) = 1 => readIndex <= writeIndex
            /\ count = (Len(c) - 1) * BucketSize + writeIndex - readIndex

(* An open enumerator is in some bucket of c, behind as many items as it   *)
(* has returned; in an empty chain it has nowhere to be.                   *)
Enumerating(c) ==
    rover \notin {None, Stale} =>
        /\ \A k \in 1 .. Len(rover.seen) : rover.seen[k] = Contents[k]
        /\ IF c = <<>>
           THEN rover.curr = NULL /\ rover.index = BucketSize /\ rover.seen = <<>>
           ELSE \E j \in 1 .. Len(c) :
                    /\ rover.curr = c[j] /\ rover.index <= Limit(c[j])
                    /\ Len(rover.seen) = (j - 1) * BucketSize + rover.index - readIndex

QueueInv ==
    /\ TypeOK
    /\ live => \E c \in Walks(read), s \in Walks(spares) :
                  Linked(c, s) /\ Positioned(c) /\ Enumerating(c)
    /\ ~ live => allocated = {} /\ rover = None
=============================================================================
