------------------------------ MODULE MCArrays -------------------------------
(***************************************************************************)
(* Small instances of Arrays for TLC.                                      *)
(***************************************************************************)
EXTENDS Arrays, TLC

CONSTANTS o1, o2, o3, b1, b2, b3, b4, pool

FirstTwoEqual == [o \in Object |-> IF o = o3 THEN "b" ELSE "a"]
NullFirst     == [x \in Object \cup Values |->
                    IF x = NULL THEN 0 ELSE IF x = o1 THEN 1 ELSE IF x = o2 THEN 1 ELSE 2]
AllKinds      == {"pointers", "objects", "structs"}
PointersOnly  == {"pointers"}
SomePool      == [i \in Id |-> IF i = 1 THEN {NULL} ELSE {NULL, pool}]

(* A state is what the next steps depend on: not the last call and result, *)
(* not the allocator of an array that is gone, and not which block is      *)
(* which.                                                                  *)
Anonymous(l) ==
    IF l \in Block
    THEN <<{i \in Live : arrays[i].storage = l},
           IF l \in DOMAIN heap THEN heap[l] ELSE NULL,
           rover # None /\ rover.storage = l>>
    ELSE <<l>>
View ==
    <<kind,
      [i \in Live |-> <<allocator[i], Anonymous(arrays[i].storage),
                       [arrays[i] EXCEPT !.storage = NULL]>>],
      {Anonymous(b) : b \in DOMAIN heap}, Cardinality(DOMAIN heap),
      misfreed, stolen, refs,
      IF rover = None THEN None ELSE <<Anonymous(rover.storage), [rover EXCEPT !.storage = NULL]>> >>

(* Bounds: the first array has up to three items while it is alone and not *)
(* enumerated; two arrays together have up to two, in storages for no      *)
(* more, and up to one while there is an enumerator.                       *)
Small ==
    \/ Live = {1} /\ rover = None /\ arrays[1].size <= 4
    \/ Cardinality(Live) <= 1 /\ TotalItems <= 2 /\ \A i \in Live : arrays[i].size <= 4
    \/ /\ TotalItems <= IF rover = None THEN 2 ELSE 1
       /\ \A i \in Live : arrays[i].size <= 2
=============================================================================
