---------------------------- MODULE MCPointerSet -----------------------------
(***************************************************************************)
(* Small instances of PointerSet for TLC.  Five keys, two of which are     *)
(* equal, collide at the end of a storage of four; stored together they    *)
(* make it grow.                                                           *)
(***************************************************************************)
EXTENDS PointerSet, TLC

CONSTANTS k1, k2, k3, k4, k5, s1, s2

CollidingHash == [k \in Key |-> (k1 :> 6 @@ k2 :> 6 @@ k3 :> 7 @@ k4 :> 4 @@ k5 :> 3)[k]]
FirstTwoEqual == [k \in Key |-> (k1 :> "a" @@ k2 :> "a" @@ k3 :> "b" @@ k4 :> "c" @@ k5 :> "d")[k]]

(* A single set grows to eight slots; two sets have four each.             *)
SizeBound == <<8, 4>>
=============================================================================
