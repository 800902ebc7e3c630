--------------------------- MODULE MCPointerQueue ----------------------------
(***************************************************************************)
(* A small instance of the queues for TLC.  The blocks malloc can return   *)
(* are bounded by Bucket, and so is the queue: a push that needs one more  *)
(* does not happen.                                                        *)
(***************************************************************************)
EXTENDS StructQueue, TLC

CONSTANTS b1, b2, b3, x, y

Symmetric == Permutations(Bucket)

(* A state is what the next steps depend on: not the last result.          *)
View == <<blocks, fields, allowance, live, rover, held>>

(* Bound: there is an enumerator, or a pointer is held, not both.          *)
Apart == rover = None \/ held = None
=============================================================================
