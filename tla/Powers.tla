------------------------------- MODULE Powers --------------------------------
(***************************************************************************)
(* mulle-container-math.h, as far as containers size their storages by it. *)
(***************************************************************************)
EXTENDS Integers

Power[e \in Nat] == IF e = 0 THEN 1 ELSE 2 * Power[e - 1]      \* 1 << e

(* mulle_pow2roundup: the least power of two that is not below v, 1 for 0  *)
Pow2Round(v) == Power[CHOOSE e \in 0 .. v : /\ Power[e] >= v
                                            /\ \A d \in 0 .. e - 1 : Power[d] < v]
=============================================================================
