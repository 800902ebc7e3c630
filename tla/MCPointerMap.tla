---------------------------- MODULE MCPointerMap -----------------------------
(***************************************************************************)
(* Small instances of PointerMap for TLC.                                  *)
(***************************************************************************)
EXTENDS PointerMap, TLC

CONSTANTS k1, k2, k3, k4, k5, k6, v1, v2, m1, m2

(* Six keys, one of which equals another.  Masked with size - 2 the        *)
(* hashes collide at the end of the storage, so that chains wrap around    *)
(* in tables of 4 and of 8 slots, and change places when the size does.    *)
CollidingHash ==
    [k \in Key |-> (k1 :> 6 @@ k2 :> 6 @@ k3 :> 7 @@ k4 :> 4 @@ k5 :> 2 @@ k6 :> 5)[k]]

FirstTwoEqual == (k1 :> "a" @@ k2 :> "a" @@ k3 :> "b" @@ k4 :> "c" @@ k5 :> "d" @@ k6 :> "e")

(* the same for three keys, of which the first two are equal               *)
SmallHash  == k1 :> 3 @@ k2 :> 3 @@ k3 :> 2
SmallClass == k1 :> "a" @@ k2 :> "a" @@ k3 :> "b"

NoneOrAll == {{}, Key \cup Value}

(* Maps are alike, and so are equal keys of one hash.                      *)
Interchangeable ==
    Permutations(Map) \cup Permutations({k1, k2})
=============================================================================
