------------------------------- MODULE MCAssoc -------------------------------
(***************************************************************************)
(* A small instance of Assocs for TLC.                                     *)
(***************************************************************************)
EXTENDS Assocs, TLC

CONSTANTS a1, a2, c1, u, w, x, y

(* One of the integer keys is negative.                                    *)
UpToThree == -1 .. 3

(* Of the strings, two are equal.                                          *)
FirstTwoEqual == [k \in Intptr |-> k] @@ (a1 :> "a" @@ a2 :> "a" @@ c1 :> "b")

Up   == [k \in Intptr |-> k] @@ (a1 :> 1 @@ a2 :> 1 @@ c1 :> 2)
Down == [k \in DOMAIN Up |-> -Up[k]]
UpAndDown == [up |-> Up, down |-> Down]

(* A state is what the next steps depend on, not the last call and result. *)
View == <<kind, assocs, refs, rover>>

(* The assocs can be told apart by their pairs only.                       *)
Interchangeable == Permutations(Id)

(* Bounds: an assoc that is alone has up to three pairs; of two, each has  *)
(* up to two, no key is negative and neither is enumerated.                *)
Small ==
    /\ \A i \in Live : Count(i) + Cardinality(Live) <= 4
    /\ Cardinality(Live) > 1 =>
          /\ rover = None
          /\ \A i \in Live :
                /\ assocs[i].size <= 2
                /\ \A n \in DOMAIN assocs[i].pairs :
                      LET k == assocs[i].pairs[n].key IN k \in Intptr => k >= 0
=============================================================================
