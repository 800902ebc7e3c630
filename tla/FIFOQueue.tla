------------------------------ MODULE FIFOQueue ------------------------------
(***************************************************************************)
(* What a queue promises: items come out in the order they went in, NULL   *)
(* when there are none, and a reset forgets them all.  A struct can be     *)
(* overwritten where it is.                                                *)
(***************************************************************************)
EXTENDS Sequences

CONSTANTS Item, NULL, None

VARIABLES items, ret

vars == <<items, ret>>

Init == items = <<>> /\ ret = None

Push(x) == items' = Append(items, x) /\ ret' = None

Pop ==
    \/ items = <<>> /\ ret' = NULL /\ UNCHANGED items
    \/ items # <<>> /\ ret' = Head(items) /\ items' = Tail(items)

Overwrite(x) ==
    \E i \in DOMAIN items : items' = [items EXCEPT ![i] = x] /\ ret' = None

Clear == items' = <<>> /\ ret' = None

Next == (\E x \in Item : Push(x) \/ Overwrite(x)) \/ Pop \/ Clear

Spec == Init /\ [][Next]_vars
=============================================================================
