--------------------------- MODULE RangeDictionary ----------------------------
(***************************************************************************)
(* What mulle__rangemap promises: a set of ranges that do not overlap,     *)
(* each with a value.  A range is inserted where nothing is, and removed   *)
(* as it was inserted.                                                     *)
(***************************************************************************)
CONSTANTS
    Value,
    Usable,              \* the ranges that are neither empty nor invalid
    Overlap(_, _),       \* two ranges have a location in common
    Given,               \* the ranges that are asked for
    None

VARIABLES entries, ret

vars == <<entries, ret>>

Hit(range) == {e \in entries : Overlap(e.range, range)}

Create  == entries = None /\ entries' = {} /\ ret' = None
Discard == entries # None /\ entries' = None /\ ret' = None
Clear   == entries # None /\ entries' = {} /\ ret' = None

Reject(range) == range \notin Usable /\ ret' = "EINVAL" /\ UNCHANGED entries

Insert(range, v) ==
    /\ entries # None
    /\ \/ Reject(range)
       \/ /\ range \in Usable /\ Hit(range) # {}
          /\ ret' = "EADDRINUSE" /\ UNCHANGED entries
       \/ /\ range \in Usable /\ Hit(range) = {}
          /\ ret' = "OK" /\ entries' = entries \cup {[range |-> range, value |-> v]}

Remove(range) ==
    /\ entries # None
    /\ \/ Reject(range)
       \/ /\ range \in Usable /\ Hit(range) = {}
          /\ ret' = "ENOENT" /\ UNCHANGED entries
       \/ /\ range \in Usable /\ Hit(range) # {}
          /\ \A e \in entries : e.range # range
          /\ ret' = "EACCES" /\ UNCHANGED entries
       \/ \E e \in entries : /\ e.range = range
                             /\ ret' = "OK" /\ entries' = entries \ {e}

Init == entries = None /\ ret = None

Next ==
    \/ Create \/ Discard \/ Clear
    \/ \E range \in Given, v \in Value : Insert(range, v)
    \/ \E range \in Given : Remove(range)

Spec == Init /\ [][Next]_vars
===============================================================================
