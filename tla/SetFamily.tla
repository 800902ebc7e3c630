------------------------------ MODULE SetFamily ------------------------------
(***************************************************************************)
(* What sets promise their user: per set, keys of which no two are equal,  *)
(* and the results of the operations on them.                              *)
(***************************************************************************)
CONSTANTS
    SetId,    \* the sets
    Key,      \* the keys
    Class,    \* Class[k]: what equal keys have in common
    Hole,     \* what a lookup returns for no key
    None      \* no set, no result

VARIABLES held, ret

vars == <<held, ret>>

Live == {s \in SetId : held[s] # None}

Equals(S, k)   == {l \in S : Class[l] = Class[k]}
Has(S, k)      == Equals(S, k) # {}
Content(a)     == IF a = None THEN {} ELSE held[a]
Over(S, T)     == S \cup {k \in T : ~ Has(S, k)}

Become(s, S, result) == ret' = result /\ held' = [held EXCEPT ![s] = S]

Create(s) == held[s] = None /\ Become(s, {}, None)
Done(s)   == s \in Live /\ Become(s, None, None)
Clear(s)  == s \in Live /\ Become(s, {}, None)
Tidy(s)   == s \in Live /\ Become(s, held[s], None)

Set(s, k) == s \in Live /\ Become(s, Over({k}, held[s]), None)

Insert(s, k) ==
    s \in Live /\ Become(s, Over(held[s], {k}), IF Has(held[s], k) THEN 0 ELSE 1)

(* returns the key that is in the set afterwards                           *)
Register(s, k) ==
    /\ s \in Live
    /\ \E l \in Equals(Over(held[s], {k}), k) : Become(s, Over(held[s], {k}), l)

Lookup(s, k) ==
    /\ s \in Live
    /\ \E l \in IF Has(held[s], k) THEN Equals(held[s], k) ELSE {Hole} :
           Become(s, held[s], l)

Remove(s, k) ==
    s \in Live /\ Become(s, held[s] \ Equals(held[s], k), IF Has(held[s], k) THEN 1 ELSE 0)

Merge(dst, src) == {dst, src} \subseteq Live /\ Become(dst, Over(held[src], held[dst]), None)

Clone(dst, src) == held[dst] = None /\ src \in Live /\ Become(dst, held[src], None)

(* the keys of a that b has; nothing if one of them is missing             *)
Intersect(dst, a, b) ==
    dst \in Live /\ Become(dst, {k \in Content(a) : Has(Content(b), k)}, None)

(* of equal keys, the one of b                                             *)
Union(dst, a, b) == dst \in Live /\ Become(dst, Over(Content(b), Content(a)), None)

Init == held = [s \in SetId |-> None] /\ ret = None

Next ==
    \/ \E s \in SetId : Create(s) \/ Done(s) \/ Clear(s) \/ Tidy(s)
    \/ \E s \in SetId, k \in Key :
           Set(s, k) \/ Insert(s, k) \/ Register(s, k) \/ Lookup(s, k) \/ Remove(s, k)
    \/ \E dst, src \in SetId : Merge(dst, src) \/ Clone(dst, src)
    \/ \E dst \in SetId, a, b \in Live \cup {None} : Intersect(dst, a, b) \/ Union(dst, a, b)

Spec == Init /\ [][Next]_vars
=============================================================================
