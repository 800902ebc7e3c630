----------------------------- MODULE AbstractMap -----------------------------
(***************************************************************************)
(* What a map promises its user: per map a partial function from keys (up  *)
(* to is_equal) to values, and the results of the operations on it.        *)
(***************************************************************************)
CONSTANTS
    Map,        \* the maps
    Class,      \* the keys, up to equality
    Value,      \* the values
    Missing,    \* no value for a key
    Null,       \* what operations return for no value
    None        \* no map, no result

VARIABLES dict, ret

vars == <<dict, ret>>

Live  == {m \in Map : dict[m] # None}
Empty == [c \in Class |-> Missing]

Bind(m, c, v) == dict' = [dict EXCEPT ![m] = [@ EXCEPT ![c] = v]]
Has(m, c)     == dict[m][c] # Missing

Create(m) == ret' = None /\ dict[m] = None /\ dict' = [dict EXCEPT ![m] = Empty]

Done(m)   == ret' = None /\ m \in Live /\ dict' = [dict EXCEPT ![m] = None]

Clear(m)  == ret' = None /\ m \in Live /\ dict' = [dict EXCEPT ![m] = Empty]

(* an operation that only reorganises the storage                          *)
Tidy(m)   == ret' = None /\ m \in Live /\ UNCHANGED dict

Set(m, c, v) == ret' = None /\ m \in Live /\ Bind(m, c, v)

Insert(m, c, v) ==
    /\ m \in Live
    /\ IF Has(m, c) THEN ret' = 0 /\ UNCHANGED dict
                    ELSE ret' = 1 /\ Bind(m, c, v)

(* returns the value that is in the map afterwards                         *)
Register(m, c, v) ==
    /\ m \in Live
    /\ IF Has(m, c) THEN ret' = dict[m][c] /\ UNCHANGED dict
                    ELSE ret' = v /\ Bind(m, c, v)

(* Returns the value that was replaced; writing the very same pair again   *)
(* replaces nothing and may return NULL.                                   *)
Update(m, c, v) ==
    /\ m \in Live
    /\ \/ ret' = IF Has(m, c) THEN dict[m][c] ELSE Null
       \/ dict[m][c] = v /\ ret' = Null
    /\ Bind(m, c, v)

Remove(m, c) ==
    /\ m \in Live
    /\ ret' = IF Has(m, c) THEN 1 ELSE 0
    /\ Bind(m, c, Missing)

(* dst' is src over dst                                                    *)
Merge(dst, src) ==
    /\ ret' = None
    /\ dst \in Live /\ src \in Live
    /\ dict' = [dict EXCEPT ![dst] =
                   [c \in Class |-> IF Has(src, c) THEN dict[src][c] ELSE @[c]]]

Clone(dst, src) ==
    /\ ret' = None
    /\ dict[dst] = None /\ src \in Live
    /\ dict' = [dict EXCEPT ![dst] = dict[src]]

Init == dict = [m \in Map |-> None] /\ ret = None

Next ==
    \/ \E m \in Map : Create(m) \/ Done(m) \/ Clear(m) \/ Tidy(m)
    \/ \E m \in Map, c \in Class, v \in Value :
           Set(m, c, v) \/ Insert(m, c, v) \/ Register(m, c, v) \/ Update(m, c, v)
    \/ \E m \in Map, c \in Class : Remove(m, c)
    \/ \E dst, src \in Map : Merge(dst, src) \/ Clone(dst, src)

Spec == Init /\ [][Next]_vars
=============================================================================
