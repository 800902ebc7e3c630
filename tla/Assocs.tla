------------------------------- MODULE Assocs --------------------------------
(***************************************************************************)
(* The assocs of one kind that a program uses, and the promises they keep. *)
(***************************************************************************)
EXTENDS Assoc

Ranges(id) == [location : 0 .. Count(id), length : {All, 1}]

Init ==
    /\ kind \in {"intptr", "string"}
    /\ assocs = [i \in Id |-> None]
    /\ refs = [o \in Owned |-> 0]
    /\ rover = None /\ ret = None /\ call = <<"none">>

Next ==
    \/ \E id \in Id :
          \/ \E n \in Capacities, c \in DOMAIN Order :
                InitAssoc(id, n, c) /\ call' = <<"init", id, c>>
          \/ \E other \in Live : CopyAssoc(id, other) /\ call' = <<"copy", id, other>>
    \/ \E id \in Live :
          \/ DoneAssoc(id) /\ call' = <<"done", id>>
          \/ ResetAssoc(id) /\ call' = <<"reset", id>>
          \/ \E c \in DOMAIN Order : SetCompare(id, c) /\ call' = <<"set_compare", id, c>>
          \/ \E k \in Key, v \in Value :
                \/ AddKey(id, k, v) /\ call' = <<"add", id, k, v>>
                \/ AddKeyGuaranteed(id, k, v) /\ call' = <<"add", id, k, v>>
                \/ SetKey(id, k, v) /\ call' = <<"set", id, k, v>>
                \/ \E i \in Indices(id) :
                      SetAtIndex(id, i, k, v) /\ call' = <<"set_at_index", id, i, Pair(k, v)>>
          \/ \E other \in Live : \E r \in Ranges(other) :
                AddAssocRange(id, other, r) /\ call' = <<"add_assoc", id, other, r>>
          \/ \E r \in Ranges(id) :
                RemoveInRange(id, r) /\ call' = <<"remove_in_range", id, r>>
          \/ \E k \in Key : RemoveKey(id, k) /\ call' = <<"remove", id, k>>
          \/ RemoveLast(id) /\ call' = <<"remove_last", id>>
          \/ \E k \in Key :
                \/ GetKey(id, k) /\ call' = <<"get", id, k>>
                \/ FindKey(id, k) /\ call' = <<"find", id, k, Make(0, All)>>
                \/ FindKeyByCompare(id, k) /\ call' = <<"find_compare", id, k>>
                \/ Member(id, k) /\ call' = <<"member", id, k>>
                \/ \E r \in Ranges(id) :
                      FindInRange(id, k, r) /\ call' = <<"find", id, k, r>>
          \/ \E i \in Indices(id) : GetAtIndex(id, i) /\ call' = <<"get_at_index", id, i>>
          \/ GetLast(id) /\ call' = <<"get_last", id>>
          \/ \E r \in Ranges(id) : GetInRange(id, r) /\ call' = <<"get_in_range", id, r>>
          \/ \E other \in Live : IsEqual(id, other) /\ call' = <<"is_equal", id, other>>
          \/ /\ kind = "intptr"
             /\ \E l \in Intptr \cap Nat, n \in 1 .. 2 :
                   \/ \E offset \in {-1, 2} :
                         /\ Remap(id, Make(l, n), offset)
                         /\ call' = <<"remap", id, Make(l, n), offset>>
                   \/ \E index \in Intptr :
                         /\ MoveTo(id, Make(l, n), index)
                         /\ call' = <<"move", id, Make(l, n), index>>
          \/ Enumerate(id) /\ call' = <<"enumerate", id>>
    \/ EnumeratorNext /\ call' = <<"next">>

Spec == Init /\ [][Next]_vars

-----------------------------------------------------------------------------
(* Properties *)

TypeOK ==
    /\ kind \in {"intptr", "string"}
    /\ \A i \in Live :
          /\ assocs[i].pairs \in Seq([key : Key, value : Value])
          /\ assocs[i].size \in Nat
          /\ assocs[i].sorted \in BOOLEAN /\ assocs[i].compare \in DOMAIN Order
    /\ refs \in [Owned -> Int]
    /\ rover # None => rover.assoc \in Live /\ IsSorted(rover.assoc)

(* An assoc that calls itself sorted is in the order of its compare        *)
(* function, whatever was added, set, removed or given another key since   *)
(* it was sorted.                                                          *)
SortedWhenSearched ==
    \A i \in Live : IsSorted(i) => InOrder(assocs[i].pairs, Rank(i))

Places    == UNION {{i} \X DOMAIN assocs[i].pairs : i \in Live}
PairAt(w) == assocs[w[1]].pairs[w[2]]

(* The pairs of an assoc fit into its storage.  Each assoc of the kind     *)
(* that owns has retained each key and value once per place; the other     *)
(* kind retains nothing.                                                   *)
OwnershipExact ==
    /\ TypeOK
    /\ \A i \in Live : Count(i) <= assocs[i].size
    /\ \A o \in Owned :
          refs[o] = IF kind = "string"
                    THEN Cardinality({w \in Places : PairAt(w).key = o})
                         + Cardinality({w \in Places : PairAt(w).value = o})
                    ELSE 0

BagOf(pairs) ==
    [p \in {pairs[i] : i \in DOMAIN pairs} |->
        Cardinality({i \in DOMAIN pairs : pairs[i] = p})]

Contents == [i \in Id |-> IF assocs[i] = None THEN None ELSE BagOf(assocs[i].pairs)]
Compares == [i \in Id |-> IF assocs[i] = None THEN None ELSE assocs[i].compare]
Rest     == IF rover = None THEN None
            ELSE SubSeq(assocs[rover.assoc].pairs, rover.at + 1, rover.end)

Abstract == INSTANCE PairBag WITH bags <- Contents, compare <- Compares, rest <- Rest

(* The effect and the result of a call do not depend on whether the pairs  *)
(* were sorted before, nor on the order that equal keys got; reading does  *)
(* not disturb an enumerator.                                              *)
RefinesPairBag == Abstract!Spec

(* What the drawing in move_intptr_key_range says: the keys of the range   *)
(* move, and those between it and the index; any other key stays.          *)
MoveLeavesOthers ==
    [][call'[1] = "move" =>
         LET id    == call'[2]
             r     == call'[3]
             index == call'[4]
             Moves(k) == \/ Contains(r, k)
                         \/ index <= k /\ k < r.location
                         \/ r.location + r.length <= k /\ k <= index
         IN  \A i \in DOMAIN assocs[id].pairs :
                 Moves(assocs[id].pairs[i].key)
                 \/ \E j \in DOMAIN assocs'[id].pairs :
                       assocs'[id].pairs[j] = assocs[id].pairs[i]]_vars
=============================================================================
