------------------------------ MODULE PairArray ------------------------------
(***************************************************************************)
(* mulle__pointerpairarray: a growing array of pairs of a key and a value. *)
(* An array is a record of its pairs and its size, the capacity.  The      *)
(* operators map the array a function gets to the array it leaves.         *)
(*                                                                         *)
(* Keys are compared in two ways: class maps keys that is_equal takes for  *)
(* equal to the same value, rank maps a key to its place in the order of a *)
(* compare function.                                                       *)
(***************************************************************************)
EXTENDS Slices, FiniteSets

CONSTANTS
    NULL,
    NotAKey,          \* mulle_pointerpair_notakey
    NotFound          \* mulle_not_found_e, and the -1 of a bsearch

ASSUME PairArrayAssumption == NotFound \notin Nat

Pair(k, v) == [key |-> k, value |-> v]
InvalidPair == Pair(NotAKey, NULL)
IsInvalid(p) == p.key = NotAKey

PairCount(a) == Len(a.pairs)
IsFull(a)    == PairCount(a) = a.size

-----------------------------------------------------------------------------
(* Memory *)

FreshPairs(capacity) == [pairs |-> <<>>, size |-> capacity]

ReallocPairs(a, size) == [a EXCEPT !.size = Pow2Round(size)]
GrowPairs(a) == ReallocPairs(a, 2 * a.size)

(* room for n more                                                         *)
GuaranteePairs(a, n) ==
    LET available == a.size - PairCount(a)
    IN  IF available < n THEN ReallocPairs(a, a.size + (n - available)) ELSE a

-----------------------------------------------------------------------------
(* Operations *)

AddGuaranteedPair(a, p) == [a EXCEPT !.pairs = Append(@, p)]

AddPair(a, p) == AddGuaranteedPair(IF IsFull(a) THEN GrowPairs(a) ELSE a, p)

(* add, of each pair of ps: the size is doubled as often as it has to be   *)
AddPairs(a, ps) ==
    LET needed == PairCount(a) + Len(ps)
        roomy  == IF needed > a.size THEN ReallocPairs(a, Max2(needed, 2 * a.size)) ELSE a
    IN  [roomy EXCEPT !.pairs = @ \o ps]

LastPair(a) == IF a.pairs = <<>> THEN InvalidPair ELSE a.pairs[PairCount(a)]
PopPair(a)  == IF a.pairs = <<>> THEN a
               ELSE [a EXCEPT !.pairs = SubSeq(@, 1, PairCount(a) - 1)]

GetPair(a, i)    == a.pairs[i + 1]
SetPair(a, i, p) == [a EXCEPT !.pairs[i + 1] = p]

GetPairsInRange(a, range) == Slice(a.pairs, Validated(range, PairCount(a)))

RemovePairsInRange(a, range) ==
    [a EXCEPT !.pairs = Without(@, Validated(range, PairCount(a)))]

ResetPairs(a) == [a EXCEPT !.pairs = <<>>]

-----------------------------------------------------------------------------
(* Sorting and searching *)

(* qsort: it is not stable, any permutation that is in order may come out  *)
InOrder(pairs, rank) ==
    \A i, j \in DOMAIN pairs : i < j => rank[pairs[i].key] <= rank[pairs[j].key]

PairSortings(pairs, rank) ==
    LET orders == {f \in [DOMAIN pairs -> DOMAIN pairs] :
                      \A i, j \in DOMAIN pairs : f[i] = f[j] => i = j}
    IN  {s \in {[i \in DOMAIN pairs |-> pairs[f[i]]] : f \in orders} : InOrder(s, rank)}

FirstHit(hits) == IF hits = {} THEN NotFound
                  ELSE CHOOSE i \in hits : \A j \in hits : i <= j

(* the first key in r that is_equal takes for k; none if k is the notakey  *)
FindCallback(pairs, k, r, class) ==
    IF k = NotAKey THEN NotFound
    ELSE FirstHit({i \in r.location .. r.location + r.length - 1 :
                      class[pairs[i + 1].key] = class[k]})

(* the first key in r that the compare function takes for k                *)
FindCompare(pairs, k, r, rank) ==
    FirstHit({i \in r.location .. r.location + r.length - 1 :
                 rank[pairs[i + 1].key] = rank[k]})

(* A mutant: the last pair is never looked at.                             *)
BsearchShort(pairs, k, rank) ==
    LET n == Len(pairs)
        probe[w \in (0 .. n) \X (-1 .. n - 1)] ==
            LET middle == (w[1] + w[2]) \div 2
                at     == rank[pairs[middle + 1].key]
            IN  IF w[1] >= w[2] THEN NotFound
                ELSE IF at = rank[k] THEN middle
                ELSE IF at < rank[k] THEN probe[<<middle + 1, w[2]>>]
                ELSE probe[<<w[1], middle - 1>>]
    IN  probe[<<0, n - 1>>]

(* bsearch between first and last, w, which are in order                   *)
Bsearch(pairs, k, rank) ==
    LET n == Len(pairs)
        probe[w \in (0 .. n) \X (-1 .. n - 1)] ==
            LET middle == (w[1] + w[2]) \div 2
                at     == rank[pairs[middle + 1].key]
            IN  IF w[1] > w[2] THEN NotFound
                ELSE IF at = rank[k] THEN middle
                ELSE IF at < rank[k] THEN probe[<<middle + 1, w[2]>>]
                ELSE probe[<<w[1], middle - 1>>]
    IN  probe[<<0, n - 1>>]
=============================================================================
