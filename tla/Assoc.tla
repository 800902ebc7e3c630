-------------------------------- MODULE Assoc --------------------------------
(***************************************************************************)
(* mulle_assoc: an associative array that is sorted when it is searched.   *)
(* Its pairs live in a pair array; _is_sorted says whether they are in     *)
(* order, and whoever needs the order has them sorted first if they are    *)
(* not.  There are two kinds of assocs: "intptr", whose keys are integers, *)
(* equal if they are the same, and "string", which own keys and values,    *)
(* counted in refs, and have keys that are equal without being the same.   *)
(*                                                                         *)
(* One action per function.  The NULL-tolerant variant of a function does  *)
(* nothing without an assoc.                                               *)
(***************************************************************************)
EXTENDS PairArray

CONSTANTS
    Id,               \* the assocs
    Intptr, String,   \* the keys of either kind
    Value,
    Class,            \* the keys, up to is_equal
    Order,            \* for each compare function, the rank of each key
    Capacities,       \* capacities that init is called with
    MaxPairs,         \* bound: how many pairs all assocs hold together
    None              \* no assoc, no enumerator, no result

Owned == String \cup Value

(* A compare function and is_equal agree on what is equal, and integer     *)
(* keys are equal if they are the same.                                    *)
ASSUME AssocAssumption ==
    /\ NotAKey \notin Intptr \cup String
    /\ Intptr \subseteq Int
    /\ Capacities \subseteq Nat
    /\ \A c \in DOMAIN Order : \A k \in Intptr \cup String : Order[c][k] \in Int
    /\ \A c \in DOMAIN Order : \A k1, k2 \in Intptr : Order[c][k1] = Order[c][k2] <=> k1 = k2
    /\ \A k1, k2 \in Intptr : Class[k1] = Class[k2] <=> k1 = k2
    /\ \A c \in DOMAIN Order : \A k1, k2 \in String :
          Order[c][k1] = Order[c][k2] <=> Class[k1] = Class[k2]
    /\ None \notin Seq([key : Intptr \cup String, value : Value])
    /\ \A P \in SUBSET [key : Intptr \cup String, value : Value] : None \notin [P -> Nat]
    /\ None \notin [pairs : Seq([key : Intptr \cup String, value : Value]), size : Nat,
                    sorted : BOOLEAN, compare : DOMAIN Order]
    /\ None \notin [assoc : Id, at : Nat, end : Nat]

VARIABLES
    kind,
    assocs,
    refs,             \* retains minus releases of each key and value
    rover,            \* an enumerator no operation has invalidated
    ret,              \* what the last operation returned
    call              \* its name and arguments

vars == <<kind, assocs, refs, rover, ret, call>>

Sets == INSTANCE FiniteSetsExt

Key  == IF kind = "intptr" THEN Intptr ELSE String
Live == {i \in Id : assocs[i] # None}

Rank(id)  == Order[assocs[id].compare]
Count(id) == PairCount(assocs[id])
Indices(id) == 0 .. Count(id) - 1
Whole(id) == Make(0, Count(id))
HasRoom(n) == Sets!MapThenSumSet(Count, Live) + n <= MaxPairs

-----------------------------------------------------------------------------
(* Ownership *)

Held(pairs, o) ==
    Cardinality({i \in DOMAIN pairs : pairs[i].key = o})
        + Cardinality({i \in DOMAIN pairs : pairs[i].value = o})

Retained(rs, pairs) ==
    IF kind = "intptr" THEN rs ELSE [o \in Owned |-> rs[o] + Held(pairs, o)]
Released(rs, pairs) ==
    IF kind = "intptr" THEN rs ELSE [o \in Owned |-> rs[o] - Held(pairs, o)]

-----------------------------------------------------------------------------
(* What the actions have in common *)

Put(id, a) == assocs' = [assocs EXCEPT ![id] = a]

(* An enumerator is invalid when its assoc is changed; nothing tells.      *)
Invalidate(id) == rover' = IF rover # None /\ rover.assoc = id THEN None ELSE rover

Unsorted(a)   == [a EXCEPT !.sorted = FALSE]
IsSorted(id)  == assocs[id].sorted
QsortBy(a, rank) ==
    {[a EXCEPT !.pairs = s, !.sorted = TRUE] : s \in PairSortings(a.pairs, rank)}

(* qsort_r_if_needed                                                       *)
QsortIfNeeded(id) == IF IsSorted(id) THEN {assocs[id]} ELSE QsortBy(assocs[id], Rank(id))

(* a function that changes the pairs of id                                 *)
Change(id, a, rs) ==
    /\ Put(id, a) /\ refs' = rs
    /\ Invalidate(id) /\ ret' = None
    /\ UNCHANGED kind

(* a function that at most sorts id to find its result                     *)
Answer(id, a, result) ==
    /\ Put(id, a) /\ ret' = result
    /\ UNCHANGED <<kind, refs, rover>>

-----------------------------------------------------------------------------
(* Creation and destruction *)

InitAssoc(id, capacity, compare) ==
    /\ assocs[id] = None
    /\ Put(id, [pairs |-> <<>>, size |-> capacity, sorted |-> FALSE, compare |-> compare])
    /\ ret' = None
    /\ UNCHANGED <<kind, refs, rover>>

DoneAssoc(id) == Change(id, None, Released(refs, assocs[id].pairs))

ResetAssoc(id) ==
    Change(id, ResetPairs(assocs[id]), Released(refs, assocs[id].pairs))

(* copy_items: the pairs in the order they have, whether sorted or not     *)
CopyItems(dst, src) ==
    IF src.pairs = <<>> THEN dst
    ELSE Unsorted([GuaranteePairs(dst, PairCount(src)) EXCEPT !.pairs = @ \o src.pairs])

(* copy: a new assoc of the same compare function                          *)
CopyAssoc(id, other) ==
    LET src == assocs[other]
    IN  /\ assocs[id] = None /\ HasRoom(PairCount(src))
        /\ Put(id, CopyItems([src EXCEPT !.pairs = <<>>, !.size = PairCount(src),
                                         !.sorted = FALSE], src))
        /\ refs' = Retained(refs, src.pairs)
        /\ ret' = None
        /\ UNCHANGED <<kind, rover>>

(* set_compare: the order will have to be another                          *)
SetCompare(id, compare) ==
    Change(id, Unsorted([assocs[id] EXCEPT !.compare = compare]), refs)

-----------------------------------------------------------------------------
(* Adding and setting *)

MemberKey(id, k) == FindCallback(assocs[id].pairs, k, Whole(id), Class) # NotFound

(* add: the caller sees to it, and a debug build asserts, that the key is  *)
(* new.                                                                    *)
AddKey(id, k, v) ==
    /\ HasRoom(1) /\ ~ MemberKey(id, k)
    /\ Change(id, Unsorted(AddPair(assocs[id], Pair(k, v))), Retained(refs, <<Pair(k, v)>>))

(* add_guaranteed asserts that there is room only                          *)
AddKeyGuaranteed(id, k, v) ==
    /\ HasRoom(1) /\ ~ IsFull(assocs[id])
    /\ Change(id, Unsorted(AddGuaranteedPair(assocs[id], Pair(k, v))),
              Retained(refs, <<Pair(k, v)>>))

(* A mutant: the pair that is overwritten is forgotten.                    *)
SetKeyLeaking(id, k, v) ==
    \E a \in QsortIfNeeded(id) :
        LET i   == Bsearch(a.pairs, k, Rank(id))
            new == Pair(k, v)
        IN  /\ i = NotFound => HasRoom(1)
            /\ Change(id, Unsorted(IF i = NotFound THEN AddPair(a, new) ELSE SetPair(a, i, new)),
                      Retained(refs, <<new>>))

(* set: the new pair is retained before the old one is released            *)
SetKey(id, k, v) ==
    \E a \in QsortIfNeeded(id) :
        LET i   == Bsearch(a.pairs, k, Rank(id))
            new == Pair(k, v)
            old == IF i = NotFound THEN <<>> ELSE <<GetPair(a, i)>>
        IN  /\ i = NotFound => HasRoom(1)
            /\ Change(id, Unsorted(IF i = NotFound THEN AddPair(a, new) ELSE SetPair(a, i, new)),
                      Released(Retained(refs, <<new>>), old))

(* set_at_index: the index is one of the sorted pairs                      *)
SetAtIndex(id, i, k, v) ==
    \E a \in QsortIfNeeded(id) :
        Change(id, Unsorted(SetPair(a, i, Pair(k, v))),
               Released(Retained(refs, <<Pair(k, v)>>), <<GetPair(a, i)>>))

(* add_assoc_range: of other, what has a key that is not there yet.  The   *)
(* range is one of the order other has at the moment.                      *)
AddAssocRange(id, other, range) ==
    LET q    == GetPairsInRange(assocs[other], range)
        news == {n \in DOMAIN q : /\ ~ MemberKey(id, q[n].key)
                                  /\ \A m \in 1 .. n - 1 : Class[q[m].key] # Class[q[n].key]}
    IN  \E f \in [1 .. Cardinality(news) -> news] :
            LET new == [i \in DOMAIN f |-> q[f[i]]]
            IN  /\ \A i, j \in DOMAIN f : i < j => f[i] < f[j]
                /\ HasRoom(Len(new))
                /\ Change(id, IF q = <<>> THEN assocs[id] ELSE Unsorted(AddPairs(assocs[id], new)),
                          Retained(refs, new))

-----------------------------------------------------------------------------
(* Removing.  What is left of sorted pairs is sorted. *)

RemoveRange(id, a, range) ==
    Change(id, RemovePairsInRange(a, range), Released(refs, GetPairsInRange(a, range)))

(* remove_in_range: of the order the pairs have at the moment              *)
RemoveInRange(id, range) == RemoveRange(id, assocs[id], range)

(* remove: bsearch, and what is equal before and behind what it finds      *)
RemoveKey(id, k) ==
    \E a \in QsortIfNeeded(id) :
        LET hit == Bsearch(a.pairs, k, Rank(id))
            end == PairCount(a) - 1
            Equal(i) == Class[GetPair(a, i).key] = Class[k]
        IN  \/ hit = NotFound /\ Answer(id, a, None)
            \/ \E first, last \in 0 .. end :
                  /\ hit \in first .. last
                  /\ \A j \in first .. last : j # hit => Equal(j)
                  /\ first > 0 => ~ Equal(first - 1)
                  /\ last < end => ~ Equal(last + 1)
                  /\ RemoveRange(id, a, Make(first, last + 1 - first))

(* remove_last: not of an empty assoc, whose notakey would be released     *)
RemoveLast(id) ==
    /\ Count(id) > 0
    /\ Change(id, PopPair(assocs[id]), Released(refs, <<LastPair(assocs[id])>>))

-----------------------------------------------------------------------------
(* Searching *)

(* get returns NULL if there is no such key                                *)
GetKey(id, k) ==
    \E a \in QsortIfNeeded(id) :
        LET i == Bsearch(a.pairs, k, Rank(id))
        IN  Answer(id, a, IF i = NotFound THEN NULL ELSE GetPair(a, i).value)

GetAtIndex(id, i) == \E a \in QsortIfNeeded(id) : Answer(id, a, GetPair(a, i))

(* find and find_in_range                                                  *)
FindInRange(id, k, range) ==
    \E a \in QsortIfNeeded(id) :
        Answer(id, a, FindCallback(a.pairs, k, Validated(range, PairCount(a)), Class))

FindKey(id, k) ==
    \E a \in QsortIfNeeded(id) : Answer(id, a, FindCallback(a.pairs, k, Whole(id), Class))

(* these do not sort                                                       *)
FindKeyByCompare(id, k) ==
    Answer(id, assocs[id], FindCompare(assocs[id].pairs, k, Whole(id), Rank(id)))

Member(id, k) == Answer(id, assocs[id], MemberKey(id, k))

GetLast(id) == Answer(id, assocs[id], LastPair(assocs[id]))

GetInRange(id, range) == Answer(id, assocs[id], GetPairsInRange(assocs[id], range))

(* is_equal: keys that are equal if they are the same are compared with    *)
(* their values, others without.  Sorts both.  Modelled for the same       *)
(* compare function, as other would be sorted by that of id.               *)
IsEqual(id, other) ==
    LET n == Count(id)
        Same(a, b) ==
            IF kind = "intptr" THEN a.pairs = b.pairs
            ELSE \A i \in 1 .. n : Rank(id)[a.pairs[i].key] = Rank(id)[b.pairs[i].key]
    IN  /\ id # other /\ assocs[id].compare = assocs[other].compare
        /\ UNCHANGED <<kind, refs, rover>>
        /\ IF n # Count(other) \/ n = 0
           THEN ret' = (n = Count(other)) /\ UNCHANGED assocs
           ELSE \E a \in QsortIfNeeded(id), b \in QsortIfNeeded(other) :
                   /\ assocs' = [assocs EXCEPT ![id] = a, ![other] = b]
                   /\ ret' = Same(a, b)

-----------------------------------------------------------------------------
(* Changing integer keys.  The loops run up the keys from the first one    *)
(* that changes, so they presume the ascending order of integers.  They    *)
(* compare keys with their end as unsigned numbers: a negative key is      *)
(* above any end.                                                          *)

Ascending(id) == \A k1, k2 \in Intptr : k1 < k2 => Rank(id)[k1] < Rank(id)[k2]

(* Pairs from start on get the key New(key), up to the first whose key     *)
(* stays, which ends the loop.                                             *)
Rekeyed(a, start, Stays(_), New(_)) ==
    [a EXCEPT !.pairs = [i \in DOMAIN a.pairs |->
        IF i > start /\ \A j \in start + 1 .. i : ~ Stays(@[j].key)
        THEN Pair(New(@[i].key), @[i].value) ELSE @[i]]]

InBounds(a) == \A i \in DOMAIN a.pairs : a.pairs[i].key \in Intptr

(* A mutant: the pairs are taken for sorted still.                         *)
RemapSorted(id, range, offset) ==
    LET r == Validated(range, Count(id))
    IN  Ascending(id) /\ \E a \in QsortIfNeeded(id) :
            LET start == FindCallback(a.pairs, r.location, Whole(id), Class)
                moved == Rekeyed(a, start, LAMBDA k : k < 0 \/ k >= r.location + r.length,
                                 LAMBDA k : k + offset)
            IN  IF start = NotFound THEN Answer(id, a, None)
                ELSE InBounds(moved) /\ Change(id, moved, refs)

(* remap_intptr_key_range: the range is one of keys, but has to lie within *)
(* the count, and its first key has to be there.                           *)
Remap(id, range, offset) ==
    LET r == Validated(range, Count(id))
    IN  /\ Ascending(id)
        /\ IF r.length = 0 THEN Answer(id, assocs[id], None)
           ELSE \E a \in QsortIfNeeded(id) :
            LET start == FindCallback(a.pairs, r.location, Whole(id), Class)
                moved == Rekeyed(a, start, LAMBDA k : k < 0 \/ k >= r.location + r.length,
                                 LAMBDA k : k + offset)
            IN  IF start = NotFound THEN Answer(id, a, None)
                ELSE InBounds(moved) /\ Change(id, Unsorted(moved), refs)

Contains(r, k) == r.location <= k /\ k < r.location + r.length

(* move_intptr_key_range: the keys of the range move to index, those they  *)
(* displace move the other way, and upward the loop is not over until it   *)
(* has seen index + 1.  With a negative index it is over at once.          *)
MoveTo(id, range, index) ==
    LET r      == Validated(range, Count(id))
        offset == index - r.location
        down   == offset < 0
        away   == IF down THEN Make(index, r.location - index)
                  ELSE Make(r.location + r.length, index + 1 - (r.location + r.length))
        by     == IF down THEN r.length ELSE - r.length
        end    == IF down THEN r.location + r.length - 1 ELSE index + 1
    IN  /\ Ascending(id)
        /\ IF r.length = 0 \/ Contains(r, index) THEN Answer(id, assocs[id], None)
           ELSE \E a \in QsortIfNeeded(id) :
            LET start == FindCallback(a.pairs, IF down THEN index ELSE r.location, Whole(id), Class)
                moved == Rekeyed(a, start, LAMBDA k : k < 0 \/ k > end,
                                 LAMBDA k : IF Contains(away, k) THEN k + by ELSE k + offset)
            IN  IF start = NotFound THEN Answer(id, a, None)
                ELSE InBounds(moved) /\ Change(id, Unsorted(moved), refs)

-----------------------------------------------------------------------------
(* Enumeration, in order *)

Enumerate(id) ==
    \E a \in QsortIfNeeded(id) :
        /\ rover = None
        /\ Put(id, a)
        /\ rover' = [assoc |-> id, at |-> 0, end |-> PairCount(a)]
        /\ ret' = None
        /\ UNCHANGED <<kind, refs>>

EnumeratorNext ==
    /\ rover # None
    /\ IF rover.at < rover.end
       THEN /\ ret' = GetPair(assocs[rover.assoc], rover.at)
            /\ rover' = [rover EXCEPT !.at = @ + 1]
       ELSE ret' = InvalidPair /\ rover' = None
    /\ UNCHANGED <<kind, assocs, refs>>
=============================================================================
