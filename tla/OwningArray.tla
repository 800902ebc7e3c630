----------------------------- MODULE OwningArray -----------------------------
(***************************************************************************)
(* mulle__array: a pointer array that retains what is added, releases what *)
(* is removed, and compares with the is_equal callback.  The functions map *)
(* a holding, an array with the reference counts of all objects, to a      *)
(* holding.                                                                *)
(***************************************************************************)
EXTENDS PointerArray

CONSTANTS
    Object,           \* what an owning array holds
    Class,            \* is_equal: objects of one class are equal
    QuickWindow       \* how many pointers find_in_range checks for identity

ASSUME OwningArrayAssumption ==
    /\ NULL \notin Object
    /\ DOMAIN Class = Object
    /\ QuickWindow \in Nat

Holding(a, refs) == [array |-> a, refs |-> refs]
On(h, a)         == [h EXCEPT !.array = a]

Occurrences(s, p) == Cardinality({i \in DOMAIN s : s[i] = p})

Retained(h, ps) == [h EXCEPT !.refs = [p \in Object |-> @[p] + Occurrences(ps, p)]]

(* release, in reverse order, is harmless for the NULL that pop returns    *)
Released(h, ps) == [h EXCEPT !.refs = [p \in Object |-> @[p] - Occurrences(ps, p)]]

(* add_guaranteed and add: retain comes first                              *)
AddOwned(h, p) == LET kept == Retained(h, <<p>>) IN On(kept, Add(h.array, p))

(* set: the new object is retained before the old one is released          *)
SetOwned(h, i, p) ==
    On(Released(Retained(h, <<p>>), <<Get(h.array, i)>>), Set(h.array, i, p))

(* add_array: every object is retained on its way                          *)
AddArray(h, other, range) ==
    LET r  == Validated(range, Count(other))
        ps == Slice(other.items, r)
        afterwards[i \in 0 .. r.length] ==
            IF i = 0 THEN On(h, Guarantee(h.array, r.length))
            ELSE LET kept == Retained(afterwards[i - 1], <<ps[i]>>)
                 IN  On(kept, AddGuaranteed(kept.array, ps[i]))
    IN  IF r.length = 0 THEN h ELSE afterwards[r.length]

(* copy_items: behind the guarantee, _n_mutations stays as it is           *)
CopyItems(h, src) ==
    IF Count(src) = 0 THEN h
    ELSE LET roomy == Guarantee(h.array, Count(src))
         IN  On(Retained(h, src.items), [roomy EXCEPT !.items = @ \o src.items])

RemoveLastOwned(h) == On(Released(h, <<GetLast(h.array)>>), Pop(h.array))

(* done releases what is there and frees the storage                       *)
DoneOwned(h) == On(Released(h, h.array.items), Done(h.array))

(* reset: only asks for releases if the callback is one that releases      *)
ResetOwned(h) == On(Released(h, h.array.items), Reset(h.array))

(* A mutant: the objects are removed and then what is there is released.   *)
RemoveThenRelease(h, range) ==
    LET r    == Validated(range, Count(h.array))
        left == RemoveInRange(h.array, r)
    IN  Released(On(h, left), Slice(left.items, Validated(r, Count(left))))

(* remove_in_range: released while they are still in the array             *)
RemoveOwnedInRange(h, range) ==
    LET r == Validated(range, Count(h.array))
    IN  On(Released(h, Slice(h.array.items, r)), RemoveInRange(h.array, r))

(* remove: all that are equal, from the last to the first                  *)
RemoveOwned(h, p) ==
    LET count == Count(h.array)
        afterwards[n \in 0 .. count] ==
            IF n = 0 THEN h
            ELSE LET left == afterwards[n - 1]
                     i    == count - n
                 IN  IF Class[Get(left.array, i)] = Class[p]
                     THEN RemoveOwnedInRange(left, Make(i, 1))
                     ELSE left
    IN  afterwards[count]

(* remove_unique: the last that is equal                                   *)
RemoveUniqueOwned(h, p) ==
    LET hits == {i \in 0 .. Count(h.array) - 1 : Class[Get(h.array, i)] = Class[p]}
    IN  IF hits = {} THEN h
        ELSE RemoveOwnedInRange(h, Make(CHOOSE i \in hits : \A j \in hits : i >= j, 1))

(* find_in_range: an identical pointer within the window comes before an   *)
(* equal one in front of it.                                               *)
FindOwnedInRange(a, p, range) ==
    LET r     == Validated(range, Count(a))
        ends  == r.location + r.length
        quick == FindInRange(a, p, [r EXCEPT !.length = IF @ < QuickWindow THEN @
                                                         ELSE QuickWindow])
        hits  == {i \in r.location .. ends - 1 : Class[Get(a, i)] = Class[p]}
    IN  IF quick # NotFound THEN quick
        ELSE IF hits = {} THEN NotFound
        ELSE First(hits)

IsEqualOwned(a, other) ==
    /\ Count(a) = Count(other)
    /\ \A i \in DOMAIN a.items : Class[a.items[i]] = Class[other.items[i]]

Member(a, p) == \E i \in DOMAIN a.items : Class[a.items[i]] = Class[p]
=============================================================================
