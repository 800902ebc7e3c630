------------------------------- MODULE PairBag -------------------------------
(***************************************************************************)
(* What an assoc promises, whenever it sorts: it is a bag of pairs, and a  *)
(* search, an index and an enumeration go by the order of the keys.        *)
(*                                                                         *)
(* call' names the operation of a step and its arguments: <<name, assoc,   *)
(* argument, argument>>.                                                   *)
(***************************************************************************)
EXTENDS Integers, Sequences, FiniteSets, Bags

CONSTANTS Id, None, NULL, NotAKey, NotFound, Class, Order

VARIABLES kind, bags, compare, rest, ret, call

vars == <<kind, bags, compare, rest, ret, call>>

Self   == call'[2]
Arg    == call'[3]
Other  == call'[4]
Bag    == bags[Self]
Pairs  == BagToSet(Bag)
Invalid == [key |-> NotAKey, value |-> NULL]

Calls(names) == call'[1] \in names

Copies(p)      == SetToBag({p})
With(k)        == {p \in Pairs : Class[p.key] = Class[k]}
Select(S)      == [p \in S |-> Bag[p]]
Classes(b)     == {Class[p.key] : p \in BagToSet(b)}
Place(k)       == Order[compare[Self]][k]

(* how many copies of the pairs of S are in the bag b, how many of its     *)
(* pairs are below k in the order, and how many are not above it           *)
Total(b, S) == Cardinality(UNION {{p} \X (1 .. b[p]) : p \in S})
Size        == Total(Bag, Pairs)
Below(k)    == Total(Bag, {p \in Pairs : Place(p.key) < Place(k)})
UpTo(k)     == Total(Bag, {p \in Pairs : Place(p.key) <= Place(k)})
At(p, i)    == Below(p.key) <= i /\ i < UpTo(p.key)

Enumeration == rest' \in {rest, None}

Becomes(b) ==
    /\ bags' = [bags EXCEPT ![Self] = b]
    /\ ret' = None /\ Enumeration /\ UNCHANGED compare

(* an operation whose result is in R, and that only sorts                  *)
Answers(R) == ret' \in R /\ UNCHANGED <<bags, compare, rest>>

Init ==
    /\ bags = [i \in Id |-> None]
    /\ rest = None /\ ret = None

Create ==
    /\ Calls({"init"}) /\ Bag = None
    /\ bags' = [bags EXCEPT ![Self] = EmptyBag]
    /\ compare' = [compare EXCEPT ![Self] = Arg]
    /\ ret' = None /\ Enumeration
Copy ==
    /\ Calls({"copy"}) /\ Bag = None
    /\ bags' = [bags EXCEPT ![Self] = bags[Arg]]
    /\ compare' = [compare EXCEPT ![Self] = compare[Arg]]
    /\ ret' = None /\ Enumeration
Done ==
    /\ Calls({"done"}) /\ Bag # None
    /\ bags' = [bags EXCEPT ![Self] = None]
    /\ compare' = [compare EXCEPT ![Self] = None]
    /\ ret' = None /\ Enumeration
Reorder ==
    /\ Calls({"set_compare"})
    /\ compare' = [compare EXCEPT ![Self] = Arg]
    /\ ret' = None /\ Enumeration /\ UNCHANGED bags

Clear == Calls({"reset"}) /\ Becomes(EmptyBag)
Add   == Calls({"add"}) /\ Becomes(Bag (+) Copies([key |-> Arg, value |-> Other]))

(* One pair with the key gives way to the new one, if there is one.        *)
Set ==
    /\ Calls({"set"})
    /\ LET new == Copies([key |-> Arg, value |-> Other])
       IN  \/ With(Arg) = {} /\ Becomes(Bag (+) new)
           \/ \E old \in With(Arg) : Becomes((Bag (-) Copies(old)) (+) new)

SetAtIndex ==
    /\ Calls({"set_at_index"})
    /\ \E old \in Pairs : At(old, Arg) /\ Becomes((Bag (-) Copies(old)) (+) Copies(Other))

RemoveKey == Calls({"remove"}) /\ Becomes(Select(Pairs \ With(Arg)))

(* as many pairs go as the range has; which ones is left open              *)
RemoveSome ==
    /\ Calls({"remove_in_range"})
    /\ LET n == Size
           r == Arg
           gone == IF r.length = -1 /\ r.location <= n THEN n - r.location
                   ELSE IF r.length # -1 /\ r.location + r.length <= n THEN r.length ELSE 0
       IN  /\ bags'[Self] \sqsubseteq Bag
           /\ Total(bags'[Self], BagToSet(bags'[Self])) = n - gone
           /\ Becomes(bags'[Self])

RemoveLast ==
    Calls({"remove_last"}) /\ \E p \in Pairs : Becomes(Bag (-) Copies(p))

(* Pairs of the other come in whose keys are new, one for a key; all keys  *)
(* of it if the range is everything.                                       *)
AddOther ==
    /\ Calls({"add_assoc"})
    /\ \E new \in SUBSET BagToSet(bags[Arg]) :
          /\ \A p, q \in new : Class[p.key] = Class[q.key] => p = q
          /\ \A p \in new : Class[p.key] \notin Classes(Bag)
          /\ Other = [location |-> 0, length |-> -1]
                => Classes(bags[Arg]) \subseteq Classes(Bag) \cup {Class[p.key] : p \in new}
          /\ Becomes(Bag (+) SetToBag(new))

Get ==
    /\ Calls({"get"})
    /\ Answers(IF With(Arg) = {} THEN {NULL} ELSE {p.value : p \in With(Arg)})

GetAtIndex == Calls({"get_at_index"}) /\ Answers({p \in Pairs : At(p, Arg)})

(* the first index in the range at which a pair with the key is            *)
Find ==
    /\ Calls({"find"})
    /\ LET n == Size
           r == Other
           end == IF r.length = -1 THEN n ELSE r.location + r.length
           at == {i \in r.location .. end - 1 : \E p \in With(Arg) : At(p, i)}
       IN  Answers(IF end > n \/ at = {} THEN {NotFound}
                   ELSE {CHOOSE i \in at : \A j \in at : i <= j})

FindUnsorted ==
    Calls({"find_compare"})
    /\ Answers(IF With(Arg) = {} THEN {NotFound} ELSE 0 .. Size - 1)

Member == Calls({"member"}) /\ Answers({With(Arg) # {}})

Last == Calls({"get_last"}) /\ Answers(IF Pairs = {} THEN {Invalid} ELSE Pairs)

GetSome == Calls({"get_in_range"}) /\ Answers({ret'})
           /\ \A i \in DOMAIN ret' : ret'[i] \in Pairs

(* Owned keys are compared without their values.  Integer keys are         *)
(* compared with them, in the order their pairs happen to have, so that    *)
(* with a key twice in either the answer may be no.                        *)
Equal ==
    /\ Calls({"is_equal"})
    /\ LET a == Bag
           b == bags[Arg]
           Count(x, c) == Total(x, {p \in BagToSet(x) : Class[p.key] = c})
           Alike == \A c \in Classes(a) \cup Classes(b) : Count(a, c) = Count(b, c)
       IN  IF kind = "string"
           THEN Answers({Alike})
           ELSE Answers(IF a # b THEN {FALSE}
                        ELSE IF \A c \in Classes(a) : Count(a, c) = 1 THEN {TRUE}
                        ELSE {TRUE, FALSE})

(* The keys of the assoc become f of them.                                 *)
Renamed(f) ==
    LET image == {[p EXCEPT !.key = f[p.key]] : p \in Pairs}
    IN  [p \in image |->
            Total(Bag, {q \in Pairs : f[q.key] = p.key /\ q.value = p.value})]

Within(r, k) == r.location <= k /\ k < r.location + r.length
Fits(r)      == r.length # -1 /\ r.location + r.length <= Size

(* A range of keys is moved by an offset, if it lies within the count and  *)
(* its first key exists.                                                   *)
Remap ==
    /\ Calls({"remap"})
    /\ IF Fits(Arg) /\ Arg.length > 0 /\ With(Arg.location) # {}
       THEN Becomes(Renamed([k \in {p.key : p \in Pairs} |->
                        IF Within(Arg, k) THEN k + Other ELSE k]))
       ELSE ret' = None /\ UNCHANGED <<bags, compare, rest>>

(* The keys of a range move to an index and those they displace close the  *)
(* gap; upward, the key behind the index goes along.  No key moves to a    *)
(* negative index, but one that exists makes the call count as a change.   *)
Move ==
    /\ Calls({"move"})
    /\ LET from == Arg
           to   == Other
           end  == from.location + from.length
           f == [k \in {p.key : p \in Pairs} |->
                    IF to < 0 THEN k
                    ELSE IF Within(from, k) \/ (to > from.location /\ k = to + 1)
                    THEN k + (to - from.location)
                    ELSE IF to <= k /\ k < from.location THEN k + from.length
                    ELSE IF end <= k /\ k <= to THEN k - from.length
                    ELSE k]
       IN  IF Fits(from) /\ from.length > 0 /\ ~ Within(from, to)
                 /\ With(IF to < from.location THEN to ELSE from.location) # {}
           THEN Becomes(Renamed(f))
           ELSE ret' = None /\ UNCHANGED <<bags, compare, rest>>

(* all pairs, in order                                                     *)
Open ==
    /\ Calls({"enumerate"})
    /\ Len(rest') = Size
    /\ \A p \in Pairs : Bag[p] = Cardinality({i \in DOMAIN rest' : rest'[i] = p})
    /\ \A i, j \in DOMAIN rest' : i < j => Place(rest'[i].key) <= Place(rest'[j].key)
    /\ ret' = None /\ UNCHANGED <<bags, compare>>

EnumeratorNext ==
    /\ Calls({"next"}) /\ rest # None
    /\ ret' = IF rest = <<>> THEN Invalid ELSE Head(rest)
    /\ rest' = IF rest = <<>> THEN None ELSE Tail(rest)
    /\ UNCHANGED <<bags, compare>>

Call ==
    \/ Create \/ Copy \/ Done \/ Reorder \/ Clear \/ Add \/ Set \/ SetAtIndex \/ RemoveKey
    \/ RemoveSome \/ RemoveLast \/ AddOther \/ Get \/ GetAtIndex \/ Find \/ FindUnsorted
    \/ Member \/ Last \/ GetSome \/ Equal \/ Remap \/ Move \/ Open \/ EnumeratorNext

Next == Call /\ UNCHANGED kind

Spec == Init /\ [][Next]_vars
=============================================================================
