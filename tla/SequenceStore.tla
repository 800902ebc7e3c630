---------------------------- MODULE SequenceStore ----------------------------
(***************************************************************************)
(* What arrays promise: each is a sequence, and a call has the effect and  *)
(* the result of its operation on sequences, whatever happens to storages. *)
(* An enumerator returns what its array held when it was opened, until the *)
(* array is changed; then it is invalid.                                   *)
(*                                                                         *)
(* call' names the operation of a step and its arguments: <<name, array,   *)
(* argument, argument>>.                                                   *)
(***************************************************************************)
EXTENDS Integers, Sequences, FiniteSets

CONSTANTS Id, None, NULL, Class, Rank

VARIABLES lists, rest, ret, call

Seqs == INSTANCE SequencesExt

vars == <<lists, rest, ret, call>>

Self  == call'[2]
Arg   == call'[3]
Other == call'[4]
List  == lists[Self]

Calls(names) == call'[1] \in names

(* rest is what a valid enumerator has still to return.  It may be given   *)
(* up at any change, and has to be if it is no longer true.                *)
Enumeration == rest' \in {rest, None}

Becomes(s) ==
    /\ lists' = [lists EXCEPT ![Self] = s]
    /\ ret' = None
    /\ Enumeration

(* the part of s that a range of locations and lengths denotes             *)
First(r)    == r.location + 1
Last(r, n)  == IF r.length = -1 THEN n ELSE r.location + r.length
Fits(r, n)  == r.location <= n /\ Last(r, n) <= n
Part(s, r)  == IF Fits(r, Len(s)) THEN SubSeq(s, First(r), Last(r, Len(s))) ELSE <<>>

(* t is what is left of s when the places in gone are taken out of it      *)
Cut(s, gone, t) ==
    LET kept == DOMAIN s \ gone
    IN  \E n \in 0 .. Len(s) : \E f \in [1 .. n -> kept] :
            /\ \A j, k \in 1 .. n : j < k => f[j] < f[k]
            /\ \A i \in kept : \E k \in 1 .. n : f[k] = i
            /\ t = [k \in 1 .. n |-> s[f[k]]]

Loses(gone) == Cut(List, gone, lists'[Self]) /\ Becomes(lists'[Self])

Init ==
    /\ lists = [i \in Id |-> None]
    /\ rest = None /\ ret = None

Create == Calls({"init"}) /\ List = None /\ Becomes(<<>>)
Copy   == Calls({"copy"}) /\ List = None /\ Becomes(lists[Arg])
Done   == Calls({"done"}) /\ List # None /\ Becomes(None)

Tidy   == Calls({"guarantee", "grow", "size_to_fit"})
          /\ UNCHANGED lists /\ ret' = None /\ Enumeration

Add      == Calls({"add"}) /\ Becomes(Append(List, Arg))
Extend   == Calls({"advance"}) /\ Becomes(List \o Arg)
Concat   == Calls({"add_array"}) /\ Becomes(List \o Part(lists[Arg], Other))
Insert   == Calls({"insert"})
            /\ Becomes(SubSeq(List, 1, Arg) \o Other \o SubSeq(List, Arg + 1, Len(List)))
Clear    == Calls({"reset"}) /\ Becomes(<<>>)
DropLast == Calls({"remove_last"})
            /\ Becomes(IF List = <<>> THEN <<>> ELSE Seqs!Front(List))

(* A pointer array removes what the range and the array have in common; an *)
(* owning array does nothing if the range does not fit.                    *)
RemoveRange ==
    /\ Calls({"remove_in_range", "remove_objects_in_range"})
    /\ IF call'[1] = "remove_objects_in_range" /\ ~ Fits(Arg, Len(List)) THEN Becomes(List)
       ELSE Loses({i \in DOMAIN List : First(Arg) <= i /\ i <= Last(Arg, Len(List))})

RemoveAll    == Calls({"remove", "compact"}) /\ Loses({i \in DOMAIN List : List[i] = Arg})
RemoveEquals == Calls({"remove_object"})
                /\ Loses({i \in DOMAIN List : Class[List[i]] = Class[Arg]})

(* the last occurrence goes and is returned, NULL if there is none         *)
RemoveOne ==
    /\ Calls({"remove_unique"})
    /\ Cut(List, {i \in DOMAIN List : List[i] = Arg
                                      /\ \A j \in i + 1 .. Len(List) : List[j] # Arg},
           lists'[Self])
    /\ lists' = [lists EXCEPT ![Self] = lists'[Self]]
    /\ ret' = IF \E i \in DOMAIN List : List[i] = Arg THEN Arg ELSE NULL
    /\ Enumeration

(* an owning array returns nothing                                         *)
RemoveOneEqual ==
    Calls({"remove_unique_object"})
    /\ Loses({i \in DOMAIN List : Class[List[i]] = Class[Arg]
                     /\ \A j \in i + 1 .. Len(List) : Class[List[j]] # Class[Arg]})

(* set returns what was there; a struct array and an owning array do not   *)
Put ==
    /\ Calls({"set", "set_only"})
    /\ lists' = [lists EXCEPT ![Self] = [i \in DOMAIN List |-> IF i = Arg + 1 THEN Other
                                                             ELSE List[i]]]
    /\ ret' = IF call'[1] = "set" THEN List[Arg + 1] ELSE None
    /\ Enumeration

(* s, extended with NULLs until it has n elements                          *)
Padded(s, n) == [i \in 1 .. (IF n > Len(s) THEN n ELSE Len(s)) |->
                    IF i \in DOMAIN s THEN s[i] ELSE NULL]

PutZeroing ==
    Calls({"set_zeroing"}) /\ Becomes([Padded(List, Arg + 1) EXCEPT ![Arg + 1] = Other])

GetZeroing ==
    /\ Calls({"get_zeroing_address"})
    /\ lists' = [lists EXCEPT ![Self] = Padded(List, Arg + 1)]
    /\ ret' = Padded(List, Arg + 1)[Arg + 1]
    /\ Enumeration

Resize ==
    Calls({"set_count", "zero_to_count"})
    /\ Becomes(SubSeq(List, 1, IF Arg < Len(List) THEN Arg ELSE Len(List))
               \o (IF call'[1] = "set_count" THEN Other
                   ELSE [k \in 1 .. Arg - Len(List) |-> NULL]))

Sort ==
    /\ Calls({"qsort"})
    /\ \A x \in Seqs!ToSet(List) \cup Seqs!ToSet(lists'[Self]) :
          Cardinality({i \in DOMAIN List : List[i] = x})
             = Cardinality({i \in DOMAIN lists'[Self] : lists'[Self][i] = x})
    /\ \A i, j \in DOMAIN lists'[Self] : i < j => Rank[lists'[Self][i]] <= Rank[lists'[Self][j]]
    /\ Becomes(lists'[Self])

Pop ==
    /\ Calls({"pop", "pop_struct"})
    /\ lists' = [lists EXCEPT ![Self] = IF @ = <<>> THEN @ ELSE Seqs!Front(@)]
    /\ ret' = IF List # <<>> THEN Seqs!Last(List)
              ELSE IF call'[1] = "pop" THEN NULL ELSE None
    /\ Enumeration

(* The victim is empty afterwards, its items are in the array.             *)
Absorb ==
    /\ Calls({"absorb"})
    /\ lists' = [lists EXCEPT ![Self] = @ \o lists[Arg], ![Arg] = <<>>]
    /\ ret' = None /\ Enumeration

(* Data of a struct array may hold but the first of the structs.           *)
Extract ==
    /\ Calls({"extract_pointers", "extract_data"})
    /\ lists' = [lists EXCEPT ![Self] = <<>>]
    /\ IF call'[1] = "extract_pointers" THEN ret' = List
       ELSE \E n \in 0 .. Len(List) : ret' = SubSeq(List, 1, n)
    /\ Enumeration

Open ==
    /\ Calls({"enumerate", "reverse_enumerate"})
    /\ rest' = IF call'[1] = "enumerate" THEN List ELSE Seqs!Reverse(List)
    /\ ret' = None /\ UNCHANGED lists

EnumeratorNext ==
    /\ Calls({"next"}) /\ rest # None
    /\ ret' = IF rest = <<>> THEN NULL ELSE Head(rest)
    /\ rest' = IF rest = <<>> THEN None ELSE Tail(rest)
    /\ UNCHANGED lists

Next ==
    \/ Create \/ Copy \/ Done \/ Tidy \/ Add \/ Extend \/ Concat \/ Insert \/ Clear
    \/ DropLast \/ RemoveRange \/ RemoveAll \/ RemoveEquals \/ RemoveOne \/ RemoveOneEqual
    \/ Put \/ PutZeroing \/ GetZeroing \/ Resize \/ Sort \/ Pop \/ Absorb
    \/ Extract \/ Open \/ EnumeratorNext

Spec == Init /\ [][Next]_vars
=============================================================================
