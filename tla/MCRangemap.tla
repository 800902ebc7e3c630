----------------------------- MODULE MCRangemap ------------------------------
(***************************************************************************)
(* A small instance of Rangemap for TLC.                                   *)
(***************************************************************************)
EXTENDS Rangemap

(* every valid range, an empty one and one that leaves the domain          *)
AllGiven == ValidRanges \cup {Make(1, 0), Make(LocationMax, 2)}
==============================================================================
