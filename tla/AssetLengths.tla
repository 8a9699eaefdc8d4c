---------------------------- MODULE AssetLengths ----------------------------
(***************************************************************************)
(* What the schedule compiler and the expansion of its blocks share: the   *)
(* assets of the catalog with their durations, the running totals of a     *)
(* list of durations, and numbers taken in ascending order.                *)
(***************************************************************************)
EXTENDS Integers, Sequences, FiniteSets

CONSTANT Duration  \* [asset -> duration]

ASSUME DurationAssumption == \A asset \in DOMAIN Duration : Duration[asset] \in Nat

\* [n |-> the sum of the first n members of s]
Totals(s) ==
  LET total[n \in 0..Len(s)] == IF n = 0 THEN 0 ELSE total[n - 1] + s[n] IN total
LengthsOf(picks) == [n \in DOMAIN picks |-> Duration[picks[n]]]

\* Python's sorted(): the n-th number has n - 1 below it.
Ascending(S) ==
  [n \in 1..Cardinality(S) |->
     CHOOSE x \in S : Cardinality({y \in S : y < x}) = n - 1]
=============================================================================
