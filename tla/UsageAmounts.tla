---------------------------- MODULE UsageAmounts ----------------------------
(***************************************************************************)
(* Sums over sets of log entries.                                          *)
(*                                                                         *)
(* The amount a set S of entries carries for token t is the number of its  *)
(* units: one pair <<e, i>> for each entry e of t and each i in 1..use[e]. *)
(* Counting units makes the sum a Cardinality, whose laws need no          *)
(* induction to use.                                                       *)
(***************************************************************************)
EXTENDS Integers, FiniteSets

CONSTANT MaxUse     \* the most tokens one log entry may report

ASSUME MaxUseAssumption == MaxUse \in Nat

\* The units the entries of S carry for token t.
Units(S, owner, use, t) ==
    {x \in S \X (1..MaxUse) : owner[x[1]] = t /\ x[2] <= use[x[1]]}

\* The usage the entries of S carry for token t.
Amount(S, owner, use, t) == Cardinality(Units(S, owner, use, t))
=============================================================================
