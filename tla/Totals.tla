------------------------------- MODULE Totals -------------------------------
(***************************************************************************)
(* The sum of the values of a function over a finite part of its domain:   *)
(* what a module account owes, or what was charged, over the records.      *)
(* TotalsProofs has the lemmas about it.                                   *)
(***************************************************************************)
EXTENDS Integers, FiniteSets, FiniteSetsExt

Total(f, S) == MapThenSumSet(LAMBDA x : f[x], S)
=============================================================================
