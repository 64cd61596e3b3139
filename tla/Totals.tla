------------------------------- MODULE Totals -------------------------------
(***************************************************************************)
(* Sums over a set, without recursion: the sum of f over S is the number   *)
(* of unit coins in the heaps {x} \X (1 .. f[x]), one heap per x of S.     *)
(***************************************************************************)
EXTENDS Integers, FiniteSets

Coins(S, f) == UNION {{x} \X (1 .. f[x]) : x \in S}

Total(S, f) == Cardinality(Coins(S, f))

\* What makes the total a number, also for an infinite S.
Countable(S, f) == IsFiniteSet(Coins(S, f))
=============================================================================
