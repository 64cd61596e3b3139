---------------------------- MODULE MCMarketplace ----------------------------
(* Instances of Marketplace for TLC. *)
EXTENDS Marketplace, TLC

CONSTANTS e1, e2, w1, w2, j1, j2, j3, r1, r2

TwoEmployers == {e1, e2}
TwoWorkers == {w1, w2}
ThreeJobs == {j1, j2, j3}
TwoRequests == {r1, r2}

\* A price the commission divides and one it has to round.
PriceSet == {100, 105}
\* Below, at and inside the deposit limits.
AmountSet == {99, 105, 205}

Symmetry ==
  Permutations(Employers) \cup Permutations(Workers) \cup
  Permutations(Jobs) \cup Permutations(Requests)
=============================================================================
