------------------------------ MODULE MCSignIn ------------------------------
(* Instances of SignIn for TLC. *)
EXTENDS SignIn, TLC

CONSTANTS t1, t2

TwoThreads == {t1, t2}

Symmetry == Permutations(Threads)
=============================================================================
