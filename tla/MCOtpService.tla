---------------------------- MODULE MCOtpService ----------------------------
(* Instances of OtpService for TLC. *)
EXTENDS OtpService, TLC

CONSTANTS t1, t2

OneThread == {t1}
TwoThreads == {t1, t2}

Symmetry == Permutations(Threads)
=============================================================================
