---------------------------- MODULE MCUserService ----------------------------
(* Instances of UserService for TLC. *)
EXTENDS UserService, TLC

CONSTANTS e1, w1, j1, t1, t2

EmployerAndWorker == {e1, w1}
OneJob == {j1}
TheEmployer == [j \in Completed |-> e1]
TheWorker == [j \in Completed |-> w1]
OneThread == {t1}
TwoThreads == {t1, t2}
FewRatings == {100, 450}

\* The two parties of the one job may each rate the other.
Symmetry == Permutations(Threads) \cup Permutations(Parties)

\* Bound: one of the two rows is as it was created.
OneRowWritten == \E u \in Parties : user[u] = NewRow
=============================================================================
