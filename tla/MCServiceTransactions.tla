------------------------ MODULE MCServiceTransactions ------------------------
(* Instances of ServiceTransactions for TLC. *)
EXTENDS ServiceTransactions, TLC

CONSTANTS e1, w1, w2, j1, j2, r1, t1, t2

OneEmployer == {e1}
TwoWorkers == {w1, w2}
OneWorker == {w1}
OneJob == {j1}
TwoJobs == {j1, j2}
OneRequest == {r1}
TwoThreads == {t1, t2}

PriceSet == {100}
AmountSet == {205}

Symmetry ==
  Permutations(Workers) \cup Permutations(Jobs) \cup Permutations(Threads)

(***************************************************************************)
(* A later start for the liveness run: e1 deposited 205, posted j1 for 100 *)
(* and w1 started it, so that j1 can be completed or cancelled while j2 is *)
(* posted.  The state is one that Spec reaches in five calls.              *)
(***************************************************************************)
Funded == Deposited(EmptyWallet, 205)

UnderWay ==
  /\ job = [j \in Jobs |->
       IF j = j1 THEN [status |-> "in_progress", employer |-> e1,
                       worker |-> w1, price |-> 100]
       ELSE NoJobRow]
  /\ wallet = [u \in Users |->
       IF u = e1 THEN Deducted(Funded, 100) ELSE EmptyWallet]
  /\ ledger = [u \in Users |->
       IF u = e1 THEN <<DepositEntry(EmptyWallet, 205, r1),
                        DeductEntry(Funded, 100, j1)>>
       ELSE <<>>]
  /\ request = [r \in Requests |->
       IF r = r1 THEN [status |-> "completed", user |-> e1, amount |-> 205]
       ELSE NoRequestRow]
  /\ tx = [t \in Threads |-> IdleTx]

FairUnderWaySpec ==
  /\ UnderWay /\ [][TxNext]_allVars
  /\ Fairness
=============================================================================
