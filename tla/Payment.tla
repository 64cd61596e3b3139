------------------------------ MODULE Payment ------------------------------
(***************************************************************************)
(* What a deposit promises whoever pays: money that was paid is credited,  *)
(* once, and no money is credited that was not paid.                       *)
(***************************************************************************)
EXTENDS Naturals

CONSTANT Payments

VARIABLES
  paid,     \* the payments the provider holds the money of
  credits   \* how often each was credited

Init == paid = {} /\ credits = [p \in Payments |-> 0]

Pay(p) ==
  /\ p \notin paid
  /\ paid' = paid \cup {p}
  /\ UNCHANGED credits

Credit(p) ==
  /\ p \in paid
  /\ credits[p] = 0
  /\ credits' = [credits EXCEPT ![p] = 1]
  /\ UNCHANGED paid

Next == \E p \in Payments : Pay(p) \/ Credit(p)

\* Nothing is credited unpaid or twice ...
Safety == Init /\ [][Next]_<<paid, credits>>

\* ... and what is paid is credited in the end.
Spec ==
  /\ Safety
  /\ \A p \in Payments : WF_<<paid, credits>>(Credit(p))
=============================================================================
