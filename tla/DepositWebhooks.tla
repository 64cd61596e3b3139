--------------------------- MODULE DepositWebhooks ---------------------------
(***************************************************************************)
(* A deposit between the payment provider and the two webhooks: the money  *)
(* is paid at the provider, which then calls until it is told success.     *)
(* Calls are repeated, lost on their way, answered late or never, and the  *)
(* process may die between the credit it committed and its answer.         *)
(***************************************************************************)
EXTENDS Marketplace

CONSTANTS
  Readable,   \* gateways whose confirmation the webhook recognises as one
  Hooks       \* webhook calls under way at a time

\* get_payment_provider's names; a deposit by "mock" is never confirmed.
Gateways == {"payme", "click"}
Providers == Gateways \cup {"mock"}

ASSUME WebhookAssumption == Readable \subseteq Gateways

VARIABLES
  provider,  \* per request, the provider its user chose
  payment,   \* per request, what the provider knows of it
  call,      \* per slot, the webhook call it holds
  lost       \* requests whose success the provider was never told

webhookVars == <<vars, provider, payment, call, lost>>

NoHook == [stage |-> "none"]

\* "confirms": PerformTransaction, or action 1; not the methods before it.
CallRow ==
  [stage : {"none"}] \cup
  [stage : {"arrived", "refused", "success"}, about : Requests,
   confirms : BOOLEAN]

WebhooksInit ==
  /\ Init
  /\ provider = [r \in Requests |-> "mock"]
  /\ payment = [r \in Requests |-> "unpaid"]
  /\ call = [c \in Hooks |-> NoHook]
  /\ lost = {}

Initiate(u, r, amount, p) ==
  /\ InitiateDeposit(u, r, amount)
  /\ provider' = [provider EXCEPT ![r] = p]
  /\ UNCHANGED <<payment, call, lost>>

AtGateway(r) == request[r].status # "absent" /\ provider[r] \in Gateways

\* The user follows the payment URL.
Pay(r) ==
  /\ AtGateway(r)
  /\ payment[r] = "unpaid"
  /\ payment' = [payment EXCEPT ![r] = "paid"]
  /\ UNCHANGED <<vars, provider, call, lost>>

\* A payment is confirmed again and again until the provider is told success.
Send(c, r, confirms) ==
  /\ call[c] = NoHook
  /\ AtGateway(r)
  /\ confirms => payment[r] = "paid"
  /\ call' = [call EXCEPT ![c] =
       [stage |-> "arrived", about |-> r, confirms |-> confirms]]
  /\ UNCHANGED <<vars, provider, payment, lost>>

-----------------------------------------------------------------------------
(* The webhook: nothing happened yet where confirm_deposit raised. *)

Reply(c, stage) ==
  /\ call[c].stage = "arrived"
  /\ call' = [call EXCEPT ![c].stage = stage]
  /\ UNCHANGED <<provider, payment, lost>>

\* Mutant of Confirms: whichever method or action was called.
ConfirmsAlways(c) == provider[call[c].about] \in Readable

\* What the handler takes for a confirmation.
Confirms(c) == call[c].confirms /\ provider[call[c].about] \in Readable

\* Mutant of Credit: the answer fails after the commit.
CreditUnanswered(c) ==
  /\ Reply(c, "refused")
  /\ Confirms(c)
  /\ ConfirmDeposit(call[c].about)

Credit(c) ==
  /\ Reply(c, "success")
  /\ Confirms(c)
  /\ ConfirmDeposit(call[c].about)

\* Other methods, and confirmations in a form the handler does not read.
Ignore(c) ==
  /\ Reply(c, "success")
  /\ ~Confirms(c)
  /\ UNCHANGED vars

\* Mutant of Refuse: the exception is logged and the answer is success.
Swallow(c) ==
  /\ Reply(c, "success")
  /\ Confirms(c)
  /\ UNCHANGED vars

\* The signature does not verify, or confirm_deposit raised: the request is
\* already processed, or the database failed and the credit was rolled back.
Refuse(c) ==
  /\ Reply(c, "refused")
  /\ UNCHANGED vars

Handle(c) == Credit(c) \/ Ignore(c) \/ Refuse(c)

\* A confirmation of r was handled and its success is on the way.
Succeeding(c, r) ==
  call[c] = [stage |-> "success", about |-> r, confirms |-> TRUE]

\* The provider calls again after anything but a success.
Answer(c) ==
  /\ call[c].stage \in {"refused", "success"}
  /\ payment' = [r \in Requests |->
       IF Succeeding(c, r) THEN "settled" ELSE payment[r]]
  /\ call' = [call EXCEPT ![c] = NoHook]
  /\ UNCHANGED <<vars, provider, lost>>

\* The call or its answer does not arrive, or the process dies in between.
Lose(c) ==
  /\ call[c] # NoHook
  /\ lost' = lost \cup {r \in Requests : Succeeding(c, r)}
  /\ call' = [call EXCEPT ![c] = NoHook]
  /\ UNCHANGED <<vars, provider, payment>>

Serve(c) == Handle(c) \/ Answer(c) \/ Lose(c)

WebhooksNext ==
  \/ \E r \in Requests :
       \/ \E u \in Users, amount \in Amounts, p \in Providers :
            Initiate(u, r, amount, p)
       \/ Pay(r)
       \/ \E c \in Hooks, confirms \in BOOLEAN : Send(c, r, confirms)
  \/ \E c \in Hooks : Serve(c)

\* A confirmation of r is answered with success.
Succeed(c, r) ==
  /\ call[c] # NoHook
  /\ call[c].about = r /\ call[c].confirms
  /\ Credit(c) \/ Ignore(c)

(***************************************************************************)
(* Fairness.  A provider that was told no success goes on calling, each    *)
(* call ends, and not every confirmation that could succeed fails or is    *)
(* lost: nothing in the code itself repeats one.                           *)
(***************************************************************************)
WebhooksSpec ==
  /\ WebhooksInit /\ [][WebhooksNext]_webhookVars
  /\ \A r \in Requests :
       /\ SF_webhookVars(\E c \in Hooks : Send(c, r, TRUE))
       /\ SF_webhookVars(\E c \in Hooks : Succeed(c, r))
  /\ \A c \in Hooks : WF_webhookVars(Serve(c))

-----------------------------------------------------------------------------

\* Payments the webhook can come to know of.
PaidReadably ==
  {r \in Requests : payment[r] # "unpaid" /\ provider[r] \in Readable}

TimesBooked == [r \in Requests |-> Cardinality(Booked("deposit", r))]

Promise ==
  INSTANCE Payment WITH Payments <- Requests,
                        paid <- PaidReadably, credits <- TimesBooked

(***************************************************************************)
(* Repeated, lost and late calls together credit every readable payment,   *)
(* exactly once, and nothing that was not paid.                            *)
(***************************************************************************)
ImplementsPayment == Promise!Spec

(***************************************************************************)
(* A provider told success of a payment, or about to be told, has had it   *)
(* credited: a readable confirmation is not answered with a success that   *)
(* was rolled back.                                                        *)
(***************************************************************************)
ToldTheTruth ==
  \A r \in Requests :
    ( /\ provider[r] \in Readable
      /\ payment[r] = "settled" \/ \E c \in Hooks : Succeeding(c, r) ) =>
    request[r].status = "completed"

(***************************************************************************)
(* A repeated confirmation is answered with an error, so that a provider   *)
(* whose one success answer was lost is never told: every other payment    *)
(* settles at the provider.                                                *)
(***************************************************************************)
SettledUnlessLost ==
  \A r \in Requests :
    (payment[r] = "paid") ~> (payment[r] = "settled" \/ r \in lost)
=============================================================================
