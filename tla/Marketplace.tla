----------------------------- MODULE Marketplace -----------------------------
(***************************************************************************)
(* The job lifecycle and the escrow as their callers see them: each        *)
(* service call of apps/jobs/services.py (JobService) and                  *)
(* apps/payments/services.py (DepositService) is one atomic step on the    *)
(* job, wallet, transaction and payment request rows.  A call refused by a *)
(* guard, or rolled back, leaves no trace here.                            *)
(***************************************************************************)
EXTENDS WalletService, Totals

CONSTANTS
  Employers, Workers,    \* users, by the role they have throughout
  NoUser,                \* a null foreign key to a user
  Jobs,                  \* job identifiers, drawn fresh by create_job
  Prices,                \* the prices employers ask for
  MinPrice,              \* 100 in the code: job serializer and model
  Requests,              \* payment request identifiers
  Amounts,               \* the amounts users try to deposit
  MinDeposit, MaxDeposit \* settings.MIN_DEPOSIT_AMOUNT, MAX_DEPOSIT_AMOUNT

Users == Employers \cup Workers

ASSUME RolesAssumption ==
  /\ Employers \cap Workers = {}
  /\ NoUser \notin Users

ASSUME MoneyAssumption ==
  /\ MinPrice \in Nat \ {0}
  /\ Prices \subseteq {p \in Nat : p >= MinPrice /\ p <= MaxPrice}
  /\ Amounts \subseteq Nat
  /\ MinDeposit \in Nat
  /\ MaxDeposit \in Nat

VARIABLES
  job,      \* the rows of jobs_jobs
  wallet,   \* the rows of payments_wallets, one per user
  ledger,   \* per wallet, its rows of payments_transactions in order
  request   \* the rows of payments_requests

vars == <<job, wallet, ledger, request>>

-----------------------------------------------------------------------------

\* Mutant of OpenStatus: a completed job can still be cancelled.
OpenOrDone == {"created", "accepted", "in_progress", "completed"}

OpenStatus == {"created", "accepted", "in_progress"}
\* "absent": no row with this identifier yet.
JobStatus == {"absent", "completed", "cancelled"} \cup OpenStatus

JobRow ==
  [status : JobStatus, employer : Employers \cup {NoUser},
   worker : Workers \cup {NoUser}, price : Nat]

NoJobRow ==
  [status |-> "absent", employer |-> NoUser, worker |-> NoUser, price |-> 0]

RequestRow ==
  [status : {"absent", "pending", "completed"},
   user : Users \cup {NoUser}, amount : Nat]

NoRequestRow == [status |-> "absent", user |-> NoUser, amount |-> 0]

LedgerEntry == EntrySet(Jobs \cup Requests)

TypeOK ==
  /\ job \in [Jobs -> JobRow]
  /\ wallet \in [Users -> Wallet]
  /\ ledger \in [Users -> Seq(LedgerEntry)]
  /\ request \in [Requests -> RequestRow]

Init ==
  /\ job = [j \in Jobs |-> NoJobRow]
  /\ wallet = [u \in Users |-> EmptyWallet]
  /\ ledger = [u \in Users |-> <<>>]
  /\ request = [r \in Requests |-> NoRequestRow]

-----------------------------------------------------------------------------

\* A new row of the ledger of u.
Book(u, entry) == ledger' = [ledger EXCEPT ![u] = Append(@, entry)]

CreateJob(e, j, price) ==
  /\ job[j].status = "absent"
  /\ Affords(wallet[e], price)
  /\ job' = [job EXCEPT ![j] = [status |-> "created", employer |-> e,
                                worker |-> NoUser, price |-> price]]
  /\ wallet' = [wallet EXCEPT ![e] = Deducted(@, price)]
  /\ Book(e, DeductEntry(wallet[e], price, j))
  /\ UNCHANGED request

AcceptJob(j, w) ==
  /\ job[j].status = "created"
  /\ job[j].employer # w
  /\ job' = [job EXCEPT ![j].worker = w, ![j].status = "accepted"]
  /\ UNCHANGED <<wallet, ledger, request>>

\* Mutant of StartJob: the status is not checked.
StartAgain(j, w) ==
  /\ job[j].worker = w
  /\ job' = [job EXCEPT ![j].status = "in_progress"]
  /\ UNCHANGED <<wallet, ledger, request>>

StartJob(j, w) ==
  /\ job[j].worker = w
  /\ job[j].status = "accepted"
  /\ job' = [job EXCEPT ![j].status = "in_progress"]
  /\ UNCHANGED <<wallet, ledger, request>>

\* release_job_payment writes both wallets, each with its entry; a negative
\* held balance would fail the column's CHECK and roll the call back.
CompleteJob(j, e) ==
  LET w == job[j].worker
      price == job[j].price
  IN  /\ job[j].status = "in_progress"
      /\ job[j].employer = e
      /\ w # NoUser
      /\ Released(wallet[e], price) \in Wallet
      /\ job' = [job EXCEPT ![j].status = "completed"]
      /\ wallet' = [wallet EXCEPT ![e] = Released(@, price),
                                  ![w] = PaidOut(@, Payout(price))]
      /\ ledger' =
           [ledger EXCEPT
              ![e] = Append(@, CommissionEntry(wallet[e], price, j)),
              ![w] = Append(@, PayoutEntry(wallet[w], price, j))]
      /\ UNCHANGED request

CancelJob(j, u) ==
  LET e == job[j].employer
      price == job[j].price
  IN  /\ job[j].status \in OpenStatus
      /\ u \in {e, job[j].worker}
      /\ job' = [job EXCEPT ![j].status = "cancelled"]
      /\ wallet' = [wallet EXCEPT ![e] = Refunded(@, price)]
      /\ Book(e, RefundEntry(wallet[e], price, j))
      /\ UNCHANGED request

InitiateDeposit(u, r, amount) ==
  /\ MinDeposit <= amount /\ amount <= MaxDeposit
  /\ request[r].status = "absent"
  /\ request' = [request EXCEPT ![r] = [status |-> "pending", user |-> u,
                                        amount |-> amount]]
  /\ UNCHANGED <<job, wallet, ledger>>

\* Mutant of ConfirmDeposit: the request is not required to be pending.
ConfirmTwice(r) ==
  LET u == request[r].user
      amount == request[r].amount
  IN  /\ request[r].status # "absent"
      /\ wallet' = [wallet EXCEPT ![u] = Deposited(@, amount)]
      /\ Book(u, DepositEntry(wallet[u], amount, r))
      /\ request' = [request EXCEPT ![r].status = "completed"]
      /\ UNCHANGED job

\* The amount is checked again, by WalletService.deposit.
ConfirmDeposit(r) ==
  LET u == request[r].user
      amount == request[r].amount
  IN  /\ request[r].status = "pending"
      /\ MinDeposit <= amount /\ amount <= MaxDeposit
      /\ wallet' = [wallet EXCEPT ![u] = Deposited(@, amount)]
      /\ Book(u, DepositEntry(wallet[u], amount, r))
      /\ request' = [request EXCEPT ![r].status = "completed"]
      /\ UNCHANGED job

JobStep ==
  \E j \in Jobs :
    \/ \E e \in Employers, price \in Prices : CreateJob(e, j, price)
    \/ \E w \in Workers : AcceptJob(j, w) \/ StartJob(j, w)
    \/ \E e \in Employers : CompleteJob(j, e)
    \/ \E u \in Users : CancelJob(j, u)

DepositStep ==
  \E r \in Requests :
    \/ \E u \in Users, amount \in Amounts : InitiateDeposit(u, r, amount)
    \/ ConfirmDeposit(r)

Next == JobStep \/ DepositStep

Spec == Init /\ [][Next]_vars

-----------------------------------------------------------------------------
(* What the books say of the jobs and requests. *)

Price == [j \in Jobs |-> job[j].price]
PayoutOf == [j \in Jobs |-> Payout(job[j].price)]
Amount == [r \in Requests |-> request[r].amount]

PostedBy(u, statuses) ==
  {j \in Jobs : job[j].employer = u /\ job[j].status \in statuses}

CompletedFor(u) ==
  {j \in Jobs : job[j].worker = u /\ job[j].status = "completed"}

ConfirmedFor(u) ==
  {r \in Requests : request[r].user = u /\ request[r].status = "completed"}

Open(u) == PostedBy(u, OpenStatus)

\* The jobs whose price has left the balance of u for good or for now.
ChargedStatus == OpenStatus \cup {"completed"}
Charged(u) == PostedBy(u, ChargedStatus)

(***************************************************************************)
(* The escrow is exactly backed: whatever was created, released and        *)
(* refunded in whatever order, the held balance of a wallet is the sum of  *)
(* the prices of its owner's open jobs.  Hence no release can drive it     *)
(* below zero and refund_job's min(price, held) never cuts a refund short. *)
(* This is what the column promises ("Funds held in escrow for active      *)
(* jobs", payments/models.py:53).  The docstring of release_job_payment    *)
(* says otherwise, "Platform commission (10%) kept in employer's           *)
(* held_balance" (payments/services.py:117): the code takes the whole      *)
(* price out of it, and what the docstring says is the mutant ReleasedNet. *)
(***************************************************************************)
EscrowBacked == \A u \in Users : wallet[u].held = Total(Open(u), Price)

(***************************************************************************)
(* The lifetime counters agree with the jobs: spent is what the user's     *)
(* jobs cost except the cancelled ones, although refund_job clamps it with *)
(* max(0, ...); earned is the sum of the payouts of the jobs done, each    *)
(* rounded on its own.                                                     *)
(***************************************************************************)
LifetimeTotals ==
  \A u \in Users :
    /\ wallet[u].spent = Total(Charged(u), Price)
    /\ wallet[u].earned = Total(CompletedFor(u), PayoutOf)

(***************************************************************************)
(* No tiyin is minted or lost: what a user can spend is what was deposited *)
(* and earned minus what was charged.                                      *)
(***************************************************************************)
MoneyConserved ==
  \A u \in Users :
    wallet[u].balance + Total(Charged(u), Price) =
      Total(ConfirmedFor(u), Amount) + Total(CompletedFor(u), PayoutOf)

(***************************************************************************)
(* A row past its first state names its parties: an open or settled job    *)
(* its employer, a job under way or done its worker, a request its user.   *)
(***************************************************************************)
PartiesNamed ==
  /\ \A j \in Jobs :
       /\ job[j].status # "absent" => job[j].employer \in Employers
       /\ job[j].status \in {"accepted", "in_progress", "completed"} =>
            job[j].worker \in Workers
  /\ \A r \in Requests :
       request[r].status # "absent" => request[r].user \in Users

\* The totals are those of finitely many coins, even if Jobs is infinite.
BooksFinite ==
  \A u \in Users :
    /\ Countable(Open(u), Price) /\ Countable(Charged(u), Price)
    /\ Countable(CompletedFor(u), PayoutOf)
    /\ Countable(ConfirmedFor(u), Amount)

\* The inductive invariant behind the three properties of the books.
BooksInv ==
  /\ TypeOK /\ PartiesNamed /\ BooksFinite
  /\ EscrowBacked /\ LifetimeTotals /\ MoneyConserved

(***************************************************************************)
(* The ledger is a chain: each row starts from the balance its predecessor *)
(* left, the first from zero, and the last one ends at the balance the     *)
(* wallet shows.  A balance written without its row, or a row computed     *)
(* from a stale read, breaks a link.                                       *)
(***************************************************************************)
Balances(rows) ==
  [i \in 0 .. Len(rows) |-> IF i = 0 THEN 0 ELSE rows[i].after]

LedgerChain ==
  \A u \in Users :
    /\ \A i \in 1 .. Len(ledger[u]) :
         ledger[u][i].before = Balances(ledger[u])[i - 1]
    /\ wallet[u].balance = Balances(ledger[u])[Len(ledger[u])]

\* The rows of all ledgers that book a movement of this type about x.
Booked(type, x) ==
  UNION {{<<u, i>> : i \in {k \in 1 .. Len(ledger[u]) :
                             /\ ledger[u][k].type = type
                             /\ ledger[u][k].about = x}} : u \in Users}

BookedWhen(condition, type, x, u, amount) ==
  IF condition
  THEN \E i \in 1 .. Len(ledger[u]) :
         /\ Booked(type, x) = {<<u, i>>}
         /\ ledger[u][i].amount = amount
  ELSE Booked(type, x) = {}

(***************************************************************************)
(* A job is paid exactly once and in full: one escrow row when it exists,  *)
(* then either the commission and the payout, which add up to its price,   *)
(* once it is completed, or one refund of the whole price once it is       *)
(* cancelled; never both, never twice, and in the right wallets.           *)
(***************************************************************************)
SettledOnce ==
  \A j \in Jobs :
    LET row == job[j]
        fee == JobCommission(row.price)
    IN  /\ BookedWhen(row.status # "absent", "job_payment", j,
                       row.employer, row.price)
        /\ BookedWhen(row.status = "completed", "commission", j,
                       row.employer, fee)
        /\ BookedWhen(row.status = "completed", "job_release", j,
                       row.worker, row.price - fee)
        /\ BookedWhen(row.status = "cancelled", "refund", j,
                       row.employer, row.price)

(***************************************************************************)
(* A payment request is credited at most once, to its own user and with    *)
(* its own amount, however often the provider confirms it.                 *)
(***************************************************************************)
CreditedOnce ==
  \A r \in Requests :
    BookedWhen(request[r].status = "completed", "deposit", r,
               request[r].user, request[r].amount)

(***************************************************************************)
(* The documented lifecycle: created, accepted, in_progress, completed,    *)
(* with cancelled reachable from any state but completed; final states are *)
(* final, the employer and price never change and the worker never changes *)
(* once set.                                                               *)
(***************************************************************************)
LifecycleEdges ==
  {<<"absent", "created">>, <<"created", "accepted">>,
   <<"accepted", "in_progress">>, <<"in_progress", "completed">>}
  \cup (OpenStatus \X {"cancelled"})

LifecycleStep(old, new) ==
  /\ <<old.status, new.status>> \in LifecycleEdges
  /\ old.status # "absent" =>
        new.employer = old.employer /\ new.price = old.price
  /\ new.worker # old.worker => new.status = "accepted"

Lifecycle ==
  [][\A j \in Jobs : job'[j] # job[j] => LifecycleStep(job[j], job'[j])]_vars
=============================================================================
