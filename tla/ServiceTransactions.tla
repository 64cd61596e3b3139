------------------------- MODULE ServiceTransactions -------------------------
(***************************************************************************)
(* The same service calls as the web workers run them: each in a database  *)
(* transaction (transaction.atomic, READ COMMITTED) that locks rows one at *)
(* a time, decides on what it read under its locks, and makes its writes   *)
(* visible when it commits.  The committed rows are those of Marketplace.  *)
(*                                                                         *)
(* Rows are locked FOR UPDATE by select_for_update(), for every table that *)
(* select_related() joins, in the order of the joins; the foreign keys of  *)
(* inserted and updated rows are checked at commit (Django creates them    *)
(* DEFERRABLE INITIALLY DEFERRED) with a FOR KEY SHARE lock, which waits   *)
(* for FOR UPDATE.                                                         *)
(***************************************************************************)
EXTENDS Marketplace

CONSTANTS
  Threads,            \* the web workers' database connections
  OuterJoinLockable   \* does the database lock a nullable joined row?

ASSUME OuterJoinAssumption == OuterJoinLockable \in BOOLEAN

VARIABLE tx           \* per thread, the call it serves and its transaction

allVars == <<job, wallet, ledger, request, tx>>

JobLock(j) == <<"job", j>>
UserLock(u) == <<"user", u>>
WalletLock(u) == <<"wallet", u>>
RequestLock(r) == <<"request", r>>

LockSet ==
  {JobLock(j) : j \in Jobs} \cup {UserLock(u) : u \in Users} \cup
  {WalletLock(u) : u \in Users} \cup {RequestLock(r) : r \in Requests}

JobOps == {"create", "accept", "start", "complete", "cancel"}
DepositOps == {"initiate", "confirm"}

\* id: the job or request of the call; amount: its price or deposit, if any.
\* The provider's confirmation comes from no user.
Calls ==
  [op : {"create"}, user : Users, id : Jobs, amount : Prices] \cup
  [op : JobOps \ {"create"}, user : Users, id : Jobs, amount : {0}] \cup
  [op : {"initiate"}, user : Users, id : Requests, amount : Amounts] \cup
  [op : {"confirm"}, user : {NoUser}, id : Requests, amount : {0}]

NoCall == [op |-> "none", user |-> NoUser, id |-> NoUser, amount |-> 0]

Refusals ==
  {"forbidden", "not_found", "conflict", "state", "insufficient", "invalid"}
Failures == {"deadlock", "not_supported", "error"}

\* What tx[t] holds.
Tx ==
  [call : Calls \cup {NoCall},
   phase : {"idle", "select", "wallets", "answered"},
   todo : Seq(LockSet),             \* rows the statements have yet to lock
   locks : SUBSET LockSet,          \* rows locked FOR UPDATE
   job : JobRow,                    \* the job row as read under its lock
   wallets : [Users -> Wallet],     \* the wallet rows as read under theirs
   reply : {"none", "ok"} \cup Refusals \cup Failures]

IdleTx ==
  [call |-> NoCall, phase |-> "idle", todo |-> <<>>, locks |-> {},
   job |-> NoJobRow, wallets |-> [u \in Users |-> EmptyWallet],
   reply |-> "none"]

AnsweredTx(c, reply) ==
  [IdleTx EXCEPT !.call = c, !.phase = "answered", !.reply = reply]

TxInit == Init /\ tx = [t \in Threads |-> IdleTx]

-----------------------------------------------------------------------------
(* What each call asks of the database. *)

\* Mutant of PartyLocks: the worker's row first, as start_job locks them.
WorkerFirst(j) ==
  <<JobLock(j)>> \o
  (IF job[j].worker = NoUser THEN <<>> ELSE <<UserLock(job[j].worker)>>) \o
  <<UserLock(job[j].employer)>>

PartyLocks(j) ==
  <<JobLock(j), UserLock(job[j].employer)>> \o
  (IF job[j].worker = NoUser THEN <<>> ELSE <<UserLock(job[j].worker)>>)

\* start_job filters on the worker, whose join thereby becomes the first.
StarterLocks(j) ==
  <<JobLock(j), UserLock(job[j].worker), UserLock(job[j].employer)>>

\* The rows of the first SELECT ... FOR UPDATE, in the order they are locked.
SelectLocks(c) ==
  CASE c.op = "create" -> <<WalletLock(c.user)>>
    [] c.op = "accept" -> <<JobLock(c.id), UserLock(job[c.id].employer)>>
    [] c.op = "start" -> StarterLocks(c.id)
    [] c.op \in {"complete", "cancel"} -> PartyLocks(c.id)
    [] c.op = "initiate" -> <<>>
    [] c.op = "confirm" -> <<RequestLock(c.id), WalletLock(request[c.id].user)>>

\* Mutant of PaymentLocks: refund_job takes the wallet without locking it.
UnlockedRefund(c, row) ==
  IF c.op = "complete" THEN <<WalletLock(row.employer), WalletLock(row.worker)>>
  ELSE <<>>

\* The wallets locked after the checks (release_job_payment, refund_job).
\* confirm_deposit selects again the wallet its first statement locked.
PaymentLocks(c, row) ==
  CASE c.op = "complete" -> <<WalletLock(row.employer), WalletLock(row.worker)>>
    [] c.op = "cancel" -> <<WalletLock(row.employer)>>
    [] OTHER -> <<>>

\* Rows of others that the foreign keys checked at commit refer to.
CommitKeys(c) ==
  CASE c.op \in {"create", "accept"} -> {UserLock(c.user)}
    [] c.op = "initiate" -> {WalletLock(c.user)}
    [] OTHER -> {}

\* The WHERE clause of the first statement, on the rows committed so far.
Finds(c) ==
  CASE c.op \in {"accept", "cancel"} -> job[c.id].status # "absent"
    [] c.op = "start" -> job[c.id].worker = c.user
    [] c.op = "complete" -> job[c.id].employer = c.user
    [] c.op = "confirm" -> request[c.id].status = "pending"
    [] OTHER -> TRUE

RoleAllows(c) ==
  CASE c.op \in {"create", "complete"} -> c.user \in Employers
    [] c.op \in {"accept", "start"} -> c.user \in Workers
    [] OTHER -> TRUE

\* start_job filters on the worker, which makes its join an inner one.
JoinsNullableWorker(c) == c.op \in {"complete", "cancel"}

\* The answer of a call that ends before it locks anything, or "none".
EarlyAnswer(c) ==
  CASE ~RoleAllows(c) -> "forbidden"
    [] c.op = "initiate" /\ ~(MinDeposit <= c.amount /\ c.amount <= MaxDeposit)
         -> "invalid"
    [] JoinsNullableWorker(c) /\ ~OuterJoinLockable -> "not_supported"
    [] ~Finds(c) -> IF c.op = "confirm" THEN "invalid" ELSE "not_found"
    [] OTHER -> "none"

\* Mutant of Acceptable: a job somebody else got can be accepted over.
AcceptableWhileOpen(row) == row.status \in OpenStatus

Acceptable(row) == row.status = "created"

\* The answer of the checks made on the rows read under lock, or "none".
CheckAnswer(c, row, w) ==
  CASE c.op = "create" /\ ~Affords(w[c.user], c.amount) -> "insufficient"
    [] c.op = "accept" /\ ~Acceptable(row) -> "state"
    [] c.op = "accept" /\ row.employer = c.user -> "forbidden"
    [] c.op = "start" /\ row.status # "accepted" -> "state"
    [] c.op = "complete" /\ (\/ row.status # "in_progress"
                             \/ row.worker = NoUser) -> "state"
    [] c.op = "cancel" /\ c.user \notin {row.employer, row.worker}
         -> "forbidden"
    [] c.op = "cancel" /\ row.status \notin OpenStatus -> "state"
    [] OTHER -> "none"

-----------------------------------------------------------------------------

Active(t) == tx[t].phase \in {"select", "wallets"}

FreeFor(t, rows) == \A o \in Threads \ {t} : rows \cap tx[o].locks = {}

End(t, reply) == tx' = [tx EXCEPT ![t] = AnsweredTx(tx[t].call, reply)]

\* A row's identifier comes from its table's sequence, which repeats none.
FreshId(c) ==
  /\ c.op = "create" => job[c.id].status = "absent"
  /\ c.op = "initiate" => request[c.id].status = "absent"
  /\ c.op \in {"create", "initiate"} =>
       \A o \in Threads : Active(o) => tx[o].call.id # c.id

Begin(t, c) ==
  /\ tx[t].phase = "idle"
  /\ FreshId(c)
  /\ tx' = [tx EXCEPT ![t] =
       IF EarlyAnswer(c) # "none" THEN AnsweredTx(c, EarlyAnswer(c))
       ELSE [IdleTx EXCEPT !.call = c, !.phase = "select",
                           !.todo = SelectLocks(c)]]
  /\ UNCHANGED vars

NoWait(t) == tx[t].call.op = "accept" /\ tx[t].phase = "select"

\* The thread's transaction once it has locked and read these rows.
Reading(t, rows) ==
  [tx[t] EXCEPT
     !.locks = @ \cup rows,
     !.job = IF JobLock(tx[t].call.id) \in rows THEN job[tx[t].call.id] ELSE @,
     !.wallets = [u \in Users |-> IF WalletLock(u) \in rows
                                  THEN wallet[u] ELSE @[u]]]

Lock(t) ==
  LET row == Head(tx[t].todo)
  IN  /\ Active(t) /\ ~NoWait(t)
      /\ tx[t].todo # <<>>
      /\ FreeFor(t, {row})
      /\ tx' = [tx EXCEPT ![t] =
                  [Reading(t, {row}) EXCEPT !.todo = Tail(@)]]
      /\ UNCHANGED vars

\* select_for_update(nowait=True): all the rows at once or HTTP 409.
LockNoWait(t) ==
  LET rows == {tx[t].todo[i] : i \in DOMAIN tx[t].todo}
  IN  /\ NoWait(t)
      /\ tx[t].todo # <<>>
      /\ IF FreeFor(t, rows)
         THEN tx' = [tx EXCEPT ![t] = [Reading(t, rows) EXCEPT !.todo = <<>>]]
         ELSE End(t, "conflict")
      /\ UNCHANGED vars

\* Mutant of Check: the WHERE clause is not matched again after the wait.
CheckOnce(t) ==
  LET c == tx[t].call
      refusal == CheckAnswer(c, tx[t].job, tx[t].wallets)
  IN  /\ tx[t].phase = "select" /\ tx[t].todo = <<>>
      /\ IF refusal # "none" THEN End(t, refusal)
         ELSE tx' = [tx EXCEPT ![t].phase = "wallets",
                               ![t].todo = PaymentLocks(c, tx[t].job)]
      /\ UNCHANGED vars

\* Mutant of Check: a refused call waits under its locks for a better state.
CheckPatiently(t) ==
  LET c == tx[t].call
  IN  /\ tx[t].phase = "select" /\ tx[t].todo = <<>>
      /\ Finds(c) /\ CheckAnswer(c, tx[t].job, tx[t].wallets) = "none"
      /\ tx' = [tx EXCEPT ![t].phase = "wallets",
                          ![t].todo = PaymentLocks(c, tx[t].job)]
      /\ UNCHANGED vars

\* A row another transaction changed meanwhile is matched again against the
\* WHERE clause once it is locked; then the service makes its checks.
Check(t) ==
  LET c == tx[t].call
      refusal == IF ~Finds(c) THEN "invalid"
                 ELSE CheckAnswer(c, tx[t].job, tx[t].wallets)
  IN  /\ tx[t].phase = "select" /\ tx[t].todo = <<>>
      /\ IF refusal # "none" THEN End(t, refusal)
         ELSE tx' = [tx EXCEPT ![t].phase = "wallets",
                               ![t].todo = PaymentLocks(c, tx[t].job)]
      /\ UNCHANGED vars

-----------------------------------------------------------------------------
(* The writes of each call, computed from what it read under its locks. *)

WriteCreate(c, w) ==
  /\ job' = [job EXCEPT ![c.id] = [status |-> "created", employer |-> c.user,
                                   worker |-> NoUser, price |-> c.amount]]
  /\ wallet' = [wallet EXCEPT ![c.user] = Deducted(w[c.user], c.amount)]
  /\ Book(c.user, DeductEntry(w[c.user], c.amount, c.id))
  /\ UNCHANGED request

WriteStatus(c, status) ==
  /\ job' = [job EXCEPT ![c.id].status = status]
  /\ UNCHANGED <<wallet, ledger, request>>

WriteAccept(c) ==
  /\ job' = [job EXCEPT ![c.id].worker = c.user, ![c.id].status = "accepted"]
  /\ UNCHANGED <<wallet, ledger, request>>

WriteComplete(c, row, w) ==
  LET payer == w[row.employer]
      payee == w[row.worker]
  IN  /\ Released(payer, row.price) \in Wallet
      /\ job' = [job EXCEPT ![c.id].status = "completed"]
      /\ wallet' = [wallet EXCEPT
           ![row.employer] = Released(payer, row.price),
           ![row.worker] = PaidOut(payee, Payout(row.price))]
      /\ ledger' = [ledger EXCEPT
           ![row.employer] = Append(@, CommissionEntry(payer, row.price, c.id)),
           ![row.worker] = Append(@, PayoutEntry(payee, row.price, c.id))]
      /\ UNCHANGED request

WriteCancel(c, row, w) ==
  LET payer == w[row.employer]
  IN  /\ job' = [job EXCEPT ![c.id].status = "cancelled"]
      /\ wallet' = [wallet EXCEPT ![row.employer] = Refunded(payer, row.price)]
      /\ Book(row.employer, RefundEntry(payer, row.price, c.id))
      /\ UNCHANGED request

WriteInitiate(c) ==
  /\ request' = [request EXCEPT ![c.id] =
       [status |-> "pending", user |-> c.user, amount |-> c.amount]]
  /\ UNCHANGED <<job, wallet, ledger>>

WriteConfirm(c, w) ==
  LET u == request[c.id].user
      amount == request[c.id].amount
  IN  /\ wallet' = [wallet EXCEPT ![u] = Deposited(w[u], amount)]
      /\ Book(u, DepositEntry(w[u], amount, c.id))
      /\ request' = [request EXCEPT ![c.id].status = "completed"]
      /\ UNCHANGED job

Commit(t) ==
  LET c == tx[t].call
      row == tx[t].job
      w == tx[t].wallets
  IN  /\ tx[t].phase = "wallets" /\ tx[t].todo = <<>>
      /\ FreeFor(t, CommitKeys(c))
      /\ \/ c.op = "create" /\ WriteCreate(c, w)
         \/ c.op = "accept" /\ WriteAccept(c)
         \/ c.op = "start" /\ WriteStatus(c, "in_progress")
         \/ c.op = "complete" /\ WriteComplete(c, row, w)
         \/ c.op = "cancel" /\ WriteCancel(c, row, w)
         \/ c.op = "initiate" /\ WriteInitiate(c)
         \/ c.op = "confirm" /\ WriteConfirm(c, w)
      /\ End(t, "ok")

\* The worker is killed, the broker refuses the task the service publishes
\* before it commits, or a statement fails: the transaction rolls back.
Fail(t) ==
  /\ Active(t)
  /\ End(t, "error")
  /\ UNCHANGED vars

\* The rows the thread is waiting for, or may go on to lock.
Wanted(t) ==
  IF ~Active(t) \/ NoWait(t) THEN {}
  ELSE IF tx[t].todo # <<>> THEN {Head(tx[t].todo)}
  ELSE IF tx[t].phase = "wallets" THEN CommitKeys(tx[t].call)
  ELSE {}

WaitsFor(t, o) == t # o /\ Wanted(t) \cap tx[o].locks # {}

\* Threads that all wait for, and are all waited for by, one another.
Knot(S) ==
  \A s \in S : /\ \E o \in S : WaitsFor(s, o)
               /\ \E o \in S : WaitsFor(o, s)

\* PostgreSQL's deadlock detector cancels one of the transactions.
DeadlockVictim(t) ==
  /\ \E S \in SUBSET Threads : t \in S /\ Knot(S)
  /\ End(t, "deadlock")
  /\ UNCHANGED vars

\* The response is sent and the thread is free for another request.
Respond(t) ==
  /\ tx[t].phase = "answered"
  /\ tx' = [tx EXCEPT ![t] = IdleTx]
  /\ UNCHANGED vars

Step(t) == Lock(t) \/ LockNoWait(t) \/ Check(t) \/ Commit(t)

TxNext ==
  \E t \in Threads :
    \/ \E c \in Calls : Begin(t, c)
    \/ Step(t) \/ Fail(t) \/ DeadlockVictim(t) \/ Respond(t)

TxSpec == TxInit /\ [][TxNext]_allVars

(***************************************************************************)
(* PostgreSQL queues the waiters of a row, so a lock released again and    *)
(* again reaches each of them: strong fairness.  The deadlock detector     *)
(* looks after deadlock_timeout.  Clients and failures owe nothing.        *)
(***************************************************************************)
Fairness ==
  \A t \in Threads : /\ SF_allVars(Step(t))
                     /\ WF_allVars(DeadlockVictim(t))
                     /\ WF_allVars(Respond(t))

FairTxSpec == TxSpec /\ Fairness

-----------------------------------------------------------------------------

(***************************************************************************)
(* The locks do their work: as long as a transaction holds the row it read *)
(* nothing changes it, so no write is computed from a stale read.          *)
(***************************************************************************)
NoStaleRead ==
  \A t \in Threads :
    /\ \A j \in Jobs :
         JobLock(j) \in tx[t].locks => tx[t].call.id = j /\ tx[t].job = job[j]
    /\ \A u \in Users :
         WalletLock(u) \in tx[t].locks => tx[t].wallets[u] = wallet[u]

StatusAfter(op) ==
  CASE op = "create" -> JobStatus \ {"absent"}
    [] op = "accept" -> JobStatus \ {"absent", "created"}
    [] op = "start" -> {"in_progress", "completed", "cancelled"}
    [] op = "complete" -> {"completed"}
    [] op = "cancel" -> {"cancelled"}

Truthful(t) ==
  LET c == tx[t].call
  IN  tx[t].reply = "ok" =>
        /\ c.op \in JobOps => job[c.id].status \in StatusAfter(c.op)
        /\ c.op \in {"create", "complete"} => job[c.id].employer = c.user
        /\ c.op \in {"accept", "start"} => job[c.id].worker = c.user
        /\ c.op = "confirm" => request[c.id].status = "completed"

(***************************************************************************)
(* An answer of success tells the truth when it is sent (nothing is asked  *)
(* of a refusal).  In particular at most one of the workers racing for a   *)
(* job is told it got it, and a confirmed deposit has been booked.         *)
(***************************************************************************)
TruthfulAnswers == \A t \in Threads : Truthful(t)

\* t waits for the row of an employer that o locked before the row it wants,
\* t after: an employer posts a job, its wallet locked and its user row to be
\* checked at commit, or a worker starts one, its own row locked first.
Inverted(t, o) ==
  /\ \E e \in Employers :
       Wanted(t) = {UserLock(e)} /\ UserLock(e) \in tx[o].locks
  /\ \/ tx[t].call.op = "create" /\ tx[o].call.op \in {"complete", "cancel"}
     \/ /\ tx[t].call.op = "start"
        /\ tx[o].call.op \in {"accept", "complete", "cancel"}

(***************************************************************************)
(* The transactions deadlock in two ways only: an employer posts a job     *)
(* while another of its jobs is completed or cancelled, or a worker starts *)
(* a job while another job of the employer is accepted, completed or       *)
(* cancelled.  Everyone in a deadlock is a party to one of these.          *)
(***************************************************************************)
DeadlocksAreInversions ==
  \A S \in SUBSET Threads :
    Knot(S) => \A t \in S : \E o \in S : Inverted(t, o) \/ Inverted(o, t)

(***************************************************************************)
(* The transactions implement the atomic calls of Marketplace: each commit *)
(* is one of its steps, whatever ran in between, and everything else       *)
(* leaves the rows alone.                                                  *)
(***************************************************************************)
ImplementsMarketplace == Spec

\* No transaction waits for ever: every call is answered.
EveryCallAnswered ==
  \A t \in Threads : Active(t) ~> (tx[t].phase = "answered")
=============================================================================
