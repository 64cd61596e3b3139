----------------------------- MODULE CallProofs -----------------------------
(***************************************************************************)
(* The two specifications that are made of Marketplace's calls.  The       *)
(* transactions implement them, read nothing stale, answer truthfully and  *)
(* deadlock in two ways only, for any number of connections, users, jobs   *)
(* and requests.  The wallets see nothing but such calls of the webhooks,  *)
(* however those are repeated, lost, refused or answered late: no success  *)
(* is told of money that was not credited, and no payment is credited      *)
(* unpaid or twice.                                                        *)
(***************************************************************************)
EXTENDS ServiceTransactions, DepositWebhooks, MarketplaceProofs


PartyOps == JobOps \ {"create"}

\* The rows a sequence names, and all that a transaction has locked or is to.
Rows(s) == {s[i] : i \in DOMAIN s}
Planned(t) == tx[t].locks \cup Rows(tx[t].todo)

\* The order in which a call locks rows until it commits: start_job has an
\* order of its own.
Rank(op, row) ==
  CASE row[1] \in {"job", "request"} -> 1
    [] row[1] = "user" /\ (op = "start" <=> row[2] \notin Employers) -> 2
    [] row[1] = "user" /\ ~(op = "start" <=> row[2] \notin Employers) -> 3
    [] row[1] = "wallet" /\ row[2] \in Employers -> 4
    [] OTHER -> 5

Sorted(op, s) ==
  \A i, k \in DOMAIN s : i < k => Rank(op, s[i]) < Rank(op, s[k])

InOrder(t) ==
  LET op == tx[t].call.op
  IN  /\ \A a \in tx[t].locks, b \in Rows(tx[t].todo) :
           Rank(op, a) < Rank(op, b)
      /\ Sorted(op, tx[t].todo)

-----------------------------------------------------------------------------
(* The inductive invariant. *)

\* Rows that do not exist name nobody; requests have amounts that pass.
RowsInv ==
  /\ BooksInv
  /\ \A j \in Jobs : job[j].status = "absent" =>
       job[j].employer = NoUser /\ job[j].worker = NoUser
  /\ \A r \in Requests : request[r].status # "absent" =>
       MinDeposit <= request[r].amount /\ request[r].amount <= MaxDeposit

TxTypeOK == tx \in [Threads -> Tx]

Exclusive ==
  \A t, o \in Threads : t # o => tx[t].locks \cap tx[o].locks = {}

\* Nobody else works on the identifier that t is about to use first.
Apart(t, o) ==
  LET c == tx[t].call
      d == tx[o].call
  IN  /\ c.op = "create" /\ Active(o) /\ d.op \in JobOps => d.id # c.id
      /\ c.op = "initiate" /\ Active(o) /\ d.op \in DepositOps => d.id # c.id

\* A new identifier is the transaction's own until it commits.
Fresh(t) ==
  LET c == tx[t].call
  IN  /\ c.op = "create" => job[c.id].status = "absent"
      /\ c.op = "initiate" => request[c.id].status = "absent"
      /\ \A o \in Threads \ {t} : Apart(t, o)

\* What was found out before the first lock and cannot change any more.
Asked(c) ==
  /\ RoleAllows(c)
  /\ c.op = "initiate" => MinDeposit <= c.amount /\ c.amount <= MaxDeposit
  /\ c.op \in PartyOps => job[c.id].status # "absent"
  /\ c.op = "confirm" => request[c.id].status # "absent"

\* The rows that the first statement locks in any case.
Needed(c) ==
  CASE c.op = "create" -> {WalletLock(c.user)}
    [] c.op \in PartyOps -> {JobLock(c.id), UserLock(job[c.id].employer)}
    [] c.op = "confirm" -> {RequestLock(c.id), WalletLock(request[c.id].user)}
    [] OTHER -> {}

\* What is locked, and to be locked, by which call and when.
Plan(t) ==
  LET c == tx[t].call
      paying == tx[t].phase = "wallets"
  IN  /\ Needed(c) \subseteq IF paying THEN tx[t].locks ELSE Planned(t)
      /\ paying => /\ Rows(PaymentLocks(c, tx[t].job)) \subseteq Planned(t)
                   /\ Rows(tx[t].todo) \subseteq
                        Rows(PaymentLocks(c, tx[t].job))
      /\ \A j \in Jobs : JobLock(j) \in Planned(t) => c.op \in PartyOps /\ j = c.id
      /\ \A r \in Requests :
           RequestLock(r) \in Planned(t) => c.op = "confirm" /\ r = c.id
      /\ \A u \in Users : UserLock(u) \in Planned(t) =>
           /\ c.op \in PartyOps
           /\ \/ u = job[c.id].employer
              \/ u \in Workers /\ c.op # "accept"
      /\ \A u \in Users : WalletLock(u) \in Planned(t) =>
           \/ c.op = "create" /\ u = c.user
           \/ c.op = "confirm" /\ u = request[c.id].user
           \/ paying /\ WalletLock(u) \in Rows(PaymentLocks(c, tx[t].job))

\* What was read of the rows that are locked is what they are.
FreshRead(t) ==
  /\ JobLock(tx[t].call.id) \in tx[t].locks => tx[t].job = job[tx[t].call.id]
  /\ \A u \in Users :
       WalletLock(u) \in tx[t].locks => tx[t].wallets[u] = wallet[u]

\* The checks still hold when the payment's locks are taken.
Decided(t) ==
  tx[t].phase = "wallets" =>
    /\ Finds(tx[t].call)
    /\ CheckAnswer(tx[t].call, tx[t].job, tx[t].wallets) = "none"

Running(t) ==
  /\ tx[t].reply = "none" /\ tx[t].call \in Calls
  /\ Fresh(t) /\ Asked(tx[t].call) /\ Plan(t) /\ InOrder(t) /\ FreshRead(t) /\ Decided(t)

Resting(t) ==
  /\ tx[t].locks = {} /\ tx[t].todo = <<>>
  /\ tx[t].reply = "ok" => tx[t].call \in Calls

TxInv ==
  /\ RowsInv /\ TxTypeOK /\ Exclusive
  /\ \A t \in Threads : IF Active(t) THEN Running(t) ELSE Resting(t)
  /\ TruthfulAnswers

-----------------------------------------------------------------------------
(* The rows to lock, their names and their order. *)

\* Two locks are of the same row only if they are named alike.
LEMMA LockNames ==
  /\ \A a, b : /\ JobLock(a) = JobLock(b) <=> a = b
               /\ UserLock(a) = UserLock(b) <=> a = b
               /\ WalletLock(a) = WalletLock(b) <=> a = b
               /\ RequestLock(a) = RequestLock(b) <=> a = b
               /\ JobLock(a) # UserLock(b) /\ JobLock(a) # WalletLock(b)
               /\ JobLock(a) # RequestLock(b) /\ UserLock(a) # WalletLock(b)
               /\ UserLock(a) # RequestLock(b)
               /\ WalletLock(a) # RequestLock(b)
BY DEF JobLock, UserLock, WalletLock, RequestLock

\* Jobs and requests come first, then users, then wallets; employers before
\* workers, but for the users of start_job.
LEMMA LockRanks ==
  ASSUME NEW op, NEW x
  PROVE  /\ Rank(op, JobLock(x)) = 1 /\ Rank(op, RequestLock(x)) = 1
         /\ op # "start" /\ x \in Employers => Rank(op, UserLock(x)) = 2
         /\ op # "start" /\ x \notin Employers => Rank(op, UserLock(x)) = 3
         /\ op = "start" /\ x \notin Employers => Rank(op, UserLock(x)) = 2
         /\ op = "start" /\ x \in Employers => Rank(op, UserLock(x)) = 3
         /\ x \in Employers => Rank(op, WalletLock(x)) = 4
         /\ x \notin Employers => Rank(op, WalletLock(x)) = 5
BY DEF JobLock, UserLock, WalletLock, RequestLock, Rank

LEMMA LockTypes ==
  /\ \A x \in Jobs : JobLock(x) \in LockSet
  /\ \A x \in Requests : RequestLock(x) \in LockSet
  /\ \A x \in Users : UserLock(x) \in LockSet /\ WalletLock(x) \in LockSet
BY DEF LockSet

LEMMA LockKinds ==
  ASSUME NEW row \in LockSet
  PROVE  \/ \E j \in Jobs : row = JobLock(j)
         \/ \E u \in Users : row = UserLock(u)
         \/ \E u \in Users : row = WalletLock(u)
         \/ \E r \in Requests : row = RequestLock(r)
BY DEF LockSet

LEMMA JobLockType ==
  ASSUME NEW x, JobLock(x) \in LockSet
  PROVE  x \in Jobs
BY LockKinds, LockNames

\* A sequence of at most three rows in ascending order.
LEMMA ShortPlans ==
  ASSUME NEW op
  PROVE
  /\ Rows(<<>>) = {} /\ <<>> \in Seq(LockSet) /\ Sorted(op, <<>>)
  /\ \A a \in LockSet :
       Rows(<<a>>) = {a} /\ <<a>> \in Seq(LockSet) /\ Sorted(op, <<a>>)
  /\ \A a, b \in LockSet :
       /\ Rows(<<a, b>>) = {a, b} /\ <<a, b>> \in Seq(LockSet)
       /\ Rank(op, a) < Rank(op, b) => Sorted(op, <<a, b>>)
  /\ \A a, b, c \in LockSet :
       /\ Rows(<<a, b, c>>) = {a, b, c} /\ <<a, b, c>> \in Seq(LockSet)
       /\ (/\ Rank(op, a) < Rank(op, b) /\ Rank(op, b) < Rank(op, c)
           /\ Rank(op, a) < Rank(op, c))
            => Sorted(op, <<a, b, c>>)
<1>1. Rows(<<>>) = {} /\ <<>> \in Seq(LockSet) /\ Sorted(op, <<>>)
  BY DEF Rows, Sorted
<1>2. ASSUME NEW a \in LockSet
      PROVE  Rows(<<a>>) = {a} /\ <<a>> \in Seq(LockSet) /\ Sorted(op, <<a>>)
  BY DEF Rows, Sorted
<1>3. ASSUME NEW a \in LockSet, NEW b \in LockSet
      PROVE  /\ Rows(<<a, b>>) = {a, b} /\ <<a, b>> \in Seq(LockSet)
             /\ Rank(op, a) < Rank(op, b) => Sorted(op, <<a, b>>)
  BY DEF Rows, Sorted
<1>4. ASSUME NEW a \in LockSet, NEW b \in LockSet, NEW c \in LockSet
      PROVE  /\ Rows(<<a, b, c>>) = {a, b, c}
             /\ <<a, b, c>> \in Seq(LockSet)
             /\ (/\ Rank(op, a) < Rank(op, b) /\ Rank(op, b) < Rank(op, c)
                 /\ Rank(op, a) < Rank(op, c))
                  => Sorted(op, <<a, b, c>>)
  BY DEF Rows, Sorted
<1> QED
  BY <1>1, <1>2, <1>3, <1>4

LEMMA OneMoreRow ==
  ASSUME NEW a \in LockSet, NEW b \in LockSet, NEW c \in LockSet
  PROVE  <<a, b>> \o <<c>> = <<a, b, c>>
<1> DEFINE long == <<a, b>> \o <<c>>
<1>1. <<a, b>> \in Seq(LockSet) /\ <<c>> \in Seq(LockSet)
  OBVIOUS
<1>2. /\ long \in Seq(LockSet) /\ Len(long) = 3
      /\ long[1] = a /\ long[2] = b /\ long[3] = c
  BY <1>1
<1>3. <<a, b, c>> \in Seq(LockSet)
  OBVIOUS
<1> HIDE DEF long
<1>4. long = <<a, b, c>>
  BY <1>2, <1>3
<1> QED
  BY <1>4 DEF long

\* Locking the first row of a plan.
LEMMA HeadAndTail ==
  ASSUME NEW op, NEW s \in Seq(LockSet), s # <<>>
  PROVE  /\ Head(s) \in LockSet /\ Tail(s) \in Seq(LockSet)
         /\ Rows(s) = {Head(s)} \cup Rows(Tail(s))
         /\ Sorted(op, s) => /\ Sorted(op, Tail(s))
                         /\ \A b \in Rows(Tail(s)) :
                              Rank(op, Head(s)) < Rank(op, b)
<1>1. /\ Len(s) \in Nat /\ Len(s) > 0 /\ DOMAIN s = 1 .. Len(s)
      /\ DOMAIN Tail(s) = 1 .. Len(s) - 1 /\ Tail(s) \in Seq(LockSet)
      /\ Head(s) = s[1] /\ Head(s) \in LockSet
      /\ \A i \in 1 .. Len(s) - 1 : Tail(s)[i] = s[i + 1]
  OBVIOUS
<1>2. Rows(s) = {Head(s)} \cup Rows(Tail(s))
  <2>1. ASSUME NEW i \in DOMAIN s, i # 1
        PROVE  s[i] \in Rows(Tail(s))
    <3>1. i - 1 \in 1 .. Len(s) - 1 /\ (i - 1) + 1 = i
      BY <1>1, <2>1
    <3> QED
      BY <1>1, <3>1 DEF Rows
  <2>2. ASSUME NEW i \in DOMAIN Tail(s)
        PROVE  Tail(s)[i] \in Rows(s)
    <3>1. i + 1 \in DOMAIN s
      BY <1>1, <2>2
    <3> QED
      BY <1>1, <2>2, <3>1 DEF Rows
  <2>3. s[1] \in Rows(s)
    BY <1>1 DEF Rows
  <2> QED
    BY <1>1, <2>1, <2>2, <2>3 DEF Rows
<1>3. ASSUME Sorted(op, s)
      PROVE  /\ Sorted(op, Tail(s))
             /\ \A b \in Rows(Tail(s)) : Rank(op, Head(s)) < Rank(op, b)
  <2>1. \A i, k \in 1 .. Len(s) : i < k => Rank(op, s[i]) < Rank(op, s[k])
    BY <1>1, <1>3 DEF Sorted
  <2>2. Sorted(op, Tail(s))
    BY <1>1, <2>1 DEF Sorted
  <2>3. \A b \in Rows(Tail(s)) : Rank(op, Head(s)) < Rank(op, b)
    BY <1>1, <2>1 DEF Rows
  <2> QED
    BY <2>2, <2>3
<1> QED
  BY <1>1, <1>2, <1>3

-----------------------------------------------------------------------------
(* What the calls of Marketplace never undo. *)

\* A call that changes a payment request initiates or confirms it.
LEMMA RequestEdges ==
  ASSUME TypeOK, [Next]_vars, NEW r \in Requests, request'[r] # request[r]
  PROVE  \/ /\ request[r].status = "absent" /\ request'[r].status = "pending"
            /\ MinDeposit <= request'[r].amount
            /\ request'[r].amount <= MaxDeposit
         \/ /\ request[r].status = "pending"
            /\ request'[r].status = "completed"
            /\ request'[r].user = request[r].user
            /\ request'[r].amount = request[r].amount
<1>1. DepositStep
  BY DEF Next, JobStep, vars, CreateJob, AcceptJob, StartJob, CompleteJob,
         CancelJob
<1>2. CASE \E k \in Requests, u \in Users, amount \in Amounts :
             InitiateDeposit(u, k, amount)
  <2>1. PICK u \in Users, amount \in Amounts : InitiateDeposit(u, r, amount)
    BY <1>2 DEF InitiateDeposit, TypeOK
  <2> QED
    BY <2>1 DEF InitiateDeposit, TypeOK
<1>3. CASE \E k \in Requests : ConfirmDeposit(k)
  <2>1. ConfirmDeposit(r)
    BY <1>3 DEF ConfirmDeposit, TypeOK
  <2> QED
    BY <2>1 DEF ConfirmDeposit, TypeOK, RequestRow
<1> QED
  BY <1>1, <1>2, <1>3 DEF DepositStep

\* Rows, once there, stay, and so do the employer and the user they name.
LEMMA RowsStay ==
  ASSUME RowsInv, [Next]_vars
  PROVE  /\ RowsInv'
         /\ \A j \in Jobs : job[j].status # "absent" =>
              /\ job'[j].status # "absent"
              /\ job'[j].employer = job[j].employer
         /\ \A r \in Requests : request[r].status # "absent" =>
              /\ request'[r].status # "absent"
              /\ request'[r].user = request[r].user
<1>1. TypeOK /\ NobodyYet /\ BooksInv'
  BY NextBooks DEF RowsInv, BooksInv, NobodyYet
<1>2. ASSUME NEW j \in Jobs
      PROVE  job'[j] = job[j] \/ LifecycleStep(job[j], job'[j])
  BY <1>1, NextIsEdge DEF vars
<1>3. ASSUME NEW j \in Jobs
      PROVE  /\ job[j].status # "absent" =>
                  /\ job'[j].status # "absent"
                  /\ job'[j].employer = job[j].employer
             /\ job'[j].status = "absent" =>
                  job'[j].employer = NoUser /\ job'[j].worker = NoUser
  <2>1. CASE job'[j] = job[j]
    BY <2>1 DEF RowsInv
  <2>2. CASE LifecycleStep(job[j], job'[j])
    <3>1. job'[j].status # "absent"
      BY <2>2 DEF LifecycleStep, LifecycleEdges
    <3> QED
      BY <2>2, <3>1 DEF LifecycleStep
  <2> QED
    BY <1>2, <2>1, <2>2
<1>4. ASSUME NEW r \in Requests
      PROVE  /\ request[r].status # "absent" =>
                  /\ request'[r].status # "absent"
                  /\ request'[r].user = request[r].user
             /\ request'[r].status # "absent" =>
                  /\ MinDeposit <= request'[r].amount
                  /\ request'[r].amount <= MaxDeposit
  <2>1. CASE request'[r] = request[r]
    BY <2>1 DEF RowsInv
  <2>2. CASE request'[r] # request[r]
    BY <1>1, <2>2, RequestEdges DEF RowsInv
  <2> QED
    BY <2>1, <2>2
<1> QED
  BY <1>1, <1>3, <1>4 DEF RowsInv

\* What a call was told of its job or request stays true.
LEMMA AnswersStay ==
  ASSUME RowsInv, [Next]_vars
  PROVE  /\ \A op \in JobOps, j \in Jobs :
              job[j].status \in StatusAfter(op) =>
                /\ job'[j].status \in StatusAfter(op)
                /\ job'[j].employer = job[j].employer
                /\ op \in {"accept", "start"} => job'[j].worker = job[j].worker
         /\ \A r \in Requests : request[r].status = "completed" =>
              request'[r].status = "completed"
<1>1. TypeOK /\ NobodyYet
  BY DEF RowsInv, BooksInv, NobodyYet
<1>2. ASSUME NEW op \in JobOps, NEW j \in Jobs,
             job[j].status \in StatusAfter(op)
      PROVE  /\ job'[j].status \in StatusAfter(op)
             /\ job'[j].employer = job[j].employer
             /\ op \in {"accept", "start"} => job'[j].worker = job[j].worker
  <2>1. CASE job'[j] = job[j]
    BY <1>2, <2>1
  <2>2. CASE LifecycleStep(job[j], job'[j])
    <3>1. <<job[j].status, job'[j].status>> \in
            {<<"absent", "created">>, <<"created", "accepted">>,
             <<"accepted", "in_progress">>, <<"in_progress", "completed">>,
             <<"created", "cancelled">>, <<"accepted", "cancelled">>,
             <<"in_progress", "cancelled">>}
      BY <2>2 DEF LifecycleStep, LifecycleEdges, OpenStatus
    <3>2. job[j].status # "absent"
      BY <1>2 DEF StatusAfter, JobOps
    <3>3. job'[j].status \in StatusAfter(op)
      BY <1>2, <3>1 DEF StatusAfter, JobOps, JobStatus, OpenStatus
    <3>4. op \in {"accept", "start"} => job'[j].status # "accepted"
      BY <1>2, <3>1 DEF StatusAfter, JobStatus, OpenStatus
    <3> QED
      BY <2>2, <3>2, <3>3, <3>4 DEF LifecycleStep
  <2> QED
    BY <1>1, <2>1, <2>2, NextIsEdge DEF vars
<1>3. ASSUME NEW r \in Requests, request[r].status = "completed"
      PROVE  request'[r].status = "completed"
  BY <1>1, <1>3, RequestEdges
<1> QED
  BY <1>2, <1>3

-----------------------------------------------------------------------------
(* Each commit is a call of Marketplace. *)

LEMMA CallParts ==
  ASSUME NEW c \in Calls
  PROVE  /\ c.op \in {"create", "initiate", "confirm"} \cup PartyOps
         /\ c.op = "create" =>
              c.user \in Users /\ c.id \in Jobs /\ c.amount \in Prices
         /\ c.op \in PartyOps => c.user \in Users /\ c.id \in Jobs
         /\ c.op = "initiate" =>
              c.user \in Users /\ c.id \in Requests /\ c.amount \in Amounts
         /\ c.op = "confirm" => c.user = NoUser /\ c.id \in Requests
         /\ c \in Calls \cup {NoCall}
BY DEF Calls, PartyOps, JobOps

\* What a transaction that is about to commit has read and holds.
LEMMA AtCommit ==
  ASSUME TxInv, NEW t \in Threads, Commit(t)
  PROVE  LET c == tx[t].call
             row == tx[t].job
         IN  /\ c \in Calls /\ Asked(c) /\ Fresh(t) /\ Finds(c)
             /\ CheckAnswer(c, row, tx[t].wallets) = "none"
             /\ c.op \in PartyOps =>
                  row = job[c.id] /\ JobLock(c.id) \in tx[t].locks
             /\ \A u \in Users :
                  WalletLock(u) \in tx[t].locks => tx[t].wallets[u] = wallet[u]
             /\ c.op = "create" => WalletLock(c.user) \in tx[t].locks
             /\ c.op = "confirm" =>
                  {RequestLock(c.id), WalletLock(request[c.id].user)}
                    \subseteq tx[t].locks
             /\ c.op = "complete" =>
                  {WalletLock(row.employer), WalletLock(row.worker)}
                    \subseteq tx[t].locks
             /\ c.op = "cancel" => WalletLock(row.employer) \in tx[t].locks
<1>1. Active(t) /\ tx[t].phase = "wallets" /\ tx[t].todo = <<>>
  BY DEF Commit, Active
<1>2. Running(t)
  BY <1>1 DEF TxInv
<1>3. Planned(t) = tx[t].locks
  BY <1>1, ShortPlans DEF Planned
<1>4. Needed(tx[t].call) \subseteq tx[t].locks
  BY <1>1, <1>2 DEF Running, Plan
<1>5. \A s : s = PaymentLocks(tx[t].call, tx[t].job) => Rows(s) \subseteq tx[t].locks
  BY <1>1, <1>2, <1>3 DEF Running, Plan
<1>6. /\ \A a : a \in Rows(<<a>>)
      /\ \A a, b : a \in Rows(<<a, b>>) /\ b \in Rows(<<a, b>>)
  BY DEF Rows
<1>7. tx[t].call.op = "complete" =>
        {WalletLock(tx[t].job.employer), WalletLock(tx[t].job.worker)}
          \subseteq tx[t].locks
  BY <1>5, <1>6 DEF PaymentLocks
<1>8. tx[t].call.op = "cancel" =>
        WalletLock(tx[t].job.employer) \in tx[t].locks
  BY <1>5, <1>6 DEF PaymentLocks
<1>9. tx[t].call.op \in PartyOps => JobLock(tx[t].call.id) \in tx[t].locks
  BY <1>4 DEF Needed, PartyOps, JobOps
<1>10. tx[t].call.op = "create" => WalletLock(tx[t].call.user) \in tx[t].locks
  BY <1>4 DEF Needed, PartyOps
<1>11. tx[t].call.op = "confirm" =>
         {RequestLock(tx[t].call.id), WalletLock(request[tx[t].call.id].user)}
           \subseteq tx[t].locks
  BY <1>4 DEF Needed, PartyOps, JobOps
<1> QED
  BY <1>1, <1>2, <1>7, <1>8, <1>9, <1>10, <1>11
  DEF Running, Decided, FreshRead

\* What a commit writes is locked, or new.
Writes(t) ==
  LET c == tx[t].call
  IN  /\ \A j \in Jobs : job'[j] # job[j] =>
           /\ c.op \in JobOps /\ j = c.id
           /\ c.op = "create" \/ JobLock(j) \in tx[t].locks
      /\ \A u \in Users :
           wallet'[u] # wallet[u] => WalletLock(u) \in tx[t].locks
      /\ \A r \in Requests : request'[r] # request[r] =>
           /\ r = c.id
           /\ \/ c.op = "initiate"
              \/ c.op = "confirm" /\ RequestLock(r) \in tx[t].locks

LEMMA CommitIsCall ==
  ASSUME TxInv, NEW t \in Threads, Commit(t)
  PROVE  Next /\ Writes(t)
<1> DEFINE c == tx[t].call
           row == tx[t].job
           w == tx[t].wallets
<1>1. /\ TypeOK /\ PartiesNamed
      /\ \A r \in Requests : request[r].status # "absent" =>
           MinDeposit <= request[r].amount /\ request[r].amount <= MaxDeposit
  BY DEF TxInv, RowsInv, BooksInv
<1>2. /\ c \in Calls /\ Asked(c) /\ Fresh(t) /\ Finds(c)
      /\ CheckAnswer(c, row, w) = "none"
      /\ c.op \in PartyOps => row = job[c.id] /\ JobLock(c.id) \in tx[t].locks
      /\ \A u \in Users : WalletLock(u) \in tx[t].locks => w[u] = wallet[u]
      /\ c.op = "create" => WalletLock(c.user) \in tx[t].locks
      /\ c.op = "confirm" =>
           {RequestLock(c.id), WalletLock(request[c.id].user)}
             \subseteq tx[t].locks
      /\ c.op = "complete" =>
           {WalletLock(row.employer), WalletLock(row.worker)}
             \subseteq tx[t].locks
      /\ c.op = "cancel" => WalletLock(row.employer) \in tx[t].locks
  BY AtCommit
<1>3. c.op = "create" => job[c.id].status = "absent"
  BY <1>2 DEF Fresh
<1>4. c.op = "initiate" => request[c.id].status = "absent"
  BY <1>2 DEF Fresh
<1> HIDE DEF c, row, w
<1>5. CASE c.op = "create" /\ WriteCreate(c, w)
  <2>1. c.user \in Employers /\ c.id \in Jobs /\ c.amount \in Prices
    BY <1>2, <1>5, CallParts DEF Asked, RoleAllows
  <2>2. w[c.user] = wallet[c.user]
    BY <1>2, <1>5, <2>1 DEF Users
  <2>3. Affords(wallet[c.user], c.amount)
    BY <1>2, <1>5, <2>2 DEF CheckAnswer
  <2>4. CreateJob(c.user, c.id, c.amount)
    BY <1>3, <1>5, <2>2, <2>3 DEF CreateJob, WriteCreate
  <2>5. Writes(t)
    BY <1>1, <1>2, <1>5, <2>1 DEF WriteCreate, Writes, TypeOK, c, JobOps
  <2> QED
    BY <2>1, <2>4, <2>5 DEF Next, JobStep
<1>6. CASE c.op = "accept" /\ WriteAccept(c)
  <2>1. c.user \in Workers /\ c.id \in Jobs /\ c.op \in PartyOps
    BY <1>2, <1>6, CallParts DEF Asked, RoleAllows, PartyOps, JobOps
  <2>2. job[c.id].status = "created" /\ job[c.id].employer # c.user
    BY <1>2, <1>6, <2>1 DEF CheckAnswer, Acceptable
  <2>3. AcceptJob(c.id, c.user)
    BY <1>6, <2>2 DEF AcceptJob, WriteAccept
  <2>4. Writes(t)
    BY <1>1, <1>2, <1>6, <2>1 DEF WriteAccept, Writes, TypeOK, c, PartyOps
  <2> QED
    BY <2>1, <2>3, <2>4 DEF Next, JobStep
<1>7. CASE c.op = "start" /\ WriteStatus(c, "in_progress")
  <2>1. c.user \in Workers /\ c.id \in Jobs /\ c.op \in PartyOps
    BY <1>2, <1>7, CallParts DEF Asked, RoleAllows, PartyOps, JobOps
  <2>2. job[c.id].status = "accepted" /\ job[c.id].worker = c.user
    BY <1>2, <1>7, <2>1 DEF CheckAnswer, Finds
  <2>3. StartJob(c.id, c.user)
    BY <1>7, <2>2 DEF StartJob, WriteStatus
  <2>4. Writes(t)
    BY <1>1, <1>2, <1>7, <2>1 DEF WriteStatus, Writes, TypeOK, c, PartyOps
  <2> QED
    BY <2>1, <2>3, <2>4 DEF Next, JobStep
<1>8. CASE c.op = "complete" /\ WriteComplete(c, row, w)
  <2>1. c.user \in Employers /\ c.id \in Jobs /\ c.op \in PartyOps
    BY <1>2, <1>8, CallParts DEF Asked, RoleAllows, PartyOps, JobOps
  <2>2. /\ row = job[c.id] /\ row.employer = c.user
        /\ row.status = "in_progress" /\ row.worker # NoUser
    BY <1>2, <1>8, <2>1 DEF CheckAnswer, Finds
  <2>3. row.employer \in Users /\ row.worker \in Users
    BY <1>1, <2>1, <2>2 DEF PartiesNamed, Users
  <2>4. w[row.employer] = wallet[row.employer] /\ w[row.worker] = wallet[row.worker]
    BY <1>2, <1>8, <2>3
  <2>5. CompleteJob(c.id, c.user)
    BY <1>8, <2>2, <2>4 DEF CompleteJob, WriteComplete
  <2>6. Writes(t)
    <3>1. \A j \in Jobs : job'[j] # job[j] => j = c.id
      BY <1>1, <1>8 DEF WriteComplete, TypeOK
    <3>2. \A u \in Users :
            wallet'[u] # wallet[u] => u = row.employer \/ u = row.worker
      BY <1>1, <1>8 DEF WriteComplete, TypeOK
    <3>3. request' = request
      BY <1>8 DEF WriteComplete
    <3> QED
      BY <1>2, <1>8, <2>1, <3>1, <3>2, <3>3 DEF Writes, c, row, PartyOps
  <2> QED
    BY <2>1, <2>5, <2>6 DEF Next, JobStep
<1>9. CASE c.op = "cancel" /\ WriteCancel(c, row, w)
  <2>1. c.user \in Users /\ c.id \in Jobs /\ c.op \in PartyOps
    BY <1>2, <1>9, CallParts DEF PartyOps, JobOps
  <2>2. /\ row = job[c.id] /\ row.status \in OpenStatus
        /\ c.user \in {row.employer, row.worker}
    BY <1>2, <1>9, <2>1 DEF CheckAnswer
  <2>3. row.employer \in Users
    BY <1>1, <2>1, <2>2 DEF PartiesNamed, Users, OpenStatus
  <2>4. w[row.employer] = wallet[row.employer]
    BY <1>2, <1>9, <2>3
  <2>5. CancelJob(c.id, c.user)
    BY <1>9, <2>2, <2>4 DEF CancelJob, WriteCancel
  <2>6. Writes(t)
    BY <1>1, <1>2, <1>9, <2>1 DEF WriteCancel, Writes, TypeOK, c, row, PartyOps
  <2> QED
    BY <2>1, <2>5, <2>6 DEF Next, JobStep
<1>10. CASE c.op = "initiate" /\ WriteInitiate(c)
  <2>1. /\ c.user \in Users /\ c.id \in Requests /\ c.amount \in Amounts
        /\ MinDeposit <= c.amount /\ c.amount <= MaxDeposit
    BY <1>2, <1>10, CallParts DEF Asked
  <2>2. InitiateDeposit(c.user, c.id, c.amount)
    BY <1>4, <1>10, <2>1 DEF InitiateDeposit, WriteInitiate
  <2>3. /\ job' = job /\ wallet' = wallet
        /\ \A r \in Requests : request'[r] # request[r] => r = c.id
    BY <1>1, <1>10 DEF WriteInitiate, TypeOK
  <2>4. Writes(t)
    BY <1>10, <2>3 DEF Writes, c
  <2> QED
    BY <2>1, <2>2, <2>4 DEF Next, DepositStep
<1>11. CASE c.op = "confirm" /\ WriteConfirm(c, w)
  <2>1. c.id \in Requests /\ request[c.id].status = "pending"
    BY <1>2, <1>11, CallParts DEF Finds
  <2>2. request[c.id].user \in Users
    BY <1>1, <2>1 DEF PartiesNamed
  <2>3. w[request[c.id].user] = wallet[request[c.id].user]
    BY <1>2, <1>11, <2>2
  <2>4. MinDeposit <= request[c.id].amount /\ request[c.id].amount <= MaxDeposit
    BY <1>1, <2>1
  <2>5. ConfirmDeposit(c.id)
    BY <1>11, <2>1, <2>3, <2>4 DEF ConfirmDeposit, WriteConfirm
  <2>6. Writes(t)
    BY <1>1, <1>2, <1>11 DEF WriteConfirm, Writes, TypeOK, c
  <2> QED
    BY <2>1, <2>5, <2>6 DEF Next, DepositStep
<1> QED
  BY <1>5, <1>6, <1>7, <1>8, <1>9, <1>10, <1>11 DEF Commit, c, row, w

-----------------------------------------------------------------------------
(* What a step of one thread leaves alone in another. *)

\* Nothing that o has read, or decided upon, is written.
Undisturbed(o) ==
  LET c == tx[o].call
  IN  /\ c.op = "create" => job'[c.id] = job[c.id]
      /\ c.op = "initiate" => request'[c.id] = request[c.id]
      /\ \A j \in Jobs : JobLock(j) \in tx[o].locks => job'[j] = job[j]
      /\ \A u \in Users : WalletLock(u) \in tx[o].locks => wallet'[u] = wallet[u]
      /\ \A r \in Requests :
           RequestLock(r) \in tx[o].locks => request'[r] = request[r]

LEMMA OtherRuns ==
  ASSUME TxInv, [Next]_vars, NEW o \in Threads, Active(o), tx'[o] = tx[o],
         Undisturbed(o), \A p \in Threads \ {o} : Apart(o, p)'
  PROVE  Active(o)' /\ Running(o)'
<1> DEFINE c == tx[o].call
<1>1. /\ Active(o)' /\ tx'[o] = tx[o]
      /\ Planned(o)' = Planned(o) /\ InOrder(o)' = InOrder(o)
  BY DEF Active, Planned, InOrder
<1>2. /\ tx[o].reply = "none" /\ c \in Calls /\ Fresh(o) /\ Asked(c)
      /\ Plan(o) /\ InOrder(o) /\ FreshRead(o) /\ Decided(o)
  BY DEF TxInv, Running
<1>3. /\ c.op \in PartyOps =>
           /\ c.id \in Jobs /\ job[c.id].status # "absent"
           /\ job'[c.id].status # "absent"
           /\ job'[c.id].employer = job[c.id].employer
      /\ c.op = "confirm" =>
           /\ c.id \in Requests /\ request[c.id].status # "absent"
           /\ request'[c.id].status # "absent"
           /\ request'[c.id].user = request[c.id].user
  BY <1>2, CallParts, RowsStay DEF TxInv, Asked
<1>4. Fresh(o)'
  BY <1>2 DEF Fresh, Undisturbed
<1>5. Asked(c)'
  BY <1>2, <1>3 DEF Asked, RoleAllows
<1>6. Needed(c)' = Needed(c)
  BY <1>3 DEF Needed, PartyOps, JobOps
<1>7. PaymentLocks(c, tx[o].job)' = PaymentLocks(c, tx[o].job)
  BY DEF PaymentLocks
<1>8. Plan(o)'
  BY <1>1, <1>2, <1>3, <1>6, <1>7 DEF Plan
<1>9. FreshRead(o)'
  <2>1. JobLock(c.id) \in tx[o].locks => c.id \in Jobs
    <3>1. tx[o].locks \subseteq LockSet
      BY DEF TxInv, TxTypeOK, Tx
    <3> QED
      BY <3>1, JobLockType
  <2> QED
    BY <1>1, <1>2, <2>1 DEF FreshRead, Undisturbed
<1>10. Decided(o)'
  <2> SUFFICES ASSUME tx[o].phase = "wallets"
               PROVE  /\ Finds(c)'
                      /\ CheckAnswer(c, tx[o].job, tx[o].wallets)' = "none"
    BY <1>1 DEF Decided
  <2>1. Finds(c) /\ CheckAnswer(c, tx[o].job, tx[o].wallets) = "none"
    BY <1>2 DEF Decided
  <2>2. Needed(c) \subseteq tx[o].locks
    BY <1>2 DEF Plan
  <2>3. c.op \in PartyOps => job'[c.id] = job[c.id]
    BY <1>3, <2>2 DEF Needed, PartyOps, JobOps, Undisturbed
  <2>4. c.op = "confirm" => request'[c.id] = request[c.id]
    BY <1>3, <2>2 DEF Needed, PartyOps, JobOps, Undisturbed
  <2>5. Finds(c)'
    BY <2>1, <2>3, <2>4 DEF Finds, PartyOps, JobOps
  <2>6. CheckAnswer(c, tx[o].job, tx[o].wallets)' = "none"
    BY <1>1, <2>1 DEF CheckAnswer, Acceptable, Affords
  <2> QED
    BY <2>5, <2>6
<1> QED
  BY <1>1, <1>2, <1>4, <1>5, <1>8, <1>9, <1>10 DEF Running, InOrder

\* Answers that were true when they were given stay true.
LEMMA StillTruthful ==
  ASSUME TxInv, [Next]_vars, NEW o \in Threads, tx'[o] = tx[o]
  PROVE  Truthful(o)'
<1> DEFINE c == tx[o].call
<1> SUFFICES ASSUME tx[o].reply = "ok"
             PROVE  Truthful(o)'
  BY DEF Truthful
<1>1. ~Active(o)
  BY DEF TxInv, Running
<1>2. c \in Calls
  BY <1>1 DEF TxInv, Resting
<1>3. /\ c.op \in JobOps => c.id \in Jobs
      /\ c.op = "confirm" => c.id \in Requests
  BY <1>2, CallParts DEF PartyOps
<1>4. /\ c.op \in JobOps => job[c.id].status \in StatusAfter(c.op)
      /\ c.op \in {"create", "complete"} => job[c.id].employer = c.user
      /\ c.op \in {"accept", "start"} => job[c.id].worker = c.user
      /\ c.op = "confirm" => request[c.id].status = "completed"
  BY DEF TxInv, TruthfulAnswers, Truthful
<1>5. RowsInv
  BY DEF TxInv
<1>6. c.op \in JobOps =>
        /\ job'[c.id].status \in StatusAfter(c.op)
        /\ job'[c.id].employer = job[c.id].employer
        /\ c.op \in {"accept", "start"} =>
             job'[c.id].worker = job[c.id].worker
  BY <1>3, <1>4, <1>5, AnswersStay
<1>7. c.op = "confirm" => request'[c.id].status = "completed"
  BY <1>3, <1>4, <1>5, AnswersStay
<1>8. StatusAfter(c.op)' = StatusAfter(c.op)
  BY DEF StatusAfter
<1> QED
  BY <1>4, <1>6, <1>7, <1>8 DEF Truthful, JobOps

\* A step of one thread that disturbs no other keeps the invariant.
LEMMA OneMoves ==
  ASSUME TxInv, [Next]_vars, NEW t \in Threads, TxTypeOK',
         IF Active(t)' THEN Running(t)' ELSE Resting(t)',
         Truthful(t)',
         \A o \in Threads \ {t} :
           /\ tx'[o] = tx[o]
           /\ tx'[t].locks \cap tx[o].locks = {}
           /\ Active(o) => Undisturbed(o) /\ Apart(o, t)'
  PROVE  TxInv'
<1>1. RowsInv'
  BY RowsStay DEF TxInv
<1>2. Exclusive'
  BY DEF TxInv, Exclusive
<1>3. ASSUME NEW o \in Threads \ {t}
      PROVE  IF Active(o)' THEN Running(o)' ELSE Resting(o)'
  <2>1. CASE Active(o)
    <3>1. ASSUME NEW p \in Threads \ {o}
          PROVE  Apart(o, p)'
      <4>1. CASE p = t
        BY <2>1, <4>1
      <4>2. CASE p # t
        <5>1. Apart(o, p)
          BY <2>1 DEF TxInv, Running, Fresh
        <5>2. tx'[p] = tx[p] /\ tx'[o] = tx[o]
          BY <4>2
        <5> QED
          BY <5>1, <5>2 DEF Apart, Active
      <4> QED
        BY <4>1, <4>2
    <3> QED
      BY <2>1, <3>1, OtherRuns
  <2>2. CASE ~Active(o)
    <3>1. Resting(o) /\ tx'[o] = tx[o]
      BY <2>2 DEF TxInv
    <3> QED
      BY <2>2, <3>1 DEF Resting, Active
  <2> QED
    BY <2>1, <2>2
<1>4. TruthfulAnswers'
  BY StillTruthful DEF TruthfulAnswers
<1> QED
  BY <1>1, <1>2, <1>3, <1>4 DEF TxInv

-----------------------------------------------------------------------------
(* Steps that end a call, or begin one. *)

Replies == {"none", "ok"} \cup Refusals \cup Failures

LEMMA IdleTxParts ==
  /\ IdleTx \in Tx
  /\ IdleTx.call = NoCall /\ IdleTx.phase = "idle" /\ IdleTx.todo = <<>>
  /\ IdleTx.locks = {} /\ IdleTx.reply = "none"
<1>1. NoJobRow \in JobRow
  BY DEF NoJobRow, JobRow, JobStatus
<1>2. [u \in Users |-> EmptyWallet] \in [Users -> Wallet]
  BY DEF EmptyWallet, Wallet
<1>3. <<>> \in Seq(LockSet)
  OBVIOUS
<1> QED
  BY <1>1, <1>2, <1>3 DEF IdleTx, Tx

LEMMA AnsweredTxParts ==
  ASSUME NEW c \in Calls \cup {NoCall}, NEW reply \in Replies
  PROVE  /\ AnsweredTx(c, reply) \in Tx
         /\ AnsweredTx(c, reply).call = c
         /\ AnsweredTx(c, reply).phase = "answered"
         /\ AnsweredTx(c, reply).todo = <<>>
         /\ AnsweredTx(c, reply).locks = {}
         /\ AnsweredTx(c, reply).reply = reply
BY IdleTxParts DEF AnsweredTx, Tx, Replies

\* An answered thread holds nothing and works on no identifier.
LEMMA Ends ==
  ASSUME TxInv, NEW t \in Threads, NEW c \in Calls, NEW reply \in Replies,
         tx' = [tx EXCEPT ![t] = AnsweredTx(c, reply)]
  PROVE  /\ TxTypeOK' /\ ~Active(t)' /\ Resting(t)'
         /\ tx'[t].call = c /\ tx'[t].reply = reply
         /\ \A o \in Threads \ {t} :
              /\ tx'[o] = tx[o] /\ tx'[t].locks \cap tx[o].locks = {}
              /\ Apart(o, t)'
<1>1. /\ tx'[t] = AnsweredTx(c, reply)
      /\ \A o \in Threads \ {t} : tx'[o] = tx[o]
      /\ TxTypeOK'
  BY AnsweredTxParts DEF TxInv, TxTypeOK
<1>2. /\ tx'[t].call = c /\ tx'[t].phase = "answered" /\ tx'[t].todo = <<>>
      /\ tx'[t].locks = {} /\ tx'[t].reply = reply
  BY <1>1, AnsweredTxParts
<1>3. ~Active(t)' /\ Resting(t)'
  BY <1>2 DEF Active, Resting
<1>4. \A o \in Threads \ {t} : Apart(o, t)'
  BY <1>3 DEF Apart
<1> QED
  BY <1>1, <1>2, <1>3, <1>4

\* A refused, failed or rolled back call.
LEMMA RefusedKeeps ==
  ASSUME TxInv, NEW t \in Threads, NEW c \in Calls, UNCHANGED vars,
         NEW reply \in Refusals \cup Failures,
         tx' = [tx EXCEPT ![t] = AnsweredTx(c, reply)]
  PROVE  TxInv'
<1>1. reply \in Replies /\ reply # "ok"
  BY DEF Replies, Refusals, Failures
<1>2. /\ TxTypeOK' /\ ~Active(t)' /\ Resting(t)' /\ tx'[t].reply = reply
      /\ \A o \in Threads \ {t} :
           /\ tx'[o] = tx[o] /\ tx'[t].locks \cap tx[o].locks = {}
           /\ Apart(o, t)'
  BY <1>1, Ends
<1>3. Truthful(t)'
  BY <1>1, <1>2 DEF Truthful
<1>4. \A o \in Threads : Undisturbed(o)
  BY DEF Undisturbed, vars
<1> QED
  BY <1>2, <1>3, <1>4, OneMoves

\* The thread takes another request.
LEMMA RespondKeeps ==
  ASSUME TxInv, NEW t \in Threads, Respond(t)
  PROVE  TxInv'
<1>1. /\ tx'[t] = IdleTx
      /\ \A o \in Threads \ {t} : tx'[o] = tx[o]
      /\ TxTypeOK'
  BY IdleTxParts DEF Respond, TxInv, TxTypeOK
<1>2. ~Active(t)' /\ Resting(t)' /\ Truthful(t)' /\ tx'[t].locks = {}
  BY <1>1, IdleTxParts DEF Active, Resting, Truthful
<1>3. \A o \in Threads \ {t} : Apart(o, t)'
  BY <1>2 DEF Apart
<1>4. UNCHANGED vars /\ \A o \in Threads : Undisturbed(o)
  BY DEF Undisturbed, vars, Respond
<1> QED
  BY <1>1, <1>2, <1>3, <1>4, OneMoves

\* What is found out before the first lock.
LEMMA EarlyFindings ==
  ASSUME RowsInv, NEW c \in Calls
  PROVE  /\ EarlyAnswer(c) # "none" => EarlyAnswer(c) \in Refusals \cup Failures
         /\ EarlyAnswer(c) = "none" => Asked(c)
<1>1. EarlyAnswer(c) # "none" => EarlyAnswer(c) \in Refusals \cup Failures
  BY DEF EarlyAnswer, Refusals, Failures
<1>2. ASSUME EarlyAnswer(c) = "none"
      PROVE  Asked(c)
  <2>1. RoleAllows(c) /\ Finds(c)
    BY <1>2 DEF EarlyAnswer
  <2>2. c.op = "initiate" => MinDeposit <= c.amount /\ c.amount <= MaxDeposit
    BY <1>2 DEF EarlyAnswer
  <2>3. c.op = "start" => c.id \in Jobs /\ job[c.id].worker = c.user
    BY <2>1, CallParts DEF Finds, PartyOps, JobOps
  <2>4. c.op = "complete" => c.id \in Jobs /\ job[c.id].employer = c.user
    BY <2>1, CallParts DEF Finds, PartyOps, JobOps
  <2>5. c.op \in PartyOps => c.user # NoUser
    BY CallParts, RolesAssumption
  <2>6. c.op \in PartyOps => job[c.id].status # "absent"
    <3>1. c.op \in {"accept", "cancel"} => job[c.id].status # "absent"
      BY <2>1 DEF Finds
    <3>2. c.op \in PartyOps => c.op \in {"accept", "cancel", "start", "complete"}
      BY DEF PartyOps, JobOps
    <3> QED
      BY <2>3, <2>4, <2>5, <3>1, <3>2 DEF RowsInv
  <2>7. c.op = "confirm" => request[c.id].status # "absent"
    BY <2>1 DEF Finds
  <2> QED
    BY <2>1, <2>2, <2>6, <2>7 DEF Asked
<1> QED
  BY <1>1, <1>2

\* What the first statement may lock, one row at a time.
Selected(c, row) ==
  \/ c.op = "create" /\ row = WalletLock(c.user)
  \/ c.op \in PartyOps /\ row = JobLock(c.id)
  \/ c.op \in PartyOps /\ row = UserLock(job[c.id].employer)
  \/ /\ c.op \in PartyOps \ {"accept"}
     /\ \E u \in Workers : row = UserLock(u)
  \/ c.op = "confirm" /\ row = RequestLock(c.id)
  \/ c.op = "confirm" /\ row = WalletLock(request[c.id].user)

LEMMA SelectedNames ==
  ASSUME NEW c, NEW row, Selected(c, row)
  PROVE  /\ \A j : row = JobLock(j) => c.op \in PartyOps /\ j = c.id
         /\ \A r : row = RequestLock(r) => c.op = "confirm" /\ r = c.id
         /\ \A u : row = UserLock(u) =>
              /\ c.op \in PartyOps
              /\ \/ u = job[c.id].employer
                 \/ u \in Workers /\ c.op # "accept"
         /\ \A u : row = WalletLock(u) =>
              \/ c.op = "create" /\ u = c.user
              \/ c.op = "confirm" /\ u = request[c.id].user
<1>1. CASE c.op = "create" /\ row = WalletLock(c.user)
  BY <1>1, LockNames
<1>2. CASE c.op \in PartyOps /\ row = JobLock(c.id)
  BY <1>2, LockNames
<1>3. CASE c.op \in PartyOps /\ row = UserLock(job[c.id].employer)
  <2>1. /\ \A x : row # JobLock(x) /\ row # RequestLock(x)
        /\ \A x : row # WalletLock(x)
        /\ \A x : row = UserLock(x) => x = job[c.id].employer
    BY <1>3, LockNames
  <2> QED
    BY <1>3, <2>1
<1>4. CASE /\ c.op \in PartyOps \ {"accept"}
           /\ \E u \in Workers : row = UserLock(u)
  <2>1. PICK v \in Workers : row = UserLock(v)
    BY <1>4
  <2>2. /\ \A x : row # JobLock(x) /\ row # RequestLock(x)
        /\ \A x : row # WalletLock(x)
        /\ \A x : row = UserLock(x) => x = v
    BY <2>1, LockNames
  <2> QED
    BY <1>4, <2>1, <2>2
<1>5. CASE c.op = "confirm" /\ row = RequestLock(c.id)
  BY <1>5, LockNames
<1>6. CASE c.op = "confirm" /\ row = WalletLock(request[c.id].user)
  BY <1>6, LockNames
<1> QED
  BY <1>1, <1>2, <1>3, <1>4, <1>5, <1>6 DEF Selected

\* The rows of the first statement, in order, for a call that passed.
LEMMA SelectPlan ==
  ASSUME RowsInv, NEW c \in Calls, Asked(c),
         c.op = "start" => job[c.id].worker \in Workers
  PROVE  /\ SelectLocks(c) \in Seq(LockSet) /\ Sorted(c.op, SelectLocks(c))
         /\ Needed(c) \subseteq Rows(SelectLocks(c))
         /\ \A row \in Rows(SelectLocks(c)) : Selected(c, row)
<1> DEFINE s == SelectLocks(c)
<1>1. CASE c.op = "create"
  <2>1. s = <<WalletLock(c.user)>>
    BY <1>1 DEF SelectLocks
  <2>2. WalletLock(c.user) \in LockSet
    BY <1>1, CallParts, LockTypes
  <2>3. /\ s \in Seq(LockSet) /\ Sorted(c.op, s)
        /\ Rows(s) = {WalletLock(c.user)}
    BY <2>1, <2>2, ShortPlans
  <2>4. Needed(c) = {WalletLock(c.user)}
    BY <1>1 DEF Needed, PartyOps
  <2> QED
    BY <1>1, <2>3, <2>4 DEF Selected
<1>2. CASE c.op \in PartyOps
  <2> DEFINE e == job[c.id].employer
             w == job[c.id].worker
             first == JobLock(c.id)
             second == UserLock(e)
             third == UserLock(w)
  <2>1. c.id \in Jobs /\ job[c.id].status # "absent"
    BY <1>2, CallParts DEF Asked
  <2>2. e \in Employers /\ e \in Users /\ w \in Workers \cup {NoUser}
    BY <2>1 DEF RowsInv, BooksInv, TypeOK, PartiesNamed, JobRow, Users
  <2>3. w # NoUser => w \notin Employers /\ w \in Users
    BY <2>2, RolesAssumption DEF Users
  <2>4. /\ first \in LockSet /\ second \in LockSet
        /\ w # NoUser => third \in LockSet
    BY <2>1, <2>2, <2>3, LockTypes
  <2>5. /\ Rank(c.op, first) = 1
        /\ Rank(c.op, second) = IF c.op = "start" THEN 3 ELSE 2
        /\ w # NoUser => Rank(c.op, third) = IF c.op = "start" THEN 2 ELSE 3
    BY <2>2, <2>3, LockRanks
  <2>6. Needed(c) = {first, second}
    BY <1>2 DEF Needed, PartyOps, JobOps
  <2>7. \/ c.op # "start" /\ s = <<first, second>>
        \/ /\ c.op \in {"complete", "cancel"} /\ w # NoUser
           /\ s = <<first, second, third>>
        \/ c.op = "start" /\ w # NoUser /\ s = <<first, third, second>>
    <3>1. CASE c.op = "accept"
      BY <3>1 DEF SelectLocks
    <3>2. CASE c.op \in {"complete", "cancel"}
      <4>1. s = PartyLocks(c.id)
        BY <3>2 DEF SelectLocks
      <4>2. CASE w = NoUser
        BY <3>2, <4>1, <4>2 DEF PartyLocks
      <4>3. CASE w # NoUser
        <5>1. PartyLocks(c.id) = <<first, second>> \o <<third>>
          BY <4>3 DEF PartyLocks
        <5> QED
          BY <2>4, <3>2, <4>1, <4>3, <5>1, OneMoreRow
      <4> QED
        BY <4>2, <4>3
    <3>3. CASE c.op = "start"
      BY <3>3, RolesAssumption DEF SelectLocks, StarterLocks, Users
    <3> QED
      BY <1>2, <3>1, <3>2, <3>3 DEF PartyOps, JobOps
  <2> HIDE DEF first, second, third, s
  <2>8. /\ s \in Seq(LockSet) /\ Sorted(c.op, s)
        /\ first \in Rows(s) /\ second \in Rows(s)
        /\ \/ Rows(s) = {first, second}
           \/ c.op # "accept" /\ w # NoUser /\ Rows(s) = {first, second, third}
    <3>1. CASE c.op # "start" /\ s = <<first, second>>
      <4>1. Rank(c.op, first) < Rank(c.op, second)
        BY <2>5, <3>1
      <4> QED
        BY <2>4, <3>1, <4>1, ShortPlans
    <3>2. CASE /\ c.op \in {"complete", "cancel"} /\ w # NoUser
               /\ s = <<first, second, third>>
      <4>1. /\ Rank(c.op, first) < Rank(c.op, second)
            /\ Rank(c.op, second) < Rank(c.op, third)
            /\ Rank(c.op, first) < Rank(c.op, third)
        BY <2>5, <3>2
      <4>2. /\ s \in Seq(LockSet) /\ Sorted(c.op, s)
            /\ Rows(s) = {first, second, third}
        BY ZenonT(60), <2>4, <3>2, <4>1, ShortPlans
      <4> QED
        BY <3>2, <4>2
    <3>3. CASE c.op = "start" /\ w # NoUser /\ s = <<first, third, second>>
      <4>1. /\ Rank(c.op, first) < Rank(c.op, third)
            /\ Rank(c.op, third) < Rank(c.op, second)
            /\ Rank(c.op, first) < Rank(c.op, second)
        BY <2>5, <3>3
      <4>2. /\ s \in Seq(LockSet) /\ Sorted(c.op, s)
            /\ Rows(s) = {first, third, second}
        BY ZenonT(60), <2>4, <3>3, <4>1, ShortPlans
      <4> QED
        BY <3>3, <4>2
    <3> QED
      BY <2>7, <3>1, <3>2, <3>3
  <2>9. ASSUME NEW row \in Rows(s)
        PROVE  Selected(c, row)
    <3>1. \/ row \in {first, second}
          \/ c.op # "accept" /\ w \in Workers /\ row = third
      BY <2>2, <2>8
    <3> QED
      BY <1>2, <3>1 DEF Selected, first, second, third
  <2> QED
    BY <2>6, <2>8, <2>9 DEF s
<1>3. CASE c.op = "initiate"
  <2>1. s = <<>>
    BY <1>3 DEF SelectLocks
  <2>2. Needed(c) = {}
    BY <1>3 DEF Needed, PartyOps, JobOps
  <2> QED
    BY <2>1, <2>2, ShortPlans
<1>4. CASE c.op = "confirm"
  <2> DEFINE u == request[c.id].user
  <2>1. s = <<RequestLock(c.id), WalletLock(u)>>
    BY <1>4 DEF SelectLocks
  <2>2. c.id \in Requests /\ u \in Users
    BY <1>4, CallParts DEF Asked, RowsInv, BooksInv, PartiesNamed
  <2>3. /\ RequestLock(c.id) \in LockSet /\ WalletLock(u) \in LockSet
        /\ Rank(c.op, RequestLock(c.id)) < Rank(c.op, WalletLock(u))
    BY <2>2, LockTypes, LockRanks
  <2>4. /\ s \in Seq(LockSet) /\ Sorted(c.op, s)
        /\ Rows(s) = {RequestLock(c.id), WalletLock(u)}
    BY <2>1, <2>3, ShortPlans
  <2>5. Needed(c) = {RequestLock(c.id), WalletLock(u)}
    BY <1>4 DEF Needed, PartyOps, JobOps
  <2> QED
    BY <1>4, <2>4, <2>5 DEF Selected
<1> QED
  BY <1>1, <1>2, <1>3, <1>4, CallParts

LEMMA BeginKeeps ==
  ASSUME TxInv, NEW t \in Threads, NEW c \in Calls, Begin(t, c)
  PROVE  TxInv'
<1>1. UNCHANGED vars /\ ~Active(t) /\ FreshId(c)
  BY DEF Begin, Active
<1>2. RowsInv /\ TxTypeOK
  BY DEF TxInv
<1>3. CASE EarlyAnswer(c) # "none"
  <2>1. tx' = [tx EXCEPT ![t] = AnsweredTx(c, EarlyAnswer(c))]
    BY <1>3 DEF Begin
  <2>2. EarlyAnswer(c) \in Refusals \cup Failures
    BY <1>2, <1>3, EarlyFindings
  <2> QED
    BY <1>1, <2>1, <2>2, RefusedKeeps
<1>4. CASE EarlyAnswer(c) = "none"
  <2> DEFINE new == [IdleTx EXCEPT !.call = c, !.phase = "select",
                                   !.todo = SelectLocks(c)]
             s == SelectLocks(c)
  <2>1. Asked(c) /\ (c.op = "start" => job[c.id].worker \in Workers)
    <3>1. Asked(c)
      BY <1>2, <1>4, EarlyFindings
    <3>2. Finds(c) /\ RoleAllows(c)
      BY <1>4 DEF EarlyAnswer
    <3> QED
      BY <3>1, <3>2 DEF Finds, RoleAllows
  <2>2. s \in Seq(LockSet)
    BY <1>2, <2>1, SelectPlan
  <2>3. /\ new \in Tx
        /\ new.call = c /\ new.phase = "select" /\ new.todo = s
        /\ new.locks = {} /\ new.reply = "none"
    BY <2>2, IdleTxParts DEF Tx
  <2>4. tx' = [tx EXCEPT ![t] = new]
    BY <1>4 DEF Begin
  <2> HIDE DEF new
  <2>5. /\ tx'[t] = new /\ TxTypeOK'
        /\ \A o \in Threads \ {t} : tx'[o] = tx[o]
    BY <1>2, <2>3, <2>4 DEF TxTypeOK
  <2>6. Active(t)' /\ Planned(t)' = Rows(s)
    BY <2>3, <2>5 DEF Active, Planned
  <2>7. Fresh(t)'
    <3>1. ASSUME NEW o \in Threads \ {t}
          PROVE  Apart(t, o)'
      BY <1>1, <2>3, <2>5 DEF Apart, FreshId, Active
    <3> QED
      BY <1>1, <2>3, <2>5, <3>1 DEF Fresh, FreshId, vars
  <2>8. Asked(c)' /\ Needed(c)' = Needed(c)
    BY <1>1, <2>1 DEF Asked, RoleAllows, Needed, vars
  <2>9. Plan(t)'
    <3>1. /\ tx'[t].phase # "wallets" /\ tx'[t].call = c
          /\ request' = request /\ job' = job
      BY <1>1, <2>3, <2>5 DEF vars
    <3>2. /\ Needed(c) \subseteq Rows(s)
          /\ \A row \in Rows(s) : Selected(c, row)
      BY <1>2, <2>1, SelectPlan
    <3>3. /\ \A j : JobLock(j) \in Rows(s) => c.op \in PartyOps /\ j = c.id
          /\ \A r : RequestLock(r) \in Rows(s) => c.op = "confirm" /\ r = c.id
          /\ \A u : UserLock(u) \in Rows(s) =>
               /\ c.op \in PartyOps
               /\ \/ u = job[c.id].employer
                  \/ u \in Workers /\ c.op # "accept"
          /\ \A u : WalletLock(u) \in Rows(s) =>
               \/ c.op = "create" /\ u = c.user
               \/ c.op = "confirm" /\ u = request[c.id].user
      BY <3>2, SelectedNames
    <3> HIDE DEF s
    <3> QED
      BY <2>6, <2>8, <3>1, <3>2, <3>3 DEF Plan
  <2>10. InOrder(t)' /\ FreshRead(t)' /\ Decided(t)'
    <3>1. Sorted(c.op, s)
      BY <1>2, <2>1, SelectPlan
    <3> HIDE DEF s
    <3> QED
      BY <2>3, <2>5, <3>1 DEF InOrder, FreshRead, Decided
  <2>11. Running(t)'
    BY <2>3, <2>5, <2>7, <2>8, <2>9, <2>10 DEF Running
  <2>12. Truthful(t)'
    BY <2>3, <2>5 DEF Truthful
  <2>13. ASSUME NEW o \in Threads \ {t}, Active(o)
         PROVE  Undisturbed(o) /\ Apart(o, t)'
    <3>1. Fresh(o) /\ tx'[o] = tx[o] /\ tx'[t].call = c
      BY <2>3, <2>5, <2>13 DEF TxInv, Running
    <3>2. tx[o].call.id # c.id \/ c.op \in PartyOps \/ c.op = "confirm"
      BY <1>1, <2>13, CallParts DEF FreshId
    <3>3. tx[o].call.op = "create" /\ c.op \in PartyOps =>
            tx[o].call.id # c.id
      BY <2>1, <3>1 DEF Fresh, Asked
    <3>4. tx[o].call.op = "initiate" /\ c.op = "confirm" =>
            tx[o].call.id # c.id
      BY <2>1, <3>1 DEF Fresh, Asked
    <3>5. /\ c.op \in JobOps => c.op # "confirm"
          /\ c.op \in DepositOps => c.op \notin PartyOps
      BY DEF JobOps, DepositOps, PartyOps
    <3> QED
      BY <1>1, <3>1, <3>2, <3>3, <3>4, <3>5 DEF Apart, Undisturbed, vars
  <2> QED
    BY <1>1, <2>3, <2>5, <2>6, <2>11, <2>12, <2>13, OneMoves
<1> QED
  BY <1>3, <1>4

-----------------------------------------------------------------------------
(* Steps that lock rows. *)

\* A transaction locks the next rows of its plan and reads them.
LEMMA TakeRows ==
  ASSUME TxInv, NEW t \in Threads, Active(t), UNCHANGED vars,
         NEW rows \in SUBSET LockSet, FreeFor(t, rows),
         NEW rest \in Seq(LockSet), Sorted(tx[t].call.op, rest),
         rows \cup Rows(rest) = Rows(tx[t].todo),
         \A a \in rows, b \in Rows(rest) :
           Rank(tx[t].call.op, a) < Rank(tx[t].call.op, b),
         tx' = [tx EXCEPT ![t] = [Reading(t, rows) EXCEPT !.todo = rest]]
  PROVE  TxInv'
<1> DEFINE c == tx[t].call
           new == [Reading(t, rows) EXCEPT !.todo = rest]
           locks == tx[t].locks
           row == IF JobLock(c.id) \in rows THEN job[c.id] ELSE tx[t].job
           w == [u \in Users |-> IF WalletLock(u) \in rows
                                 THEN wallet[u] ELSE tx[t].wallets[u]]
<1>1. TypeOK /\ TxTypeOK /\ tx[t] \in Tx
  BY DEF TxInv, RowsInv, BooksInv, TxTypeOK
<1>2. /\ tx[t].reply = "none" /\ c \in Calls /\ Fresh(t) /\ Asked(c)
      /\ Plan(t) /\ InOrder(t) /\ FreshRead(t) /\ Decided(t)
  BY DEF TxInv, Running
<1>3. JobLock(c.id) \in rows => c.id \in Jobs
  BY JobLockType
<1>4. row \in JobRow /\ w \in [Users -> Wallet]
  BY <1>1, <1>3 DEF TypeOK, Tx
<1>5. new = [tx[t] EXCEPT !.locks = locks \cup rows, !.job = row,
                          !.wallets = w, !.todo = rest]
  BY <1>1 DEF Reading, Tx
<1> HIDE DEF row, w, new
<1>6. /\ new \in Tx /\ new.call = c /\ new.phase = tx[t].phase
      /\ new.todo = rest /\ new.locks = locks \cup rows
      /\ new.job = row /\ new.wallets = w /\ new.reply = "none"
  BY <1>1, <1>2, <1>4, <1>5 DEF Tx
<1>7. /\ tx'[t] = new /\ TxTypeOK'
      /\ \A o \in Threads \ {t} : tx'[o] = tx[o]
  BY <1>1, <1>6 DEF TxTypeOK, new
<1>8. /\ Active(t)' /\ Planned(t)' = Planned(t)
      /\ locks \subseteq Planned(t) /\ rows \subseteq Planned(t)
  BY <1>6, <1>7 DEF Active, Planned
<1>9. Asked(c)' /\ Needed(c)' = Needed(c)
  BY <1>2, <1>6, <1>7 DEF Asked, RoleAllows, Needed, vars
<1>10. Fresh(t)'
  <2>1. ASSUME NEW o \in Threads \ {t}
        PROVE  Apart(t, o)'
    BY ZenonT(60), <1>2, <1>6, <1>7 DEF Fresh, Apart, Active
  <2> QED
    BY <1>2, <1>6, <1>7, <2>1 DEF Fresh, vars
<1>11. InOrder(t)'
  <2>1. \A a \in locks, b \in rows \cup Rows(rest) : Rank(c.op, a) < Rank(c.op, b)
    BY <1>2 DEF InOrder
  <2> QED
    BY <1>6, <1>7, <2>1 DEF InOrder
<1>12. FreshRead(t)'
  <2>1. JobLock(c.id) \in locks \cup rows => row = job[c.id]
    BY <1>2 DEF FreshRead, row
  <2>2. \A u \in Users : WalletLock(u) \in locks \cup rows => w[u] = wallet[u]
    BY <1>2 DEF FreshRead, w
  <2> QED
    BY ZenonT(60), <1>6, <1>7, <2>1, <2>2 DEF FreshRead, vars
\* What is locked once is not read again.
<1>13. \A a \in locks : a \notin rows
  <2>1. \A a \in locks, b \in rows : Rank(c.op, a) < Rank(c.op, b)
    BY <1>2 DEF InOrder
  <2>2. \A a \in LockSet : ~(Rank(c.op, a) < Rank(c.op, a))
    <3>1. \A a \in LockSet : Rank(c.op, a) \in Nat
      BY LockKinds, LockRanks
    <3> QED
      BY <3>1
  <2> QED
    BY <2>1, <2>2
<1>14. ASSUME tx[t].phase = "wallets"
       PROVE  /\ c.op \in PartyOps => row = tx[t].job
              /\ c.op = "create" => w[c.user] = tx[t].wallets[c.user]
              /\ PaymentLocks(c, row) = PaymentLocks(c, tx[t].job)
              /\ Finds(c)' /\ CheckAnswer(c, row, w) = "none"
  <2>1. Needed(c) \subseteq locks
    BY <1>2, <1>14 DEF Plan
  <2>2. c.op \in PartyOps => row = tx[t].job
    BY <1>13, <2>1 DEF Needed, PartyOps, JobOps, row
  <2>3. c.op = "create" => w[c.user] = tx[t].wallets[c.user]
    <3>1. c.op = "create" => c.user \in Users /\ WalletLock(c.user) \in locks
      BY <1>2, <2>1, CallParts DEF Needed, PartyOps
    <3> QED
      BY <1>13, <3>1 DEF w
  <2>4. Finds(c) /\ CheckAnswer(c, tx[t].job, tx[t].wallets) = "none"
    BY <1>2, <1>14 DEF Decided
  <2>5. Finds(c)'
    BY <1>6, <1>7, <2>4 DEF Finds, vars
  <2>6. CheckAnswer(c, row, w) = "none"
    BY <2>2, <2>3, <2>4 DEF CheckAnswer, PartyOps, JobOps
  <2>7. PaymentLocks(c, row) = PaymentLocks(c, tx[t].job)
    BY <2>2 DEF PaymentLocks, PartyOps, JobOps
  <2> QED
    BY <2>2, <2>3, <2>5, <2>6, <2>7
<1>15. Plan(t)'
  <2>1. request' = request /\ job' = job /\ tx'[t].call = c
    BY <1>6, <1>7 DEF vars
  <2>2. Needed(c) \subseteq IF tx[t].phase = "wallets" THEN locks \cup rows
                                                       ELSE Planned(t)
    BY <1>2 DEF Plan
  <2>3. tx[t].phase = "wallets" =>
          PaymentLocks(c, row) = PaymentLocks(c, tx[t].job)
    BY <1>14
  <2> QED
    BY <1>2, <1>6, <1>7, <1>8, <1>9, <2>1, <2>2, <2>3 DEF Plan
<1>16. Decided(t)'
  BY <1>6, <1>7, <1>14 DEF Decided
<1>17. Running(t)'
  BY <1>2, <1>6, <1>7, <1>9, <1>10, <1>11, <1>12, <1>15, <1>16 DEF Running
<1>18. Truthful(t)'
  BY <1>6, <1>7 DEF Truthful
<1>19. ASSUME NEW o \in Threads \ {t}
       PROVE  /\ tx'[o] = tx[o] /\ tx'[t].locks \cap tx[o].locks = {}
              /\ Active(o) => Undisturbed(o) /\ Apart(o, t)'
  <2>1. locks \cap tx[o].locks = {} /\ rows \cap tx[o].locks = {}
    BY DEF TxInv, Exclusive, FreeFor
  <2>2. Active(o) => Fresh(o)
    BY DEF TxInv, Running
  <2>3. Active(o) => Apart(o, t)'
    BY ZenonT(60), <1>6, <1>7, <2>2 DEF Fresh, Apart, Active
  <2> QED
    BY <1>6, <1>7, <2>1, <2>3 DEF Undisturbed, vars
<1> QED
  BY <1>7, <1>8, <1>17, <1>18, <1>19, OneMoves

LEMMA LockKeeps ==
  ASSUME TxInv, NEW t \in Threads, Lock(t)
  PROVE  TxInv'
<1> DEFINE op == tx[t].call.op
<1>1. /\ Active(t) /\ UNCHANGED vars /\ tx[t].todo # <<>>
      /\ FreeFor(t, {Head(tx[t].todo)})
      /\ tx' = [tx EXCEPT ![t] = [Reading(t, {Head(tx[t].todo)}) EXCEPT
                                    !.todo = Tail(tx[t].todo)]]
  BY DEF Lock, Reading, TxInv, TxTypeOK, Tx
<1>2. tx[t].todo \in Seq(LockSet) /\ Sorted(op, tx[t].todo)
  BY <1>1 DEF TxInv, TxTypeOK, Tx, Running, InOrder
<1> DEFINE row == Head(tx[t].todo)
           rest == Tail(tx[t].todo)
<1>3. /\ {row} \in SUBSET LockSet /\ rest \in Seq(LockSet) /\ Sorted(op, rest)
      /\ {row} \cup Rows(rest) = Rows(tx[t].todo)
      /\ \A a \in {row}, b \in Rows(rest) : Rank(op, a) < Rank(op, b)
  BY <1>1, <1>2, HeadAndTail
<1> HIDE DEF row, rest
<1> QED
  BY <1>1, <1>3, TakeRows DEF row, rest

LEMMA LockNoWaitKeeps ==
  ASSUME TxInv, NEW t \in Threads, LockNoWait(t)
  PROVE  TxInv'
<1> DEFINE rows == Rows(tx[t].todo)
<1>1. Active(t) /\ UNCHANGED vars /\ tx[t].call \in Calls
  BY DEF LockNoWait, NoWait, Active, TxInv, Running
<1>2. rows \in SUBSET LockSet
  BY DEF TxInv, TxTypeOK, Tx, Rows
<1>3. CASE FreeFor(t, rows)
  <2>1. tx' = [tx EXCEPT ![t] = [Reading(t, rows) EXCEPT !.todo = <<>>]]
    BY <1>3 DEF LockNoWait, Rows
  <2>2. /\ Rows(<<>>) = {} /\ <<>> \in Seq(LockSet)
        /\ Sorted(tx[t].call.op, <<>>)
    BY ShortPlans
  <2> QED
    BY ZenonT(60), <1>1, <1>2, <1>3, <2>1, <2>2, TakeRows
<1>4. CASE ~FreeFor(t, rows)
  <2>1. tx' = [tx EXCEPT ![t] = AnsweredTx(tx[t].call, "conflict")]
    BY <1>4 DEF LockNoWait, End, Rows
  <2> QED
    BY <1>1, <2>1, RefusedKeeps DEF Refusals
<1> QED
  BY <1>3, <1>4

-----------------------------------------------------------------------------
(* The checks. *)

\* The payment locks come after the rows the first statement locked.
LEMMA PaymentPlan ==
  ASSUME TxInv, NEW t \in Threads, tx[t].phase = "select", tx[t].todo = <<>>,
         CheckAnswer(tx[t].call, tx[t].job, tx[t].wallets) = "none"
  PROVE  LET pay == PaymentLocks(tx[t].call, tx[t].job)
         IN  /\ pay \in Seq(LockSet) /\ Sorted(tx[t].call.op, pay)
             /\ \A a \in tx[t].locks, b \in Rows(pay) :
                  Rank(tx[t].call.op, a) < Rank(tx[t].call.op, b)
             /\ \A b \in Rows(pay) : \E u \in Users : b = WalletLock(u)
<1> DEFINE c == tx[t].call
           row == tx[t].job
           pay == PaymentLocks(c, row)
<1>1. /\ c \in Calls /\ Asked(c) /\ Plan(t) /\ FreshRead(t)
      /\ Planned(t) = tx[t].locks /\ tx[t].locks \subseteq LockSet
  BY ShortPlans DEF TxInv, Running, Active, Planned, TxTypeOK, Tx
<1>2. CASE c.op \in {"complete", "cancel"}
  <2>1. c.op \in PartyOps /\ c.id \in Jobs /\ job[c.id].status # "absent"
    BY <1>1, <1>2, CallParts DEF PartyOps, JobOps, Asked
  <2>2. row = job[c.id]
    <3>1. Needed(c) \subseteq tx[t].locks
      BY <1>1 DEF Plan
    <3> QED
      BY <1>1, <1>2, <3>1 DEF Needed, PartyOps, JobOps, FreshRead
  <2>3. row.employer \in Employers /\ row.worker \in Workers \cup {NoUser}
    BY <2>1, <2>2 DEF TxInv, RowsInv, BooksInv, PartiesNamed, TypeOK, JobRow
  <2>4. c.op = "complete" => row.worker \in Workers
    BY <2>3 DEF CheckAnswer
  <2> DEFINE first == WalletLock(row.employer)
             second == WalletLock(row.worker)
  <2>5. row.employer \in Users /\ first \in LockSet /\ Rank(c.op, first) = 4
    BY <2>3, LockTypes, LockRanks DEF Users
  <2>6. c.op = "complete" =>
          /\ row.worker \in Users /\ second \in LockSet /\ Rank(c.op, second) = 5
    <3>1. \A x \in Workers : x \in Users /\ x \notin Employers
      BY RolesAssumption DEF Users
    <3> QED
      BY <2>4, <3>1, LockTypes, LockRanks
  <2>7. \/ pay = <<first>>
        \/ c.op = "complete" /\ pay = <<first, second>>
    BY <1>2 DEF PaymentLocks
  <2> HIDE DEF first, second, pay
  <2>8. /\ pay \in Seq(LockSet) /\ Sorted(c.op, pay)
        /\ \/ Rows(pay) = {first}
           \/ c.op = "complete" /\ Rows(pay) = {first, second}
    <3>1. CASE pay = <<first>>
      BY <2>5, <3>1, ShortPlans
    <3>2. CASE c.op = "complete" /\ pay = <<first, second>>
      <4>1. Rank(c.op, first) < Rank(c.op, second)
        BY <2>5, <2>6, <3>2
      <4> QED
        BY <2>5, <2>6, <3>2, <4>1, ShortPlans
    <3> QED
      BY <2>7, <3>1, <3>2
  <2>9. ASSUME NEW a \in tx[t].locks
        PROVE  Rank(c.op, a) \in {1, 2, 3}
    <3>1. a \in Planned(t) /\ a \in LockSet
      BY <1>1
    <3>2. \A u \in Users : a # WalletLock(u)
      BY <1>1, <1>2, <3>1 DEF Plan
    <3> QED
      BY <3>1, <3>2, LockKinds, LockRanks
  <2>10. \A b \in Rows(pay) : Rank(c.op, b) \in {4, 5}
    BY <2>5, <2>6, <2>8
  <2>11. \A a \in tx[t].locks, b \in Rows(pay) : Rank(c.op, a) < Rank(c.op, b)
    <3>1. \A m \in {1, 2, 3}, n \in {4, 5} : m < n
      OBVIOUS
    <3> QED
      BY <2>9, <2>10, <3>1
  <2>12. \A b \in Rows(pay) : \E u \in Users : b = WalletLock(u)
    BY <2>5, <2>6, <2>8 DEF first, second
  <2> QED
    BY <2>8, <2>11, <2>12 DEF pay
<1>3. CASE c.op \notin {"complete", "cancel"}
  <2>1. pay = <<>>
    BY <1>3 DEF PaymentLocks
  <2> QED
    BY <2>1, ShortPlans
<1> QED
  BY <1>2, <1>3

LEMMA CheckKeeps ==
  ASSUME TxInv, NEW t \in Threads, Check(t)
  PROVE  TxInv'
<1> DEFINE c == tx[t].call
           row == tx[t].job
           w == tx[t].wallets
           refusal == IF ~Finds(c) THEN "invalid" ELSE CheckAnswer(c, row, w)
           pay == PaymentLocks(c, row)
           new == [tx[t] EXCEPT !.phase = "wallets", !.todo = pay]
<1>1. /\ Active(t) /\ UNCHANGED vars
      /\ tx[t].phase = "select" /\ tx[t].todo = <<>>
  BY DEF Check, Active
<1>2. /\ TxTypeOK /\ tx[t] \in Tx /\ tx[t].reply = "none" /\ c \in Calls
      /\ Fresh(t) /\ Asked(c) /\ Plan(t) /\ InOrder(t) /\ FreshRead(t)
      /\ Planned(t) = tx[t].locks
  BY <1>1, ShortPlans DEF TxInv, TxTypeOK, Running, Planned
<1>3. CASE refusal # "none"
  <2>1. tx' = [tx EXCEPT ![t] = AnsweredTx(c, refusal)]
    BY <1>3 DEF Check, End
  <2>2. refusal \in Refusals
    BY <1>3 DEF CheckAnswer, Refusals
  <2> QED
    BY <1>1, <1>2, <2>1, <2>2, RefusedKeeps
<1>4. CASE refusal = "none"
  <2>1. Finds(c) /\ CheckAnswer(c, row, w) = "none"
    BY <1>4
  <2>2. /\ pay \in Seq(LockSet) /\ Sorted(c.op, pay)
        /\ \A a \in tx[t].locks, b \in Rows(pay) : Rank(c.op, a) < Rank(c.op, b)
        /\ \A b \in Rows(pay) : \E u \in Users : b = WalletLock(u)
    BY <1>1, <2>1, PaymentPlan
  <2>3. tx' = [tx EXCEPT ![t].phase = "wallets", ![t].todo = pay]
    BY <1>4 DEF Check
  <2> HIDE DEF pay
  <2>4. tx' = [tx EXCEPT ![t] = new]
    BY <1>2, <2>3 DEF TxTypeOK
  <2>5. /\ new \in Tx /\ new.call = c /\ new.phase = "wallets"
        /\ new.todo = pay /\ new.locks = tx[t].locks /\ new.job = row
        /\ new.wallets = w /\ new.reply = "none"
    BY <1>2, <2>2 DEF Tx
  <2> HIDE DEF new
  <2>6. /\ tx'[t] = new /\ TxTypeOK' /\ \A o \in Threads \ {t} : tx'[o] = tx[o]
    BY <1>2, <2>4, <2>5 DEF TxTypeOK
  <2>7. Active(t)' /\ Planned(t)' = tx[t].locks \cup Rows(pay)
    BY <2>5, <2>6 DEF Active, Planned
  <2>8. /\ Asked(c)' /\ Needed(c)' = Needed(c) /\ Finds(c)'
        /\ CheckAnswer(c, row, w)' = "none" /\ tx'[t].call = c
    BY <1>1, <1>2, <2>1, <2>5, <2>6
    DEF Asked, RoleAllows, Needed, Finds, CheckAnswer, vars
  <2>9. Fresh(t)'
    <3>1. ASSUME NEW o \in Threads \ {t}
          PROVE  Apart(t, o)'
      BY <1>2, <2>5, <2>6 DEF Fresh, Apart, Active
    <3> QED
      BY <1>1, <1>2, <2>5, <2>6, <3>1 DEF Fresh, vars
  <2>10. InOrder(t)'
    BY <2>2, <2>5, <2>6 DEF InOrder
  <2>11. FreshRead(t)' /\ Decided(t)'
    BY <1>1, <1>2, <2>5, <2>6, <2>8 DEF FreshRead, Decided, vars
  <2>12. Plan(t)'
    <3>1. Needed(c) \subseteq tx[t].locks
      BY <1>1, <1>2 DEF Plan
    <3>2. PaymentLocks(c, row)' = pay
      BY <2>5, <2>6 DEF PaymentLocks, pay
    <3>3. /\ \A j : JobLock(j) \notin Rows(pay)
          /\ \A r : RequestLock(r) \notin Rows(pay)
          /\ \A u : UserLock(u) \notin Rows(pay)
      <4>1. ASSUME NEW x, NEW b \in Rows(pay)
            PROVE  b # JobLock(x) /\ b # RequestLock(x) /\ b # UserLock(x)
        <5>1. PICK u \in Users : b = WalletLock(u)
          BY <2>2
        <5> QED
          BY <5>1, LockNames
      <4> QED
        BY <4>1
    <3> QED
      BY <1>1, <1>2, <2>5, <2>6, <2>7, <2>8, <3>1, <3>2, <3>3 DEF Plan, vars
  <2>13. Running(t)'
    BY <1>2, <2>5, <2>6, <2>8, <2>9, <2>10, <2>11, <2>12 DEF Running
  <2>14. Truthful(t)'
    BY <2>5, <2>6 DEF Truthful
  <2>15. ASSUME NEW o \in Threads \ {t}
         PROVE  /\ tx'[o] = tx[o] /\ tx'[t].locks \cap tx[o].locks = {}
                /\ Active(o) => Undisturbed(o) /\ Apart(o, t)'
    <3>1. tx[t].locks \cap tx[o].locks = {}
      BY DEF TxInv, Exclusive
    <3>2. Active(o) => Apart(o, t)
      BY DEF TxInv, Running, Fresh
    <3>3. Active(o) => Apart(o, t)'
      BY <1>1, <2>5, <2>6, <3>2 DEF Apart
    <3> QED
      BY <1>1, <2>5, <2>6, <3>1, <3>3 DEF Undisturbed, vars
  <2> QED
    BY <1>1, <2>6, <2>7, <2>13, <2>14, <2>15, OneMoves
<1> QED
  BY <1>3, <1>4

-----------------------------------------------------------------------------
(* The commit. *)

\* Whoever else runs has not locked what is written, and does not rely on it.
LEMMA CommitDisturbsNobody ==
  ASSUME TxInv, NEW t \in Threads, Commit(t),
         NEW o \in Threads \ {t}, Active(o)
  PROVE  Undisturbed(o)
<1> DEFINE c == tx[t].call
           d == tx[o].call
<1>1. Writes(t) /\ Active(t) /\ tx[t].locks \cap tx[o].locks = {}
  BY CommitIsCall DEF Commit, Active, TxInv, Exclusive
<1>2. c \in Calls /\ Apart(t, o)
  BY <1>1 DEF TxInv, Running, Fresh
<1>3. d \in Calls /\ Apart(o, t) /\ Plan(o) /\ tx[o].locks \subseteq Planned(o)
  BY DEF TxInv, Running, Fresh, Planned
<1>4. /\ PartyOps \subseteq JobOps /\ "create" \in JobOps
      /\ "initiate" \in DepositOps /\ "confirm" \in DepositOps
  BY DEF PartyOps, JobOps, DepositOps
<1>5. d.op = "create" => job'[d.id] = job[d.id]
  <2> SUFFICES ASSUME d.op = "create", job'[d.id] # job[d.id]
               PROVE  FALSE
    OBVIOUS
  <2>1. d.id \in Jobs
    BY <1>3, CallParts
  <2>2. c.op \in JobOps /\ d.id = c.id
    BY <1>1, <2>1 DEF Writes
  <2> QED
    BY <1>1, <1>3, <2>2 DEF Apart
<1>6. d.op = "initiate" => request'[d.id] = request[d.id]
  <2> SUFFICES ASSUME d.op = "initiate", request'[d.id] # request[d.id]
               PROVE  FALSE
    OBVIOUS
  <2>1. d.id \in Requests
    BY <1>3, CallParts
  <2>2. c.op \in DepositOps /\ d.id = c.id
    BY <1>1, <1>4, <2>1 DEF Writes
  <2> QED
    BY <1>1, <1>3, <2>2 DEF Apart
<1>7. ASSUME NEW j \in Jobs, JobLock(j) \in tx[o].locks
      PROVE  job'[j] = job[j]
  <2>1. d.op \in JobOps /\ j = d.id
    BY <1>3, <1>4, <1>7 DEF Plan
  <2>2. c.op = "create" => j # c.id
    BY <1>2, <2>1 DEF Apart
  <2> QED
    BY <1>1, <1>7, <2>2 DEF Writes
<1>8. ASSUME NEW u \in Users, WalletLock(u) \in tx[o].locks
      PROVE  wallet'[u] = wallet[u]
  BY <1>1, <1>8 DEF Writes
<1>9. ASSUME NEW r \in Requests, RequestLock(r) \in tx[o].locks
      PROVE  request'[r] = request[r]
  <2>1. d.op \in DepositOps /\ r = d.id
    BY <1>3, <1>4, <1>9 DEF Plan
  <2>2. c.op = "initiate" => r # c.id
    BY <1>2, <2>1 DEF Apart
  <2> QED
    BY <1>1, <1>9, <2>2 DEF Writes
<1> QED
  BY <1>5, <1>6, <1>7, <1>8, <1>9 DEF Undisturbed

\* The answer of a call that commits is true.
LEMMA CommitTruthful ==
  ASSUME TxInv, NEW t \in Threads, Commit(t),
         tx'[t].call = tx[t].call, tx'[t].reply = "ok"
  PROVE  Truthful(t)'
<1> DEFINE c == tx[t].call
<1>1. TypeOK
  BY DEF TxInv, RowsInv, BooksInv
<1>2. c \in Calls /\ Finds(c)
  BY AtCommit
<1>3. /\ c.op \in JobOps => c.id \in Jobs
      /\ c.op = "confirm" => c.id \in Requests
  BY <1>2, CallParts DEF PartyOps
<1> HIDE DEF c
<1>4. /\ c.op = "create" =>
           job'[c.id].status = "created" /\ job'[c.id].employer = c.user
      /\ c.op = "accept" =>
           job'[c.id].status = "accepted" /\ job'[c.id].worker = c.user
      /\ c.op = "start" =>
           job'[c.id].status = "in_progress" /\ job'[c.id].worker = c.user
      /\ c.op = "complete" =>
           job'[c.id].status = "completed" /\ job'[c.id].employer = c.user
      /\ c.op = "cancel" => job'[c.id].status = "cancelled"
      /\ c.op = "confirm" => request'[c.id].status = "completed"
  <2>1. CASE c.op = "create" /\ WriteCreate(c, tx[t].wallets)
    BY <1>1, <1>3, <2>1 DEF WriteCreate, TypeOK, JobOps
  <2>2. CASE c.op = "accept" /\ WriteAccept(c)
    BY <1>1, <1>3, <2>2 DEF WriteAccept, TypeOK, JobOps, JobRow
  <2>3. CASE c.op = "start" /\ WriteStatus(c, "in_progress")
    BY <1>1, <1>2, <1>3, <2>3 DEF WriteStatus, TypeOK, JobOps, JobRow, Finds
  <2>4. CASE c.op = "complete" /\ WriteComplete(c, tx[t].job, tx[t].wallets)
    BY <1>1, <1>2, <1>3, <2>4 DEF WriteComplete, TypeOK, JobOps, JobRow, Finds
  <2>5. CASE c.op = "cancel" /\ WriteCancel(c, tx[t].job, tx[t].wallets)
    BY <1>1, <1>3, <2>5 DEF WriteCancel, TypeOK, JobOps, JobRow
  <2>6. CASE c.op = "initiate"
    BY <2>6
  <2>7. CASE c.op = "confirm" /\ WriteConfirm(c, tx[t].wallets)
    BY <1>1, <1>3, <2>7 DEF WriteConfirm, TypeOK, RequestRow
  <2> QED
    BY <2>1, <2>2, <2>3, <2>4, <2>5, <2>6, <2>7 DEF Commit, c
<1>5. c.op \in JobOps => job'[c.id].status \in StatusAfter(c.op)
  BY <1>4 DEF StatusAfter, JobOps, JobStatus, OpenStatus
<1>6. StatusAfter(c.op)' = StatusAfter(c.op) /\ tx'[t].call = c
  BY DEF StatusAfter, c
<1> QED
  BY <1>4, <1>5, <1>6 DEF Truthful

LEMMA CommitKeeps ==
  ASSUME TxInv, NEW t \in Threads, Commit(t)
  PROVE  TxInv'
<1>1. tx' = [tx EXCEPT ![t] = AnsweredTx(tx[t].call, "ok")]
  BY DEF Commit, End
<1>2. tx[t].call \in Calls /\ "ok" \in Replies
  BY AtCommit DEF Replies
<1>3. /\ TxTypeOK' /\ ~Active(t)' /\ Resting(t)'
      /\ tx'[t].call = tx[t].call /\ tx'[t].reply = "ok"
      /\ \A o \in Threads \ {t} :
           /\ tx'[o] = tx[o] /\ tx'[t].locks \cap tx[o].locks = {}
           /\ Apart(o, t)'
  BY <1>1, <1>2, Ends
<1>4. Truthful(t)'
  BY <1>3, CommitTruthful
<1>5. [Next]_vars
  BY CommitIsCall
<1>6. \A o \in Threads \ {t} : Active(o) => Undisturbed(o)
  BY CommitDisturbsNobody
<1> QED
  BY <1>3, <1>4, <1>5, <1>6, OneMoves

-----------------------------------------------------------------------------
(* The invariant, and the calls that the transactions implement. *)

LEMMA InitTx == TxInit => TxInv
<1> SUFFICES ASSUME TxInit
             PROVE  TxInv
  OBVIOUS
<1>1. RowsInv
  <2>1. BooksInv
    BY InitBooks DEF TxInit
  <2> QED
    BY <2>1 DEF TxInit, Init, RowsInv, NoJobRow, NoRequestRow
<1>2. \A t \in Threads : tx[t] = IdleTx
  BY DEF TxInit
<1>3. TxTypeOK
  BY IdleTxParts DEF TxInit, TxTypeOK
<1>4. ASSUME NEW t \in Threads
      PROVE  ~Active(t) /\ Resting(t) /\ Truthful(t) /\ tx[t].locks = {}
  BY <1>2, IdleTxParts DEF Active, Resting, Truthful
<1> QED
  BY <1>1, <1>3, <1>4 DEF TxInv, Exclusive, TruthfulAnswers

\* A victim was waiting, so its transaction was under way.
LEMMA VictimActive ==
  ASSUME TxInv, NEW t \in Threads, DeadlockVictim(t)
  PROVE  Active(t)
<1>1. PICK S \in SUBSET Threads : t \in S /\ Knot(S)
  BY DEF DeadlockVictim
<1>2. PICK o \in S : WaitsFor(t, o)
  BY <1>1 DEF Knot
<1> QED
  BY <1>2 DEF WaitsFor, Wanted

LEMMA StepKeeps ==
  ASSUME TxInv, NEW t \in Threads,
         \/ \E c \in Calls : Begin(t, c)
         \/ Step(t) \/ Fail(t) \/ DeadlockVictim(t) \/ Respond(t)
  PROVE  TxInv' /\ [Next]_vars
<1>1. CASE \E c \in Calls : Begin(t, c)
  BY <1>1, BeginKeeps DEF Begin
<1>2. CASE Lock(t)
  BY <1>2, LockKeeps DEF Lock
<1>3. CASE LockNoWait(t)
  BY <1>3, LockNoWaitKeeps DEF LockNoWait
<1>4. CASE Check(t)
  BY <1>4, CheckKeeps DEF Check
<1>5. CASE Commit(t)
  BY <1>5, CommitKeeps, CommitIsCall
<1>6. ASSUME Active(t), UNCHANGED vars, NEW reply \in Failures, End(t, reply)
      PROVE  TxInv'
  <2>1. tx[t].call \in Calls
    BY <1>6 DEF TxInv, Running
  <2> QED
    BY <1>6, <2>1, RefusedKeeps DEF End
<1>7. CASE Fail(t)
  BY <1>6, <1>7 DEF Fail, Failures
<1>8. CASE DeadlockVictim(t)
  BY <1>6, <1>8, VictimActive DEF DeadlockVictim, Failures
<1>9. CASE Respond(t)
  BY <1>9, RespondKeeps DEF Respond
<1> QED
  BY <1>1, <1>2, <1>3, <1>4, <1>5, <1>7, <1>8, <1>9 DEF Step

LEMMA NextTx == TxInv /\ [TxNext]_allVars => TxInv' /\ [Next]_vars
<1> SUFFICES ASSUME TxInv, [TxNext]_allVars
             PROVE  TxInv' /\ [Next]_vars
  OBVIOUS
<1>1. CASE TxNext
  <2>1. PICK t \in Threads :
          \/ \E c \in Calls : Begin(t, c)
          \/ Step(t) \/ Fail(t) \/ DeadlockVictim(t) \/ Respond(t)
    BY <1>1 DEF TxNext
  <2> QED
    BY <2>1, StepKeeps
<1>2. CASE UNCHANGED allVars
  <2>1. UNCHANGED vars /\ UNCHANGED tx
    BY <1>2 DEF allVars, vars
  <2>2. \A o \in Threads : Undisturbed(o)
    BY <2>1 DEF Undisturbed, vars
  <2>3. CASE Threads = {}
    <3>1. RowsInv'
      BY <2>1, RowsStay DEF TxInv
    <3> QED
      BY <2>1, <2>3, <3>1 DEF TxInv, TxTypeOK, Exclusive, TruthfulAnswers
  <2>4. ASSUME NEW t \in Threads
        PROVE  TxInv'
    <3>1. \A o, p \in Threads : Apart(o, p) => Apart(o, p)'
      BY <2>1 DEF Apart, Active
    <3>2. \A o \in Threads : Active(o) => \A p \in Threads \ {o} : Apart(o, p)'
      BY <3>1 DEF TxInv, Running, Fresh
    <3>3. Active(t) => Active(t)' /\ Running(t)'
      BY <2>1, <2>2, <3>2, OtherRuns
    <3>4. ~Active(t) => ~Active(t)' /\ Resting(t)'
      BY <2>1 DEF Active, Resting, TxInv
    <3>5. Truthful(t)'
      BY <2>1, StillTruthful
    <3>6. TxTypeOK'
      BY <2>1 DEF TxInv, TxTypeOK
    <3>7. \A o \in Threads \ {t} : tx'[t].locks \cap tx[o].locks = {}
      BY <2>1 DEF TxInv, Exclusive
    <3> QED
      BY <2>1, <2>2, <3>2, <3>3, <3>4, <3>5, <3>6, <3>7, OneMoves
  <2> QED
    BY <2>1, <2>3, <2>4
<1> QED
  BY <1>1, <1>2

\* The inductive invariant holds in every behaviour of the transactions.
THEOREM TransactionsKeepInvariant == TxSpec => []TxInv
BY InitTx, NextTx, PTL DEF TxSpec

(***************************************************************************)
(* However the transactions of any number of connections interleave, wait, *)
(* fail and are cancelled, the rows change as if each call that commits    *)
(* were one atomic step of Marketplace: all that is proved of the calls    *)
(* holds of the transactions.                                              *)
(***************************************************************************)
THEOREM TransactionsImplementCalls == TxSpec => ImplementsMarketplace
<1>1. TxInit => Init
  BY DEF TxInit
<1> QED
  BY <1>1, NextTx, TransactionsKeepInvariant, PTL
  DEF TxSpec, Spec, ImplementsMarketplace

(***************************************************************************)
(* However the transactions interleave, the escrow of every wallet is      *)
(* backed by open jobs, no money is made or lost, the ledger explains each *)
(* balance, and each job is settled and each deposit credited once.        *)
(***************************************************************************)
THEOREM TransactionsKeepTheBooks ==
  TxSpec => /\ [](EscrowBacked /\ LifetimeTotals /\ MoneyConserved)
            /\ [](LedgerChain /\ SettledOnce /\ CreditedOnce)
            /\ Lifecycle
BY TransactionsImplementCalls, EscrowAlwaysBacked, LifetimeTotalsHold,
   MoneyIsConserved, LedgerAlwaysChains, JobsSettledOnce, DepositsCreditedOnce,
   LifecycleFollowed, PTL
DEF ImplementsMarketplace

(***************************************************************************)
(* No write is computed from a stale read: what a transaction read of the  *)
(* rows it holds is what they are until it ends.                           *)
(***************************************************************************)
THEOREM NothingReadIsStale == TxSpec => []NoStaleRead
<1>1. ASSUME TxInv
      PROVE  NoStaleRead
  <2> SUFFICES ASSUME NEW t \in Threads
               PROVE  /\ \A j \in Jobs : JobLock(j) \in tx[t].locks =>
                           tx[t].call.id = j /\ tx[t].job = job[j]
                      /\ \A u \in Users : WalletLock(u) \in tx[t].locks =>
                           tx[t].wallets[u] = wallet[u]
    BY DEF NoStaleRead
  <2>1. CASE Active(t)
    <3>1. Plan(t) /\ FreshRead(t)
      BY <1>1, <2>1 DEF TxInv, Running
    <3> QED
      BY <3>1 DEF Plan, Planned, FreshRead
  <2>2. CASE ~Active(t)
    BY <1>1, <2>2 DEF TxInv, Resting
  <2> QED
    BY <2>1, <2>2
<1> QED
  BY <1>1, TransactionsKeepInvariant, PTL

(***************************************************************************)
(* Every call answered with success is true of the rows from then on: of   *)
(* the workers racing for a job one at most is told that it is theirs.     *)
(***************************************************************************)
THEOREM AnswersAreTruthful == TxSpec => []TruthfulAnswers
<1>1. TxInv => TruthfulAnswers
  BY DEF TxInv
<1> QED
  BY <1>1, TransactionsKeepInvariant, PTL

-----------------------------------------------------------------------------
(* Deadlocks. *)

\* A row that users are told apart by: their own or their wallet.
OfUser(row, u) == row = UserLock(u) \/ row = WalletLock(u)

\* Whoever is part of a knot runs, waits for one row and is waited for.
LEMMA KnotMember ==
  ASSUME TxInv, NEW S \in SUBSET Threads, Knot(S), NEW s \in S
  PROVE  /\ Active(s) /\ ~NoWait(s) /\ Running(s) /\ tx[s] \in Tx
         /\ tx[s].locks \subseteq LockSet
         /\ \/ /\ tx[s].todo # <<>> /\ Wanted(s) = {Head(tx[s].todo)}
               /\ Head(tx[s].todo) \in Rows(tx[s].todo)
               /\ \A a \in tx[s].locks :
                    Rank(tx[s].call.op, a) <
                      Rank(tx[s].call.op, Head(tx[s].todo))
            \/ /\ tx[s].todo = <<>> /\ tx[s].phase = "wallets"
               /\ Wanted(s) = CommitKeys(tx[s].call)
         /\ \E o \in S : o # s /\ Wanted(s) \cap tx[o].locks # {}
         /\ \E o \in S : o # s /\ Wanted(o) \cap tx[s].locks # {}
<1>1. /\ \E o \in S : o # s /\ Wanted(s) \cap tx[o].locks # {}
      /\ \E o \in S : o # s /\ Wanted(o) \cap tx[s].locks # {}
  BY DEF Knot, WaitsFor
<1>2. Wanted(s) # {}
  BY <1>1
<1>3. Active(s) /\ ~NoWait(s)
  BY <1>2 DEF Wanted
<1>4. Running(s) /\ tx[s] \in Tx /\ tx[s].locks \subseteq LockSet
  BY <1>3 DEF TxInv, TxTypeOK, Tx
<1>5. CASE tx[s].todo # <<>>
  <2>1. tx[s].todo \in Seq(LockSet)
    BY <1>4 DEF Tx
  <2>2. Head(tx[s].todo) \in Rows(tx[s].todo)
    BY <1>5, <2>1, HeadAndTail
  <2> QED
    BY <1>1, <1>3, <1>4, <1>5, <2>2 DEF Wanted, Running, InOrder
<1>6. CASE tx[s].todo = <<>>
  <2>1. tx[s].phase = "wallets" /\ Wanted(s) = CommitKeys(tx[s].call)
    BY <1>2, <1>3, <1>6 DEF Wanted
  <2> QED
    BY <1>1, <1>3, <1>4, <1>6, <2>1
<1> QED
  BY <1>5, <1>6

LEMMA RankIsSmall ==
  ASSUME NEW op, NEW row \in LockSet
  PROVE  /\ Rank(op, row) \in 1 .. 5
         /\ \/ Rank(op, row) = 1 /\ (\E x : row \in {JobLock(x), RequestLock(x)})
            \/ Rank(op, row) \in 2 .. 5 /\ (\E u \in Users : OfUser(row, u))
BY LockKinds, LockRanks DEF OfUser

\* Nobody waits for a job or a request: a job or request is locked first.
LEMMA WaitedFor ==
  ASSUME TxInv, NEW S \in SUBSET Threads, Knot(S), NEW s \in S
  PROVE  \E q \in S, row \in tx[s].locks, u \in Users :
           q # s /\ row \in Wanted(q) /\ OfUser(row, u)
<1>1. PICK q \in S, row \in tx[s].locks : q # s /\ row \in Wanted(q)
  BY KnotMember
<1> DEFINE op == tx[q].call.op
<1>2. row \in LockSet
  BY KnotMember
<1>3. \E u \in Users : OfUser(row, u)
  <2> SUFFICES ASSUME ~\E u \in Users : OfUser(row, u)
               PROVE  FALSE
    OBVIOUS
  <2>1. Rank(op, row) = 1 /\ \E x : row \in {JobLock(x), RequestLock(x)}
    BY <1>2, RankIsSmall
  <2>2. CASE /\ row = Head(tx[q].todo)
             /\ \A a \in tx[q].locks : Rank(op, a) < Rank(op, Head(tx[q].todo))
    <3>1. tx[q].locks # {}
      BY <1>1 DEF Knot, WaitsFor
    <3>2. PICK a \in tx[q].locks : TRUE
      BY <3>1
    <3>3. a \in LockSet /\ Rank(op, a) < 1
      BY <1>1, <2>1, <2>2, KnotMember
    <3>4. Rank(op, a) \in 1 .. 5
      BY <3>3, RankIsSmall
    <3> QED
      BY <3>3, <3>4
  <2>3. CASE row \in CommitKeys(tx[q].call)
    <3>1. \E x : row = UserLock(x) \/ row = WalletLock(x)
      BY <2>3 DEF CommitKeys
    <3> QED
      BY <2>1, <3>1, LockNames
  <2> QED
    BY <1>1, <2>2, <2>3, KnotMember
<1> QED
  BY <1>1, <1>3

\* The five kinds of waiting that a knot may consist of.
Posting(s) ==
  /\ tx[s].call.op = "create" /\ tx[s].call.user \in Employers
  /\ Wanted(s) = {UserLock(tx[s].call.user)}

Accepting(s) ==
  /\ tx[s].call.op = "accept" /\ tx[s].phase = "wallets"
  /\ tx[s].call.user \in Workers
  /\ Wanted(s) = {UserLock(tx[s].call.user)}

Starting(s) ==
  /\ tx[s].call.op = "start" /\ tx[s].todo # <<>>
  /\ \E u \in Employers : /\ Head(tx[s].todo) = UserLock(u)
                          /\ Wanted(s) = {UserLock(u)}

Selecting(s) ==
  /\ tx[s].call.op \in {"complete", "cancel"} /\ tx[s].phase = "select"
  /\ \E u \in Users \ Employers : Wanted(s) = {UserLock(u)}

Settling(s) ==
  /\ tx[s].call.op \in {"complete", "cancel"} /\ tx[s].phase = "wallets"
  /\ tx[s].todo # <<>>
  /\ Head(tx[s].todo) \in Rows(PaymentLocks(tx[s].call, tx[s].job))
  /\ Wanted(s) = {Head(tx[s].todo)}

LEMMA KindsOfWaiting ==
  ASSUME TxInv, NEW S \in SUBSET Threads, Knot(S), NEW s \in S
  PROVE  \/ Posting(s) \/ Accepting(s) \/ Starting(s)
         \/ Selecting(s) \/ Settling(s)
<1> DEFINE c == tx[s].call
           head == Head(tx[s].todo)
<1>1. /\ Active(s) /\ ~NoWait(s) /\ c \in Calls /\ Asked(c) /\ Plan(s)
      /\ tx[s].locks \subseteq LockSet /\ tx[s].todo \in Seq(LockSet)
  BY KnotMember DEF Running, Tx
<1>2. PICK mine \in tx[s].locks : \E u \in Users : OfUser(mine, u)
  BY WaitedFor
<1>3. /\ mine \in Planned(s) /\ mine \in LockSet
      /\ \A x : mine # JobLock(x) /\ mine # RequestLock(x)
  BY <1>1, <1>2, LockNames DEF Planned, OfUser
<1>4. CASE tx[s].todo # <<>>
  <2>1. /\ Wanted(s) = {head} /\ head \in Rows(tx[s].todo)
        /\ \A a \in tx[s].locks : Rank(c.op, a) < Rank(c.op, head)
    BY <1>4, KnotMember
  <2>2. head \in Planned(s) /\ head \in LockSet
    BY <1>1, <1>4, <2>1, HeadAndTail DEF Planned
  <2>3. Rank(c.op, head) \in 3 .. 5 /\ Rank(c.op, mine) < Rank(c.op, head)
    <3>1. Rank(c.op, mine) < Rank(c.op, head)
      BY <2>1
    <3>2. Rank(c.op, mine) \in 2 .. 5 /\ Rank(c.op, head) \in 1 .. 5
      BY <1>3, <2>2, RankIsSmall
    <3> QED
      BY <3>1, <3>2
  <2>4. CASE \E u \in Users : head = UserLock(u)
    <3>1. PICK u \in Users : head = UserLock(u)
      BY <2>4
    <3>2. c.op \in PartyOps
      BY <1>1, <2>2, <3>1 DEF Plan
    <3>3. tx[s].phase = "select"
      <4>1. ASSUME tx[s].phase = "wallets"
            PROVE  FALSE
        <5>1. head \in Rows(PaymentLocks(c, tx[s].job))
          BY <1>1, <2>1, <4>1 DEF Plan
        <5>2. \E x : head = WalletLock(x)
          BY <5>1 DEF PaymentLocks, Rows
        <5> QED
          BY <3>1, <5>2, LockNames
      <4> QED
        BY <1>1, <4>1 DEF Active
    <3>4. c.op \in {"start", "complete", "cancel"}
      BY <1>1, <3>2, <3>3 DEF NoWait, PartyOps, JobOps
    <3>5. c.op = "start" <=> u \in Employers
      <4>1. Rank(c.op, UserLock(u)) # 2
        BY <2>3, <3>1
      <4> QED
        BY <4>1, LockRanks
    <3> QED
      BY <1>4, <2>1, <3>1, <3>3, <3>4, <3>5 DEF Starting, Selecting
  <2>5. CASE \E u \in Users : head = WalletLock(u)
    <3>1. PICK u \in Users : head = WalletLock(u)
      BY <2>5
    <3>2. \/ c.op = "create" /\ u = c.user
          \/ c.op = "confirm" /\ u = request[c.id].user
          \/ tx[s].phase = "wallets" /\ head \in Rows(PaymentLocks(c, tx[s].job))
      BY <1>1, <2>2, <3>1 DEF Plan
    <3>3. CASE tx[s].phase = "wallets" /\ head \in Rows(PaymentLocks(c, tx[s].job))
      <4>1. c.op \in {"complete", "cancel"}
        BY <3>3 DEF PaymentLocks, Rows
      <4> QED
        BY <1>4, <2>1, <3>3, <4>1 DEF Settling
    <3>4. CASE c.op \in {"create", "confirm"}
      <4>1. \A x \in Users : WalletLock(x) \in Planned(s) => x = u
        <5>1. Rows(PaymentLocks(c, tx[s].job)) = {}
          BY <3>4, ShortPlans DEF PaymentLocks
        <5> QED
          BY <1>1, <3>2, <3>4, <5>1 DEF Plan
      <4>2. \E x \in Users : mine = WalletLock(x)
        <5>1. c.op \notin PartyOps
          BY <3>4 DEF PartyOps, JobOps
        <5>2. \A x \in Users : mine # UserLock(x)
          BY <1>1, <1>3, <5>1 DEF Plan
        <5> QED
          BY <1>3, <5>2, LockKinds
      <4>3. mine = head
        BY <1>3, <3>1, <4>1, <4>2
      <4>4. Rank(c.op, mine) = Rank(c.op, head)
        BY <4>3
      <4>5. Rank(c.op, mine) \in 1 .. 5
        BY <1>3, RankIsSmall
      <4> HIDE DEF head
      <4> QED
        BY <2>3, <4>4, <4>5
    <3> QED
      BY <3>2, <3>3, <3>4
  <2>6. CASE \A u \in Users : head # UserLock(u) /\ head # WalletLock(u)
    <3>1. Rank(c.op, head) = 1
      BY <2>2, <2>6, LockKinds, LockRanks
    <3> QED
      BY <2>3, <3>1
  <2> QED
    BY <2>4, <2>5, <2>6
<1>5. CASE tx[s].todo = <<>>
  <2>1. tx[s].phase = "wallets" /\ Wanted(s) = CommitKeys(c) /\ Wanted(s) # {}
    BY <1>5, KnotMember
  <2>2. c.op \in {"create", "accept", "initiate"}
    BY <2>1 DEF CommitKeys
  <2>3. CASE c.op = "create"
    BY <1>1, <2>1, <2>3 DEF CommitKeys, Posting, Asked, RoleAllows
  <2>4. CASE c.op = "accept"
    BY <1>1, <2>1, <2>4 DEF CommitKeys, Accepting, Asked, RoleAllows
  \* A new deposit request locks nothing for others to wait for.
  <2>5. CASE c.op = "initiate"
    <3>1. Rows(PaymentLocks(c, tx[s].job)) = {}
      BY <2>5, ShortPlans DEF PaymentLocks
    <3>2. c.op \notin PartyOps
      BY <2>5 DEF PartyOps, JobOps
    <3>3. \A u \in Users : mine # UserLock(u) /\ mine # WalletLock(u)
      BY <1>1, <1>3, <2>5, <3>1, <3>2 DEF Plan
    <3> QED
      BY <1>2, <3>3 DEF OfUser
  <2> QED
    BY <2>2, <2>3, <2>4, <2>5
<1> QED
  BY <1>4, <1>5

\* What a payment is waiting for, the employer's wallet or the worker's.
LEMMA SettlingRows ==
  ASSUME TxInv, NEW s \in Threads, Active(s), tx[s].phase = "wallets",
         tx[s].call.op \in {"complete", "cancel"}
  PROVE  LET row == tx[s].job
         IN  /\ row.employer \in Employers
             /\ UserLock(row.employer) \in tx[s].locks
             /\ tx[s].call.op = "complete" => row.worker \in Workers
             /\ Rows(PaymentLocks(tx[s].call, row)) \subseteq
                  {WalletLock(row.employer)} \cup
                  IF tx[s].call.op = "complete" THEN {WalletLock(row.worker)}
                                                ELSE {}
<1> DEFINE c == tx[s].call
           row == tx[s].job
<1>1. c \in Calls /\ Asked(c) /\ Plan(s) /\ FreshRead(s) /\ Decided(s)
  BY DEF TxInv, Running
<1>2. c.op \in PartyOps /\ c.id \in Jobs /\ job[c.id].status # "absent"
  BY <1>1, CallParts DEF PartyOps, JobOps, Asked
<1>3. {JobLock(c.id), UserLock(job[c.id].employer)} \subseteq tx[s].locks
  <2>1. Needed(c) \subseteq tx[s].locks
    BY <1>1 DEF Plan
  <2> QED
    BY <1>2, <2>1 DEF Needed, PartyOps, JobOps
<1>4. row = job[c.id]
  BY <1>1, <1>3 DEF FreshRead
<1>5. row.employer \in Employers /\ row.worker \in Workers \cup {NoUser}
  BY <1>2, <1>4 DEF TxInv, RowsInv, BooksInv, PartiesNamed, TypeOK, JobRow
<1>6. c.op = "complete" => row.worker \in Workers
  BY <1>1, <1>5 DEF Decided, CheckAnswer
<1>7. /\ \A a : Rows(<<a>>) = {a}
      /\ \A a, b : Rows(<<a, b>>) = {a, b}
  BY DEF Rows
<1>8. Rows(PaymentLocks(c, row)) \subseteq
        {WalletLock(row.employer)} \cup
        IF c.op = "complete" THEN {WalletLock(row.worker)} ELSE {}
  <2>1. CASE c.op = "complete"
    BY <1>7, <2>1 DEF PaymentLocks
  <2>2. CASE c.op = "cancel"
    BY <1>7, <2>2 DEF PaymentLocks
  <2> QED
    BY <2>1, <2>2
<1> QED
  BY <1>3, <1>4, <1>5, <1>6, <1>8

\* A payment in a knot waits for the wallet of an employer who is posting.
LEMMA SettlingWaitsForPosting ==
  ASSUME TxInv, NEW S \in SUBSET Threads, Knot(S), NEW s \in S, Settling(s)
  PROVE  /\ Wanted(s) = {WalletLock(tx[s].job.employer)}
         /\ \E o \in S : /\ tx[o].call.op = "create"
                         /\ Wanted(o) = {UserLock(tx[s].job.employer)}
<1> DEFINE row == tx[s].job
           head == Head(tx[s].todo)
<1>1. /\ Active(s) /\ s \in Threads /\ tx[s].phase = "wallets"
      /\ tx[s].call.op \in {"complete", "cancel"}
  BY KnotMember DEF Settling
<1>2. /\ row.employer \in Employers
      /\ UserLock(row.employer) \in tx[s].locks
      /\ tx[s].call.op = "complete" => row.worker \in Workers
      /\ \/ head = WalletLock(row.employer)
         \/ tx[s].call.op = "complete" /\ head = WalletLock(row.worker)
  BY <1>1, SettlingRows DEF Settling
<1>3. PICK o \in S : o # s /\ head \in tx[o].locks
  BY DEF Knot, WaitsFor, Settling
<1>4. Running(o) /\ Plan(o) /\ Active(o) /\ o \in Threads
  BY <1>3, KnotMember DEF Running
<1>5. PICK u \in Users : head = WalletLock(u) /\ u \in {row.employer, row.worker}
  BY <1>2 DEF Users
<1>6. /\ u \in Employers => u = row.employer
      /\ u \notin Employers => u \in Workers
  BY <1>2, <1>5, LockNames, RolesAssumption DEF Users
<1>7. WalletLock(u) \in Planned(o)
  BY <1>3, <1>5 DEF Planned
<1>8. \/ Posting(o) \/ Accepting(o) \/ Starting(o)
      \/ Selecting(o) \/ Settling(o)
  BY <1>3, KindsOfWaiting
<1>9. tx[o].call.op # "confirm"
  BY <1>8 DEF Posting, Accepting, Starting, Selecting, Settling
<1>10. CASE tx[o].call.op = "create" /\ u = tx[o].call.user
  <2>1. Posting(o)
    BY <1>8, <1>10 DEF Accepting, Starting, Selecting, Settling
  <2>2. u \in Employers
    BY <1>10, <2>1 DEF Posting
  <2> QED
    BY <1>3, <1>5, <1>6, <1>10, <2>1, <2>2 DEF Posting, Settling
<1>11. CASE /\ tx[o].phase = "wallets"
            /\ WalletLock(u) \in Rows(PaymentLocks(tx[o].call, tx[o].job))
  <2> DEFINE other == tx[o].job
             next == Head(tx[o].todo)
  <2>1. tx[o].call.op \in {"complete", "cancel"}
    BY <1>11 DEF PaymentLocks, Rows
  <2>2. /\ other.employer \in Employers
        /\ UserLock(other.employer) \in tx[o].locks
        /\ tx[o].call.op = "complete" => other.worker \in Workers
        /\ Rows(PaymentLocks(tx[o].call, other)) \subseteq
             {WalletLock(other.employer)} \cup
             IF tx[o].call.op = "complete" THEN {WalletLock(other.worker)}
                                           ELSE {}
    BY <1>4, <1>11, <2>1, SettlingRows
  \* Two payments of one employer exclude each other from the start,
  <2>3. u \notin Employers
    <3>1. ASSUME u \in Employers
          PROVE  FALSE
      <4>1. u = row.employer /\ u = other.employer
        BY <1>6, <1>11, <2>2, <3>1, LockNames, RolesAssumption
      <4>2. tx[o].locks \cap tx[s].locks = {}
        BY <1>1, <1>3, <1>4 DEF TxInv, Exclusive
      <4> QED
        BY <1>2, <2>2, <4>1, <4>2
    <3> QED
      BY <3>1
  \* and who has the worker's wallet waits for nothing.
  <2>4. Settling(o)
    BY <1>8, <1>11, <2>1
    DEF Posting, Accepting, Starting, Selecting
  <2> DEFINE op == tx[o].call.op
  <2>5. /\ Rank(op, WalletLock(u)) = 5
        /\ Rank(op, WalletLock(u)) < Rank(op, next)
    <3>1. \A a \in tx[o].locks : Rank(op, a) < Rank(op, next)
      BY <1>3, <2>4, KnotMember DEF Settling
    <3> QED
      BY <1>3, <1>5, <2>3, <3>1, LockRanks
  <2>6. next \in LockSet
    BY <1>3, <2>4, KnotMember, HeadAndTail DEF Settling, Tx
  <2>7. Rank(op, next) \in 1 .. 5
    BY <2>6, RankIsSmall
  <2> HIDE DEF next
  <2> QED
    BY <2>5, <2>7
<1> QED
  BY <1>4, <1>7, <1>9, <1>10, <1>11 DEF Plan

\* Whoever waits for a new job's wallet settles a job of the same employer.
LEMMA PostingWaitedForBySettling ==
  ASSUME TxInv, NEW S \in SUBSET Threads, Knot(S), NEW q \in S, Posting(q)
  PROVE  \E p \in S : /\ Settling(p)
                      /\ UserLock(tx[q].call.user) \in tx[p].locks
<1> DEFINE e == tx[q].call.user
<1>1. PICK p \in S, held \in tx[q].locks, u \in Users :
        p # q /\ held \in Wanted(p) /\ OfUser(held, u)
  BY WaitedFor
<1>2. held = WalletLock(e)
  <2>1. /\ Plan(q) /\ held \in Planned(q) /\ tx[q].call.op = "create"
    BY <1>1, KnotMember DEF Running, Planned, Posting
  <2>2. tx[q].call.op \notin PartyOps
    BY <2>1 DEF PartyOps
  <2>3. Rows(PaymentLocks(tx[q].call, tx[q].job)) = {}
    BY <2>1, ShortPlans DEF PaymentLocks
  <2>4. held = WalletLock(u)
    BY <1>1, <2>1, <2>2 DEF OfUser, Plan
  <2>5. u = e
    BY <2>1, <2>3, <2>4 DEF Plan
  <2> QED
    BY <2>4, <2>5
<1>3. Settling(p)
  <2>1. \/ Posting(p) \/ Accepting(p) \/ Starting(p)
        \/ Selecting(p) \/ Settling(p)
    BY <1>1, KindsOfWaiting
  <2>2. \A x : Wanted(p) # {UserLock(x)}
    BY <1>1, <1>2, LockNames
  <2> QED
    BY <2>1, <2>2 DEF Posting, Accepting, Starting, Selecting
<1>4. tx[p].job.employer = e
  <2>1. Wanted(p) = {WalletLock(tx[p].job.employer)}
    BY <1>1, <1>3, SettlingWaitsForPosting
  <2> QED
    BY <1>1, <1>2, <2>1, LockNames
<1>5. UserLock(tx[p].job.employer) \in tx[p].locks
  <2>1. Active(p) /\ p \in Threads
    BY <1>1, KnotMember
  <2> QED
    BY <1>3, <2>1, SettlingRows DEF Settling
<1> QED
  BY <1>1, <1>3, <1>4, <1>5

\* Who holds an employer's row and wants no wallet is waited for by somebody
\* who starts a job: one who posts is waited for by the holder of that row.
LEMMA WaitedForByStarting ==
  ASSUME TxInv, NEW S \in SUBSET Threads, Knot(S), NEW s \in S,
         Accepting(s) \/ Selecting(s)
  PROVE  \E q \in S : Starting(q) /\ Wanted(q) \subseteq tx[s].locks
<1> DEFINE c == tx[s].call
           e == job[c.id].employer
<1>1. /\ Running(s) /\ Plan(s) /\ Active(s) /\ tx[s].locks \subseteq LockSet
      /\ c \in Calls /\ Asked(c) /\ c.op \in PartyOps
  BY KnotMember DEF Running, Accepting, Selecting, PartyOps, JobOps
<1>2. c.id \in Jobs /\ e \in Employers
  BY <1>1, CallParts DEF Asked, TxInv, RowsInv, BooksInv, PartiesNamed
<1>3. PICK q \in S, row \in tx[s].locks, u \in Users :
        q # s /\ row \in Wanted(q) /\ OfUser(row, u)
  BY WaitedFor
<1>4. row \in LockSet /\ row \in Planned(s)
  BY <1>1, <1>3 DEF Planned
<1>5. \A x \in Users : row # WalletLock(x)
  <2>1. \A x : x \notin Rows(PaymentLocks(c, tx[s].job)) \/ tx[s].phase # "wallets"
    BY ShortPlans DEF Accepting, Selecting, PaymentLocks
  <2>2. c.op \notin {"create", "confirm"}
    BY <1>1 DEF PartyOps, JobOps
  <2> QED
    BY <1>1, <1>4, <2>1, <2>2 DEF Plan
<1>6. row = UserLock(u)
  BY <1>3, <1>5 DEF OfUser
<1>7. u = e
  <2>1. \/ u = e
        \/ u \in Workers /\ c.op # "accept"
    BY <1>1, <1>4, <1>6 DEF Plan
  <2>2. ASSUME u \in Workers, c.op # "accept"
        PROVE  FALSE
    <3>1. Selecting(s)
      BY <2>2 DEF Accepting
    <3>2. PICK v \in Users \ Employers : Wanted(s) = {UserLock(v)}
      BY <3>1 DEF Selecting
    <3>3. /\ UserLock(v) = Head(tx[s].todo)
          /\ \A a \in tx[s].locks : Rank(c.op, a) < Rank(c.op, UserLock(v))
      BY <3>1, <3>2, KnotMember DEF Selecting
    <3>4. Rank(c.op, UserLock(v)) = 3 /\ Rank(c.op, row) = 3
      BY <1>6, <2>2, <3>1, LockRanks, RolesAssumption DEF Selecting
    <3>5. Rank(c.op, row) < Rank(c.op, UserLock(v))
      BY <1>3, <3>3
    <3> QED
      BY <3>4, <3>5
  <2> QED
    BY <2>1, <2>2
<1>8. UserLock(e) \in tx[s].locks /\ UserLock(e) \in Wanted(q)
  BY <1>3, <1>6, <1>7
<1>9. Starting(q) \/ Posting(q)
  <2>1. \/ Posting(q) \/ Accepting(q) \/ Starting(q)
        \/ Selecting(q) \/ Settling(q)
    BY <1>3, KindsOfWaiting
  <2>2. ASSUME NEW x, Wanted(q) = {UserLock(x)}
        PROVE  x = e
    BY <1>8, <2>2, LockNames
  <2>3. ~Accepting(q)
    BY <1>2, <2>2, RolesAssumption DEF Accepting
  <2>4. ~Selecting(q)
    BY <1>2, <2>2 DEF Selecting
  <2>5. ~Settling(q)
    <3>1. ASSUME Settling(q)
          PROVE  FALSE
      <4>1. \E x : Wanted(q) = {WalletLock(x)}
        BY <1>3, <3>1, SettlingWaitsForPosting
      <4> QED
        BY <1>8, <4>1, LockNames
    <3> QED
      BY <3>1
  <2> QED
    BY <2>1, <2>3, <2>4, <2>5
<1>10. CASE Starting(q)
  <2>1. Wanted(q) = {UserLock(e)}
    BY <1>8, <1>10, LockNames DEF Starting
  <2> QED
    BY <1>3, <1>8, <1>10, <2>1
<1>11. CASE Posting(q)
  <2>1. tx[q].call.user = e
    BY <1>8, <1>11, LockNames DEF Posting
  <2>2. PICK p \in S : Settling(p) /\ UserLock(e) \in tx[p].locks
    BY <1>3, <1>11, <2>1, PostingWaitedForBySettling
  <2>3. p # s
    BY <2>2 DEF Settling, Accepting, Selecting
  <2> QED
    BY <1>8, <2>2, <2>3 DEF TxInv, Exclusive
<1> QED
  BY <1>9, <1>10, <1>11

\* Somebody who starts a job waits for the employer of another job, whose
\* row was locked by who accepts, completes or cancels that one.
LEMMA StartingWaitsForParty ==
  ASSUME TxInv, NEW S \in SUBSET Threads, Knot(S), NEW s \in S, Starting(s)
  PROVE  \E o \in S : Inverted(s, o)
<1>1. PICK u \in Employers : Wanted(s) = {UserLock(u)}
  BY DEF Starting
<1>2. PICK o \in S : o # s /\ UserLock(u) \in tx[o].locks
  BY <1>1 DEF Knot, WaitsFor
<1>3. Plan(o) /\ UserLock(u) \in Planned(o) /\ u \in Users
  BY <1>2, KnotMember DEF Running, Planned, Users
<1>4. tx[o].call.op \in PartyOps
  BY <1>3 DEF Plan
<1>5. ~Starting(o)
  <2>1. ASSUME Starting(o)
        PROVE  FALSE
    <3>1. PICK v \in Employers : Head(tx[o].todo) = UserLock(v)
      BY <2>1 DEF Starting
    <3>2. Rank("start", UserLock(u)) < Rank("start", UserLock(v))
      BY <1>2, <2>1, <3>1, KnotMember DEF Starting
    <3>3. Rank("start", UserLock(u)) = 3 /\ Rank("start", UserLock(v)) = 3
      BY LockRanks
    <3> QED
      BY <3>2, <3>3
  <2> QED
    BY <2>1
<1>6. \/ Posting(o) \/ Accepting(o) \/ Starting(o)
      \/ Selecting(o) \/ Settling(o)
  BY <1>2, KindsOfWaiting
<1>7. tx[o].call.op \in {"accept", "complete", "cancel"}
  BY <1>4, <1>5, <1>6
  DEF Posting, Accepting, Selecting, Settling, PartyOps
<1> QED
  BY <1>1, <1>2, <1>7 DEF Inverted, Starting

(***************************************************************************)
(* However many connections there are, everyone in a deadlock is a party   *)
(* to one of two inversions of the order of locks: an employer posts a job *)
(* while another of its jobs is completed or cancelled, or a worker starts *)
(* a job while another job of its employer is accepted, completed or       *)
(* cancelled.                                                              *)
(***************************************************************************)
THEOREM DeadlocksClassified == TxSpec => []DeadlocksAreInversions
<1>1. ASSUME TxInv
      PROVE  DeadlocksAreInversions
  <2> SUFFICES ASSUME NEW S \in SUBSET Threads, Knot(S), NEW t \in S
               PROVE  \E o \in S : Inverted(t, o) \/ Inverted(o, t)
    BY DEF DeadlocksAreInversions
  <2>1. \/ Posting(t) \/ Accepting(t) \/ Starting(t)
        \/ Selecting(t) \/ Settling(t)
    BY <1>1, KindsOfWaiting
  <2>2. CASE Posting(t)
    <3>1. PICK p \in S : /\ Settling(p)
                         /\ UserLock(tx[t].call.user) \in tx[p].locks
      BY <1>1, <2>2, PostingWaitedForBySettling
    <3> QED
      BY <2>2, <3>1 DEF Inverted, Posting, Settling
  <2>3. CASE Settling(t)
    <3>1. PICK o \in S : /\ tx[o].call.op = "create"
                         /\ Wanted(o) = {UserLock(tx[t].job.employer)}
      BY <1>1, <2>3, SettlingWaitsForPosting
    <3>2. Active(t) /\ t \in Threads
      BY <1>1, KnotMember
    <3>3. /\ tx[t].job.employer \in Employers
          /\ UserLock(tx[t].job.employer) \in tx[t].locks
      BY <1>1, <2>3, <3>2, SettlingRows DEF Settling
    <3> QED
      BY <2>3, <3>1, <3>3 DEF Inverted, Settling
  <2>4. CASE Accepting(t) \/ Selecting(t)
    <3>1. PICK q \in S : Starting(q) /\ Wanted(q) \subseteq tx[t].locks
      BY <1>1, <2>4, WaitedForByStarting
    <3> QED
      BY <2>4, <3>1 DEF Inverted, Starting, Accepting, Selecting
  <2>5. CASE Starting(t)
    BY <1>1, <2>5, StartingWaitsForParty
  <2> QED
    BY <2>1, <2>2, <2>3, <2>4, <2>5
<1> QED
  BY <1>1, TransactionsKeepInvariant, PTL

-----------------------------------------------------------------------------
(* The webhooks. *)

WebhookTypeOK ==
  /\ provider \in [Requests -> Providers]
  /\ payment \in [Requests -> {"unpaid", "paid", "settled"}]
  /\ call \in [Hooks -> CallRow]

\* Money is paid for a request of a gateway.
PaymentsAsked ==
  \A r \in Requests : payment[r] # "unpaid" => AtGateway(r)

\* A call is about a request of a gateway, a confirmation about a paid one.
CallsFounded ==
  \A c \in Hooks :
    call[c].stage # "none" =>
      /\ AtGateway(call[c].about)
      /\ call[c].confirms => payment[call[c].about] # "unpaid"

WebhooksInv ==
  /\ LedgerInv /\ WebhookTypeOK /\ PaymentsAsked /\ CallsFounded
  /\ ToldTheTruth

-----------------------------------------------------------------------------
(* What the marketplace sees. *)

LEMMA CallFields ==
  ASSUME WebhookTypeOK, NEW c \in Hooks
  PROVE  /\ call[c] \in CallRow
         /\ call[c].stage \in {"none", "arrived", "refused", "success"}
         /\ call[c].stage = "none" <=> call[c] = NoHook
         /\ call[c].stage # "none" =>
              call[c].about \in Requests /\ call[c].confirms \in BOOLEAN
<1>1. call[c] \in CallRow
  BY DEF WebhookTypeOK
<1>2. CASE call[c] \in [stage : {"none"}]
  BY <1>1, <1>2 DEF NoHook
<1>3. CASE call[c] \in [stage : {"arrived", "refused", "success"},
                        about : Requests, confirms : BOOLEAN]
  BY <1>1, <1>3 DEF NoHook
<1> QED
  BY <1>1, <1>2, <1>3 DEF CallRow

\* A call under way goes to another stage.
LEMMA Replied ==
  ASSUME WebhookTypeOK, NEW c \in Hooks, NEW stage \in {"refused", "success"},
         Reply(c, stage)
  PROVE  /\ call[c].stage = "arrived" /\ call' \in [Hooks -> CallRow]
         /\ call'[c] = [stage |-> stage, about |-> call[c].about,
                        confirms |-> call[c].confirms]
         /\ \A d \in Hooks \ {c} : call'[d] = call[d]
         /\ provider' = provider /\ payment' = payment
<1> DEFINE new == [stage |-> stage, about |-> call[c].about,
                   confirms |-> call[c].confirms]
<1>1. /\ call \in [Hooks -> CallRow] /\ call[c].stage = "arrived"
      /\ call[c].about \in Requests /\ call[c].confirms \in BOOLEAN
  BY CallFields DEF Reply, WebhookTypeOK
<1>2. call[c] \in [stage : {"arrived", "refused", "success"},
                   about : Requests, confirms : BOOLEAN]
  BY <1>1 DEF CallRow
<1>3. new = [call[c] EXCEPT !.stage = stage] /\ new \in CallRow
  BY <1>1, <1>2 DEF CallRow
<1>4. call' = [call EXCEPT ![c] = new]
  BY <1>1, <1>2, <1>3 DEF Reply
<1> HIDE DEF new
<1>5. call' \in [Hooks -> CallRow] /\ call'[c] = new
      /\ \A d \in Hooks \ {c} : call'[d] = call[d]
  BY <1>1, <1>3, <1>4
<1> QED
  BY <1>1, <1>5 DEF Reply, new

LEMMA StepIsCall ==
  ASSUME WebhookTypeOK, [WebhooksNext]_webhookVars
  PROVE  [Next]_vars
<1>1. ASSUME NEW r \in Requests, NEW u \in Users, NEW amount \in Amounts,
             NEW p \in Providers, Initiate(u, r, amount, p)
      PROVE  Next
  BY <1>1 DEF Initiate, Next, DepositStep
<1>2. ASSUME NEW c \in Hooks, Credit(c)
      PROVE  Next
  <2>1. call[c].about \in Requests
    BY <1>2, CallFields DEF Credit, Reply
  <2> QED
    BY <1>2, <2>1 DEF Credit, Next, DepositStep
<1> QED
  BY <1>1, <1>2
     DEF WebhooksNext, webhookVars, Pay, Send, Serve, Handle, Ignore, Refuse,
         Answer, Lose

\* A request that exists stays, and what is completed stays completed.
LEMMA RequestsStay ==
  ASSUME TypeOK, [Next]_vars, NEW r \in Requests
  PROVE  /\ request[r].status # "absent" => request'[r].status # "absent"
         /\ request[r].status = "completed" =>
              request'[r].status = "completed"
<1>1. request \in [Requests -> RequestRow]
  BY DEF TypeOK
<1>2. CASE request' = request
  BY <1>2
<1>3. ASSUME NEW q \in Requests, NEW u \in Users, NEW amount \in Amounts,
             InitiateDeposit(u, q, amount)
      PROVE  /\ request[r].status # "absent" => request'[r] = request[r]
  BY <1>1, <1>3 DEF InitiateDeposit
<1>4. ASSUME NEW q \in Requests, ConfirmDeposit(q)
      PROVE  request'[r] = request[r] \/ request'[r].status = "completed"
  <2>1. request' = [request EXCEPT ![q].status = "completed"]
    BY <1>4 DEF ConfirmDeposit
  <2> QED
    BY <1>1, <2>1 DEF RequestRow
<1> QED
  BY <1>2, <1>3, <1>4
     DEF Next, JobStep, DepositStep, vars, CreateJob, AcceptJob, StartJob,
         CompleteJob, CancelJob

-----------------------------------------------------------------------------
(* The invariant. *)

\* What stays true of the requests a step has nothing to do with.
LEMMA FoundedStay ==
  ASSUME WebhooksInv, [Next]_vars, NEW r \in Requests, AtGateway(r),
         provider'[r] = provider[r]
  PROVE  request'[r].status # "absent" /\ provider'[r] \in Gateways
<1>1. TypeOK
  BY DEF WebhooksInv, LedgerInv, BooksInv
<1> QED
  BY <1>1, RequestsStay DEF AtGateway

\* A step that leaves the providers and moves one call.
LEMMA CallMoves ==
  ASSUME WebhooksInv, [Next]_vars, LedgerInv', WebhookTypeOK', NEW c \in Hooks,
         provider' = provider,
         \A d \in Hooks \ {c} : call'[d] = call[d],
         \A r \in Requests : payment[r] # "unpaid" <=> payment'[r] # "unpaid",
         call'[c].stage # "none" =>
           /\ call'[c].about \in Requests /\ AtGateway(call'[c].about)
           /\ call'[c].confirms => payment[call'[c].about] # "unpaid",
         \A r \in Requests :
           /\ payment'[r] = "settled" =>
                payment[r] = "settled" \/ Succeeding(c, r)
           /\ provider[r] \in Readable /\ Succeeding(c, r)' =>
                request'[r].status = "completed"
  PROVE  WebhooksInv'
<1>1. TypeOK /\ WebhookTypeOK
  BY DEF WebhooksInv, LedgerInv, BooksInv
<1>2. PaymentsAsked'
  BY FoundedStay DEF PaymentsAsked, WebhooksInv, AtGateway
<1>3. CallsFounded'
  <2>1. ASSUME NEW d \in Hooks, call'[d].stage # "none"
        PROVE  /\ call'[d].about \in Requests /\ AtGateway(call'[d].about)
               /\ call'[d].confirms => payment[call'[d].about] # "unpaid"
    <3>1. CASE d = c
      BY <2>1, <3>1
    <3>2. CASE d # c
      <4>1. call'[d] = call[d]
        BY <3>2
      <4>2. call[d].about \in Requests
        BY <1>1, <2>1, <4>1, CallFields
      <4> QED
        BY <2>1, <4>1, <4>2 DEF WebhooksInv, CallsFounded
    <3> QED
      BY <3>1, <3>2
  <2>2. ASSUME NEW d \in Hooks, call'[d].stage # "none"
        PROVE  /\ request'[call'[d].about].status # "absent"
               /\ provider'[call'[d].about] \in Gateways
               /\ call'[d].confirms => payment'[call'[d].about] # "unpaid"
    <3> DEFINE r == call'[d].about
    <3>1. r \in Requests /\ AtGateway(r)
      BY <2>1, <2>2
    <3> HIDE DEF r
    <3>2. request'[r].status # "absent" /\ provider'[r] \in Gateways
      BY <3>1, FoundedStay
    <3>3. call'[d].confirms => payment'[r] # "unpaid"
      BY <2>1, <2>2, <3>1 DEF r
    <3> QED
      BY <3>2, <3>3 DEF r
  <2> QED
    BY <2>2 DEF CallsFounded, AtGateway
<1>4. ToldTheTruth'
  <2> SUFFICES ASSUME NEW r \in Requests, provider[r] \in Readable,
                      \/ payment'[r] = "settled"
                      \/ \E d \in Hooks : Succeeding(d, r)'
               PROVE  request'[r].status = "completed"
    BY DEF ToldTheTruth
  <2>1. ASSUME payment[r] = "settled" \/ \E d \in Hooks : Succeeding(d, r)
        PROVE  request'[r].status = "completed"
    <3>1. request[r].status = "completed"
      BY <2>1 DEF WebhooksInv, ToldTheTruth
    <3> QED
      BY <1>1, <3>1, RequestsStay
  <2>2. ASSUME NEW d \in Hooks, Succeeding(d, r)'
        PROVE  request'[r].status = "completed"
    <3>1. CASE d = c
      BY <2>2, <3>1
    <3>2. CASE d # c
      BY <2>1, <2>2, <3>2 DEF Succeeding
    <3> QED
      BY <3>1, <3>2
  <2> QED
    BY <2>1, <2>2
<1> QED
  BY <1>2, <1>3, <1>4 DEF WebhooksInv

\* A new request: no one knows of it yet.
LEMMA InitiateKeeps ==
  ASSUME WebhooksInv, LedgerInv', NEW r \in Requests, NEW u \in Users,
         NEW amount \in Amounts, NEW p \in Providers, Initiate(u, r, amount, p),
         [Next]_vars
  PROVE  WebhooksInv' /\ payment[r] = "unpaid" /\ payment' = payment
<1>1. /\ TypeOK /\ WebhookTypeOK /\ request[r].status = "absent"
      /\ provider' = [provider EXCEPT ![r] = p]
      /\ UNCHANGED <<payment, call, lost>>
  BY DEF WebhooksInv, LedgerInv, BooksInv, Initiate, InitiateDeposit
<1>2. ~AtGateway(r)
  BY <1>1 DEF AtGateway
<1>3. /\ \A q \in Requests \ {r} : provider'[q] = provider[q]
      /\ WebhookTypeOK'
  BY <1>1 DEF WebhookTypeOK
<1>4. payment[r] = "unpaid"
  BY <1>2 DEF WebhooksInv, PaymentsAsked
<1>5. \A c \in Hooks : call[c].stage # "none" =>
        call[c].about \in Requests /\ call[c].about # r
  BY <1>1, <1>2, CallFields DEF WebhooksInv, CallsFounded
<1>6. PaymentsAsked'
  BY <1>1, <1>3, <1>4, FoundedStay DEF WebhooksInv, PaymentsAsked, AtGateway
<1>7. CallsFounded'
  <2> SUFFICES ASSUME NEW c \in Hooks, call[c].stage # "none"
               PROVE  /\ request'[call[c].about].status # "absent"
                      /\ provider'[call[c].about] \in Gateways
                      /\ call[c].confirms => payment[call[c].about] # "unpaid"
    BY <1>1 DEF CallsFounded, AtGateway
  <2>1. AtGateway(call[c].about) /\ call[c].about \in Requests \ {r}
    BY <1>5 DEF WebhooksInv, CallsFounded
  <2>2. /\ request'[call[c].about].status # "absent"
        /\ provider'[call[c].about] \in Gateways
    BY <1>3, <2>1, FoundedStay
  <2> QED
    BY <2>2 DEF WebhooksInv, CallsFounded
<1>8. ToldTheTruth'
  <2> SUFFICES ASSUME NEW q \in Requests, provider'[q] \in Readable,
                      payment[q] = "settled" \/ \E c \in Hooks : Succeeding(c, q)
               PROVE  request'[q].status = "completed"
    BY <1>1 DEF ToldTheTruth, Succeeding
  <2>1. q # r
    BY <1>4, <1>5 DEF Succeeding
  <2>2. request[q].status = "completed"
    BY <1>3, <2>1 DEF WebhooksInv, ToldTheTruth
  <2> QED
    BY <1>1, <2>2, RequestsStay
<1> QED
  BY <1>1, <1>3, <1>4, <1>6, <1>7, <1>8 DEF WebhooksInv

LEMMA PayKeeps ==
  ASSUME WebhooksInv, LedgerInv', NEW r \in Requests, Pay(r)
  PROVE  WebhooksInv'
<1>1. /\ AtGateway(r) /\ payment[r] = "unpaid"
      /\ payment' = [payment EXCEPT ![r] = "paid"]
      /\ UNCHANGED <<vars, provider, call, lost>>
      /\ WebhookTypeOK
  BY DEF Pay, WebhooksInv
<1>2. /\ WebhookTypeOK' /\ payment'[r] = "paid"
      /\ \A q \in Requests \ {r} : payment'[q] = payment[q]
  BY <1>1 DEF WebhookTypeOK
<1>3. \A q : AtGateway(q)' <=> AtGateway(q)
  BY <1>1 DEF AtGateway, vars
<1>4. PaymentsAsked'
  BY <1>1, <1>2, <1>3 DEF WebhooksInv, PaymentsAsked
<1>5. CallsFounded'
  <2> SUFFICES ASSUME NEW c \in Hooks, call[c].stage # "none"
               PROVE  /\ AtGateway(call[c].about)
                      /\ call[c].confirms => payment'[call[c].about] # "unpaid"
    BY <1>1, <1>3 DEF CallsFounded
  <2>1. call[c].about \in Requests
    BY <1>1, CallFields
  <2> QED
    BY <1>2, <2>1 DEF WebhooksInv, CallsFounded
<1>6. ToldTheTruth'
  BY <1>1, <1>2 DEF WebhooksInv, ToldTheTruth, Succeeding, vars
<1> QED
  BY <1>2, <1>4, <1>5, <1>6 DEF WebhooksInv

LEMMA SendKeeps ==
  ASSUME WebhooksInv, LedgerInv', NEW c \in Hooks, NEW r \in Requests,
         NEW confirms \in BOOLEAN, Send(c, r, confirms)
  PROVE  WebhooksInv'
<1> DEFINE new == [stage |-> "arrived", about |-> r, confirms |-> confirms]
<1>1. /\ AtGateway(r)
      /\ confirms => payment[r] # "unpaid"
      /\ call' = [call EXCEPT ![c] = new]
      /\ UNCHANGED <<vars, provider, payment, lost>>
      /\ WebhookTypeOK
  BY DEF Send, WebhooksInv
<1>2. new \in CallRow
  BY DEF CallRow
<1>3. /\ new.stage = "arrived" /\ new.about = r /\ new.confirms = confirms
  OBVIOUS
<1> HIDE DEF new
<1>4. /\ WebhookTypeOK' /\ call'[c] = new
      /\ \A d \in Hooks \ {c} : call'[d] = call[d]
  BY <1>1, <1>2 DEF WebhookTypeOK
<1>5. \A q \in Requests : ~Succeeding(c, q)'
  BY <1>3, <1>4 DEF Succeeding
<1>6. provider' = provider /\ payment' = payment
  BY <1>1
<1>7. \A q \in Requests :
        /\ payment'[q] = "settled" => payment[q] = "settled" \/ Succeeding(c, q)
        /\ provider[q] \in Readable /\ Succeeding(c, q)' =>
             request'[q].status = "completed"
  BY <1>5, <1>6
<1>8. call'[c].stage # "none" =>
        /\ call'[c].about \in Requests /\ AtGateway(call'[c].about)
        /\ call'[c].confirms => payment[call'[c].about] # "unpaid"
  BY <1>1, <1>3, <1>4
<1>9. [Next]_vars
  BY <1>1
<1>10. \A q \in Requests : payment[q] # "unpaid" <=> payment'[q] # "unpaid"
  BY <1>6
<1> QED
  BY <1>4, <1>6, <1>7, <1>8, <1>9, <1>10, CallMoves

LEMMA ServeKeeps ==
  ASSUME WebhooksInv, LedgerInv', NEW c \in Hooks, Serve(c), [Next]_vars
  PROVE  WebhooksInv'
<1>1. TypeOK /\ WebhookTypeOK
  BY DEF WebhooksInv, LedgerInv, BooksInv
<1>2. ASSUME NEW stage \in {"refused", "success"}, Reply(c, stage),
             stage = "success" /\ Confirms(c) => ConfirmDeposit(call[c].about)
      PROVE  WebhooksInv'
  <2>1. /\ call[c].stage = "arrived" /\ WebhookTypeOK'
        /\ call'[c] = [stage |-> stage, about |-> call[c].about,
                       confirms |-> call[c].confirms]
        /\ \A d \in Hooks \ {c} : call'[d] = call[d]
        /\ provider' = provider /\ payment' = payment
    BY <1>1, <1>2, Replied DEF WebhookTypeOK
  <2>2. /\ call[c].about \in Requests /\ AtGateway(call[c].about)
        /\ call[c].confirms => payment[call[c].about] # "unpaid"
    BY <1>1, <2>1, CallFields DEF WebhooksInv, CallsFounded
  <2>3. /\ call'[c].stage = stage /\ call'[c].about = call[c].about
        /\ call'[c].confirms = call[c].confirms
    BY <2>1
  <2>4. ASSUME NEW r \in Requests, provider[r] \in Readable, Succeeding(c, r)'
        PROVE  request'[r].status = "completed"
    <3>1. stage = "success" /\ call[c].about = r /\ call[c].confirms
      <4>1. call'[c] = [stage |-> "success", about |-> r, confirms |-> TRUE]
        BY <2>4 DEF Succeeding
      <4>2. /\ call'[c].stage = "success" /\ call'[c].about = r
            /\ call'[c].confirms
        BY <4>1
      <4> QED
        BY <2>3, <4>2
    <3>2. ConfirmDeposit(r)
      BY <1>2, <2>4, <3>1 DEF Confirms
    <3> QED
      BY <1>1, <3>2 DEF ConfirmDeposit, TypeOK, RequestRow
  <2> QED
    BY <2>1, <2>2, <2>3, <2>4, CallMoves
<1>3. CASE Handle(c)
  BY <1>2, <1>3 DEF Handle, Credit, Ignore, Refuse
<1>4. ASSUME call' = [call EXCEPT ![c] = NoHook], provider' = provider,
             \/ payment' = payment
             \/ payment' = [r \in Requests |->
                  IF Succeeding(c, r) THEN "settled" ELSE payment[r]]
      PROVE  WebhooksInv'
  <2>1. /\ call'[c] = NoHook /\ call'[c].stage = "none"
        /\ \A d \in Hooks \ {c} : call'[d] = call[d]
        /\ call' \in [Hooks -> CallRow]
    BY <1>1, <1>4 DEF WebhookTypeOK, NoHook, CallRow
  <2>2. /\ payment' \in [Requests -> {"unpaid", "paid", "settled"}]
        /\ \A r \in Requests :
             \/ payment'[r] = payment[r]
             \/ /\ Succeeding(c, r)
                /\ payment'[r] = "settled"
    <3>1. CASE payment' = payment
      BY <1>1, <3>1 DEF WebhookTypeOK
    <3>2. CASE payment' = [r \in Requests |->
                 IF Succeeding(c, r) THEN "settled" ELSE payment[r]]
      BY <1>1, <3>2 DEF WebhookTypeOK
    <3> QED
      BY <1>4, <3>1, <3>2
  <2>3. \A r \in Requests : Succeeding(c, r) => payment[r] # "unpaid"
    BY DEF WebhooksInv, CallsFounded, Succeeding
  <2>4. \A r \in Requests : payment[r] # "unpaid" <=> payment'[r] # "unpaid"
    BY <2>2, <2>3
  <2>5. \A r \in Requests : ~Succeeding(c, r)'
    BY <2>1 DEF Succeeding
  <2>6. WebhookTypeOK'
    BY <1>1, <1>4, <2>1, <2>2 DEF WebhookTypeOK
  <2> QED
    BY <1>4, <2>1, <2>2, <2>4, <2>5, <2>6, CallMoves
<1> QED
  BY <1>3, <1>4 DEF Serve, Answer, Lose

LEMMA NextWebhooks ==
  ASSUME WebhooksInv, [WebhooksNext]_webhookVars
  PROVE  WebhooksInv'
<1>1. WebhookTypeOK /\ LedgerInv
  BY DEF WebhooksInv
<1>2. [Next]_vars
  BY <1>1, StepIsCall
<1>3. LedgerInv'
  BY <1>1, <1>2, NextLedger
<1>4. CASE UNCHANGED webhookVars
  BY <1>3, <1>4
     DEF webhookVars, vars, WebhooksInv, WebhookTypeOK, PaymentsAsked,
         CallsFounded, AtGateway, ToldTheTruth, Succeeding
<1>5. CASE WebhooksNext
  BY <1>2, <1>3, <1>5, InitiateKeeps, PayKeeps, SendKeeps, ServeKeeps
     DEF WebhooksNext
<1> QED
  BY <1>4, <1>5

LEMMA InitWebhooks ==
  ASSUME WebhooksInit
  PROVE  WebhooksInv
<1>1. LedgerInv
  BY InitLedger DEF WebhooksInit
<1>2. \A c \in Hooks : call[c] = NoHook /\ call[c].stage = "none"
  BY DEF WebhooksInit, NoHook
<1>3. /\ \A r \in Requests : payment[r] = "unpaid"
      /\ \A r : \A c \in Hooks : ~Succeeding(c, r)
  BY <1>2 DEF WebhooksInit, Succeeding
<1>4. WebhookTypeOK
  BY <1>2 DEF WebhooksInit, WebhookTypeOK, CallRow, NoHook, Providers
<1> QED
  BY <1>1, <1>2, <1>3, <1>4
     DEF WebhooksInv, PaymentsAsked, CallsFounded, ToldTheTruth

-----------------------------------------------------------------------------
(* The theorems. *)

THEOREM WebhooksKeepInvariant == WebhooksSpec => []WebhooksInv
<1>1. WebhooksInit => WebhooksInv
  BY InitWebhooks
<1>2. WebhooksInv /\ [WebhooksNext]_webhookVars => WebhooksInv'
  BY NextWebhooks
<1> QED
  BY <1>1, <1>2, PTL DEF WebhooksSpec

(***************************************************************************)
(* Between the providers and the webhooks nothing reaches the wallets but  *)
(* calls of the marketplace, so that all that is proved of its books and   *)
(* its ledger holds under every webhook traffic.                           *)
(***************************************************************************)
THEOREM WebhooksAreCalls == WebhooksSpec => Spec
<1>1. WebhooksInit => Init
  BY DEF WebhooksInit
<1>2. WebhooksInv /\ [WebhooksNext]_webhookVars => [Next]_vars
  BY StepIsCall DEF WebhooksInv
<1> QED
  BY <1>1, <1>2, WebhooksKeepInvariant, PTL DEF WebhooksSpec, Spec

\* Providers that repeat, delay or lose their calls leave the same books.
THEOREM WebhooksKeepTheBooks ==
  WebhooksSpec => /\ [](EscrowBacked /\ LifetimeTotals /\ MoneyConserved)
                  /\ [](LedgerChain /\ SettledOnce /\ CreditedOnce)
BY WebhooksAreCalls, EscrowAlwaysBacked, LifetimeTotalsHold, MoneyIsConserved,
   LedgerAlwaysChains, JobsSettledOnce, DepositsCreditedOnce, PTL

(***************************************************************************)
(* A provider that was told success, or is about to be, had the money      *)
(* credited: no answer outruns its commit and no rollback follows one.     *)
(***************************************************************************)
THEOREM ProvidersToldTheTruth == WebhooksSpec => []ToldTheTruth
<1>1. WebhooksInv => ToldTheTruth
  BY DEF WebhooksInv
<1> QED
  BY <1>1, WebhooksKeepInvariant, PTL

-----------------------------------------------------------------------------
(* What the payments see. *)

\* A deposit is booked once when its request is completed, and not before.
CreditsAsStatus ==
  TimesBooked =
    [r \in Requests |-> IF request[r].status = "completed" THEN 1 ELSE 0]

LEMMA BookedWithStatus ==
  ASSUME LedgerInv
  PROVE  CreditsAsStatus
<1> SUFFICES ASSUME NEW r \in Requests
             PROVE  Cardinality(Booked("deposit", r)) =
                      IF request[r].status = "completed" THEN 1 ELSE 0
  BY DEF CreditsAsStatus, TimesBooked
<1>1. CreditedRequest(ledger, request[r], r)
  BY DEF LedgerInv, LedgerBooks
<1>2. BookedWhen(request[r].status = "completed", "deposit", r,
                 request[r].user, request[r].amount)
  BY <1>1, BookedAsRecorded DEF CreditedRequest
<1>3. CASE request[r].status = "completed"
  <2>1. PICK i : Booked("deposit", r) = {<<request[r].user, i>>}
    BY <1>2, <1>3 DEF BookedWhen
  <2> QED
    BY <1>3, <2>1, FS_Singleton
<1>4. CASE request[r].status # "completed"
  <2>1. Booked("deposit", r) = {}
    BY <1>2, <1>4 DEF BookedWhen
  <2> QED
    BY <1>4, <2>1, FS_EmptySet
<1> QED
  BY <1>3, <1>4


\* A call of the marketplace other than ConfirmDeposit completes no request,
LEMMA SameCredits ==
  ASSUME CreditsAsStatus, CreditsAsStatus',
         \A r \in Requests : request'[r].status = "completed" <=>
                               request[r].status = "completed"
  PROVE  TimesBooked' = TimesBooked
BY DEF CreditsAsStatus

\* and ConfirmDeposit completes the one it credits.
LEMMA OneCredit ==
  ASSUME TypeOK, CreditsAsStatus, CreditsAsStatus', NEW r \in Requests,
         ConfirmDeposit(r)
  PROVE  /\ TimesBooked[r] = 0
         /\ TimesBooked' = [TimesBooked EXCEPT ![r] = 1]
<1>1. /\ request \in [Requests -> RequestRow] /\ request[r].status = "pending"
      /\ request' = [request EXCEPT ![r].status = "completed"]
  BY DEF TypeOK, ConfirmDeposit
<1>2. /\ request'[r].status = "completed"
      /\ \A q \in Requests \ {r} : request'[q] = request[q]
  BY <1>1 DEF RequestRow
<1>3. TimesBooked[r] = 0
  BY <1>1 DEF CreditsAsStatus
<1>4. /\ TimesBooked' = [q \in Requests |->
           IF request'[q].status = "completed" THEN 1 ELSE 0]
      /\ TimesBooked = [q \in Requests |->
           IF request[q].status = "completed" THEN 1 ELSE 0]
  BY DEF CreditsAsStatus
<1> QED
  BY <1>2, <1>3, <1>4

LEMMA StepOfPayment ==
  ASSUME WebhooksInv, CreditsAsStatus, CreditsAsStatus',
         [WebhooksNext]_webhookVars
  PROVE  [Promise!Next]_<<PaidReadably, TimesBooked>>
<1>1. TypeOK /\ WebhookTypeOK
  BY DEF WebhooksInv, LedgerInv, BooksInv
<1>2. ASSUME UNCHANGED request
      PROVE  UNCHANGED TimesBooked
  BY <1>2, SameCredits
<1>3. ASSUME UNCHANGED <<payment, provider>>
      PROVE  UNCHANGED PaidReadably
  BY <1>3 DEF PaidReadably
<1>4. ASSUME NEW r \in Requests, NEW u \in Users, NEW amount \in Amounts,
             NEW p \in Providers, Initiate(u, r, amount, p)
      PROVE  UNCHANGED <<PaidReadably, TimesBooked>>
  <2>1. /\ request[r].status = "absent" /\ payment' = payment
        /\ request' = [request EXCEPT ![r] =
             [status |-> "pending", user |-> u, amount |-> amount]]
        /\ provider' = [provider EXCEPT ![r] = p]
    BY <1>4 DEF Initiate, InitiateDeposit
  <2>2. payment[r] = "unpaid"
    BY <2>1 DEF WebhooksInv, PaymentsAsked, AtGateway
  <2>3. PaidReadably' = PaidReadably
    BY <1>1, <2>1, <2>2 DEF PaidReadably, WebhookTypeOK
  <2>4. \A q \in Requests : request'[q].status = "completed" <=>
                              request[q].status = "completed"
    BY <1>1, <2>1 DEF TypeOK
  <2> QED
    BY <2>3, <2>4, SameCredits
<1>5. ASSUME NEW r \in Requests, Pay(r)
      PROVE  Promise!Pay(r) \/ UNCHANGED <<PaidReadably, TimesBooked>>
  <2>1. /\ payment[r] = "unpaid" /\ payment' = [payment EXCEPT ![r] = "paid"]
        /\ provider' = provider /\ request' = request
    BY <1>5 DEF Pay, vars
  <2>2. /\ payment'[r] = "paid"
        /\ \A q \in Requests \ {r} : payment'[q] = payment[q]
    BY <1>1, <2>1 DEF WebhookTypeOK
  <2>3. UNCHANGED TimesBooked
    BY <1>2, <2>1
  <2>4. CASE provider[r] \in Readable
    <3>1. r \notin PaidReadably /\ PaidReadably' = PaidReadably \cup {r}
      BY <2>1, <2>2, <2>4 DEF PaidReadably
    <3> QED
      BY <2>3, <3>1 DEF Promise!Pay
  <2>5. CASE provider[r] \notin Readable
    <3>1. PaidReadably' = PaidReadably
      BY <2>1, <2>2, <2>5 DEF PaidReadably
    <3> QED
      BY <2>3, <3>1
  <2> QED
    BY <2>4, <2>5
<1>6. ASSUME NEW c \in Hooks, Credit(c)
      PROVE  \E r \in Requests : Promise!Credit(r)
  <2> DEFINE r == call[c].about
  <2>1. /\ call[c].stage = "arrived" /\ call[c].confirms
        /\ provider[r] \in Readable /\ ConfirmDeposit(r)
        /\ UNCHANGED <<payment, provider>>
    BY <1>6 DEF Credit, Reply, Confirms
  <2>2. r \in Requests /\ payment[r] # "unpaid"
    BY <1>1, <2>1, CallFields DEF WebhooksInv, CallsFounded
  <2> HIDE DEF r
  <2>3. r \in PaidReadably
    BY <2>1, <2>2 DEF PaidReadably
  <2>4. /\ TimesBooked[r] = 0
        /\ TimesBooked' = [TimesBooked EXCEPT ![r] = 1]
    BY <1>1, <2>1, <2>2, OneCredit
  <2>5. UNCHANGED PaidReadably
    BY <1>3, <2>1
  <2> QED
    BY <2>2, <2>3, <2>4, <2>5 DEF Promise!Credit
<1>7. ASSUME NEW c \in Hooks, Answer(c)
      PROVE  UNCHANGED <<PaidReadably, TimesBooked>>
  <2>1. /\ UNCHANGED <<request, provider>>
        /\ payment' = [r \in Requests |->
             IF Succeeding(c, r) THEN "settled" ELSE payment[r]]
    BY <1>7 DEF Answer, vars
  <2>2. \A r \in Requests : Succeeding(c, r) => payment[r] # "unpaid"
    BY DEF WebhooksInv, CallsFounded, Succeeding
  <2>3. PaidReadably' = PaidReadably
    BY <2>1, <2>2 DEF PaidReadably
  <2> QED
    BY <1>2, <2>1, <2>3
<1>8. ASSUME NEW c \in Hooks, Ignore(c) \/ Refuse(c) \/ Lose(c)
      PROVE  UNCHANGED <<PaidReadably, TimesBooked>>
  <2>1. UNCHANGED <<request, provider, payment>>
    BY <1>8 DEF Ignore, Refuse, Lose, Reply, vars
  <2> QED
    BY <1>2, <1>3, <2>1
<1>9. ASSUME NEW c \in Hooks, NEW r \in Requests, NEW confirms \in BOOLEAN,
             Send(c, r, confirms)
      PROVE  UNCHANGED <<PaidReadably, TimesBooked>>
  <2>1. UNCHANGED <<request, provider, payment>>
    BY <1>9 DEF Send, vars
  <2> QED
    BY <1>2, <1>3, <2>1
<1>10. CASE UNCHANGED webhookVars
  BY <1>2, <1>3, <1>10 DEF webhookVars, vars
<1> QED
  BY <1>4, <1>5, <1>6, <1>7, <1>8, <1>9, <1>10
     DEF WebhooksNext, Serve, Handle, Promise!Next

(***************************************************************************)
(* No traffic of webhook calls credits a payment twice or one that was not *)
(* paid at its provider: the deposits implement what Payment promises, but *)
(* for its fairness, which the runs check.                                 *)
(***************************************************************************)
THEOREM DepositsKeepPromise == WebhooksSpec => Promise!Safety
<1>1. WebhooksInit /\ CreditsAsStatus => Promise!Init
  <2> SUFFICES ASSUME WebhooksInit, CreditsAsStatus
               PROVE  Promise!Init
    OBVIOUS
  <2>1. PaidReadably = {}
    BY DEF WebhooksInit, PaidReadably
  <2>2. \A r \in Requests : request[r].status = "absent"
    BY DEF WebhooksInit, Init, NoRequestRow
  <2>3. TimesBooked = [r \in Requests |-> 0]
    BY <2>2 DEF CreditsAsStatus
  <2> QED
    BY <2>1, <2>3 DEF Promise!Init
<1>2. WebhooksInv => CreditsAsStatus
  BY BookedWithStatus DEF WebhooksInv
<1>3. WebhooksInv /\ CreditsAsStatus /\ CreditsAsStatus'
        /\ [WebhooksNext]_webhookVars
          => [Promise!Next]_<<PaidReadably, TimesBooked>>
  BY StepOfPayment
<1> QED
  BY <1>1, <1>2, <1>3, WebhooksKeepInvariant, PTL
     DEF WebhooksSpec, Promise!Safety
=============================================================================
