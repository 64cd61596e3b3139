-------------------------- MODULE MarketplaceProofs --------------------------
(***************************************************************************)
(* What calculate_commission and the wallet operations return, for every   *)
(* price, percentage and wallet row; the types of Marketplace's rows; and *)
(* for any users, jobs, prices and requests: the books agree with the jobs *)
(* (EscrowBacked, LifetimeTotals, MoneyConserved), the ledger explains the *)
(* wallets, every job is settled and every deposit credited once, and no   *)
(* call leaves the documented lifecycle.                                   *)
(***************************************************************************)
EXTENDS Marketplace, TotalsProofs, TLAPS

-----------------------------------------------------------------------------
(* The commission, for every price and percentage. *)

Percents == 0 .. 100 \cup {NoPercent}

\* Whatever percentage is asked for, the one applied is a percentage.
LEMMA PercentInRange ==
  ASSUME NEW percent \in Percents
  PROVE  EffectivePercent(percent) \in 0 .. 100
BY CommissionAssumption DEF Percents, EffectivePercent, NoPercent

\* The quotient is the integer the product lies a remainder above.
LEMMA Quotient ==
  ASSUME NEW amount \in Nat, NEW p \in 0 .. 100
  PROVE  LET q == (amount * p) \div 100
         IN  /\ q \in Int /\ amount * p \in Nat
             /\ 100 * q <= amount * p /\ amount * p < 100 * q + 100
<1> DEFINE product == amount * p
<1>1. product \in Nat
  OBVIOUS
<1> HIDE DEF product
<1>2. /\ product \div 100 \in Int
      /\ 100 * (product \div 100) <= product
      /\ product < 100 * (product \div 100) + 100
  BY <1>1
<1> QED
  BY <1>1, <1>2 DEF product

(***************************************************************************)
(* Rounding favours the worker and by less than a tiyin: the worker gets   *)
(* the exact share of the price, rounded up ("Platform commission and      *)
(* worker payout", utils.py:155).  It is stated for the prices a job can   *)
(* have, for which the float quotient of the code truncates like the exact *)
(* one; of larger amounts, which nothing passes, it would be false.        *)
(***************************************************************************)
THEOREM WorkerShareRoundedUp ==
  ASSUME NEW amount \in 0 .. MaxPrice, NEW percent \in Percents
  PROVE  LET share == (100 - EffectivePercent(percent)) * amount
             worker == WorkerAmount(amount, percent)
         IN  share <= 100 * worker /\ 100 * worker < share + 100
<1> DEFINE p == EffectivePercent(percent)
           q == (amount * p) \div 100
<1>1. p \in 0 .. 100 /\ amount \in Nat
  BY PercentInRange
<1>2. WorkerAmount(amount, percent) = amount - q
  BY DEF WorkerAmount, CommissionOf
<1> HIDE DEF p
<1>3. /\ q \in Int /\ amount * p \in Nat
      /\ 100 * q <= amount * p /\ amount * p < 100 * q + 100
  BY <1>1, Quotient
<1>4. (100 - p) * amount = 100 * amount - amount * p
  BY <1>1
<1>5. /\ 100 * amount - amount * p <= 100 * (amount - q)
      /\ 100 * (amount - q) < 100 * amount - amount * p + 100
  <2> HIDE DEF q
  <2> QED
    BY <1>3
<1> QED
  BY <1>2, <1>4, <1>5 DEF p

(***************************************************************************)
(* A dearer job never pays its worker less, nor earns the platform less,   *)
(* for the prices a job can have.                                          *)
(***************************************************************************)
THEOREM SplitMonotone ==
  ASSUME NEW amount \in 0 .. MaxPrice, NEW cheaper \in 0 .. amount,
         NEW percent \in Percents
  PROVE  /\ CommissionOf(cheaper, percent) <= CommissionOf(amount, percent)
         /\ WorkerAmount(cheaper, percent) <= WorkerAmount(amount, percent)
<1> DEFINE p == EffectivePercent(percent)
           more == amount - cheaper
           q == (amount * p) \div 100
           r == (cheaper * p) \div 100
<1>1. p \in 0 .. 100 /\ amount \in Nat /\ cheaper \in Nat /\ more \in Nat
  BY PercentInRange
<1>2. /\ CommissionOf(amount, percent) = q
      /\ CommissionOf(cheaper, percent) = r
      /\ WorkerAmount(amount, percent) = amount - q
      /\ WorkerAmount(cheaper, percent) = cheaper - r
  BY DEF WorkerAmount, CommissionOf
<1> HIDE DEF p
<1>3. /\ q \in Int /\ amount * p \in Nat
      /\ 100 * q <= amount * p /\ amount * p < 100 * q + 100
  BY <1>1, Quotient
<1>4. /\ r \in Int /\ cheaper * p \in Nat
      /\ 100 * r <= cheaper * p /\ cheaper * p < 100 * r + 100
  BY <1>1, Quotient
<1>5. /\ amount * p = cheaper * p + more * p
      /\ more * p \in Nat /\ more * p <= 100 * more
  <2> HIDE DEF more
  <2>1. amount = cheaper + more
    BY <1>1 DEF more
  <2>2. (cheaper + more) * p = cheaper * p + more * p
    BY <1>1
  <2>3. more * p \in Nat /\ more * p <= 100 * more
    BY <1>1
  <2> QED
    BY <2>1, <2>2, <2>3
<1>6. r <= q /\ q - r <= more
  <2> HIDE DEF q, r, more
  <2> QED
    BY <1>1, <1>3, <1>4, <1>5
<1>7. cheaper - r <= amount - q
  <2> HIDE DEF q, r
  <2> QED
    BY <1>1, <1>3, <1>4, <1>6
<1> QED
  BY <1>2, <1>6, <1>7

\* Commission and payout split the price.
LEMMA Split ==
  ASSUME NEW price \in Nat
  PROVE  /\ JobCommission(price) \in 0 .. price
         /\ Payout(price) \in 0 .. price
         /\ JobCommission(price) + Payout(price) = price
<1> DEFINE percent == EffectivePercent(NoPercent)
<1>1. percent \in 0 .. 100
  BY CommissionAssumption DEF EffectivePercent
<1>2. JobCommission(price) = (price * percent) \div 100
  BY DEF JobCommission, CommissionOf
<1>3. Payout(price) = price - JobCommission(price)
  BY DEF Payout, WorkerAmount, JobCommission
<1> HIDE DEF percent
<1>4. price * percent \in Nat /\ price * percent <= price * 100
  BY <1>1
<1>5. (price * percent) \div 100 \in 0 .. price
  BY <1>4
<1> QED
  BY <1>2, <1>3, <1>5

-----------------------------------------------------------------------------
(* The wallet rows, column by column. *)

\* deduct_for_job moves the amount from the balance into escrow.
LEMMA DeductedRow ==
  ASSUME NEW w \in Wallet, NEW amount \in Nat
  PROVE  Deducted(w, amount) =
           [balance |-> w.balance - amount, held |-> w.held + amount,
            earned |-> w.earned, spent |-> w.spent + amount]
<1>1. Deducted(w, amount) =
        [w EXCEPT !.balance = w.balance - amount, !.held = w.held + amount,
                  !.spent = w.spent + amount]
  BY DEF Deducted
<1> QED
  BY <1>1 DEF Wallet

\* release_job_payment takes the price out of escrow.
LEMMA ReleasedRow ==
  ASSUME NEW w \in Wallet, NEW price \in Nat
  PROVE  Released(w, price) =
           [balance |-> w.balance, held |-> w.held - price,
            earned |-> w.earned, spent |-> w.spent]
BY DEF Released, Wallet

\* and credits the worker.
LEMMA PaidOutRow ==
  ASSUME NEW w \in Wallet, NEW amount \in Nat
  PROVE  /\ PaidOut(w, amount) =
              [balance |-> w.balance + amount, held |-> w.held,
               earned |-> w.earned + amount, spent |-> w.spent]
         /\ PaidOut(w, amount) \in Wallet
<1>1. PaidOut(w, amount) = [w EXCEPT !.balance = w.balance + amount,
                                     !.earned = w.earned + amount]
  BY DEF PaidOut
<1>2. PaidOut(w, amount) =
        [balance |-> w.balance + amount, held |-> w.held,
         earned |-> w.earned + amount, spent |-> w.spent]
  BY <1>1 DEF Wallet
<1> QED
  BY <1>2 DEF Wallet

\* deposit only raises the balance.
LEMMA DepositedRow ==
  ASSUME NEW w \in Wallet, NEW amount \in Nat
  PROVE  /\ Deposited(w, amount) =
              [balance |-> w.balance + amount, held |-> w.held,
               earned |-> w.earned, spent |-> w.spent]
         /\ Deposited(w, amount) \in Wallet
BY DEF Deposited, Wallet

\* refund_job never leaves a negative column, thanks to its min and max.
LEMMA RefundedRow ==
  ASSUME NEW w \in Wallet, NEW price \in Nat
  PROVE  /\ Refundable(w, price) \in 0 .. w.held
         /\ Refunded(w, price) =
              [balance |-> w.balance + Refundable(w, price),
               held |-> w.held - Refundable(w, price),
               earned |-> w.earned,
               spent |-> IF w.spent >= Refundable(w, price)
                         THEN w.spent - Refundable(w, price) ELSE 0]
         /\ Refunded(w, price) \in Wallet
<1> DEFINE held == Refundable(w, price)
<1>1. held \in 0 .. w.held
  BY DEF Refundable, Wallet
<1>2. Refunded(w, price) =
        [w EXCEPT !.balance = w.balance + held, !.held = w.held - held,
                  !.spent = IF w.spent >= held THEN w.spent - held ELSE 0]
  BY DEF Refunded
<1> HIDE DEF held
<1>3. Refunded(w, price) =
        [balance |-> w.balance + held, held |-> w.held - held,
         earned |-> w.earned,
         spent |-> IF w.spent >= held THEN w.spent - held ELSE 0]
  BY <1>2 DEF Wallet
<1>4. Refunded(w, price) \in Wallet
  BY <1>1, <1>3 DEF Wallet
<1> QED
  BY <1>1, <1>3, <1>4 DEF held

-----------------------------------------------------------------------------
(* Type correctness. *)

\* The initial rows have their types.
LEMMA InitTypeOK == Init => TypeOK
BY DEF Init, TypeOK, JobRow, NoJobRow, JobStatus, OpenStatus, Wallet,
       EmptyWallet, RequestRow, NoRequestRow

\* A ledger row with typed columns is a ledger row.
LEMMA EntryType ==
  ASSUME NEW type \in Credits \cup Debits, NEW amount \in Nat,
         NEW before \in Nat, NEW after \in Nat, NEW x \in Jobs \cup Requests
  PROVE  Entry(type, amount, before, after, x) \in LedgerEntry
BY DEF Entry, LedgerEntry, EntrySet

\* A row booked for one user keeps the ledgers typed.
LEMMA BookType ==
  ASSUME TypeOK, NEW u \in Users, NEW entry \in LedgerEntry, Book(u, entry)
  PROVE  ledger' \in [Users -> Seq(LedgerEntry)]
BY DEF TypeOK, Book

\* Every call leaves the rows typed; the CHECK of the held balance is a
\* guard of CompleteJob, the other columns are shown not to go below zero.
LEMMA NextTypeOK ==
  ASSUME TypeOK, [Next]_vars
  PROVE  TypeOK'
<1> USE RolesAssumption, MoneyAssumption DEF Users
<1>1. ASSUME NEW j \in Jobs, NEW e \in Employers, NEW price \in Prices,
             CreateJob(e, j, price)
      PROVE  TypeOK'
  <2>1. price \in Nat /\ e \in Users
    OBVIOUS
  <2>2. /\ wallet[e] \in Wallet
        /\ wallet[e].balance >= price
    BY <1>1 DEF CreateJob, Affords, TypeOK
  <2>3. Deducted(wallet[e], price) \in Wallet
    BY <2>1, <2>2, DeductedRow DEF Wallet
  <2>4. DeductEntry(wallet[e], price, j) \in LedgerEntry
    BY <2>1, <2>2, <2>3, EntryType DEF DeductEntry, Credits, Debits, Wallet
  <2>5. ledger' \in [Users -> Seq(LedgerEntry)]
    BY <1>1, <2>1, <2>4, BookType DEF CreateJob
  <2>6. wallet' \in [Users -> Wallet]
    BY <1>1, <2>3 DEF CreateJob, TypeOK
  <2>7. job' \in [Jobs -> JobRow]
    BY <1>1, <2>1 DEF CreateJob, TypeOK, JobRow, JobStatus, OpenStatus
  <2> QED
    BY <1>1, <2>5, <2>6, <2>7 DEF CreateJob, TypeOK
<1>2. ASSUME NEW j \in Jobs, NEW w \in Workers, AcceptJob(j, w)
      PROVE  TypeOK'
  <2> DEFINE row == [job[j] EXCEPT !.worker = w, !.status = "accepted"]
  <2>1. job[j] \in JobRow
    BY DEF TypeOK
  <2>2. row \in JobRow
    BY <2>1 DEF JobRow, JobStatus, OpenStatus
  <2>3. job' = [job EXCEPT ![j] = row]
    BY <1>2 DEF AcceptJob
  <2> HIDE DEF row
  <2>4. job' \in [Jobs -> JobRow]
    BY <2>2, <2>3 DEF TypeOK
  <2>5. wallet' = wallet /\ ledger' = ledger /\ request' = request
    BY <1>2 DEF AcceptJob
  <2> QED
    BY <2>4, <2>5 DEF TypeOK
<1>3. ASSUME NEW j \in Jobs, NEW w \in Workers, StartJob(j, w)
      PROVE  TypeOK'
  <2> DEFINE row == [job[j] EXCEPT !.status = "in_progress"]
  <2>1. job[j] \in JobRow
    BY DEF TypeOK
  <2>2. row \in JobRow
    BY <2>1 DEF JobRow, JobStatus, OpenStatus
  <2>3. job' = [job EXCEPT ![j] = row]
    BY <1>3 DEF StartJob
  <2> HIDE DEF row
  <2>4. job' \in [Jobs -> JobRow]
    BY <2>2, <2>3 DEF TypeOK
  <2>5. wallet' = wallet /\ ledger' = ledger /\ request' = request
    BY <1>3 DEF StartJob
  <2> QED
    BY <2>4, <2>5 DEF TypeOK
<1>4. ASSUME NEW j \in Jobs, NEW e \in Employers, CompleteJob(j, e)
      PROVE  TypeOK'
  <2> DEFINE w == job[j].worker
             price == job[j].price
  <2>1. price \in Nat /\ w \in Workers /\ e \in Users /\ w \in Users /\ e # w
    BY <1>4 DEF CompleteJob, TypeOK, JobRow
  <2>2. wallet[e] \in Wallet /\ wallet[w] \in Wallet
    BY <2>1 DEF TypeOK
  <2>3. Payout(price) \in Nat /\ JobCommission(price) \in Nat
    BY <2>1, Split
  <2>4. Released(wallet[e], price) \in Wallet
    BY <1>4 DEF CompleteJob
  <2>5. PaidOut(wallet[w], Payout(price)) \in Wallet
    BY <2>2, <2>3, PaidOutRow
  <2>6. CommissionEntry(wallet[e], price, j) \in LedgerEntry
    BY <2>2, <2>3, EntryType DEF CommissionEntry, Credits, Debits, Wallet
  <2>7. PayoutEntry(wallet[w], price, j) \in LedgerEntry
    BY <2>2, <2>3, <2>5, EntryType DEF PayoutEntry, Credits, Debits, Wallet
  <2> HIDE DEF w, price
  <2>8. wallet' = [wallet EXCEPT ![e] = Released(@, price),
                                 ![w] = PaidOut(@, Payout(price))]
        /\ ledger' =
           [ledger EXCEPT
              ![e] = Append(@, CommissionEntry(wallet[e], price, j)),
              ![w] = Append(@, PayoutEntry(wallet[w], price, j))]
    BY <1>4 DEF CompleteJob, w, price
  <2>9. wallet' \in [Users -> Wallet]
    BY <2>1, <2>4, <2>5, <2>8 DEF TypeOK
  <2>10. ledger' \in [Users -> Seq(LedgerEntry)]
    <3> DEFINE paid == Append(ledger[e], CommissionEntry(wallet[e], price, j))
               got == Append(ledger[w], PayoutEntry(wallet[w], price, j))
    <3>1. paid \in Seq(LedgerEntry) /\ got \in Seq(LedgerEntry)
      BY <2>1, <2>6, <2>7 DEF TypeOK
    <3>2. ledger' = [ledger EXCEPT ![e] = paid, ![w] = got]
      BY <2>1, <2>8 DEF TypeOK
    <3> HIDE DEF paid, got
    <3> QED
      BY <2>1, <3>1, <3>2 DEF TypeOK
  <2>11. job' \in [Jobs -> JobRow]
    BY <1>4, ZenonT(30) DEF CompleteJob, TypeOK, JobRow, JobStatus
  <2> QED
    BY <1>4, <2>9, <2>10, <2>11 DEF CompleteJob, TypeOK
<1>5. ASSUME NEW j \in Jobs, NEW u \in Users, CancelJob(j, u)
      PROVE  TypeOK'
  <2> DEFINE e == job[j].employer
             price == job[j].price
  <2>1. e \in Users \cup {NoUser} /\ price \in Nat
    BY DEF TypeOK, JobRow
  <2>2. CASE e \in Users
    <3>1. wallet[e] \in Wallet
      BY <2>2 DEF TypeOK
    <3>2. Refundable(wallet[e], price) \in Nat
      <4>1. wallet[e].held \in Nat
        BY <3>1 DEF Wallet
      <4> QED
        BY <2>1, <4>1 DEF Refundable
    <3>3. Refunded(wallet[e], price) \in Wallet
      BY <2>1, <3>1, RefundedRow
    <3>4. RefundEntry(wallet[e], price, j) \in LedgerEntry
      BY <3>1, <3>2, <3>3, EntryType
         DEF RefundEntry, Credits, Debits, Wallet
    <3>5. ledger' \in [Users -> Seq(LedgerEntry)]
      BY <1>5, <2>2, <3>4, BookType DEF CancelJob
    <3>6. wallet' \in [Users -> Wallet]
      BY <1>5, <2>2, <3>3 DEF CancelJob, TypeOK
    <3>7. job' \in [Jobs -> JobRow]
      BY <1>5, ZenonT(30) DEF CancelJob, TypeOK, JobRow, JobStatus
    <3> QED
      BY <1>5, <3>5, <3>6, <3>7 DEF CancelJob, TypeOK
  <2>3. CASE e = NoUser
    <3>1. wallet' \in [Users -> Wallet]
      BY <1>5, <2>3 DEF CancelJob, TypeOK
    <3>2. ledger' \in [Users -> Seq(LedgerEntry)]
      BY <1>5, <2>3 DEF CancelJob, Book, TypeOK
    <3>3. job' \in [Jobs -> JobRow]
      BY <1>5 DEF CancelJob, TypeOK, JobRow, JobStatus
    <3> QED
      BY <1>5, <3>1, <3>2, <3>3 DEF CancelJob, TypeOK
  <2> QED
    BY <2>1, <2>2, <2>3
<1>6. ASSUME NEW r \in Requests, NEW u \in Users, NEW amount \in Amounts,
             InitiateDeposit(u, r, amount)
      PROVE  TypeOK'
  BY <1>6 DEF InitiateDeposit, TypeOK, RequestRow
<1>7. ASSUME NEW r \in Requests, ConfirmDeposit(r)
      PROVE  TypeOK'
  <2> DEFINE u == request[r].user
             amount == request[r].amount
  <2>1. u \in Users \cup {NoUser} /\ amount \in Nat
    BY DEF TypeOK, RequestRow
  <2>2. request' \in [Requests -> RequestRow]
    BY <1>7 DEF ConfirmDeposit, TypeOK, RequestRow
  <2>3. CASE u \in Users
    <3>1. wallet[u] \in Wallet
      BY <2>3 DEF TypeOK
    <3>2. Deposited(wallet[u], amount) \in Wallet
      BY <2>1, <3>1, DepositedRow
    <3>3. DepositEntry(wallet[u], amount, r) \in LedgerEntry
      BY <2>1, <3>1, <3>2, EntryType DEF DepositEntry, Credits, Debits, Wallet
    <3>4. ledger' \in [Users -> Seq(LedgerEntry)]
      BY <1>7, <2>3, <3>3, BookType DEF ConfirmDeposit
    <3>5. wallet' \in [Users -> Wallet]
      BY <1>7, <2>3, <3>2 DEF ConfirmDeposit, TypeOK
    <3> QED
      BY <1>7, <2>2, <3>4, <3>5 DEF ConfirmDeposit, TypeOK
  <2>4. CASE u = NoUser
    BY <1>7, <2>2, <2>4 DEF ConfirmDeposit, Book, TypeOK
  <2> QED
    BY <2>1, <2>3, <2>4
<1>8. CASE UNCHANGED vars
  BY <1>8 DEF vars, TypeOK
<1> QED
  BY <1>1, <1>2, <1>3, <1>4, <1>5, <1>6, <1>7, <1>8
     DEF Next, JobStep, DepositStep

(***************************************************************************)
(* Whatever calls the services serve, every row keeps its columns' types:  *)
(* no balance, held amount or counter ever goes below zero.                *)
(***************************************************************************)
THEOREM TypeCorrect == Spec => []TypeOK
<1>1. Init => TypeOK
  BY InitTypeOK
<1>2. TypeOK /\ [Next]_vars => TypeOK'
  BY NextTypeOK
<1> QED
  BY <1>1, <1>2, PTL DEF Spec

-----------------------------------------------------------------------------
(* The books. *)

\* What a job row contributes to the charges of u in these states, and to
\* the earnings of u; what a request row contributes to u's deposits.
Owes(row, u, statuses) ==
  IF row.employer = u /\ row.status \in statuses THEN row.price ELSE 0

Earns(row, u) ==
  IF row.worker = u /\ row.status = "completed" THEN Payout(row.price) ELSE 0

Gives(row, u) ==
  IF row.user = u /\ row.status = "completed" THEN row.amount ELSE 0

\* The amounts the totals add up are functions into the naturals.
LEMMA AmountTypes ==
  ASSUME NEW jobs \in [Jobs -> JobRow], NEW requests \in [Requests -> RequestRow]
  PROVE  /\ [j \in Jobs |-> jobs[j].price] \in [Jobs -> Nat]
         /\ [j \in Jobs |-> Payout(jobs[j].price)] \in [Jobs -> Nat]
         /\ [r \in Requests |-> requests[r].amount] \in [Requests -> Nat]
<1>1. \A j \in Jobs : jobs[j].price \in Nat
  BY DEF JobRow
<1>2. \A j \in Jobs : Payout(jobs[j].price) \in Nat
  BY <1>1, Split
<1>3. \A r \in Requests : requests[r].amount \in Nat
  BY DEF RequestRow
<1> QED
  BY <1>1, <1>2, <1>3

\* When one job row changes, a total of prices changes by that row alone.
LEMMA PostedMoves ==
  ASSUME TypeOK, TypeOK', NEW j \in Jobs,
         \A k \in Jobs \ {j} : job'[k] = job[k],
         NEW u \in Users, NEW statuses,
         Countable(PostedBy(u, statuses), Price)
  PROVE  /\ Countable(PostedBy(u, statuses), Price)'
         /\ Total(PostedBy(u, statuses), Price)' =
              Total(PostedBy(u, statuses), Price)
                + Owes(job'[j], u, statuses) - Owes(job[j], u, statuses)
<1> DEFINE S == PostedBy(u, statuses)
           T == PostedBy(u, statuses)'
           f == Price
           g == Price'
<1>1. f \in [Jobs -> Nat] /\ g \in [Jobs -> Nat]
  BY AmountTypes DEF Price, TypeOK
<1>2. S \in SUBSET Jobs /\ T \in SUBSET Jobs
  BY DEF PostedBy
<1>3. T \ {j} = S \ {j}
  BY DEF PostedBy
<1>4. \A k \in S \ {j} : g[k] = f[k]
  BY DEF PostedBy, Price
<1>5. /\ f[j] = job[j].price /\ g[j] = job'[j].price
      /\ j \in S <=> job[j].employer = u /\ job[j].status \in statuses
      /\ j \in T <=> job'[j].employer = u /\ job'[j].status \in statuses
  BY DEF PostedBy, Price
<1>6. Countable(S, f)
  OBVIOUS
<1> HIDE DEF S, T, f, g
<1>7. /\ Countable(T, g)
      /\ Total(T, g) = Total(S, f) + (IF j \in T THEN g[j] ELSE 0)
                                   - (IF j \in S THEN f[j] ELSE 0)
  BY <1>1, <1>2, <1>3, <1>4, <1>6, TotalMoves
<1>8. /\ (IF j \in T THEN g[j] ELSE 0) = Owes(job'[j], u, statuses)
      /\ (IF j \in S THEN f[j] ELSE 0) = Owes(job[j], u, statuses)
  BY <1>5 DEF Owes
<1> QED
  BY <1>7, <1>8 DEF S, T, f, g

\* Likewise a total of payouts,
LEMMA CompletedMoves ==
  ASSUME TypeOK, TypeOK', NEW j \in Jobs,
         \A k \in Jobs \ {j} : job'[k] = job[k],
         NEW u \in Users, Countable(CompletedFor(u), PayoutOf)
  PROVE  /\ Countable(CompletedFor(u), PayoutOf)'
         /\ Total(CompletedFor(u), PayoutOf)' =
              Total(CompletedFor(u), PayoutOf)
                + Earns(job'[j], u) - Earns(job[j], u)
<1> DEFINE S == CompletedFor(u)
           T == CompletedFor(u)'
           f == PayoutOf
           g == PayoutOf'
<1>1. f \in [Jobs -> Nat] /\ g \in [Jobs -> Nat]
  BY AmountTypes DEF PayoutOf, TypeOK
<1>2. S \in SUBSET Jobs /\ T \in SUBSET Jobs
  BY DEF CompletedFor
<1>3. T \ {j} = S \ {j}
  BY DEF CompletedFor
<1>4. \A k \in S \ {j} : g[k] = f[k]
  BY DEF CompletedFor, PayoutOf
<1>5. /\ f[j] = Payout(job[j].price) /\ g[j] = Payout(job'[j].price)
      /\ j \in S <=> job[j].worker = u /\ job[j].status = "completed"
      /\ j \in T <=> job'[j].worker = u /\ job'[j].status = "completed"
  BY DEF CompletedFor, PayoutOf
<1>6. Countable(S, f)
  OBVIOUS
<1> HIDE DEF S, T, f, g
<1>7. /\ Countable(T, g)
      /\ Total(T, g) = Total(S, f) + (IF j \in T THEN g[j] ELSE 0)
                                   - (IF j \in S THEN f[j] ELSE 0)
  BY <1>1, <1>2, <1>3, <1>4, <1>6, TotalMoves
<1>8. /\ (IF j \in T THEN g[j] ELSE 0) = Earns(job'[j], u)
      /\ (IF j \in S THEN f[j] ELSE 0) = Earns(job[j], u)
  BY <1>5 DEF Earns
<1> QED
  BY <1>7, <1>8 DEF S, T, f, g

\* and a total of deposits.
LEMMA ConfirmedMoves ==
  ASSUME TypeOK, TypeOK', NEW r \in Requests,
         \A k \in Requests \ {r} : request'[k] = request[k],
         NEW u \in Users, Countable(ConfirmedFor(u), Amount)
  PROVE  /\ Countable(ConfirmedFor(u), Amount)'
         /\ Total(ConfirmedFor(u), Amount)' =
              Total(ConfirmedFor(u), Amount)
                + Gives(request'[r], u) - Gives(request[r], u)
<1> DEFINE S == ConfirmedFor(u)
           T == ConfirmedFor(u)'
           f == Amount
           g == Amount'
<1>1. f \in [Requests -> Nat] /\ g \in [Requests -> Nat]
  BY AmountTypes DEF Amount, TypeOK
<1>2. S \in SUBSET Requests /\ T \in SUBSET Requests
  BY DEF ConfirmedFor
<1>3. T \ {r} = S \ {r}
  BY DEF ConfirmedFor
<1>4. \A k \in S \ {r} : g[k] = f[k]
  BY DEF ConfirmedFor, Amount
<1>5. /\ f[r] = request[r].amount /\ g[r] = request'[r].amount
      /\ r \in S <=> request[r].user = u /\ request[r].status = "completed"
      /\ r \in T <=> request'[r].user = u /\ request'[r].status = "completed"
  BY DEF ConfirmedFor, Amount
<1>6. Countable(S, f)
  OBVIOUS
<1> HIDE DEF S, T, f, g
<1>7. /\ Countable(T, g)
      /\ Total(T, g) = Total(S, f) + (IF r \in T THEN g[r] ELSE 0)
                                   - (IF r \in S THEN f[r] ELSE 0)
  BY <1>1, <1>2, <1>3, <1>4, <1>6, TotalMoves
<1>8. /\ (IF r \in T THEN g[r] ELSE 0) = Gives(request'[r], u)
      /\ (IF r \in S THEN f[r] ELSE 0) = Gives(request[r], u)
  BY <1>5 DEF Gives
<1> QED
  BY <1>7, <1>8 DEF S, T, f, g

-----------------------------------------------------------------------------

\* What the books say of one user.
UserBooks(u) ==
  /\ Countable(Open(u), Price) /\ Countable(Charged(u), Price)
  /\ Countable(CompletedFor(u), PayoutOf) /\ Countable(ConfirmedFor(u), Amount)
  /\ wallet[u].held = Total(Open(u), Price)
  /\ wallet[u].spent = Total(Charged(u), Price)
  /\ wallet[u].earned = Total(CompletedFor(u), PayoutOf)
  /\ wallet[u].balance + Total(Charged(u), Price) =
       Total(ConfirmedFor(u), Amount) + Total(CompletedFor(u), PayoutOf)

Books == \A u \in Users : UserBooks(u)

\* The books, user by user.
LEMMA BooksByUser == BooksInv <=> TypeOK /\ PartiesNamed /\ Books
BY DEF BooksInv, BooksFinite, EscrowBacked, LifetimeTotals, MoneyConserved,
       Books, UserBooks

\* The columns of a wallet are naturals, and so are its totals.
LEMMA UserNumbers ==
  ASSUME TypeOK, NEW u \in Users, UserBooks(u)
  PROVE  /\ wallet[u] \in Wallet
         /\ wallet[u].balance \in Nat /\ wallet[u].held \in Nat
         /\ wallet[u].earned \in Nat /\ wallet[u].spent \in Nat
         /\ Total(Open(u), Price) \in Nat
         /\ Total(Charged(u), Price) \in Nat
         /\ Total(CompletedFor(u), PayoutOf) \in Nat
         /\ Total(ConfirmedFor(u), Amount) \in Nat
BY TotalNat DEF TypeOK, Wallet, UserBooks

\* What a row contributes is a natural number.
LEMMA ShareTypes ==
  ASSUME NEW u
  PROVE  /\ \A row \in JobRow : /\ \A S : Owes(row, u, S) \in Nat
                               /\ Earns(row, u) \in Nat
         /\ \A row \in RequestRow : Gives(row, u) \in Nat
<1>1. \A row \in JobRow : row.price \in Nat
  BY DEF JobRow
<1>2. \A row \in JobRow : Payout(row.price) \in Nat
  BY <1>1, Split
<1>3. \A row \in RequestRow : row.amount \in Nat
  BY DEF RequestRow
<1> QED
  BY <1>1, <1>2, <1>3 DEF Owes, Earns, Gives

(***************************************************************************)
(* A step on the row of job j keeps the books if each wallet moves by what *)
(* that row's contributions to its user's totals change.                   *)
(***************************************************************************)
Follows(u, old, new) ==
  LET open == Owes(new, u, OpenStatus) - Owes(old, u, OpenStatus)
      charge == Owes(new, u, ChargedStatus) - Owes(old, u, ChargedStatus)
      earn == Earns(new, u) - Earns(old, u)
  IN  /\ wallet'[u].held = wallet[u].held + open
      /\ wallet'[u].spent = wallet[u].spent + charge
      /\ wallet'[u].earned = wallet[u].earned + earn
      /\ wallet'[u].balance = wallet[u].balance - charge + earn

\* If so, the books of every user still agree after the step.
LEMMA JobStepKeepsBooks ==
  ASSUME TypeOK, TypeOK', Books, NEW j \in Jobs,
         \A k \in Jobs \ {j} : job'[k] = job[k], request' = request,
         \A u \in Users : Follows(u, job[j], job'[j])
  PROVE  Books'
<1> SUFFICES ASSUME NEW u \in Users
             PROVE  UserBooks(u)'
  BY DEF Books
<1>1. UserBooks(u)
  BY DEF Books
<1>2. /\ Countable(Open(u), Price)'
      /\ Total(Open(u), Price)' =
           Total(Open(u), Price)
             + Owes(job'[j], u, OpenStatus) - Owes(job[j], u, OpenStatus)
  BY <1>1, PostedMoves DEF Open, UserBooks
<1>3. /\ Countable(Charged(u), Price)'
      /\ Total(Charged(u), Price)' =
           Total(Charged(u), Price)
             + Owes(job'[j], u, ChargedStatus) - Owes(job[j], u, ChargedStatus)
  BY <1>1, PostedMoves DEF Charged, UserBooks
<1>4. /\ Countable(CompletedFor(u), PayoutOf)'
      /\ Total(CompletedFor(u), PayoutOf)' =
           Total(CompletedFor(u), PayoutOf)
             + Earns(job'[j], u) - Earns(job[j], u)
  BY <1>1, CompletedMoves DEF UserBooks
<1>5. /\ Countable(ConfirmedFor(u), Amount)'
      /\ Total(ConfirmedFor(u), Amount)' = Total(ConfirmedFor(u), Amount)
  BY <1>1 DEF UserBooks, ConfirmedFor, Amount
<1>6. job[j] \in JobRow /\ job'[j] \in JobRow
  BY DEF TypeOK
<1> DEFINE o == Owes(job[j], u, OpenStatus)
           oo == Owes(job'[j], u, OpenStatus)
           c == Owes(job[j], u, ChargedStatus)
           cc == Owes(job'[j], u, ChargedStatus)
           p == Earns(job[j], u)
           pp == Earns(job'[j], u)
<1>7. /\ o \in Nat /\ oo \in Nat /\ c \in Nat /\ cc \in Nat
      /\ p \in Nat /\ pp \in Nat
  BY <1>6, ShareTypes
<1>8. /\ wallet'[u].held = wallet[u].held + (oo - o)
      /\ wallet'[u].spent = wallet[u].spent + (cc - c)
      /\ wallet'[u].earned = wallet[u].earned + (pp - p)
      /\ wallet'[u].balance = wallet[u].balance - (cc - c) + (pp - p)
  BY DEF Follows
<1> HIDE DEF o, oo, c, cc, p, pp
<1>9. /\ wallet[u].balance \in Nat /\ wallet[u].held \in Nat
      /\ wallet[u].earned \in Nat /\ wallet[u].spent \in Nat
      /\ Total(Open(u), Price) \in Nat
      /\ Total(Charged(u), Price) \in Nat
      /\ Total(CompletedFor(u), PayoutOf) \in Nat
      /\ Total(ConfirmedFor(u), Amount) \in Nat
  BY <1>1, UserNumbers
<1>10. /\ Total(Open(u), Price)' = Total(Open(u), Price) + oo - o
       /\ Total(Charged(u), Price)' = Total(Charged(u), Price) + cc - c
       /\ Total(CompletedFor(u), PayoutOf)' =
            Total(CompletedFor(u), PayoutOf) + pp - p
  BY <1>2, <1>3, <1>4 DEF o, oo, c, cc, p, pp
<1>11. /\ wallet[u].held = Total(Open(u), Price)
       /\ wallet[u].spent = Total(Charged(u), Price)
       /\ wallet[u].earned = Total(CompletedFor(u), PayoutOf)
       /\ wallet[u].balance + Total(Charged(u), Price) =
            Total(ConfirmedFor(u), Amount) + Total(CompletedFor(u), PayoutOf)
  BY <1>1 DEF UserBooks
<1>12. /\ wallet'[u].held = Total(Open(u), Price)'
       /\ wallet'[u].spent = Total(Charged(u), Price)'
       /\ wallet'[u].earned = Total(CompletedFor(u), PayoutOf)'
  BY <1>7, <1>8, <1>9, <1>10, <1>11
<1>13. wallet'[u].balance + Total(Charged(u), Price)' =
         Total(ConfirmedFor(u), Amount)' + Total(CompletedFor(u), PayoutOf)'
  BY <1>5, <1>7, <1>8, <1>9, <1>10, <1>11
<1> QED
  BY <1>2, <1>3, <1>4, <1>5, <1>12, <1>13 DEF UserBooks
-----------------------------------------------------------------------------
(* One lemma per call: each keeps the books. *)

\* create_job moves the price from the balance into escrow.
LEMMA CreateJobBooks ==
  ASSUME TypeOK, TypeOK', Books, NEW e \in Employers, NEW j \in Jobs,
         NEW price \in Prices, CreateJob(e, j, price)
  PROVE  Books'
<1>1. price \in Nat /\ e \in Users
  BY MoneyAssumption DEF Users
<1>2. /\ job[j].status = "absent"
      /\ job'[j] = [status |-> "created", employer |-> e,
                    worker |-> NoUser, price |-> price]
      /\ \A k \in Jobs \ {j} : job'[k] = job[k]
      /\ request' = request
  BY DEF CreateJob, TypeOK
<1>3. ASSUME NEW u \in Users
      PROVE  Follows(u, job[j], job'[j])
  <2>1. /\ Owes(job[j], u, OpenStatus) = 0
        /\ Owes(job[j], u, ChargedStatus) = 0
        /\ Earns(job[j], u) = 0 /\ Earns(job'[j], u) = 0
    BY <1>2 DEF Owes, Earns, OpenStatus, ChargedStatus
  <2>2. /\ Owes(job'[j], u, OpenStatus) = IF u = e THEN price ELSE 0
        /\ Owes(job'[j], u, ChargedStatus) = IF u = e THEN price ELSE 0
    BY <1>2 DEF Owes, OpenStatus, ChargedStatus
  <2>3. wallet[u] \in Wallet
    BY DEF TypeOK
  <2>4. wallet'[u] = IF u = e THEN Deducted(wallet[u], price) ELSE wallet[u]
    BY DEF CreateJob, TypeOK
  <2>5. CASE u = e
    BY <1>1, <2>1, <2>2, <2>3, <2>4, <2>5, DeductedRow DEF Follows, Wallet
  <2>6. CASE u # e
    BY <2>1, <2>2, <2>3, <2>4, <2>6 DEF Follows, Wallet
  <2> QED
    BY <2>5, <2>6
<1> QED
  BY <1>2, <1>3, JobStepKeepsBooks

\* accept_job and start_job move a job within the open states.
LEMMA OpenStepBooks ==
  ASSUME TypeOK, TypeOK', Books, NEW j \in Jobs, NEW w \in Workers,
         AcceptJob(j, w) \/ StartJob(j, w)
  PROVE  Books'
<1>1. /\ \A k \in Jobs \ {j} : job'[k] = job[k]
      /\ request' = request /\ wallet' = wallet
      /\ job'[j].employer = job[j].employer /\ job'[j].price = job[j].price
      /\ job[j].status \in OpenStatus /\ job'[j].status \in OpenStatus
  BY DEF AcceptJob, StartJob, TypeOK, JobRow, OpenStatus
<1>2. ASSUME NEW u \in Users
      PROVE  Follows(u, job[j], job'[j])
  <2>1. /\ Owes(job'[j], u, OpenStatus) = Owes(job[j], u, OpenStatus)
        /\ Owes(job'[j], u, ChargedStatus) = Owes(job[j], u, ChargedStatus)
    BY <1>1 DEF Owes, ChargedStatus
  <2>2. Earns(job'[j], u) = 0 /\ Earns(job[j], u) = 0
    BY <1>1 DEF Earns, OpenStatus
  <2>3. wallet[u] \in Wallet /\ job[j] \in JobRow
    BY DEF TypeOK
  <2>4. /\ Owes(job[j], u, OpenStatus) \in Nat
        /\ Owes(job[j], u, ChargedStatus) \in Nat
    BY <2>3, ShareTypes
  <2> QED
    BY <1>1, <2>1, <2>2, <2>3, <2>4 DEF Follows, Wallet
<1> QED
  BY <1>1, <1>2, JobStepKeepsBooks

\* complete_job releases the price and credits the payout.
LEMMA CompleteJobBooks ==
  ASSUME TypeOK, TypeOK', Books, NEW j \in Jobs, NEW e \in Employers,
         CompleteJob(j, e)
  PROVE  Books'
<1> DEFINE w == job[j].worker
           price == job[j].price
<1>1. /\ price \in Nat /\ e \in Users /\ w \in Users /\ e # w
      /\ Payout(price) \in Nat
  BY RolesAssumption, Split DEF Users, CompleteJob, TypeOK, JobRow
<1>2. /\ job[j].status = "in_progress" /\ job[j].employer = e
      /\ job'[j].status = "completed" /\ job'[j].employer = e
      /\ job'[j].worker = w /\ job'[j].price = price
      /\ \A k \in Jobs \ {j} : job'[k] = job[k]
      /\ request' = request
  BY DEF CompleteJob, TypeOK, JobRow
<1>3. wallet' = [wallet EXCEPT ![e] = Released(wallet[e], price),
                               ![w] = PaidOut(wallet[w], Payout(price))]
  BY <1>1 DEF CompleteJob, TypeOK
<1> HIDE DEF w, price
<1>4. ASSUME NEW u \in Users
      PROVE  Follows(u, job[j], job'[j])
  <2>1. /\ Owes(job[j], u, OpenStatus) = IF u = e THEN price ELSE 0
        /\ Owes(job[j], u, ChargedStatus) = IF u = e THEN price ELSE 0
        /\ Earns(job[j], u) = 0
    BY <1>2 DEF Owes, Earns, OpenStatus, ChargedStatus, price
  <2>2. /\ Owes(job'[j], u, OpenStatus) = 0
        /\ Owes(job'[j], u, ChargedStatus) = IF u = e THEN price ELSE 0
        /\ Earns(job'[j], u) = IF u = w THEN Payout(price) ELSE 0
    BY <1>2 DEF Owes, Earns, OpenStatus, ChargedStatus
  <2>3. wallet[u] \in Wallet
    BY DEF TypeOK
  <2>4. CASE u = e
    <3>1. wallet'[u] = Released(wallet[u], price)
      BY <1>1, <1>3, <2>4 DEF TypeOK
    <3> QED
      BY <1>1, <2>1, <2>2, <2>3, <2>4, <3>1, ReleasedRow DEF Follows, Wallet
  <2>5. CASE u = w
    <3>1. wallet'[u] = PaidOut(wallet[u], Payout(price))
      BY <1>1, <1>3, <2>5 DEF TypeOK
    <3>2. /\ wallet'[u].balance = wallet[u].balance + Payout(price)
          /\ wallet'[u].held = wallet[u].held
          /\ wallet'[u].earned = wallet[u].earned + Payout(price)
          /\ wallet'[u].spent = wallet[u].spent
      BY <1>1, <2>3, <3>1, PaidOutRow
    <3>3. /\ wallet[u].balance \in Nat /\ wallet[u].held \in Nat
          /\ wallet[u].earned \in Nat /\ wallet[u].spent \in Nat
      BY <2>3 DEF Wallet
    <3>4. u # e
      BY <1>1, <2>5
    <3> QED
      BY <1>1, <2>1, <2>2, <2>5, <3>2, <3>3, <3>4 DEF Follows
  <2>6. CASE u # e /\ u # w
    <3>1. wallet'[u] = wallet[u]
      BY <1>3, <2>6 DEF TypeOK
    <3> QED
      BY <2>1, <2>2, <2>3, <2>6, <3>1 DEF Follows, Wallet
  <2> QED
    BY <2>4, <2>5, <2>6
<1> QED
  BY <1>2, <1>4, JobStepKeepsBooks

\* Here the books are used: the held balance and the lifetime total cover
\* the price of an open job, so its refund is the whole of it.
LEMMA RefundIsWhole ==
  ASSUME TypeOK, PartiesNamed, Books, NEW j \in Jobs,
         job[j].status \in OpenStatus
  PROVE  LET e == job[j].employer
             price == job[j].price
         IN  /\ e \in Users /\ price \in Nat /\ wallet[e] \in Wallet
             /\ price <= wallet[e].held /\ price <= wallet[e].spent
             /\ Refundable(wallet[e], price) = price
<1> DEFINE e == job[j].employer
           price == job[j].price
<1>1. e \in Users /\ price \in Nat
  BY DEF PartiesNamed, OpenStatus, TypeOK, JobRow, Users
<1>2. wallet[e] \in Wallet
  BY <1>1 DEF TypeOK
<1>3. Price \in [Jobs -> Nat] /\ Price[j] = price
  BY AmountTypes DEF Price, TypeOK
<1>4. /\ j \in Open(e) /\ j \in Charged(e)
      /\ Open(e) \in SUBSET Jobs /\ Charged(e) \in SUBSET Jobs
  BY DEF Open, Charged, PostedBy, ChargedStatus
<1>5. /\ Countable(Open(e), Price) /\ Countable(Charged(e), Price)
      /\ wallet[e].held = Total(Open(e), Price)
      /\ wallet[e].spent = Total(Charged(e), Price)
  BY <1>1 DEF Books, UserBooks
<1>6. Price[j] <= Total(Open(e), Price)
  BY <1>3, <1>4, <1>5, TotalAtLeast
<1>7. Price[j] <= Total(Charged(e), Price)
  BY <1>3, <1>4, <1>5, TotalAtLeast
<1> QED
  BY <1>1, <1>2, <1>3, <1>5, <1>6, <1>7 DEF Refundable

\* cancel_job gives it back.
LEMMA CancelJobBooks ==
  ASSUME TypeOK, TypeOK', PartiesNamed, Books, NEW j \in Jobs, NEW v \in Users,
         CancelJob(j, v)
  PROVE  Books'
<1> DEFINE e == job[j].employer
           price == job[j].price
<1>1. /\ job[j].status \in OpenStatus
      /\ job'[j].status = "cancelled" /\ job'[j].employer = e
      /\ \A k \in Jobs \ {j} : job'[k] = job[k]
      /\ request' = request
      /\ wallet' = [wallet EXCEPT ![e] = Refunded(wallet[e], price)]
  BY DEF CancelJob, TypeOK, JobRow
<1>2. /\ e \in Users /\ price \in Nat
      /\ Refundable(wallet[e], price) = price
  BY <1>1, RefundIsWhole
<1>3. wallet[e] \in Wallet
  BY <1>2 DEF TypeOK
<1>4. price <= wallet[e].held /\ price <= wallet[e].spent
  BY <1>1, RefundIsWhole
<1>5. Refunded(wallet[e], price) =
        [balance |-> wallet[e].balance + price,
         held |-> wallet[e].held - price, earned |-> wallet[e].earned,
         spent |-> wallet[e].spent - price]
  <2>1. wallet[e].spent >= price
    BY <1>2, <1>3, <1>4 DEF Wallet
  <2> HIDE DEF e, price
  <2> QED
    BY <1>2, <1>3, <2>1, RefundedRow
<1>6. ASSUME NEW u \in Users
      PROVE  Follows(u, job[j], job'[j])
  <2>1. /\ Owes(job[j], u, OpenStatus) = IF u = e THEN price ELSE 0
        /\ Owes(job[j], u, ChargedStatus) = IF u = e THEN price ELSE 0
        /\ Earns(job[j], u) = 0
    BY <1>1 DEF Owes, Earns, OpenStatus, ChargedStatus
  <2>2. /\ Owes(job'[j], u, OpenStatus) = 0
        /\ Owes(job'[j], u, ChargedStatus) = 0
        /\ Earns(job'[j], u) = 0
    BY <1>1 DEF Owes, Earns, OpenStatus, ChargedStatus
  <2>3. wallet[u] \in Wallet
    BY DEF TypeOK
  <2>4. wallet'[u] = IF u = e THEN Refunded(wallet[e], price) ELSE wallet[u]
    BY <1>1 DEF TypeOK
  <2> HIDE DEF e, price
  <2>5. CASE u = e
    <3>1. wallet'[u] =
            [balance |-> wallet[u].balance + price,
             held |-> wallet[u].held - price, earned |-> wallet[u].earned,
             spent |-> wallet[u].spent - price]
      BY <1>5, <2>4, <2>5
    <3>2. /\ wallet'[u].balance = wallet[u].balance + price
          /\ wallet'[u].held = wallet[u].held - price
          /\ wallet'[u].earned = wallet[u].earned
          /\ wallet'[u].spent = wallet[u].spent - price
      BY <3>1
    <3>3. /\ wallet[u].balance \in Nat /\ wallet[u].held \in Nat
          /\ wallet[u].earned \in Nat /\ wallet[u].spent \in Nat
      BY <2>3 DEF Wallet
    <3> QED
      BY <1>2, <2>1, <2>2, <2>5, <3>2, <3>3 DEF Follows
  <2>6. CASE u # e
    BY <2>1, <2>2, <2>3, <2>4, <2>6 DEF Follows, Wallet
  <2> QED
    BY <2>5, <2>6
<1> QED
  BY <1>1, <1>6, JobStepKeepsBooks

\* initiate_deposit adds a pending request, which counts for nothing yet.
LEMMA InitiateDepositBooks ==
  ASSUME TypeOK, TypeOK', Books, NEW v \in Users, NEW r \in Requests,
         NEW amount \in Amounts, InitiateDeposit(v, r, amount)
  PROVE  Books'
<1> SUFFICES ASSUME NEW u \in Users
             PROVE  UserBooks(u)'
  BY DEF Books
<1>1. UserBooks(u)
  BY DEF Books
<1>2. /\ \A k \in Requests \ {r} : request'[k] = request[k]
      /\ request[r].status = "absent" /\ request'[r].status = "pending"
      /\ job' = job /\ wallet' = wallet
  BY DEF InitiateDeposit, TypeOK
<1>3. Gives(request[r], u) = 0 /\ Gives(request'[r], u) = 0
  BY <1>2 DEF Gives
<1>4. Total(ConfirmedFor(u), Amount) \in Nat
  BY <1>1, UserNumbers
<1>5. /\ Countable(ConfirmedFor(u), Amount)'
      /\ Total(ConfirmedFor(u), Amount)' =
           Total(ConfirmedFor(u), Amount) + 0 - 0
  BY <1>1, <1>2, <1>3, ConfirmedMoves DEF UserBooks
<1>6. Total(ConfirmedFor(u), Amount)' = Total(ConfirmedFor(u), Amount)
  BY <1>4, <1>5
<1> QED
  BY <1>1, <1>2, <1>5, <1>6
  DEF UserBooks, Open, Charged, PostedBy, CompletedFor, Price, PayoutOf

\* confirm_deposit credits the request's user, once it is pending no more.
LEMMA ConfirmDepositBooks ==
  ASSUME TypeOK, TypeOK', Books, PartiesNamed, NEW r \in Requests,
         ConfirmDeposit(r)
  PROVE  Books'
<1> DEFINE v == request[r].user
           amount == request[r].amount
<1>1. /\ \A k \in Requests \ {r} : request'[k] = request[k]
      /\ request[r].status = "pending" /\ request'[r].status = "completed"
      /\ request'[r].user = v /\ request'[r].amount = amount
      /\ job' = job
      /\ wallet' = [wallet EXCEPT ![v] = Deposited(wallet[v], amount)]
  BY DEF ConfirmDeposit, TypeOK, RequestRow
<1>2. v \in Users /\ amount \in Nat
  BY <1>1 DEF PartiesNamed, TypeOK, RequestRow
<1> SUFFICES ASSUME NEW u \in Users
             PROVE  UserBooks(u)'
  BY DEF Books
<1>3. UserBooks(u)
  BY DEF Books
<1>4. /\ Gives(request[r], u) = 0
      /\ Gives(request'[r], u) = IF u = v THEN amount ELSE 0
  BY <1>1 DEF Gives
<1> HIDE DEF v, amount
<1>5. /\ Countable(ConfirmedFor(u), Amount)'
      /\ Total(ConfirmedFor(u), Amount)' =
           Total(ConfirmedFor(u), Amount)
             + (IF u = v THEN amount ELSE 0) - 0
  BY <1>1, <1>3, <1>4, ConfirmedMoves DEF UserBooks
<1>6. /\ wallet'[u].held = wallet[u].held
      /\ wallet'[u].earned = wallet[u].earned
      /\ wallet'[u].spent = wallet[u].spent
      /\ wallet'[u].balance =
           wallet[u].balance + (IF u = v THEN amount ELSE 0)
  <2>1. wallet[u] \in Wallet
    BY DEF TypeOK
  <2>2. CASE u = v
    <3>1. wallet'[u] = Deposited(wallet[u], amount)
      BY <1>1, <2>2 DEF TypeOK
    <3> QED
      BY <1>2, <2>1, <2>2, <3>1, DepositedRow
  <2>3. CASE u # v
    BY <1>1, <2>1, <2>3 DEF TypeOK, Wallet
  <2> QED
    BY <2>2, <2>3
<1>7. /\ wallet[u].balance \in Nat
      /\ Total(Charged(u), Price) \in Nat
      /\ Total(CompletedFor(u), PayoutOf) \in Nat
      /\ Total(ConfirmedFor(u), Amount) \in Nat
  BY <1>3, UserNumbers
<1>8. wallet[u].balance + Total(Charged(u), Price) =
        Total(ConfirmedFor(u), Amount) + Total(CompletedFor(u), PayoutOf)
  BY <1>3 DEF UserBooks
<1>9. wallet'[u].balance + Total(Charged(u), Price) =
        Total(ConfirmedFor(u), Amount)' + Total(CompletedFor(u), PayoutOf)
  <2>1. (IF u = v THEN amount ELSE 0) \in Nat
    BY <1>2
  <2> QED
    BY <1>5, <1>6, <1>7, <1>8, <2>1
<1> QED
  BY <1>1, <1>3, <1>5, <1>6, <1>9
  DEF UserBooks, Open, Charged, PostedBy, CompletedFor, Price, PayoutOf

-----------------------------------------------------------------------------
(* The inductive invariant. *)

\* At first every total is empty.
LEMMA InitBooks == Init => BooksInv
<1> SUFFICES ASSUME Init
             PROVE  BooksInv
  OBVIOUS
<1>1. TypeOK
  BY InitTypeOK
<1>2. PartiesNamed
  BY DEF Init, PartiesNamed, NoJobRow, NoRequestRow
<1>3. ASSUME NEW u \in Users
      PROVE  UserBooks(u)
  <2>1. /\ Open(u) = {} /\ Charged(u) = {} /\ CompletedFor(u) = {}
        /\ ConfirmedFor(u) = {}
    BY DEF Init, Open, Charged, PostedBy, CompletedFor, ConfirmedFor,
           OpenStatus, ChargedStatus, NoJobRow, NoRequestRow
  <2>2. \A f : Countable({}, f) /\ Total({}, f) = 0
    BY TotalEmpty
  <2>3. wallet[u] = [balance |-> 0, held |-> 0, earned |-> 0, spent |-> 0]
    BY DEF Init, EmptyWallet
  <2> QED
    BY <2>1, <2>2, <2>3 DEF UserBooks
<1> QED
  BY <1>1, <1>2, <1>3, BooksByUser DEF Books

\* No step takes a party away from a row.
LEMMA NextPartiesNamed ==
  ASSUME TypeOK, PartiesNamed, Next
  PROVE  PartiesNamed'
<1>1. CASE JobStep
  <2>1. PICK j \in Jobs :
          \/ \E e \in Employers, price \in Prices : CreateJob(e, j, price)
          \/ \E w \in Workers : AcceptJob(j, w) \/ StartJob(j, w)
          \/ \E e \in Employers : CompleteJob(j, e)
          \/ \E u \in Users : CancelJob(j, u)
    BY <1>1 DEF JobStep
  <2>2. request' = request /\ \A k \in Jobs \ {j} : job'[k] = job[k]
    BY <2>1 DEF CreateJob, AcceptJob, StartJob, CompleteJob, CancelJob, TypeOK
  <2>3. /\ job'[j].employer \in Employers
        /\ job'[j].status \in {"accepted", "in_progress", "completed"} =>
             job'[j].worker \in Workers
    <3>1. CASE \E e \in Employers, price \in Prices : CreateJob(e, j, price)
      BY <3>1 DEF CreateJob, TypeOK
    <3>2. CASE \E w \in Workers : AcceptJob(j, w)
      BY <3>2 DEF AcceptJob, TypeOK, JobRow, PartiesNamed
    <3>3. CASE \E w \in Workers : StartJob(j, w)
      BY <3>3 DEF StartJob, TypeOK, JobRow, PartiesNamed
    <3>4. CASE \E e \in Employers : CompleteJob(j, e)
      BY <3>4 DEF CompleteJob, TypeOK, JobRow, PartiesNamed
    <3>5. CASE \E u \in Users : CancelJob(j, u)
      BY <3>5 DEF CancelJob, TypeOK, JobRow, PartiesNamed, OpenStatus
    <3> QED
      BY <2>1, <3>1, <3>2, <3>3, <3>4, <3>5
  <2> QED
    BY <2>2, <2>3 DEF PartiesNamed
<1>2. CASE DepositStep
  <2>1. PICK r \in Requests :
          \/ \E u \in Users, amount \in Amounts : InitiateDeposit(u, r, amount)
          \/ ConfirmDeposit(r)
    BY <1>2 DEF DepositStep
  <2>2. job' = job /\ \A k \in Requests \ {r} : request'[k] = request[k]
    BY <2>1 DEF InitiateDeposit, ConfirmDeposit, TypeOK
  <2>3. request'[r].user \in Users
    <3>1. CASE \E u \in Users, amount \in Amounts : InitiateDeposit(u, r, amount)
      BY <3>1 DEF InitiateDeposit, TypeOK
    <3>2. CASE ConfirmDeposit(r)
      BY <3>2 DEF ConfirmDeposit, TypeOK, RequestRow, PartiesNamed
    <3> QED
      BY <2>1, <3>1, <3>2
  <2> QED
    BY <2>2, <2>3 DEF PartiesNamed
<1> QED
  BY <1>1, <1>2 DEF Next

\* Every step keeps the inductive invariant.
LEMMA NextBooks == BooksInv /\ [Next]_vars => BooksInv'
<1> SUFFICES ASSUME BooksInv, [Next]_vars
             PROVE  BooksInv'
  OBVIOUS
<1>1. TypeOK /\ PartiesNamed /\ Books
  BY BooksByUser
<1>2. CASE UNCHANGED vars
  BY <1>2, ZenonT(30) DEF vars, BooksInv, TypeOK, PartiesNamed, BooksFinite,
              EscrowBacked, LifetimeTotals, MoneyConserved, Open, Charged,
              PostedBy, CompletedFor, ConfirmedFor, Price, PayoutOf, Amount
<1>3. CASE Next
  <2>1. TypeOK' /\ PartiesNamed'
    BY <1>1, <1>3, NextTypeOK, NextPartiesNamed
  <2>2. ASSUME JobStep
        PROVE  Books'
    BY <1>1, <2>1, <2>2, CreateJobBooks, OpenStepBooks, CompleteJobBooks,
       CancelJobBooks DEF JobStep
  <2>3. ASSUME DepositStep
        PROVE  Books'
    BY <1>1, <2>1, <2>3, InitiateDepositBooks, ConfirmDepositBooks
    DEF DepositStep
  <2>4. Books'
    BY <1>3, <2>2, <2>3 DEF Next
  <2> QED
    BY <2>1, <2>4 DEF BooksInv, BooksFinite, EscrowBacked, LifetimeTotals,
                      MoneyConserved, Books, UserBooks
<1> QED
  BY <1>2, <1>3

(***************************************************************************)
(* The books always agree with the jobs and the deposits, whatever calls   *)
(* are made and in whatever order.                                         *)
(***************************************************************************)
THEOREM BooksAlwaysAgree == Spec => []BooksInv
BY InitBooks, NextBooks, PTL DEF Spec

(***************************************************************************)
(* The money of every open job is in escrow and no other is: the held      *)
(* balances of WalletService follow the job statuses of JobService.        *)
(***************************************************************************)
THEOREM EscrowAlwaysBacked == Spec => []EscrowBacked
<1>1. BooksInv => EscrowBacked
  BY DEF BooksInv
<1> QED
  BY <1>1, BooksAlwaysAgree, PTL

\* The lifetime counters total_spent and total_earned never drift.
THEOREM LifetimeTotalsHold == Spec => []LifetimeTotals
<1>1. BooksInv => LifetimeTotals
  BY DEF BooksInv
<1> QED
  BY <1>1, BooksAlwaysAgree, PTL

\* No call of the job and deposit services mints or loses a tiyin.
THEOREM MoneyIsConserved == Spec => []MoneyConserved
<1>1. BooksInv => MoneyConserved
  BY DEF BooksInv
<1> QED
  BY <1>1, BooksAlwaysAgree, PTL

-----------------------------------------------------------------------------
(* What the ledger should hold, said of any rows, without sets of indices. *)

Matches(entry, type, x) == entry.type = type /\ entry.about = x

NeverBooked(rows, type, x) ==
  \A u \in Users : \A i \in 1 .. Len(rows[u]) : ~Matches(rows[u][i], type, x)

OnceBooked(rows, type, x, v, amount) ==
  /\ v \in Users
  /\ \E i \in 1 .. Len(rows[v]) :
       /\ Matches(rows[v][i], type, x) /\ rows[v][i].amount = amount
       /\ \A u \in Users : \A k \in 1 .. Len(rows[u]) :
            Matches(rows[u][k], type, x) => u = v /\ k = i

Recorded(rows, condition, type, x, v, amount) ==
  IF condition THEN OnceBooked(rows, type, x, v, amount)
               ELSE NeverBooked(rows, type, x)

SettledJob(rows, row, j) ==
  /\ Recorded(rows, row.status # "absent", "job_payment", j,
              row.employer, row.price)
  /\ Recorded(rows, row.status = "completed", "commission", j,
              row.employer, JobCommission(row.price))
  /\ Recorded(rows, row.status = "completed", "job_release", j,
              row.worker, Payout(row.price))
  /\ Recorded(rows, row.status = "cancelled", "refund", j,
              row.employer, row.price)

CreditedRequest(rows, row, r) ==
  Recorded(rows, row.status = "completed", "deposit", r, row.user, row.amount)

\* The rows of one wallet chain from zero to its balance.
Chained(rows, balance) ==
  /\ \A i \in 1 .. Len(rows) :
       rows[i].before = IF i = 1 THEN 0 ELSE rows[i - 1].after
  /\ balance = IF Len(rows) = 0 THEN 0 ELSE rows[Len(rows)].after

LedgerBooks ==
  /\ \A u \in Users : Chained(ledger[u], wallet[u].balance)
  /\ \A j \in Jobs : SettledJob(ledger, job[j], j)
  /\ \A r \in Requests : CreditedRequest(ledger, request[r], r)

\* A job that does not exist yet has no worker.
NobodyYet ==
  \A j \in Jobs : job[j].status = "absent" => job[j].worker = NoUser

\* The inductive invariant behind the properties of the ledger.
LedgerInv == BooksInv /\ NobodyYet /\ LedgerBooks

-----------------------------------------------------------------------------
(* What one more row does. *)

Ledgers == [Users -> Seq(LedgerEntry)]

Booking(rows, v, entry) == [rows EXCEPT ![v] = Append(@, entry)]

\* A row is added to one ledger, at its end.
LEMMA BookingRows ==
  ASSUME NEW rows \in Ledgers, NEW v \in Users, NEW entry \in LedgerEntry
  PROVE  /\ Booking(rows, v, entry) \in Ledgers
         /\ Len(Booking(rows, v, entry)[v]) = Len(rows[v]) + 1
         /\ Booking(rows, v, entry)[v][Len(rows[v]) + 1] = entry
         /\ \A i \in 1 .. Len(rows[v]) :
              Booking(rows, v, entry)[v][i] = rows[v][i]
         /\ \A u \in Users \ {v} : Booking(rows, v, entry)[u] = rows[u]
         /\ \A u \in Users : Len(rows[u]) \in Nat
<1>1. rows[v] \in Seq(LedgerEntry)
  BY DEF Ledgers
<1>2. /\ Append(rows[v], entry) \in Seq(LedgerEntry)
      /\ Len(Append(rows[v], entry)) = Len(rows[v]) + 1
      /\ Append(rows[v], entry)[Len(rows[v]) + 1] = entry
      /\ \A i \in 1 .. Len(rows[v]) : Append(rows[v], entry)[i] = rows[v][i]
  BY <1>1
<1>3. Booking(rows, v, entry)[v] = Append(rows[v], entry)
  BY DEF Booking, Ledgers
<1>4. Booking(rows, v, entry) \in Ledgers
  BY <1>2 DEF Booking, Ledgers
<1>5. \A u \in Users \ {v} : Booking(rows, v, entry)[u] = rows[u]
  BY DEF Booking, Ledgers
<1>6. \A u \in Users : Len(rows[u]) \in Nat
  BY DEF Ledgers
<1> QED
  BY <1>2, <1>3, <1>4, <1>5, <1>6

\* A row about something else changes nothing of what is recorded,
LEMMA OtherRow ==
  ASSUME NEW rows \in Ledgers, NEW v \in Users, NEW entry \in LedgerEntry,
         NEW type, NEW x, ~Matches(entry, type, x),
         NEW condition \in BOOLEAN, NEW u, NEW amount,
         Recorded(rows, condition, type, x, u, amount)
  PROVE  Recorded(Booking(rows, v, entry), condition, type, x, u, amount)
<1> DEFINE new == Booking(rows, v, entry)
<1>1. \A t \in Users : \A k \in 1 .. Len(new[t]) :
        \/ t = v /\ k = Len(rows[v]) + 1 /\ new[t][k] = entry
        \/ k \in 1 .. Len(rows[t]) /\ new[t][k] = rows[t][k]
  BY BookingRows, SMTT(30)
<1>2. \A t \in Users : \A k \in 1 .. Len(rows[t]) :
        k \in 1 .. Len(new[t]) /\ new[t][k] = rows[t][k]
  BY BookingRows, SMTT(30)
<1> HIDE DEF new
<1>3. CASE condition
  <2>1. OnceBooked(rows, type, x, u, amount)
    BY <1>3 DEF Recorded
  <2>2. PICK i \in 1 .. Len(rows[u]) :
          /\ Matches(rows[u][i], type, x) /\ rows[u][i].amount = amount
          /\ \A t \in Users : \A k \in 1 .. Len(rows[t]) :
               Matches(rows[t][k], type, x) => t = u /\ k = i
    BY <2>1 DEF OnceBooked
  <2>3. u \in Users
    BY <2>1 DEF OnceBooked
  <2>4. /\ i \in 1 .. Len(new[u])
        /\ Matches(new[u][i], type, x) /\ new[u][i].amount = amount
    BY <1>2, <2>2, <2>3
  <2>5. \A t \in Users : \A k \in 1 .. Len(new[t]) :
          Matches(new[t][k], type, x) => t = u /\ k = i
    BY <1>1, <2>2
  <2>6. OnceBooked(new, type, x, u, amount)
    BY <2>3, <2>4, <2>5 DEF OnceBooked
  <2> QED
    BY <1>3, <2>6 DEF Recorded, new
<1>4. CASE ~condition
  <2>1. NeverBooked(new, type, x)
    BY <1>1, <1>4 DEF NeverBooked, Recorded
  <2> QED
    BY <1>4, <2>1 DEF Recorded, new
<1> QED
  BY <1>3, <1>4

\* and the first row of its kind is recorded once.
LEMMA FirstRow ==
  ASSUME NEW rows \in Ledgers, NEW v \in Users, NEW entry \in LedgerEntry,
         NEW type, NEW x, Matches(entry, type, x), NeverBooked(rows, type, x)
  PROVE  OnceBooked(Booking(rows, v, entry), type, x, v, entry.amount)
<1> DEFINE new == Booking(rows, v, entry)
           n == Len(rows[v]) + 1
<1>1. n \in 1 .. Len(new[v]) /\ new[v][n] = entry
  BY BookingRows
<1>2. \A u \in Users : \A k \in 1 .. Len(new[u]) :
        \/ u = v /\ k = n
        \/ k \in 1 .. Len(rows[u]) /\ new[u][k] = rows[u][k]
  BY BookingRows, SMTT(30)
<1> HIDE DEF new, n
<1>3. OnceBooked(new, type, x, v, entry.amount)
  BY <1>1, <1>2 DEF OnceBooked, NeverBooked
<1> QED
  BY <1>3 DEF new

\* A row that starts from the balance continues the chain.
LEMMA ChainGrows ==
  ASSUME NEW rows \in Ledgers, NEW v \in Users, NEW entry \in LedgerEntry,
         Chained(rows[v], entry.before)
  PROVE  Chained(Booking(rows, v, entry)[v], entry.after)
<1> DEFINE new == Booking(rows, v, entry)[v]
           old == rows[v]
<1>1. /\ Len(old) \in Nat /\ Len(new) = Len(old) + 1
      /\ new[Len(old) + 1] = entry
      /\ \A i \in 1 .. Len(old) : new[i] = old[i]
  BY BookingRows
<1>2. Chained(old, entry.before)
  OBVIOUS
<1> HIDE DEF new, old
<1>3. ASSUME NEW i \in 1 .. Len(new)
      PROVE  new[i].before = IF i = 1 THEN 0 ELSE new[i - 1].after
  <2>1. CASE i = Len(old) + 1
    BY <1>1, <1>2, <2>1 DEF Chained
  <2>2. CASE i # Len(old) + 1
    <3>1. i \in 1 .. Len(old) /\ new[i] = old[i]
      BY <1>1, <2>2
    <3>2. i # 1 => new[i - 1] = old[i - 1]
      BY <1>1, <3>1
    <3>3. old[i].before = IF i = 1 THEN 0 ELSE old[i - 1].after
      BY <1>2, <3>1 DEF Chained
    <3> QED
      BY <3>1, <3>2, <3>3
  <2> QED
    BY <2>1, <2>2
<1>4. Len(new) # 0 /\ new[Len(new)].after = entry.after
  BY <1>1
<1>5. Chained(new, entry.after)
  BY <1>3, <1>4 DEF Chained
<1> QED
  BY <1>5 DEF new

\* A row about job j, deposits apart, says nothing of the other jobs and of
\* the requests.
LEMMA OthersKeep ==
  ASSUME NEW rows \in Ledgers, NEW v \in Users, NEW entry \in LedgerEntry,
         NEW j, entry.about = j, entry.type # "deposit"
  PROVE  /\ \A row, k : k # j /\ SettledJob(rows, row, k) =>
              SettledJob(Booking(rows, v, entry), row, k)
         /\ \A row, r : CreditedRequest(rows, row, r) =>
              CreditedRequest(Booking(rows, v, entry), row, r)
<1>1. ASSUME NEW row, NEW k, k # j, SettledJob(rows, row, k)
      PROVE  SettledJob(Booking(rows, v, entry), row, k)
  <2>1. \A type : ~Matches(entry, type, k)
    BY <1>1 DEF Matches
  <2> QED
    BY <1>1, <2>1, OtherRow DEF SettledJob
<1>2. ASSUME NEW row, NEW r, CreditedRequest(rows, row, r)
      PROVE  CreditedRequest(Booking(rows, v, entry), row, r)
  <2>1. ~Matches(entry, "deposit", r)
    BY DEF Matches
  <2> QED
    BY <1>2, <2>1, OtherRow DEF CreditedRequest
<1> QED
  BY <1>1, <1>2

-----------------------------------------------------------------------------
(* One lemma per call. *)

\* A call on job j keeps the ledger explained if it does for j and leaves
\* what is recorded of everything else.
LEMMA JobStepKeepsLedger ==
  ASSUME TypeOK, LedgerBooks, NEW j \in Jobs,
         \A k \in Jobs \ {j} : job'[k] = job[k], request' = request,
         \A u \in Users : Chained(ledger'[u], wallet'[u].balance),
         SettledJob(ledger', job'[j], j),
         \A row, k : k # j /\ SettledJob(ledger, row, k) =>
           SettledJob(ledger', row, k),
         \A row, r : CreditedRequest(ledger, row, r) =>
           CreditedRequest(ledger', row, r)
  PROVE  LedgerBooks'
<1>1. \A k \in Jobs : SettledJob(ledger', job'[k], k)
  BY DEF LedgerBooks
<1>2. \A r \in Requests : CreditedRequest(ledger', request'[r], r)
  BY DEF LedgerBooks
<1> QED
  BY <1>1, <1>2 DEF LedgerBooks

\* A call that books one row, which starts from the balance of v's wallet
\* and ends at its new one.
LEMMA OneChainGrows ==
  ASSUME TypeOK, LedgerBooks, NEW v \in Users, NEW entry \in LedgerEntry,
         ledger' = Booking(ledger, v, entry),
         entry.before = wallet[v].balance, entry.after = wallet'[v].balance,
         \A u \in Users \ {v} : wallet'[u].balance = wallet[u].balance
  PROVE  \A u \in Users : Chained(ledger'[u], wallet'[u].balance)
<1>1. ledger \in Ledgers
  BY DEF TypeOK, Ledgers
<1>2. Chained(ledger'[v], wallet'[v].balance)
  BY <1>1, ChainGrows DEF LedgerBooks
<1>3. \A u \in Users \ {v} : ledger'[u] = ledger[u]
  BY <1>1, BookingRows
<1> QED
  BY <1>2, <1>3 DEF LedgerBooks

\* create_job books the price of the new job.
LEMMA CreateJobLedger ==
  ASSUME TypeOK, LedgerBooks, NEW e \in Employers, NEW j \in Jobs,
         NEW price \in Prices, CreateJob(e, j, price)
  PROVE  LedgerBooks'
<1> DEFINE entry == DeductEntry(wallet[e], price, j)
<1>1. price \in Nat /\ e \in Users /\ wallet[e] \in Wallet
  BY MoneyAssumption DEF Users, TypeOK
<1>2. /\ job[j].status = "absent"
      /\ job'[j] = [status |-> "created", employer |-> e,
                    worker |-> NoUser, price |-> price]
      /\ \A k \in Jobs \ {j} : job'[k] = job[k]
      /\ request' = request
      /\ ledger' = Booking(ledger, e, entry)
      /\ wallet' = [wallet EXCEPT ![e] = Deducted(wallet[e], price)]
  BY DEF CreateJob, Book, Booking, TypeOK
<1>3. Deducted(wallet[e], price).balance = wallet[e].balance - price
  BY <1>1, DeductedRow
<1>4. wallet[e].balance \in Nat /\ wallet[e].balance - price \in Nat
  BY <1>1 DEF CreateJob, Affords, Wallet
<1>5. /\ entry \in LedgerEntry
      /\ entry.type = "job_payment" /\ entry.about = j
      /\ entry.amount = price /\ entry.before = wallet[e].balance
      /\ entry.after = wallet[e].balance - price
  <2>1. entry \in LedgerEntry
    BY <1>1, <1>3, <1>4, EntryType DEF DeductEntry, Credits, Debits
  <2> QED
    BY <2>1, <1>3 DEF DeductEntry, Entry
<1> HIDE DEF entry
<1>6. /\ wallet'[e].balance = wallet[e].balance - price
      /\ \A u \in Users \ {e} : wallet'[u] = wallet[u]
  BY <1>1, <1>2, <1>3 DEF TypeOK
<1>7. \A u \in Users : Chained(ledger'[u], wallet'[u].balance)
  BY <1>1, <1>2, <1>5, <1>6, OneChainGrows
<1>8. ledger \in Ledgers
  BY DEF TypeOK, Ledgers
<1>9. SettledJob(ledger', job'[j], j)
  <2>1. /\ NeverBooked(ledger, "job_payment", j)
        /\ NeverBooked(ledger, "commission", j)
        /\ NeverBooked(ledger, "job_release", j)
        /\ NeverBooked(ledger, "refund", j)
    BY <1>2 DEF LedgerBooks, SettledJob, Recorded
  <2>2. OnceBooked(ledger', "job_payment", j, e, price)
    BY <1>1, <1>2, <1>5, <1>8, <2>1, FirstRow DEF Matches
  <2>3. ASSUME NEW type \in {"commission", "job_release", "refund"}
        PROVE  NeverBooked(ledger', type, j)
    <3>1. ~Matches(entry, type, j)
      BY <1>5 DEF Matches
    <3>2. Recorded(ledger, FALSE, type, j, e, price)
      BY <2>1 DEF Recorded
    <3>3. Recorded(ledger', FALSE, type, j, e, price)
      BY <1>1, <1>2, <1>5, <1>8, <3>1, <3>2, OtherRow
    <3> QED
      BY <3>3 DEF Recorded
  <2> QED
    BY <1>2, <2>2, <2>3 DEF SettledJob, Recorded
<1>10. /\ \A row, k : k # j /\ SettledJob(ledger, row, k) =>
            SettledJob(ledger', row, k)
       /\ \A row, r : CreditedRequest(ledger, row, r) =>
            CreditedRequest(ledger', row, r)
  BY <1>1, <1>2, <1>5, <1>8, OthersKeep
<1> QED
  BY <1>2, <1>7, <1>9, <1>10, JobStepKeepsLedger

\* accept_job and start_job book nothing.
LEMMA OpenStepLedger ==
  ASSUME TypeOK, LedgerBooks, NEW j \in Jobs, NEW w \in Workers,
         AcceptJob(j, w) \/ StartJob(j, w)
  PROVE  LedgerBooks'
<1>1. /\ \A k \in Jobs \ {j} : job'[k] = job[k]
      /\ request' = request /\ wallet' = wallet /\ ledger' = ledger
      /\ job'[j].employer = job[j].employer /\ job'[j].price = job[j].price
      /\ job[j].status \in OpenStatus /\ job'[j].status \in OpenStatus
  BY DEF AcceptJob, StartJob, TypeOK, JobRow, OpenStatus
<1>2. SettledJob(ledger', job'[j], j)
  BY <1>1 DEF LedgerBooks, SettledJob, Recorded, OpenStatus
<1> QED
  BY <1>1, <1>2, JobStepKeepsLedger DEF LedgerBooks

\* cancel_job books one refund, of the whole price.
LEMMA CancelJobLedger ==
  ASSUME TypeOK, PartiesNamed, Books, LedgerBooks, NEW j \in Jobs,
         NEW v \in Users, CancelJob(j, v)
  PROVE  LedgerBooks'
<1> DEFINE e == job[j].employer
           price == job[j].price
           entry == RefundEntry(wallet[e], price, j)
<1>1. /\ job[j].status \in OpenStatus
      /\ job'[j].status = "cancelled"
      /\ job'[j].employer = e /\ job'[j].price = price
      /\ \A k \in Jobs \ {j} : job'[k] = job[k]
      /\ request' = request
      /\ wallet' = [wallet EXCEPT ![e] = Refunded(wallet[e], price)]
      /\ ledger' = Booking(ledger, e, entry)
  BY DEF CancelJob, Book, Booking, TypeOK, JobRow
<1>2. /\ e \in Users /\ price \in Nat
      /\ Refundable(wallet[e], price) = price
  BY <1>1, RefundIsWhole
<1>3. wallet[e] \in Wallet
  BY <1>2 DEF TypeOK
<1> HIDE DEF e, price
<1>4. /\ Refunded(wallet[e], price).balance = wallet[e].balance + price
      /\ wallet[e].balance \in Nat
  BY <1>2, <1>3, RefundedRow DEF Wallet
<1>5. /\ entry \in LedgerEntry
      /\ entry.type = "refund" /\ entry.about = j
      /\ entry.amount = price /\ entry.before = wallet[e].balance
      /\ entry.after = wallet[e].balance + price
  <2>1. entry \in LedgerEntry
    BY <1>2, <1>4, EntryType DEF RefundEntry, Credits, Debits
  <2> QED
    BY <2>1, <1>2, <1>4 DEF RefundEntry, Entry
<1> HIDE DEF entry
<1>6. /\ wallet'[e].balance = wallet[e].balance + price
      /\ \A u \in Users \ {e} : wallet'[u] = wallet[u]
  BY <1>1, <1>2, <1>4 DEF TypeOK
<1>7. \A u \in Users : Chained(ledger'[u], wallet'[u].balance)
  BY <1>1, <1>2, <1>5, <1>6, OneChainGrows
<1>8. ledger \in Ledgers
  BY DEF TypeOK, Ledgers
<1>9. SettledJob(ledger', job'[j], j)
  <2>1. /\ Recorded(ledger, TRUE, "job_payment", j, e, price)
        /\ Recorded(ledger, FALSE, "commission", j, e, price)
        /\ Recorded(ledger, FALSE, "job_release", j, e, price)
        /\ NeverBooked(ledger, "refund", j)
    BY <1>1 DEF LedgerBooks, SettledJob, Recorded, OpenStatus, e, price
  <2>2. OnceBooked(ledger', "refund", j, e, price)
    BY <1>1, <1>2, <1>5, <1>8, <2>1, FirstRow DEF Matches
  <2>3. /\ ~Matches(entry, "job_payment", j)
        /\ ~Matches(entry, "commission", j)
        /\ ~Matches(entry, "job_release", j)
    BY <1>5 DEF Matches
  <2>4. /\ Recorded(ledger', TRUE, "job_payment", j, e, price)
        /\ Recorded(ledger', FALSE, "commission", j, e, price)
        /\ Recorded(ledger', FALSE, "job_release", j, e, price)
    BY <1>1, <1>2, <1>5, <1>8, <2>1, <2>3, OtherRow
  <2> QED
    BY <1>1, <2>2, <2>4 DEF SettledJob, Recorded
<1>10. /\ \A row, k : k # j /\ SettledJob(ledger, row, k) =>
            SettledJob(ledger', row, k)
       /\ \A row, r : CreditedRequest(ledger, row, r) =>
            CreditedRequest(ledger', row, r)
  BY <1>1, <1>2, <1>5, <1>8, OthersKeep
<1> QED
  BY <1>1, <1>7, <1>9, <1>10, JobStepKeepsLedger

\* complete_job books the commission and the payout, in two wallets, which
\* together are the price.
LEMMA CompleteJobLedger ==
  ASSUME TypeOK, LedgerBooks, NEW j \in Jobs, NEW e \in Employers,
         CompleteJob(j, e)
  PROVE  LedgerBooks'
<1> DEFINE w == job[j].worker
           price == job[j].price
           fee == CommissionEntry(wallet[e], price, j)
           pay == PayoutEntry(wallet[w], price, j)
           between == Booking(ledger, e, fee)
<1>1. /\ price \in Nat /\ e \in Users /\ w \in Users /\ e # w
      /\ wallet[e] \in Wallet /\ wallet[w] \in Wallet
  BY RolesAssumption DEF Users, CompleteJob, TypeOK, JobRow
<1>2. /\ job[j].status = "in_progress" /\ job[j].employer = e
      /\ job'[j].status = "completed" /\ job'[j].employer = e
      /\ job'[j].worker = w /\ job'[j].price = price
      /\ \A k \in Jobs \ {j} : job'[k] = job[k]
      /\ request' = request
  BY DEF CompleteJob, TypeOK, JobRow
<1>3. wallet' = [wallet EXCEPT ![e] = Released(wallet[e], price),
                               ![w] = PaidOut(wallet[w], Payout(price))]
  BY <1>1 DEF CompleteJob, TypeOK
<1>4. ledger' = Booking(between, w, pay)
  BY <1>1 DEF CompleteJob, TypeOK, Booking
<1> HIDE DEF w, price, fee, pay
<1>5. Payout(price) \in Nat /\ JobCommission(price) \in Nat
  BY <1>1, Split
<1>6. /\ Released(wallet[e], price).balance = wallet[e].balance
      /\ PaidOut(wallet[w], Payout(price)).balance =
           wallet[w].balance + Payout(price)
      /\ wallet[e].balance \in Nat /\ wallet[w].balance \in Nat
  <2>1. Released(wallet[e], price).balance = wallet[e].balance
    BY <1>1, ReleasedRow
  <2>2. PaidOut(wallet[w], Payout(price)).balance =
          wallet[w].balance + Payout(price)
    <3>1. \A row \in Wallet, amount \in Nat :
            PaidOut(row, amount).balance = row.balance + amount
      BY PaidOutRow
    <3> QED
      BY <1>1, <1>5, <3>1
  <2> QED
    BY <1>1, <2>1, <2>2 DEF Wallet
<1>7. /\ fee \in LedgerEntry
      /\ fee.type = "commission" /\ fee.about = j
      /\ fee.amount = JobCommission(price)
      /\ fee.before = wallet[e].balance /\ fee.after = wallet[e].balance
  <2>1. fee \in LedgerEntry
    BY <1>5, <1>6, EntryType DEF fee, CommissionEntry, Credits, Debits
  <2> QED
    BY <2>1 DEF fee, CommissionEntry, Entry
<1>8. /\ pay \in LedgerEntry
      /\ pay.type = "job_release" /\ pay.about = j
      /\ pay.amount = Payout(price)
      /\ pay.before = wallet[w].balance
      /\ pay.after = wallet[w].balance + Payout(price)
  <2>1. wallet[w].balance + Payout(price) \in Nat
    BY <1>5, <1>6
  <2>2. pay \in LedgerEntry
    BY <1>5, <1>6, <2>1, EntryType DEF pay, PayoutEntry, Credits, Debits
  <2> QED
    BY <1>6, <2>2 DEF pay, PayoutEntry, Entry
<1>9. ledger \in Ledgers
  BY DEF TypeOK, Ledgers
<1>10. /\ between \in Ledgers
       /\ \A u \in Users \ {e} : between[u] = ledger[u]
       /\ \A u \in Users \ {w} : ledger'[u] = between[u]
  <2>1. /\ between \in Ledgers
        /\ \A u \in Users \ {e} : between[u] = ledger[u]
    BY <1>1, <1>7, <1>9, BookingRows
  <2> HIDE DEF between
  <2> QED
    BY <1>1, <1>4, <1>8, <2>1, BookingRows
<1>11. ASSUME NEW u \in Users
       PROVE  Chained(ledger'[u], wallet'[u].balance)
  <2>1. Chained(ledger[u], wallet[u].balance)
    BY DEF LedgerBooks
  <2>2. CASE u = e
    <3>1. Chained(between[e], fee.after)
      BY <1>1, <1>7, <1>9, <2>1, <2>2, ChainGrows
    <3>2. wallet'[e].balance = wallet[e].balance
      BY <1>1, <1>3, <1>6 DEF TypeOK
    <3> QED
      BY <1>1, <1>7, <1>10, <2>2, <3>1, <3>2
  <2>3. CASE u = w
    <3>1. Chained(between[w], pay.before)
      BY <1>1, <1>8, <1>10, <2>1, <2>3
    <3>2. Chained(ledger'[w], pay.after)
      BY <1>1, <1>4, <1>8, <1>10, <3>1, ChainGrows
    <3>3. wallet'[w].balance = wallet[w].balance + Payout(price)
      BY <1>1, <1>3, <1>6 DEF TypeOK
    <3> QED
      BY <1>8, <2>3, <3>2, <3>3
  <2>4. CASE u # e /\ u # w
    BY <1>3, <1>10, <2>1, <2>4 DEF TypeOK
  <2> QED
    BY <2>2, <2>3, <2>4
<1>12. SettledJob(ledger', job'[j], j)
  <2>1. /\ Recorded(ledger, TRUE, "job_payment", j, e, price)
        /\ NeverBooked(ledger, "commission", j)
        /\ Recorded(ledger, FALSE, "job_release", j, w, price)
        /\ Recorded(ledger, FALSE, "refund", j, e, price)
    BY <1>2 DEF LedgerBooks, SettledJob, Recorded, price
  <2>2. /\ Recorded(between, TRUE, "job_payment", j, e, price)
        /\ Recorded(between, FALSE, "job_release", j, w, price)
        /\ Recorded(between, FALSE, "refund", j, e, price)
    <3>1. /\ ~Matches(fee, "job_payment", j)
          /\ ~Matches(fee, "job_release", j) /\ ~Matches(fee, "refund", j)
      BY <1>7 DEF Matches
    <3> QED
      BY <1>1, <1>7, <1>9, <2>1, <3>1, OtherRow
  <2>3. Recorded(between, TRUE, "commission", j, e, JobCommission(price))
    BY <1>1, <1>7, <1>9, <2>1, FirstRow DEF Matches, Recorded
  <2> HIDE DEF between
  <2>4. /\ Recorded(ledger', TRUE, "job_payment", j, e, price)
        /\ Recorded(ledger', TRUE, "commission", j, e, JobCommission(price))
        /\ Recorded(ledger', FALSE, "refund", j, e, price)
    <3>1. /\ ~Matches(pay, "job_payment", j)
          /\ ~Matches(pay, "commission", j) /\ ~Matches(pay, "refund", j)
      BY <1>8 DEF Matches
    <3> QED
      BY <1>1, <1>4, <1>8, <1>10, <2>2, <2>3, <3>1, OtherRow
  <2>5. Recorded(ledger', TRUE, "job_release", j, w, Payout(price))
    <3>1. NeverBooked(between, "job_release", j)
      BY <2>2 DEF Recorded
    <3> QED
      BY <1>1, <1>4, <1>8, <1>10, <3>1, FirstRow DEF Matches, Recorded
  <2> QED
    BY <1>2, <2>4, <2>5 DEF SettledJob, Recorded
<1>13. ASSUME NEW row, NEW k, k # j, SettledJob(ledger, row, k)
       PROVE  SettledJob(ledger', row, k)
  <2>1. SettledJob(between, row, k)
    BY <1>1, <1>7, <1>9, <1>13, OthersKeep
  <2> QED
    BY <1>1, <1>4, <1>8, <1>10, <1>13, <2>1, OthersKeep
<1>14. ASSUME NEW row, NEW r, CreditedRequest(ledger, row, r)
       PROVE  CreditedRequest(ledger', row, r)
  <2>1. CreditedRequest(between, row, r)
    BY <1>1, <1>7, <1>9, <1>14, OthersKeep
  <2> QED
    BY <1>1, <1>4, <1>8, <1>10, <2>1, OthersKeep
<1> QED
  BY <1>2, <1>11, <1>12, <1>13, <1>14, JobStepKeepsLedger

\* initiate_deposit books nothing.
LEMMA InitiateDepositLedger ==
  ASSUME TypeOK, LedgerBooks, NEW v \in Users, NEW r \in Requests,
         NEW amount \in Amounts, InitiateDeposit(v, r, amount)
  PROVE  LedgerBooks'
<1>1. /\ \A k \in Requests \ {r} : request'[k] = request[k]
      /\ request[r].status = "absent" /\ request'[r].status = "pending"
      /\ job' = job /\ wallet' = wallet /\ ledger' = ledger
  BY DEF InitiateDeposit, TypeOK
<1>2. CreditedRequest(ledger', request'[r], r)
  BY <1>1 DEF LedgerBooks, CreditedRequest, Recorded
<1> QED
  BY <1>1, <1>2 DEF LedgerBooks

\* confirm_deposit books the amount, once: the request is pending no more.
LEMMA ConfirmDepositLedger ==
  ASSUME TypeOK, PartiesNamed, LedgerBooks, NEW r \in Requests,
         ConfirmDeposit(r)
  PROVE  LedgerBooks'
<1> DEFINE v == request[r].user
           amount == request[r].amount
           entry == DepositEntry(wallet[v], amount, r)
<1>1. /\ \A k \in Requests \ {r} : request'[k] = request[k]
      /\ request[r].status = "pending" /\ request'[r].status = "completed"
      /\ request'[r].user = v /\ request'[r].amount = amount
      /\ job' = job
      /\ wallet' = [wallet EXCEPT ![v] = Deposited(wallet[v], amount)]
      /\ ledger' = Booking(ledger, v, entry)
  BY DEF ConfirmDeposit, Book, Booking, TypeOK, RequestRow
<1>2. v \in Users /\ amount \in Nat
  BY <1>1 DEF PartiesNamed, TypeOK, RequestRow
<1>3. wallet[v] \in Wallet
  BY <1>2 DEF TypeOK
<1> HIDE DEF v, amount
<1>4. /\ Deposited(wallet[v], amount).balance = wallet[v].balance + amount
      /\ wallet[v].balance \in Nat
  BY <1>2, <1>3, DepositedRow DEF Wallet
<1>5. /\ entry \in LedgerEntry
      /\ entry.type = "deposit" /\ entry.about = r
      /\ entry.amount = amount /\ entry.before = wallet[v].balance
      /\ entry.after = wallet[v].balance + amount
  <2>1. entry \in LedgerEntry
    BY <1>2, <1>4, EntryType DEF DepositEntry, Credits, Debits
  <2> QED
    BY <2>1, <1>4 DEF DepositEntry, Entry
<1> HIDE DEF entry
<1>6. /\ wallet'[v].balance = wallet[v].balance + amount
      /\ \A u \in Users \ {v} : wallet'[u] = wallet[u]
  BY <1>1, <1>2, <1>4 DEF TypeOK
<1>7. \A u \in Users : Chained(ledger'[u], wallet'[u].balance)
  BY <1>1, <1>2, <1>5, <1>6, OneChainGrows
<1>8. ledger \in Ledgers
  BY DEF TypeOK, Ledgers
<1>9. CreditedRequest(ledger', request'[r], r)
  <2>1. NeverBooked(ledger, "deposit", r)
    BY <1>1 DEF LedgerBooks, CreditedRequest, Recorded
  <2>2. OnceBooked(ledger', "deposit", r, v, amount)
    BY <1>1, <1>2, <1>5, <1>8, <2>1, FirstRow DEF Matches
  <2> QED
    BY <1>1, <2>2 DEF CreditedRequest, Recorded
<1>10. ASSUME NEW k \in Requests \ {r}
       PROVE  CreditedRequest(ledger', request'[k], k)
  <2>1. CreditedRequest(ledger, request[k], k)
    BY DEF LedgerBooks
  <2>2. ~Matches(entry, "deposit", k)
    BY <1>5 DEF Matches
  <2> QED
    BY <1>1, <1>2, <1>5, <1>8, <2>1, <2>2, OtherRow DEF CreditedRequest
<1>11. ASSUME NEW j \in Jobs
       PROVE  SettledJob(ledger', job'[j], j)
  <2>1. SettledJob(ledger, job[j], j)
    BY DEF LedgerBooks
  <2>2. \A type : type # "deposit" => ~Matches(entry, type, j)
    BY <1>5 DEF Matches
  <2> QED
    BY <1>1, <1>2, <1>5, <1>8, <2>1, <2>2, OtherRow DEF SettledJob
<1> QED
  BY <1>7, <1>9, <1>10, <1>11 DEF LedgerBooks

-----------------------------------------------------------------------------
(* The inductive invariant. *)

\* At first nothing is booked.
LEMMA InitLedger == Init => LedgerInv
<1> SUFFICES ASSUME Init
             PROVE  LedgerInv
  OBVIOUS
<1>1. BooksInv
  BY InitBooks
<1>2. NobodyYet
  BY DEF Init, NobodyYet, NoJobRow
<1>3. \A u \in Users : Len(ledger[u]) = 0 /\ wallet[u].balance = 0
  BY DEF Init, EmptyWallet
<1>4. \A u \in Users : Chained(ledger[u], wallet[u].balance)
  BY <1>3 DEF Chained
<1>5. \A type, x : NeverBooked(ledger, type, x)
  BY <1>3 DEF NeverBooked
<1>6. /\ \A j \in Jobs : job[j].status = "absent"
      /\ \A r \in Requests : request[r].status = "absent"
  BY DEF Init, NoJobRow, NoRequestRow
<1>7. LedgerBooks
  BY <1>4, <1>5, <1>6 DEF LedgerBooks, SettledJob, CreditedRequest, Recorded
<1> QED
  BY <1>1, <1>2, <1>7 DEF LedgerInv

\* A job leaves "absent" without a worker and never returns to it.
LEMMA NextNobodyYet ==
  ASSUME TypeOK, NobodyYet, Next
  PROVE  NobodyYet'
<1>1. CASE JobStep
  <2>1. PICK j \in Jobs :
          \/ \E e \in Employers, price \in Prices : CreateJob(e, j, price)
          \/ \E w \in Workers : AcceptJob(j, w) \/ StartJob(j, w)
          \/ \E e \in Employers : CompleteJob(j, e)
          \/ \E u \in Users : CancelJob(j, u)
    BY <1>1 DEF JobStep
  <2>2. \A k \in Jobs \ {j} : job'[k] = job[k]
    BY <2>1 DEF CreateJob, AcceptJob, StartJob, CompleteJob, CancelJob, TypeOK
  <2>3. job'[j].status # "absent"
    <3>1. CASE \E e \in Employers, price \in Prices : CreateJob(e, j, price)
      BY <3>1 DEF CreateJob, TypeOK
    <3>2. CASE \E w \in Workers : AcceptJob(j, w) \/ StartJob(j, w)
      BY <3>2 DEF AcceptJob, StartJob, TypeOK, JobRow
    <3>3. CASE \E e \in Employers : CompleteJob(j, e)
      BY <3>3 DEF CompleteJob, TypeOK, JobRow
    <3>4. CASE \E u \in Users : CancelJob(j, u)
      BY <3>4 DEF CancelJob, TypeOK, JobRow
    <3> QED
      BY <2>1, <3>1, <3>2, <3>3, <3>4
  <2> QED
    BY <2>2, <2>3 DEF NobodyYet
<1>2. CASE DepositStep
  BY <1>2 DEF DepositStep, InitiateDeposit, ConfirmDeposit, NobodyYet
<1> QED
  BY <1>1, <1>2 DEF Next

\* Every step keeps the invariant of the ledger.
LEMMA NextLedger == LedgerInv /\ [Next]_vars => LedgerInv'
<1> SUFFICES ASSUME LedgerInv, [Next]_vars
             PROVE  LedgerInv'
  OBVIOUS
<1>1. BooksInv /\ BooksInv'
  BY NextBooks DEF LedgerInv
<1>2. TypeOK /\ PartiesNamed /\ Books
  BY <1>1, BooksByUser
<1>3. CASE UNCHANGED vars
  BY <1>1, <1>3 DEF vars, LedgerInv, NobodyYet, LedgerBooks
<1>4. CASE Next
  <2>1. NobodyYet'
    BY <1>2, <1>4, NextNobodyYet DEF LedgerInv
  <2>2. LedgerBooks
    BY DEF LedgerInv
  <2>3. ASSUME JobStep
        PROVE  LedgerBooks'
    BY <1>2, <2>2, <2>3, CreateJobLedger, OpenStepLedger, CompleteJobLedger,
       CancelJobLedger DEF JobStep
  <2>4. ASSUME DepositStep
        PROVE  LedgerBooks'
    BY <1>2, <2>2, <2>4, InitiateDepositLedger, ConfirmDepositLedger
    DEF DepositStep
  <2> QED
    BY <1>1, <1>4, <2>1, <2>3, <2>4 DEF Next, LedgerInv
<1> QED
  BY <1>3, <1>4

\* The inductive invariant of the ledger holds in every behaviour.
THEOREM LedgerAlwaysExplains == Spec => []LedgerInv
BY InitLedger, NextLedger, PTL DEF Spec

-----------------------------------------------------------------------------
(* The properties of the runs. *)

\* What is recorded once is booked once.
LEMMA BookedAsRecorded ==
  ASSUME NEW condition \in BOOLEAN, NEW type, NEW x, NEW v, NEW amount,
         Recorded(ledger, condition, type, x, v, amount)
  PROVE  BookedWhen(condition, type, x, v, amount)
<1>1. CASE condition
  <2>1. v \in Users
    BY <1>1 DEF Recorded, OnceBooked
  <2>2. PICK i \in 1 .. Len(ledger[v]) :
          /\ Matches(ledger[v][i], type, x) /\ ledger[v][i].amount = amount
          /\ \A u \in Users : \A k \in 1 .. Len(ledger[u]) :
               Matches(ledger[u][k], type, x) => u = v /\ k = i
    BY <1>1 DEF Recorded, OnceBooked
  <2>3. <<v, i>> \in Booked(type, x)
    BY <2>1, <2>2 DEF Booked, Matches
  <2>4. \A p \in Booked(type, x) : p = <<v, i>>
    BY <2>2 DEF Booked, Matches
  <2>5. Booked(type, x) = {<<v, i>>}
    BY <2>3, <2>4
  <2> QED
    BY <1>1, <2>2, <2>5 DEF BookedWhen
<1>2. CASE ~condition
  <2>1. \A p : p \notin Booked(type, x)
    BY <1>2 DEF Recorded, NeverBooked, Booked, Matches
  <2> QED
    BY <1>2, <2>1 DEF BookedWhen
<1> QED
  BY <1>1, <1>2

(***************************************************************************)
(* Every row of payments_transactions starts from the balance the one      *)
(* before it left, and the last one ends at the balance of the wallet,     *)
(* whatever calls wrote them.                                              *)
(***************************************************************************)
THEOREM LedgerAlwaysChains == Spec => []LedgerChain
<1>1. ASSUME LedgerInv
      PROVE  LedgerChain
  <2> SUFFICES ASSUME NEW u \in Users
               PROVE  /\ \A i \in 1 .. Len(ledger[u]) :
                           ledger[u][i].before = Balances(ledger[u])[i - 1]
                      /\ wallet[u].balance =
                           Balances(ledger[u])[Len(ledger[u])]
    BY DEF LedgerChain
  <2>1. Chained(ledger[u], wallet[u].balance)
    BY <1>1 DEF LedgerInv, LedgerBooks
  <2>2. Len(ledger[u]) \in Nat
    BY <1>1 DEF LedgerInv, BooksInv, TypeOK
  <2>3. \A i \in 0 .. Len(ledger[u]) :
          Balances(ledger[u])[i] = IF i = 0 THEN 0 ELSE ledger[u][i].after
    BY DEF Balances
  <2>4. ASSUME NEW i \in 1 .. Len(ledger[u])
        PROVE  ledger[u][i].before = Balances(ledger[u])[i - 1]
    <3>1. i - 1 \in 0 .. Len(ledger[u]) /\ (i - 1 = 0 <=> i = 1)
      BY <2>2
    <3> QED
      BY <2>1, <2>3, <3>1 DEF Chained
  <2>5. wallet[u].balance = Balances(ledger[u])[Len(ledger[u])]
    BY <2>1, <2>2, <2>3 DEF Chained
  <2> QED
    BY <2>4, <2>5
<1> QED
  BY <1>1, LedgerAlwaysExplains, PTL

(***************************************************************************)
(* No order of create, accept, start, complete and cancel pays for a job   *)
(* twice, refunds a job that was paid out, or pays the wrong wallet.       *)
(***************************************************************************)
THEOREM JobsSettledOnce == Spec => []SettledOnce
<1>1. ASSUME LedgerInv
      PROVE  SettledOnce
  <2> SUFFICES ASSUME NEW j \in Jobs
               PROVE  LET row == job[j]
                          fee == JobCommission(row.price)
                      IN  /\ BookedWhen(row.status # "absent", "job_payment",
                                        j, row.employer, row.price)
                          /\ BookedWhen(row.status = "completed",
                                        "commission", j, row.employer, fee)
                          /\ BookedWhen(row.status = "completed",
                                        "job_release", j, row.worker,
                                        row.price - fee)
                          /\ BookedWhen(row.status = "cancelled", "refund",
                                        j, row.employer, row.price)
    BY DEF SettledOnce
  <2>1. SettledJob(ledger, job[j], j)
    BY <1>1 DEF LedgerInv, LedgerBooks
  <2>2. job[j].price \in Nat
    BY <1>1 DEF LedgerInv, BooksInv, TypeOK, JobRow
  <2>3. Payout(job[j].price) = job[j].price - JobCommission(job[j].price)
    BY <2>2, Split
  <2> QED
    BY <2>1, <2>3, BookedAsRecorded DEF SettledJob
<1> QED
  BY <1>1, LedgerAlwaysExplains, PTL

\* However often the providers confirm it, a request is credited once.
THEOREM DepositsCreditedOnce == Spec => []CreditedOnce
<1>1. ASSUME LedgerInv
      PROVE  CreditedOnce
  <2>1. \A r \in Requests : CreditedRequest(ledger, request[r], r)
    BY <1>1 DEF LedgerInv, LedgerBooks
  <2> QED
    BY <2>1, BookedAsRecorded DEF CreditedRequest, CreditedOnce
<1> QED
  BY <1>1, LedgerAlwaysExplains, PTL

\* A call that changes a job's row takes an edge of the lifecycle.
LEMMA NextIsEdge ==
  ASSUME TypeOK, NobodyYet, Next, NEW j \in Jobs, job'[j] # job[j]
  PROVE  LifecycleStep(job[j], job'[j])
<1>1. ASSUME NEW i \in Jobs, \A k \in Jobs \ {i} : job'[k] = job[k]
      PROVE  i = j
  BY <1>1
<1>2. CASE \E i \in Jobs, e \in Employers, price \in Prices :
             CreateJob(e, i, price)
  <2>1. PICK e \in Employers, price \in Prices : CreateJob(e, j, price)
    BY <1>1, <1>2 DEF CreateJob, TypeOK
  <2>2. job[j].status = "absent" /\ job[j].worker = NoUser
    BY <2>1 DEF CreateJob, NobodyYet
  <2>3. job'[j].status = "created" /\ job'[j].worker = NoUser
    BY <2>1 DEF CreateJob, TypeOK
  <2> QED
    BY <2>2, <2>3 DEF LifecycleStep, LifecycleEdges
<1>3. CASE \E i \in Jobs, w \in Workers : AcceptJob(i, w)
  <2>1. PICK w \in Workers : AcceptJob(j, w)
    BY <1>1, <1>3 DEF AcceptJob, TypeOK
  <2> QED
    BY <2>1 DEF AcceptJob, TypeOK, JobRow, LifecycleStep, LifecycleEdges
<1>4. CASE \E i \in Jobs, w \in Workers : StartJob(i, w)
  <2>1. PICK w \in Workers : StartJob(j, w)
    BY <1>1, <1>4 DEF StartJob, TypeOK
  <2> QED
    BY <2>1 DEF StartJob, TypeOK, JobRow, LifecycleStep, LifecycleEdges
<1>5. CASE \E i \in Jobs, e \in Employers : CompleteJob(i, e)
  <2>1. PICK e \in Employers : CompleteJob(j, e)
    BY <1>1, <1>5 DEF CompleteJob, TypeOK
  <2> QED
    BY <2>1 DEF CompleteJob, TypeOK, JobRow, LifecycleStep, LifecycleEdges
<1>6. CASE \E i \in Jobs, u \in Users : CancelJob(i, u)
  <2>1. PICK u \in Users : CancelJob(j, u)
    BY <1>1, <1>6 DEF CancelJob, TypeOK
  <2>2. /\ job[j].status \in OpenStatus /\ job'[j].status = "cancelled"
        /\ job'[j].employer = job[j].employer /\ job'[j].price = job[j].price
        /\ job'[j].worker = job[j].worker
    BY <2>1 DEF CancelJob, TypeOK, JobRow
  <2>3. <<job[j].status, "cancelled">> \in OpenStatus \X {"cancelled"}
    BY <2>2
  <2> QED
    BY <2>2, <2>3 DEF LifecycleStep, LifecycleEdges
<1>7. CASE DepositStep
  BY <1>7 DEF DepositStep, InitiateDeposit, ConfirmDeposit
<1> QED
  BY <1>2, <1>3, <1>4, <1>5, <1>6, <1>7 DEF Next, JobStep

(***************************************************************************)
(* Every change of a job's row is one the lifecycle documents: final       *)
(* states are final, and employer, price and worker stay once set.         *)
(***************************************************************************)
THEOREM LifecycleFollowed == Spec => Lifecycle
<1>1. ASSUME LedgerInv, [Next]_vars
      PROVE  [\A j \in Jobs : job'[j] # job[j] =>
                LifecycleStep(job[j], job'[j])]_vars
  <2>1. TypeOK /\ NobodyYet
    BY <1>1 DEF LedgerInv, BooksInv
  <2> QED
    BY <1>1, <2>1, NextIsEdge
<1> QED
  BY <1>1, LedgerAlwaysExplains, PTL DEF Spec, Lifecycle
=============================================================================
