---------------------------- MODULE WalletService ----------------------------
(***************************************************************************)
(* The arithmetic of apps/payments/services.py, WalletService, on a wallet *)
(* row and on the transaction rows it appends.  Pure operators: when they  *)
(* run and under which locks is the business of the modules that use them. *)
(***************************************************************************)
EXTENDS Commission, Sequences

\* The database holds a CHECK (>= 0) on each PositiveBigIntegerField.
Wallet == [balance : Nat, held : Nat, earned : Nat, spent : Nat]

EmptyWallet == [balance |-> 0, held |-> 0, earned |-> 0, spent |-> 0]

Credits == {"deposit", "job_release", "refund"}
Debits == {"job_payment", "commission"}

\* A Transaction row.  Its direction follows from its type; "about" is the
\* job it references or, for a deposit, the payment request behind it.
Entry(type, amount, before, after, about) ==
  [type |-> type, amount |-> amount, before |-> before, after |-> after,
   about |-> about]

EntrySet(Things) ==
  [type : Credits \cup Debits, amount : Nat, before : Nat, after : Nat,
   about : Things]

-----------------------------------------------------------------------------

Deposited(w, amount) == [w EXCEPT !.balance = @ + amount]

\* Mutant of Affords: no balance check before the deduction.
AffordsAnything(w, amount) == TRUE

Affords(w, amount) == w.balance >= amount

Deducted(w, amount) ==
  [w EXCEPT !.balance = @ - amount, !.held = @ + amount, !.spent = @ + amount]

\* Mutant of Released: only what the worker gets leaves escrow, as the
\* docstring has it.
ReleasedNet(w, price) == [w EXCEPT !.held = @ - Payout(price)]

\* held_balance -= job.price, the commission included.
Released(w, price) == [w EXCEPT !.held = @ - price]

\* Mutant of PaidOut: counted as earned, never credited.
PaidOutUncredited(w, amount) == [w EXCEPT !.earned = @ + amount]

PaidOut(w, amount) == [w EXCEPT !.balance = @ + amount, !.earned = @ + amount]

\* min(job.price, employer_wallet.held_balance)
Refundable(w, price) == IF price <= w.held THEN price ELSE w.held

\* Mutant of Refunded: the lifetime counter keeps the refunded price.
RefundedStillSpent(w, price) ==
  [w EXCEPT !.balance = @ + Refundable(w, price),
            !.held = @ - Refundable(w, price)]

Refunded(w, price) ==
  LET held == Refundable(w, price)
  IN  [w EXCEPT !.balance = @ + held, !.held = @ - held,
                !.spent = IF @ >= held THEN @ - held ELSE 0]

-----------------------------------------------------------------------------
(* The transaction row each operation writes for the wallet row w it read. *)

\* Mutant of DepositEntry: balance_before taken after the update.
LateDepositEntry(w, amount, r) ==
  LET after == Deposited(w, amount).balance
  IN  Entry("deposit", amount, after, after, r)

DepositEntry(w, amount, r) ==
  Entry("deposit", amount, w.balance, Deposited(w, amount).balance, r)

DeductEntry(w, price, j) ==
  Entry("job_payment", price, w.balance, Deducted(w, price).balance, j)

\* The commission leaves the held amount, so the balance does not move.
CommissionEntry(w, price, j) ==
  Entry("commission", JobCommission(price), w.balance, w.balance, j)

PayoutEntry(w, price, j) ==
  Entry("job_release", Payout(price), w.balance,
        PaidOut(w, Payout(price)).balance, j)

RefundEntry(w, price, j) ==
  Entry("refund", Refundable(w, price), w.balance,
        Refunded(w, price).balance, j)
=============================================================================
