# Verification of the gig marketplace backend

TLA+ specifications of the backend in `src/` (Django REST, PostgreSQL, Redis,
Celery), model-checked with TLC and, where it matters for every size of the
system, proved with TLAPS. Employers deposit money, post jobs whose price is
held in escrow, workers accept and do them, and completing or cancelling a job
pays or refunds it.

## 1. The system

### Parts, state and operations

| Part | State | Operations | What makes it correct |
|---|---|---|---|
| Job lifecycle, `apps/jobs/services.py` `JobService` | `jobs_jobs` rows: status, employer, worker, price | `create_job`, `accept_job`, `start_job`, `complete_job`, `cancel_job` | the documented lifecycle; one worker per job; each job paid or refunded once |
| Wallets, escrow, ledger, `apps/payments/services.py` `WalletService` | `payments_wallets`: balance, held, earned, spent; `payments_transactions` | `deposit`, `deduct_for_job`, `release_job_payment`, `refund_job` | escrow backed by open jobs; no money made or lost; the ledger explains each balance |
| Deposits, `DepositService` | `payments_payment_requests` | `initiate_deposit`, `confirm_deposit` | each request credited at most once, to its user |
| Webhooks and providers, `apps/payments/views.py`, `providers/` | the provider's view of a payment | the Payme and Click webhooks, signatures, payment URLs | what is paid is credited exactly once; a success told is a credit made |
| Commission, `apps/core/utils.py` | none | `calculate_commission` | the two parts add up; rounding favours the worker |
| One-time passwords, `OTPService`, Telegram gateway | `accounts_telegram_otps`, a counter in Redis | `send_otp`, `verify_otp` | at most three messages per window; codes revoked before they are deleted; a sign-in on record |
| Sign-in, tokens, `AuthService`, wallet signal | `accounts_users`, blacklisted tokens | `authenticate_or_create`, `generate_tokens`, refresh, `logout` | every user has a wallet; one sign-in creates the account; a rotated or logged-out token is dead |
| Profiles, ratings, blocking, `UserService` | `accounts_users`: rating, count, flags | profile update, `rate_user`, `block_user`, `unblock_user`, the administrator's form | no rating lost or given twice; a block that sticks; a rating that is a mean of those given |
| Chat, `apps/chat` | rooms, messages, channel groups | room on accept, send, read, connect | one room per accepted job; what is broadcast reaches the connected participants, in the same order unless broadcasts overlap |
| Notifications, `apps/notifications` | inbox rows, the Celery queue | tasks, `send`, `send_bulk`, push | what is announced happened, or its transaction is still open or was undone; no unexplained duplicates; retries end |
| Job discovery, `get_available_jobs` | none: it reads committed jobs, a page at a time | filters, orders, pages | a walk through the pages misses no job without a reason |
| Category cache | Redis key `job_categories` | category list, the administrator's saves, `seed_data` | the cache follows the table |
| Device tokens | `accounts_device_tokens` | register, clean up | a token belongs to its last user |
| Administration site | all of the tables | edit wallets and jobs, delete rows | whatever the services promise survives a form |
| SMS, core infrastructure, settings, migrations, scripts | none of their own | I/O and formatting | out of scope |

### How the parts interact

The views call the services; a service call is one database transaction
(`@transaction.atomic`, PostgreSQL's READ COMMITTED; there is no
`ATOMIC_REQUESTS`). `JobService` calls `WalletService` inside its transaction and
publishes a Celery task before it commits. The signal of `apps/accounts` creates
a wallet with each user; the one of `apps/chat` is meant to create a room when a
job is saved as accepted. The webhooks call `confirm_deposit`, as often as the
provider repeats itself.

### What is hard

* Two requests on the same rows: the code relies on `select_for_update`, on the
  rows its joins lock with it, and on the order in which it takes them.
* A request stopped half way by an exception, a full broker or a killed worker.
* Repeated and simultaneous confirmations of a deposit.
* Sums kept in columns (`held_balance`, `total_spent`, `total_earned`), updated
  by increments, some of them clamped with `min` and `max`, over a long history.
* Read-modify-write without a lock or a transaction: ratings, profile, the
  counter of sent passwords, the category cache, the token blacklist.
* Two first sign-ins of one phone, and a signal that may fail inside one of them.
* A provider that repeats a confirmation until it is told success, and an answer
  that never arrives.
* Consumers that store, then broadcast, then die; a client that connects while a
  message is broadcast; broadcasts that overtake one another in the channel layer.
* Tasks published before the commit, retried, redelivered when a worker dies.

`PROJECT.json` lists each hazard at its line with the properties that cover it.

## 2. Modules

```
Commission ── WalletService ──┬── Marketplace ──┬── ServiceTransactions ── MCServiceTransactions
                     Totals ──┘        │        └── DepositWebhooks ── MCDepositWebhooks
                                  MCMarketplace         └ INSTANCE Payment

TotalsProofs ── MarketplaceProofs ── CallProofs (of ServiceTransactions, DepositWebhooks)

Rating, Totals ── UserService ──┬── MCUserService   OtpService ──┬── MCOtpService
                                └── RatingProofs                 └── SignIn ──┬── MCSignIn
                                                                              └── SignInProofs
CategoryCache ──┬── MCBrowse                        ChatRoom ──┬── MCChatRoom
JobDiscovery ───┴── BrowseProofs                               └── ChatProofs
NotificationTasks ── NotificationProofs
```

| Module | Models |
|---|---|
| `Commission` | `calculate_commission`: the default percentage, the truncation, the split |
| `WalletService` | the wallet row and, as operators, what each wallet operation makes of it and which transaction row it writes |
| `Totals` | the sum of a function over a set, without recursion, so that it can be proved about |
| `Marketplace` | the abstract specification: every service call of `JobService` and `DepositService` as one atomic step on jobs, wallets, ledger and requests |
| `ServiceTransactions` | the same calls as the web workers run them: lock by lock, check, commit, roll back, deadlock; it implements `Marketplace` |
| `Payment` | the abstract promise of a deposit: paid money is credited, once |
| `DepositWebhooks` | the provider and the two webhooks around `Marketplace`'s deposits; it implements `Payment` |
| `OtpService` | `send_otp` and `verify_otp` of one phone, statement by statement, with the clock |
| `SignIn` | what follows a verified code: the account and its wallet, the session of refresh tokens, logout; composed with `OtpService` |
| `Rating` | the rounded mean of `update_rating` |
| `UserService` | ratings, profile updates, an administrator's form and blocks on the rows of `accounts_users`, each working on the copy it read |
| `ChatRoom` | the room of one job: its creation, messages over HTTP and web sockets, receipts, the consumers and their channels |
| `NotificationTasks` | the notification tasks from the publishing transaction to the inbox, with retries and late acknowledgement |
| `CategoryCache` | the cached list of categories between readers, the administration site and the seeding command |
| `JobDiscovery` | a worker's walk through the pages of available jobs while jobs come and go |
| `MC...` | instances for TLC |
| `...Proofs` | lemmas and theorems |

### Marketplace

`job`, `wallet`, `ledger` and `request` are the four tables. A missing row is
one with status `"absent"`; identifiers come from PostgreSQL sequences, so a call
that creates a row takes one not used yet. The prices an employer may ask satisfy the
serializer's minimum. The ledger is kept per wallet, in the order of its rows;
the direction of a row follows from its type. Every action is a service call
that succeeded, with the guards that would have refused it; a refused or
rolled-back call changes nothing and has no action. The time stamps, titles,
places, categories and reasons of a job play no part in any of this and are left
out. Every user has the role of its first sign-in throughout, hence the two sets
`Employers` and `Workers`: no service changes it, but the administrator's form can
(`accounts/admin.py:25`), and what follows holds of users whose role it leaves
alone. Every user has a wallet here; `SignIn` says when that is so.

### ServiceTransactions

Each thread is a database connection that serves one call at a time: `Begin`
(role checks, validation and the statement's `WHERE` on committed rows), `Lock`
one row at a time in the order the code selects them, or all at once without
waiting (`LockNoWait`, `accept_job`), `Check` on what was read under the locks,
the payment's wallet locks, `Commit`, which makes all writes visible and drops
the locks, and `Respond`. `Fail` is any exception inside the transaction (a
killed worker, a refused statement, a broker that does not take the task):
everything rolls back. A row that was changed while the statement waited for it
is matched against the `WHERE` clause again, as PostgreSQL does: this is what
makes the second of two confirmations find nothing.

`select_related` makes `select_for_update` lock the joined rows too, in the order
of the joins: the job, its employer, its worker. `start_job` filters on the worker
as well (`jobs/services.py:267-272`), whose join thereby comes first: it locks the
job, the worker, the employer (`StarterLocks`). A worker who starts one job while
accepting another of the same employer, or while another of its jobs there is
completed or cancelled, can deadlock with that call, and no post is involved
(`DeadlocksAreInversions`). The foreign
keys of inserted or changed rows are checked at commit (Django creates them
deferred) with a key-share lock that waits for `FOR UPDATE`: this is what makes
`create_job` want its user's row at the end (`CommitKeys`).

PostgreSQL refuses `FOR UPDATE` on the nullable side of an outer join, and
`complete_job` and `cancel_job` join the nullable worker. `OuterJoinLockable =
FALSE` is PostgreSQL, the database of the settings: both calls are refused.
`OuterJoinLockable = TRUE` is what the code and its tests take for granted, every
other rule being PostgreSQL's; both runs use it, so that they say something about the
settlement code once that statement is accepted (for instance with `of=("self",)` and the
joined rows locked explicitly, or on another database).

### DepositWebhooks and Payment

A request is initiated with a provider, paid at the gateway (`Pay`), and the
gateway calls the webhook (`Send`), before the payment with its other methods and
actions, after it with the confirmation, on any number of connections at once and
again and again until it is told success. A call arrives, is handled (`Credit` is
`Marketplace`'s `ConfirmDeposit`; `Ignore`; `Refuse`), is answered (`Answer`) or is
lost with its answer (`Lose`, also a process that dies after its commit). The
signature's arithmetic is an outcome: one that does not verify is a `Refuse`.

`Readable` is the set of gateways whose confirmation the handler recognises.
Click documents form-encoded callbacks, whose `action` is the string `"1"`, and
`payments/views.py:154` compares it with the number 1: such a confirmation takes the branch
`Ignore`, is answered with success and credits nothing. A Payme
`PerformTransaction` without `account.order_id` does the same. The run has Payme
readable and Click not, so that both branches are explored.

The refinement maps the payments a readable gateway holds and the number of
deposit rows of each request to `Payment`. That the mapped system is fair to
`Credit` needs the provider's persistence, which `WebhooksSpec` states.

### OtpService

Nothing here runs in a transaction, so every statement is an action: `ReadCount`,
`FetchOld`, one `Revoke` per row, `DeleteOld`, `Post`, `Create`, `Count` for a
message; `LoadLatest`, `CheckCode`, `MarkUsed` for a verification. `delete()` on a
queryset that has been iterated runs its query again, which is why `DeleteOld` looks
at the rows and not at what was fetched. A deleted row stays in `rows`, marked
`deleted`, because the gateway goes on knowing its code; no step of the code finds
it. The Redis counter is `cache.set(..., timeout=600)` for the first message and
`cache.incr`, which keeps the timeout and raises when the key is gone. `Tick` is 300
seconds, the life of a code and half of the window. The variables `sent`, `uncounted`
and `revoked` record what the gateway did; no step of the code reads them.

### SignIn

A thread whose code was verified goes on here: `Get`, and for a new phone
`Insert`, the signal `CreateUserWallet` inside the same transaction and `Commit`;
the unique phone number makes a second `Insert` wait and then read again
(`GetAgain`). The signal's `get_or_create` opens a savepoint around its INSERT, so
that a failed INSERT is logged and the user committed without a wallet
(`walletFailed`), while a failed SELECT spoils the outer transaction. `Found`
refuses a suspended account after its code was spent.

A session is the chain of refresh tokens that begins with a sign-in. `Present` is
the look at the blacklist, `Rotate`, `Issue` and `Logout` what follows it: two
requests may both pass the look (`overlapped`), and then two successors are
issued, or a successor outlives the logout. `MissWallet` and `CreateWallet` are
`WalletView`, the only place that gives a wallet to a user who has none. Access
tokens are not stored anywhere and stay valid until they expire.

### UserService and Rating

A rating reads the target's row in the view and saves two columns later; a profile
update saves every column of the row the request was authenticated with
(`serializers.py:164`; `UserService.update_profile` is called by nothing). The
administrator's form (`ReadForm`, `SaveForm`) saves every column of the row too, and
is the only one that can set the flags and not only carry them along; the role and
the staff flags, which it can set too, are left out. Block and unblock write columns
that depend on no earlier read and are single steps. `UuidJobIds`: `RatingSerializer`
wants a UUID for `job_id` (`accounts/serializers.py:180`) while jobs have integer
keys (`core/models.py`, `DEFAULT_AUTO_FIELD`), so that as committed every rating is
refused with HTTP 400 and the rating actions never happen. Both runs set it to
`TRUE`, or there would be nothing to ask about ratings; the theorems hold for either
value. The mean is a decimal of two digits: `NewAverages` is the set of roundings to
the nearest hundredth, both when the exact mean lies in the middle, because the
column and the database round in different ways there.

### ChatRoom

A consumer handles one event at a time and is interrupted at its awaits: `Join` and
`Accept`, `SaveMessage` and `BroadcastMessage`, `MarkMessagesRead` and
`BroadcastReceipt` are pairs for that reason. The channel layer is the one of
`requirements` and of the repository's `README.md`, `channels-redis`. Its
`group_send` reads the members of the group, then the clock (`Announce`: a broadcast
has the number of its place by the clock), and a script puts the event into the
inboxes of those members some time later (`Deliver`), sorted by that number; a full
inbox misses it. A consumer takes the lowest number that waits (`Fetch`), one event
ahead of the one it is at. A consumer that is fast enough therefore takes the later
of two overlapping broadcasts first, and another one both in the order of the clock:
two clients do see two messages in different orders, in the run too, and
`DisagreeOnlyOverlapped` says that only overlapping broadcasts come to this. There is
one clock and no two readings are equal: the clocks of several hosts are taken to
agree. Each connection is served as if by a process of its own, which allows every
interleaving that sharing one would. `Crash` is a dead process or an exception of a
handler: no `disconnect` runs. Three constants say how the code is deployed.
`ReceiverAlive`: Django holds the local function `create_chat_room_on_accept` by a
weak reference; under `DEBUG` the check of its signature leaves it in a cache,
otherwise it is collected and no room is made. `LayerConfigured`: no settings module
has `CHANNEL_LAYERS`. `LoginOf`: the ASGI stack reads the session cookie only. The
run sets the first two to `TRUE` and logs in by session, so that it says something
about the consumers; as committed, no client is let in.

### NotificationTasks

A call on a job is here its publication and its commit or rollback, the row lock
admitting one at a time; the details are those of `ServiceTransactions`. `undone`
remembers the jobs of which a completion was rolled back after its task was
published; no step of the code reads it. A Celery
worker takes a message, runs the task in four steps (import and read, write the
row, push, retry) and acknowledges it last. `Importable = FALSE` is the code as
committed: a `SyntaxError` on lines 160 and 175 of `notifications/services.py`
fails every task on its import, the exception is retried and the task fails after
its attempts. The run sets it to `TRUE`: an attempt may fail then too, so that its
behaviours include all those of the code as committed, besides those of the code
once the two lines compile. A publication that fails undoes its call and is no
step; as committed every one of a web process does, because only the Celery
processes load `config/celery.py` and `delay()` turns to the default broker.

### CategoryCache

`version` counts the committed changes of the table, the entry remembers which one
it was queried at. A form of the administration site runs in a transaction, and
`save_model` deletes the key inside it, before the commit (`EvictWritten`,
`CommitForm`); the bulk deletion commits first (`DeleteQueryset`, `EvictDeleted`);
`seed_data` deletes no key (`Seed`). `doubted` marks an entry whose reader
overlapped an edit or whose table changed with no eviction: no step of the code
reads it.

### JobDiscovery

Jobs are numbered in the order of `created_at`; a filter is the set of jobs it lets
through. Without a place a page is two statements, the paginator's `COUNT` and the
slice (`Count`, `Slice`); with one it is a single query and a sort in memory
(`PageOfList`). `Precedes` is the order the code gives, which is not always the one
that was asked for (below).

## 3. Runs

| Run | Result | What it asks |
|---|---|---|
| `books` | pass | do wallets, ledger, jobs and requests agree after any calls in any order? |
| `races` | pass | do interleaved transactions implement the atomic calls, read nothing stale, answer success truthfully, and deadlock only in the two ways described? |
| `answers` | pass | is every call answered? |
| `webhooks` | pass | is every payment the webhook can read credited exactly once, is success told of credits only, and which payments never settle at the provider? |
| `otp_alone` | pass | with one request at a time, are three messages the limit but for requests that failed after sending, are messages counted, is the gateway asked to revoke each code that is deleted, and are refused phones let in again? |
| `otp_limit` | violation | does the limit hold for concurrent requests? |
| `signin` | pass | however requests interleave and die, is a sign-in on record, has the account its wallet, is one answer told it is new, and has a session one token? |
| `users` | pass | do ratings stay within those given, how far do they drift, do they touch nothing else, and is one lost to the save of a stale copy only? |
| `users_block` | violation | does only an administrator take a block away? |
| `chat` | pass | does an accepted client miss nothing its inbox had room for, when do clients disagree on the order, who marks messages read, and is what waits shown? |
| `tasks` | pass | when is what the inbox says wrong, are duplicates due to failures only, and do retries end? |
| `browse` | pass | when can the cached categories be stale and does it end, and how many jobs can a walk through the pages miss? |

**Bounds.** `books`: two employers and two workers (a user's money must not mix with
another's), three jobs (an employer with two open jobs and a third after a refund),
two deposits, prices 100 and 105 (105 does not divide by ten, so the commission is
rounded), deposits 99, 105 and 205 around the limits 100 and 205. That is every state
the instance has, without a depth bound. Employers, workers, jobs and requests are
symmetric: no definition tells two of them apart. `races`: two threads (locks are
pairwise; a third thread adds longer chains, not new pairs), two workers racing for
two jobs of one employer, so that calls meet on the job, on the employer's row and on
the wallet; one deposit of 205 that pays for both jobs. `answers` starts from a job
under way, a state five calls reach, which keeps a liveness check without symmetry
affordable, and still contains the deadlock of a post against a settlement; `races`
has that of a start as well. `CHECK_DEADLOCK FALSE` stands in `books`, `tasks` and
`webhooks`, where all jobs may be settled, the bounded number of publications used up
and every deposit settled at its provider; in the other runs somebody can always do
something, and TLC checks it.

`webhooks`: two requests, so that the credits of one must not count for the other,
each of any provider; two calls under way, which is what a repeated confirmation
that overtakes the first one takes; one user of each role and one amount, since
the wallets are `books`' subject.

`otp_alone`: limit and window of the code, four messages, one more than a window
admits, so that a second window opens. `otp_limit`: two requests with a limit of two,
which is enough for both to pass it. `signin`: two requests, the fewest that race in
`get_or_create` or over a token; one message, because two verifications may use the
same code, so that both can sign in; three tokens: two sign-ins and a rotation, or a
sign-in and two successors of one token; the clock is as short as it can be, an
expired code being `otp_alone`'s subject. `users`: an employer and a worker, one
completed job, two requests at a time: a read of one, a save of the other, a save of
the first is the shortest conflict, and each conflict is between two; three ratings
of 1.0 or 4.5: ratings are in tenths (`accounts/serializers.py:171-176`), so that the
mean of two is exact and the third is the first that has to be rounded and to drift.
The constraint `OneRowWritten` keeps one of the two rows as it was created: of a
second row a step reads the flags of its caller only, which may refuse the call and
change nothing else, so that what can happen to a row happens beside an untouched
one. `chat`: one connection of each party, the employer's sending messages and a
receipt and the worker's messages and a typing indicator (`FramesOf`), two messages
after the greeting, one receipt or typing indicator, inboxes of two, which the two
messages and the signal overflow. `tasks`: one job and one Celery worker, whose tasks
meet others only in the broker and in the counters; three publications, so that a
call may be undone and made again or a job be undone on its way to completion, which
is where the inbox can be wrong; one retry and one crash. Runs with two workers or
with the code's two retries are too long to keep beside the liveness property; the
safety properties are theorems for any number of both. `browse`: two readers and two
editors, since each race is between a reader and an editor or between two editors,
three edits and an entry of one tick; four jobs on two or more pages of two, two with
the same price and two at the same distance, with a filter that lets all and one that
lets three through. The two paths share no state, so that a behaviour takes one of
them only and reaches every state of it.

**Fairness.** `answers`: `Step` is strongly fair: PostgreSQL queues the waiters of a
row, so a lock that is released again and again reaches each of them.
`DeadlockVictim` is weakly fair: the detector looks after `deadlock_timeout`.
`Respond` is weakly fair: the web worker sends its answer. Nothing is assumed of
`Begin` (clients owe no request) nor of `Fail`. `otp_alone`: time passes (`Tick`),
nothing else is owed. `webhooks`: the provider goes on sending a confirmation that
was not answered with success, and not all of them fail or are lost (strong fairness
of `Send` and `Succeed`: a network and a database that fail now and then, and both
gateways' retry rule; nothing in the code repeats a call); each call ends (`Serve`).
No user has to pay. `browse`: requests that began run on, and Redis lets the entry
expire; nobody has to read, edit or seed. `chat`: the event loop runs every consumer
with something to do, and a script sent to Redis runs (`Proceed`). `tasks`: every
Celery worker goes on consuming, and crashes are finitely many.

**Findings.** (1) The limit of three messages holds for one request at a time only:
`accounts/services.py:57` reads the counter and line 85 writes it, with the gateway's
call in between (run `otp_limit`). Run `otp_alone` shows what else passes it, one
request at a time: only messages of requests that failed after sending, which are
never counted (`uncounted`). The limit checked is the one of the code and of its
docstring (`accounts/services.py:45`), three in 600 seconds; the five in an hour of
`accounts/views.py:46` and of the repository's `README.md:262` have no code: three in
each window of 600 seconds come to eighteen an hour. (2) A profile update that began
before a block saves the whole row and takes the block away
(`accounts/serializers.py:164`, run `users_block`).

**Read off the code while modelling it**, with no run of their own, because one
line, a setting or a constant of a model shows them:

* Payments. `percent=0` is charged at the platform's rate (`core/utils.py:164`),
  which `tests/test_payments.py:149-152` does not expect. The docstring of
  `release_job_payment` has the commission "kept in employer's held_balance"
  (`payments/services.py:117`); the code takes the whole price out of it (line 139),
  as the column's text "Funds held in escrow for active jobs" wants
  (`payments/models.py:53`). `EscrowBacked` states the latter, its mutant
  `ReleasedNet` is the former: with it the held balance would exceed the open jobs
  for good. The quotient of `core/utils.py:165` is a float, which truncates like the
  exact one up to prices of 2147483647 (`MaxPrice`, the column of
  `jobs/models.py:87`), and which could be one too high from quotients of 2^47 on;
  nothing passes such amounts. A commission row is a debit that does not move the
  balance (`payments/services.py:143-154` against `payments/models.py:91-93`).
* Webhooks (`payments/views.py`). A form-encoded Click confirmation and a Payme one
  without an order are answered with success and credited never (`Readable`). A
  confirmation repeated after a lost success is answered with -31008 or -9 for
  ever (`SettledUnlessLost`). Neither the amount nor the provider of the request is
  compared with the call's. Every other Payme method is answered `{}`, also
  `CheckPerformTransaction` for an order that does not exist. `verify_webhook`
  decodes the whole `Authorization` header, so that `Basic ...`, which is what
  HTTP basic authentication sends, does not verify (`payment_providers.py:187-192`).
  A deposit by `mock` is confirmed by nothing.
* Jobs. A 409 of `accept_job` may be due to another job of the same employer, whose
  row the join locks too (`jobs/services.py:112-122`). `start_job` locks the worker
  before the employer, all other calls the employer first (`jobs/services.py:267-272`),
  and so can deadlock with them. `complete_job` and
  `cancel_job` cannot run on PostgreSQL (`jobs/services.py:181-187`, `228-234`), see
  `OuterJoinLockable`.
* Discovery (`jobs/services.py:324-365`, `jobs/serializers.py:133-159`). With a
  place, the order by creation is turned round, and it stands in for an order by
  price: the default lists the oldest job first, while the repository's
  `README.md:301` gives `-created_at` and the prices as orders. Jobs of one price
  come in no order, so that two pages may repeat one and omit another. A latitude
  or longitude of 0 is refused for an order by distance; `min_price > max_price`
  passes when either is 0.
* Sign-in. A code is spent before its account is found suspended. Two requests may
  verify the same code. A refresh looks at the blacklist and at nothing else, so that
  a blocked user's refresh is answered; a logout leaves the access token valid. A
  user without a wallet gets one from `WalletView` only.
* With two requests at a time `existing_otps.delete()` may delete a code that was
  not revoked (`accounts/services.py:70`): `DeletedAreRevoked` needs `otp_alone`, and
  "revoked" means that the gateway was asked to: its answer is not looked at.
* Ratings. None can be given (`UuidJobIds`). Apart from that, of two concurrent
  ratings one may be lost (`accounts/models.py:131`), the rounded column times the
  count is not the sum given (line 130; `DriftBounded` says how far off), and a job
  may be rated again and again (`accounts/services.py:254`).
* Categories. The key is deleted before the form's commit, so that a reader in
  between stores the old list for an hour; `seed_data` deletes no key.
* Device tokens. The serializer's unique check refuses a token that exists, also
  for a new owner, and `last_used_at`, by which the monthly clean-up
  deactivates, is written by nothing.
* Chat rooms are not created without `DEBUG` (`chat/signals.py:21`), `?token=` does
  not open a web socket (`config/asgi.py:23`), no channel layer is configured.
* Chat messages. Two clients can be shown two messages in different orders when their
  broadcasts overlap (`DisagreeOnlyOverlapped`), and a full inbox loses a message
  that its client then finds only in the history.
* `notifications/services.py` does not compile; its tasks are published before the
  commit (`jobs/services.py:212`) and not to the configured broker. A completion that
  is rolled back after its publication can tell the worker "Job completed — payment
  received!" (`notifications/services.py:174`) of a job that is still in progress or
  is cancelled later (`WrongOnlyBeforeCommit`). As committed two other faults stand
  before it: that module does not compile, and PostgreSQL refuses `complete_job`.
* The administrator's form can give a user with jobs the other role
  (`accounts/admin.py:25`): the role checks then refuse the calls its open jobs need.

## 4. Proofs

Every safety invariant and action property of a run that is expected to pass, but for
`DeletedAreRevoked`, is a theorem too, for every value of the constants that the
following assumptions admit; and each of them is evaluated by TLC on the runs.

| Assumption | Says |
|---|---|
| `CommissionAssumption` | the commission is between 0 and 100 percent |
| `RolesAssumption` | no user is both employer and worker, `NoUser` is nobody |
| `MoneyAssumption` | prices lie between a positive minimum and the largest of their column, amounts are naturals |
| `OuterJoinAssumption`, `WebhookAssumption` | a truth value; the readable gateways are gateways |
| `OtpAssumption`, `SignInAssumption`, `TasksAssumption` | limits, lives and bounds are naturals, the limit and the window at least one |
| `UserAssumption` | ratings lie between 1.0 and 5.0, each job has two parties |
| `ChatAssumption` | a connection's user is a party of the job or a stranger, its client sends some of the three types of frames; an inbox holds one event at least |
| `CategoryAssumption`, `DiscoveryAssumption` | a life of an entry, prices and distances are naturals; jobs are numbered; a page holds one job at least |

The sets of users, jobs, requests, connections, Celery workers and threads are any
sets, finite or not. Two hypotheses are written in the theorems themselves:
the codes of a phone are recorded for finitely many threads, whose number the
specification counts, and the message limit holds for one at a time.

**The commission and the wallet rows** (`MarketplaceProofs`).
`WorkerShareRoundedUp` and `SplitMonotone`, for every percentage and every price up
to `MaxPrice`, where the code's float quotient truncates exactly, from
one lemma about the remainder of a product divided by 100; what each wallet
operation returns, column by column; commission and payout lie between zero and the
price and add up to it. `TotalsProofs`: the total of an empty set, of one element
more or less, and `TotalMoves`: when one element joins, leaves or changes, the total
changes by that element alone.

**Types** (`MarketplaceProofs.TypeCorrect`). The interesting conjunct is that no
wallet column goes below zero.

**The books** (`MarketplaceProofs.BooksAlwaysAgree`: `Spec => []BooksInv`, and from
it `EscrowAlwaysBacked`, `LifetimeTotalsHold` and `MoneyIsConserved`). None of the
three is inductive alone. `refund_job` refunds `min(price, held)` and clamps
`total_spent`: that it refunds the whole price, and that the counter is not
clamped, follows only because the held balance and the lifetime total are sums that
contain the price of the job being cancelled (`TotalAtLeast`). To know whose wallet
is meant, an open job must name its employer and a job done its worker
(`PartiesNamed`), and the totals must be those of finitely many coins
(`BooksFinite`). `BooksInv` is the conjunction of these with `TypeOK`; `InitBooks`
and `NextBooks` are its two halves, the second with one lemma per call, all of
which go through `JobStepKeepsBooks`: the books agree after a step on one job row
if each wallet moves by what that row's contributions to its user's totals change.

**The ledger** (`MarketplaceProofs.LedgerAlwaysExplains`, and from it
`LedgerAlwaysChains`, `JobsSettledOnce` and `DepositsCreditedOnce`). The properties
count sets of ledger positions; the invariant `LedgerBooks` says the same without
sets. For each job and each type of entry that its status calls for there is
exactly one position, in the wallet of the party and with the amount the job's
price gives (`OnceBooked`), and none where it calls for none (`NeverBooked`). A call
appends at most one entry to a wallet, and `OtherRow`, `FirstRow` and `ChainGrows`
say what that does to the three forms. `BooksInv` is needed in the refund, whose
entry is `min(price, held)`: it is the price. `NobodyYet` (a job
not yet created names no worker) is needed in the creation. `LifecycleFollowed` is
the action property, from the types and `NobodyYet`, one step per call.

**Transactions** (`CallProofs.TransactionsKeepInvariant`: `TxSpec => []TxInv`). No
row is locked by two threads (`Exclusive`); a thread's locks and the rows it is
still to lock are those its call and what it read so far ask for (`Plan`); what it
read of a row it holds is the committed row (`FreshRead`); once it has passed its
checks they go on holding (`Decided`). They support one another: that a
decision still holds at the commit follows from the freshness of what it was made
on, which follows from the exclusion of the locks, which covers the right rows only
if the plan was right. A row re-read after waiting for it is re-matched against the
`WHERE` clause, and that step is where the plan could go wrong. From `TxInv`:

* `TransactionsImplementCalls`: `TxSpec => ImplementsMarketplace`. A commit is the
  call's action of `Marketplace` with the guards it had when it was checked; each
  other step leaves the four tables alone. `TransactionsKeepTheBooks` carries all
  theorems about the calls over to any interleaving of their transactions.
* `NothingReadIsStale` and `AnswersAreTruthful`.
* `DeadlocksClassified`. Each call takes its rows in the order `Rank`: job or request,
  employer, worker, employer's wallet, worker's wallet; a start the worker before the
  employer. The foreign keys, which are checked at the commit, may come out of
  order: the user's row of a post and the worker's row of an acceptance. Who waits in a
  knot is therefore one of five kinds (`KindsOfWaiting`): it posts, accepts, starts, is
  at its first statement or settles. A post is waited for by a settlement of the same
  employer (`PostingWaitedForBySettling`), a settlement that has its checks behind it
  waits for a post (`SettlingWaitsForPosting`); one that holds an employer's row and
  wants no wallet is waited for by a start (`WaitedForByStarting`), and a start waits
  for a party of that kind (`StartingWaitsForParty`). Each of them is one of the two
  inversions.

**Webhooks** (`CallProofs.WebhooksKeepInvariant`). `WebhooksInv` adds to the
ledger's invariant that money is paid for requests of gateways only and that a call
under way is about such a request, a confirmation about a paid one.
`WebhooksAreCalls`: each step is a call of `Marketplace` or leaves the tables alone,
so that `WebhooksKeepTheBooks` holds. `ProvidersToldTheTruth`. `DepositsKeepPromise`:
the refinement of `Payment.Safety`, the abstract promise without its fairness; the
mapped number of credits is a number of ledger positions, which `LedgerInv` gives as
one when the request is completed and zero before.

**Ratings** (`RatingProofs`): `UserTypeCorrect`, `RatingStaysWithin`,
`RatingsAreCounted` and `DriftStaysBounded`, however many requests hold stale
copies. A request's copy is a row of the past, so that the invariant says of it what
`RatingWithinGiven` says of the row (`CopiesWithin`): its rating lies between
today's extremes, which only move apart. Where no outdated copy was saved, the copy
a rating saves is today's row, and its count and drift grow by one step of integer
arithmetic about a rounded quotient, stated as lemmas on naturals (`RatedIsWithin`,
`RatedIsNear`). `RatingsLeaveTheRest` is the action property: only the save of a
rating answers a request to rate, and it changes two columns of its target.

**Notifications** (`NotificationProofs`): `TasksTypeCorrect`, `WrongOnlyMeanwhile` and
`DuplicatesAreExplained`. For the second, rows once committed stay and a job once
accepted keeps a worker, so that what a worker read remains true until it writes
(`Told`); and what is stored some call has published (`Behind`), a completion for a
job that was started and is completed, has its transaction open or had it undone
(`Finishing`). The third counts: notifications written, plus tasks queued, plus tasks that
workers may still write or have written again, are at most those published plus the
failures after a write (`AllAccounted`). The two sums range over all tasks and all
workers; each step moves one task between the queue, a worker and the inbox
(`Aside`, `Balanced`).

**One-time passwords** (`SignInProofs`). `VerificationsRecorded`, for any number of
requests: a row keeps its number and, once used, its mark (`RowsKept`), so that the
used ones never become fewer (`UsedIds`). `MessagesCounted` and `LimitAlone` have the
hypothesis `OneAtATime`, which run `otp_limit` shows to be needed for the limit: with
two requests the value read from Redis may be outdated when it decides. Their
invariant `AloneInv` says that it is what Redis holds, unless the key has expired
(`ReadIsCurrent`), that the counter never passes the limit, and that the rows about
to be deleted were revoked or will be (`RevokedOrAsked`). That the gateway was asked
to revoke whatever is deleted follows too (`DeletedAsked`), but it is a lemma only:
the hypothesis excludes the second request, which is the case that matters there.
`SignInImplementsOtp`: the composed specification's codes behave as `OtpSpec` says,
so that `CodesOnRecord` carries the first of these over to what run `signin` checks.

**Sign-in** (`SignInProofs.SignInAlwaysInv`, and from it `AccountHasWallet`,
`OneNewcomer` and `OneTokenASession`). `AccountInv`: one row of the user is
uncommitted at a time and none once the account exists, hence one request created
it, and it says so once. `SessionInv`: a session that no two requests presented one
token of at once has one live token or one request about to sign the next, never
both, and after its logout neither; whoever rotates or logs out holds the live one.

**Chat** (`ChatProofs.ChatKeepsInvariant`). What a client was shown, what was taken
for it and what waits in its inbox are numbers of broadcasts. The invariant says that
an accepted client joined first (`JoinedFirst`), that a stored message whose broadcast
is still to come is newer than all its connection broadcast (`SavedIsNew`), that
broadcasts of one connection do not overlap and follow its rows (`SendersInTurn`), and
that one whose script has not run is in no inbox and beside every later one
(`UnderWay`). Hence nothing is handed on before an earlier number unless the two
overlapped: from the inbox to what is taken (`InboxLate`), from there to the client
(`TakenLate`), and there (`ShownLate`). What a client is owed was shown to it or
waits (`OwedWaits`). `BroadcastsReachTheAccepted`, `DisagreementsOverlap` and
`SendersKeepTheirOrder` follow (`InvIsEnough`); `ReceiptsMarkOthers` is an action
property.

**Browsing** (`BrowseProofs`). `StaleCategoriesExplained`: an entry that no reader is
to blame for is gone once a form has evicted it (`EvictedMeansDoubted`), and is older
than the table only while a bulk deletion still owes its eviction
(`StaleMeansDeleted`). `PagesMissExplained`: each job of a list has a place, the
number of jobs that precede it, because every order but one with equal prices is
strict and total (`OrderOfAll`). A page shows the places it is made of, but for those
beyond an outdated count (`PageShown`, `Excess`); a job that leaves brings one other
onto a passed place (`JobLeaves`), a job that comes pushes others back onto places
still to come (`JobComes`). The invariant `PagesKept`: the jobs on passed places that
were not shown are no more than the walk was upset.

**Only model-checked**: `EveryCallAnswered`, `LimitLifts`, `QueuedAreShown`,
`TasksEnd`, `SettledUnlessLost`, `EditShows` and the liveness half of
`ImplementsPayment`. They are liveness under fairness, which TLAPS does not reach.
The two runs with a violation refute what they check and need no proof.

## 5. Not modelled

* Device tokens: an INSERT that the unique check refuses for a token that exists,
  and a monthly UPDATE by a column that nothing writes. No step of either depends
  on another's.
* Wallets, transactions, jobs, rooms and messages edited by hand in the
  administration site: a wallet form writes back the balances it was opened with
  and adds no ledger row, so that nothing the services promise survives it. A job
  accepted by hand is in `ChatRoom`, the user form in `UserService`, the category
  pages in `CategoryCache`.
* Reading the inbox and marking it read, the payment history and the profile pages:
  they touch nothing else.
* The SMS providers, `send_otp_sms_task`, `OTPCode` and its clean-up,
  `notify_payment_received`, `check_payment`, `JobReview` and the job list cache:
  no service calls, fills or reads them.
* The Haversine arithmetic (floating point), the digests of signatures, HTTP
  formatting, logging, migrations, tests and deployment. Settings enter as
  constants; `seed_data` enters by what it does to the category cache.

What would come next: device tokens and the administration site's wallet form, once
the code says what they should keep; the progress steps behind the liveness
properties, as lemmas about one action each, which is as far as a proof without
`ENABLED` can go.
