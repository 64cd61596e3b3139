----------------------------- MODULE OtpService -----------------------------
(***************************************************************************)
(* One-time passwords of one phone number (phones share nothing): requests *)
(* that send a code through the Telegram gateway or verify one.  There is  *)
(* no transaction: every statement, cache command and gateway call takes   *)
(* effect on its own, and other requests run in between.                   *)
(*                                                                         *)
(* Time is counted in ticks of 300 seconds: a code lives CodeLife of them  *)
(* and the counter of sent messages Window.                                *)
(***************************************************************************)
EXTENDS Integers, Sequences, FiniteSets

CONSTANTS
  Threads,          \* requests served at a time
  RateLimitCount,   \* RATE_LIMIT_COUNT
  Window,           \* RATE_LIMIT_WINDOW
  CodeLife,         \* the age after which a row is_expired()
  MaxMessages       \* bound: messages the gateway sends in a behaviour

ASSUME OtpAssumption ==
  /\ RateLimitCount \in Nat \ {0}
  /\ Window \in Nat \ {0}
  /\ CodeLife \in Nat
  /\ MaxMessages \in Nat

VARIABLES
  counter,    \* the Redis counter and the time it has left to live
  rows,       \* accounts_telegram_otps in order of created_at, with the rows
              \* deleted from it
  revoked,    \* messages that the gateway was asked to revoke
  sent,       \* messages sent since the counter last expired ...
  uncounted,  \* ... and those of them whose request then failed
  last,       \* the number of the last message, its request_id
  request     \* per thread, the request it serves

otpVars ==
  <<counter, rows, revoked, sent, uncounted, last, request>>

Messages == 1 .. MaxMessages
NoMessage == 0

NoCounter == [count |-> 0, left |-> 0]

Row ==
  [id : Messages,
   state : {"unused", "used", "deleted"},   \* is_used, or no row any more
   age : 0 .. CodeLife + 1]

SendPhases == {"fetch", "revoke", "delete", "post", "create", "count"}
VerifyPhases == {"check", "mark"}

Request ==
  [phase : {"idle", "verified"} \cup SendPhases \cup VerifyPhases,
   seen : 0 .. RateLimitCount,          \* send_count
   old : SUBSET Messages,               \* existing_otps
   id : Messages \cup {NoMessage}]      \* the message sent or verified

Idle == [phase |-> "idle", seen |-> 0, old |-> {}, id |-> NoMessage]

OtpInit ==
  /\ counter = NoCounter
  /\ rows = <<>>
  /\ revoked = {}
  /\ sent = 0 /\ uncounted = 0 /\ last = NoMessage
  /\ request = [t \in Threads |-> Idle]

At(t, phase) == request[t].phase = phase
\* The request is answered, whatever the answer, and the thread free again.
End(t) == request' = [request EXCEPT ![t] = Idle]
Goto(t, phase) == request' = [request EXCEPT ![t].phase = phase]

RowsThatAre(state) == {i \in DOMAIN rows : rows[i].state = state}
UnusedRows == RowsThatAre("unused")
IdsOf(I) == {rows[i].id : i \in I}
IsExpired(row) == row.age > CodeLife

-----------------------------------------------------------------------------
(* send_otp *)

\* Mutant of ReadCount: the limit is checked with > for >=.
ReadCountLate(t) ==
  /\ At(t, "idle")
  /\ IF counter.count > RateLimitCount THEN End(t)
     ELSE request' = [request EXCEPT ![t].phase = "fetch",
                                     ![t].seen = counter.count]
  /\ UNCHANGED <<counter, rows, revoked, sent, uncounted, last>>

ReadCount(t) ==
  /\ At(t, "idle")
  /\ IF counter.count >= RateLimitCount THEN End(t)
     ELSE request' = [request EXCEPT ![t].phase = "fetch",
                                     ![t].seen = counter.count]
  /\ UNCHANGED <<counter, rows, revoked, sent, uncounted, last>>

\* Mutant of FetchOld: codes the gateway has let expire are not revoked.
FetchActive(t) ==
  LET active == {i \in UnusedRows : ~IsExpired(rows[i])}
  IN  /\ At(t, "fetch")
      /\ request' = [request EXCEPT
           ![t].phase = IF active = {} THEN "delete" ELSE "revoke",
           ![t].old = IdsOf(active)]
      /\ UNCHANGED <<counter, rows, revoked, sent, uncounted, last>>

FetchOld(t) ==
  /\ At(t, "fetch")
  /\ request' = [request EXCEPT
       ![t].phase = IF UnusedRows = {} THEN "delete" ELSE "revoke",
       ![t].old = IdsOf(UnusedRows)]
  /\ UNCHANGED <<counter, rows, revoked, sent, uncounted, last>>

\* Best effort: whether the gateway obeys or not, the next call follows.
Revoke(t) ==
  \E id \in request[t].old :
    /\ At(t, "revoke")
    /\ \A o \in request[t].old : id <= o
    /\ revoked' = revoked \cup {id}
    /\ request' = [request EXCEPT
         ![t].phase = IF request[t].old = {id} THEN "delete" ELSE @,
         ![t].old = @ \ {id}]
    /\ UNCHANGED <<counter, rows, sent, uncounted, last>>

\* delete() runs the query again: rows created since are deleted with the
\* ones that were fetched.
DeleteOld(t) ==
  /\ At(t, "delete")
  /\ rows' = [i \in DOMAIN rows |->
       IF i \in UnusedRows THEN [rows[i] EXCEPT !.state = "deleted", !.age = 0]
       ELSE rows[i]]
  /\ Goto(t, "post")
  /\ UNCHANGED <<counter, revoked, sent, uncounted, last>>

\* The gateway sends the message, or raises and nothing more happens.
Post(t) ==
  /\ At(t, "post")
  /\ \/ /\ last < MaxMessages
        /\ last' = last + 1
        /\ sent' = sent + 1
        /\ request' = [request EXCEPT ![t].phase = "create", ![t].id = last + 1]
     \/ /\ End(t)
        /\ UNCHANGED <<sent, last>>
  /\ UNCHANGED <<counter, rows, revoked, uncounted>>

Create(t) ==
  /\ At(t, "create")
  /\ rows' = Append(rows, [id |-> request[t].id, state |-> "unused", age |-> 0])
  /\ Goto(t, "count")
  /\ UNCHANGED <<counter, revoked, sent, uncounted, last>>

\* Mutant of Count: the counter starts without a timeout.
CountForGood(t) ==
  /\ At(t, "count")
  /\ \/ /\ request[t].seen = 0
        /\ counter' = [count |-> 1, left |-> 0]
        /\ End(t) /\ UNCHANGED uncounted
     \/ /\ request[t].seen > 0 /\ counter.count > 0
        /\ counter' = [counter EXCEPT !.count = @ + 1]
        /\ End(t) /\ UNCHANGED uncounted
  /\ UNCHANGED <<rows, revoked, sent, last>>

\* Mutant of Count: every message starts the counter again.
CountFromOne(t) ==
  /\ At(t, "count")
  /\ counter' = [count |-> 1, left |-> Window]
  /\ End(t)
  /\ UNCHANGED <<rows, revoked, sent, uncounted, last>>

\* cache.incr keeps the time to live and raises when the key has expired.
Count(t) ==
  /\ At(t, "count")
  /\ \/ /\ request[t].seen = 0
        /\ counter' = [count |-> 1, left |-> Window]
        /\ End(t) /\ UNCHANGED uncounted
     \/ /\ request[t].seen > 0 /\ counter.count > 0
        /\ counter' = [counter EXCEPT !.count = @ + 1]
        /\ End(t) /\ UNCHANGED uncounted
     \/ /\ request[t].seen > 0 /\ counter.count = 0
        /\ uncounted' = uncounted + 1
        /\ End(t) /\ UNCHANGED counter
  /\ UNCHANGED <<rows, revoked, sent, last>>

-----------------------------------------------------------------------------
(* verify_otp *)

Latest(i) == \A j \in UnusedRows : j <= i

LoadLatest(t) ==
  /\ At(t, "idle")
  /\ \/ \E i \in UnusedRows :
          /\ Latest(i)
          /\ ~IsExpired(rows[i])
          /\ request' = [request EXCEPT ![t].phase = "check",
                                        ![t].id = rows[i].id]
     \/ /\ \A i \in UnusedRows : Latest(i) => IsExpired(rows[i])
        /\ End(t)
  /\ UNCHANGED <<counter, rows, revoked, sent, uncounted, last>>

\* The gateway says that the code is right, that it is not, or nothing.
CheckCode(t) ==
  /\ At(t, "check")
  /\ Goto(t, "mark") \/ End(t)
  /\ UNCHANGED <<counter, rows, revoked, sent, uncounted, last>>

Existing == UnusedRows \cup RowsThatAre("used")
UseRow(id) ==
  rows' = [i \in DOMAIN rows |->
             IF i \in Existing /\ rows[i].id = id
             THEN [rows[i] EXCEPT !.state = "used"] ELSE rows[i]]

\* Mutant of MarkUsed: an UPDATE that does not mind that the row is gone.
MarkAnyway(t) ==
  /\ At(t, "mark")
  /\ UseRow(request[t].id)
  /\ Goto(t, "verified")
  /\ UNCHANGED <<counter, revoked, sent, uncounted, last>>

\* save(update_fields=...) raises when it affects no row.
MarkUsed(t) ==
  /\ At(t, "mark")
  /\ UseRow(request[t].id)
  /\ IF request[t].id \in IdsOf(Existing) THEN Goto(t, "verified") ELSE End(t)
  /\ UNCHANGED <<counter, revoked, sent, uncounted, last>>

-----------------------------------------------------------------------------

\* The worker dies or a statement fails; what was done stays done.
Die(t) ==
  /\ request[t].phase \in SendPhases \cup VerifyPhases
  /\ uncounted' = uncounted + (IF request[t].phase \in {"create", "count"}
                               THEN 1 ELSE 0)
  /\ End(t)
  /\ UNCHANGED <<counter, rows, revoked, sent, last>>

Respond(t) ==
  /\ At(t, "verified")
  /\ End(t)
  /\ UNCHANGED <<counter, rows, revoked, sent, uncounted, last>>

\* Messages counted in no window go to the one that follows.
Expire ==
  /\ counter' = NoCounter
  /\ sent' = Cardinality({t \in Threads : request[t].phase \in {"create", "count"}})
  /\ uncounted' = 0

\* Only the age of an unused row is looked at.
Age(row) ==
  [row EXCEPT !.age = IF row.state = "unused" /\ ~IsExpired(row) THEN @ + 1 ELSE @]

Tick ==
  /\ \/ counter.left = 1 /\ Expire
     \/ /\ counter.left > 1 /\ counter' = [counter EXCEPT !.left = @ - 1]
        /\ UNCHANGED <<sent, uncounted>>
     \/ counter.left = 0 /\ UNCHANGED <<counter, sent, uncounted>>
  /\ rows' = [i \in DOMAIN rows |-> Age(rows[i])]
  /\ UNCHANGED <<revoked, last, request>>

SendStep(t) ==
  ReadCount(t) \/ FetchOld(t) \/ Revoke(t) \/ DeleteOld(t) \/ Post(t) \/
  Create(t) \/ Count(t)
VerifyStep(t) == LoadLatest(t) \/ CheckCode(t) \/ MarkUsed(t)

OtpNext ==
  \/ \E t \in Threads : SendStep(t) \/ VerifyStep(t) \/ Die(t) \/ Respond(t)
  \/ Tick

OtpSpec == OtpInit /\ [][OtpNext]_otpVars

\* Time passes.  Nothing is owed by clients, requests or the gateway.
FairOtpSpec == OtpSpec /\ WF_otpVars(Tick)

-----------------------------------------------------------------------------

InFlight ==
  Cardinality({t \in Threads : request[t].phase \in {"create", "count"}})

(***************************************************************************)
(* Every message is counted: those sent in the window of the counter are   *)
(* the count, but for requests that are not done or that failed.           *)
(***************************************************************************)
CounterCounts == sent = counter.count + uncounted + InFlight

(***************************************************************************)
(* A verification that answers with success is on record, even when a      *)
(* resend deletes unused rows between its read and its write.              *)
(***************************************************************************)
VerifiedOnRecord ==
  \A t \in Threads :
    At(t, "verified") =>
      request[t].id \in IdsOf(RowsThatAre("used"))

(***************************************************************************)
(* A refused phone is let in again, whatever its requests do meanwhile.    *)
(***************************************************************************)
LimitLifts ==
  (counter.count >= RateLimitCount) ~> (counter.count < RateLimitCount)

(***************************************************************************)
(* "max 3 per phone per 10 minutes" (services.py:45): in the window of one *)
(* counter no more than the limit is sent by requests that do not fail.    *)
(* One that fails after its message was sent is not counted by the code,   *)
(* and any number may.  The view's docstring and README.md promise five    *)
(* an hour (views.py:46), for which there is no code.                      *)
(***************************************************************************)
LimitHolds == sent <= RateLimitCount + uncounted

(***************************************************************************)
(* "Revoke and delete any existing active OTPs" (services.py:46): a code   *)
(* whose row is deleted is one that the gateway was asked to revoke; what  *)
(* it answers is only logged.                                              *)
(***************************************************************************)
DeletedAreRevoked == IdsOf(RowsThatAre("deleted")) \subseteq revoked
=============================================================================
