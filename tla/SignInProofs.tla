---------------------------- MODULE SignInProofs ----------------------------
(***************************************************************************)
(* One-time passwords: a verified code stays on record for any number of   *)
(* requests; with one at a time every message is counted, the limit holds  *)
(* and a deleted code was revoked.  Accounts and sessions: an account has  *)
(* its wallet, is new to one answer only, and a session has one usable     *)
(* refresh token, for any number of requests and tokens.  And signing in   *)
(* implements the codes' own specification.                                *)
(***************************************************************************)
EXTENDS SignIn, SequenceTheorems, FiniteSetTheorems, TLAPS

-----------------------------------------------------------------------------
(* One-time passwords: types. *)

Counter == [count : Nat, left : 0 .. Window]

OtpTypeOK ==
  /\ counter \in Counter
  /\ rows \in Seq(Row)
  /\ revoked \subseteq Messages
  /\ sent \in Nat /\ uncounted \in Nat /\ last \in 0 .. MaxMessages
  /\ request \in [Threads -> Request]

\* A free thread remembers nothing, and whoever has a message has its number.
Holding == {"create", "count", "mark", "check", "verified"}
Numbered ==
  \A t \in Threads :
    /\ At(t, "idle") => request[t] = Idle
    /\ request[t].phase \in Holding => request[t].id \in Messages

OtpTypeInv == OtpTypeOK /\ Numbered

\* The thread t goes on with the request new.
Takes(t, new) ==
  /\ request' = [request EXCEPT ![t] = new]
  /\ new \in Request
  /\ new.phase = "idle" => new = Idle
  /\ new.phase \in Holding => new.id \in Messages

LEMMA InitOtpType == OtpInit => OtpTypeInv
<1> SUFFICES ASSUME OtpInit
             PROVE  OtpTypeInv
  OBVIOUS
<1>1. Idle \in Request
  BY OtpAssumption DEF Idle, Request, NoMessage
<1>2. counter \in Counter /\ rows \in Seq(Row) /\ last \in 0 .. MaxMessages
  BY OtpAssumption DEF OtpInit, Counter, NoCounter, NoMessage
<1>3. OtpTypeOK
  BY <1>1, <1>2 DEF OtpInit, OtpTypeOK
<1>4. Numbered
  BY DEF OtpInit, Numbered, At, Idle, Holding
<1> QED
  BY <1>3, <1>4 DEF OtpTypeInv

LEMMA RequestTaken ==
  ASSUME OtpTypeInv, NEW t \in Threads, NEW new, Takes(t, new)
  PROVE  /\ request' \in [Threads -> Request] /\ Numbered'
         /\ request'[t] = new
         /\ \A u \in Threads \ {t} : request'[u] = request[u]
<1>1. /\ request \in [Threads -> Request] /\ new \in Request
      /\ request' = [request EXCEPT ![t] = new]
  BY DEF OtpTypeInv, OtpTypeOK, Takes
<1>2. /\ request' \in [Threads -> Request]
      /\ request'[t] = new
      /\ \A u \in Threads \ {t} : request'[u] = request[u]
  BY <1>1
<1>3. ASSUME NEW u \in Threads
      PROVE  /\ At(u, "idle")' => request'[u] = Idle
             /\ request'[u].phase \in Holding => request'[u].id \in Messages
  <2>1. CASE u = t
    BY <1>2, <2>1 DEF Takes, At
  <2>2. CASE u # t
    BY <1>2, <2>2 DEF OtpTypeInv, Numbered, At
  <2> QED
    BY <2>1, <2>2
<1> QED
  BY <1>2, <1>3 DEF Numbered

\* A request that ends or goes to another phase with what it has.
LEMMA Ends ==
  ASSUME OtpTypeInv, NEW t \in Threads, End(t)
  PROVE  Takes(t, Idle)
<1>1. Idle \in Request
  BY OtpAssumption DEF Idle, Request, NoMessage
<1> QED
  BY <1>1 DEF End, Takes, Idle, Holding

LEMMA Goes ==
  ASSUME OtpTypeInv, NEW t \in Threads,
         NEW phase \in {"revoke", "delete", "post"} \cup Holding, Goto(t, phase),
         phase \in Holding => request[t].phase \in Holding
  PROVE  /\ Takes(t, [request[t] EXCEPT !.phase = phase])
         /\ request'[t] = [request[t] EXCEPT !.phase = phase]
<1> DEFINE new == [request[t] EXCEPT !.phase = phase]
<1>1. request \in [Threads -> Request] /\ request[t] \in Request
  BY DEF OtpTypeInv, OtpTypeOK
<1>2. /\ new \in Request /\ new.phase = phase /\ new.id = request[t].id
      /\ request' = [request EXCEPT ![t] = new]
  BY <1>1 DEF Goto, Request, Holding, SendPhases, VerifyPhases
<1>3. phase # "idle"
  BY DEF Holding
<1>4. phase \in Holding => request[t].id \in Messages
  BY DEF OtpTypeInv, Numbered
<1> HIDE DEF new
<1>5. Takes(t, new) /\ request'[t] = new
  BY <1>1, <1>2, <1>3, <1>4 DEF Takes
<1> QED
  BY <1>5 DEF new

-----------------------------------------------------------------------------
(* What each step does to the rows and to its request. *)

\* Every row stays, with its number; a used one stays used.
RowsKept ==
  /\ rows' \in Seq(Row) /\ DOMAIN rows' = DOMAIN rows
  /\ \A i \in DOMAIN rows :
       /\ rows'[i].id = rows[i].id
       /\ rows[i].state = "used" => rows'[i].state = "used"

LEMMA SameRows ==
  ASSUME OtpTypeOK, rows' = rows
  PROVE  RowsKept
BY DEF RowsKept, OtpTypeOK

LEMMA RowsMapped ==
  ASSUME OtpTypeOK,
         NEW f, f \in [DOMAIN rows -> Row], rows' = f,
         \A i \in DOMAIN rows :
           /\ f[i].id = rows[i].id
           /\ rows[i].state = "used" => f[i].state = "used"
  PROVE  RowsKept
<1>1. DOMAIN rows = 1 .. Len(rows) /\ Len(rows) \in Nat
  BY DEF OtpTypeOK
<1>2. f \in Seq(Row)
  BY <1>1
<1> QED
  BY <1>2 DEF RowsKept

LEMMA RowsDeleted ==
  ASSUME OtpTypeOK, NEW t \in Threads, DeleteOld(t)
  PROVE  /\ RowsKept
         /\ \A i \in DOMAIN rows :
              rows'[i].state = IF rows[i].state = "unused" THEN "deleted"
                                                           ELSE rows[i].state
<1> DEFINE f == [i \in DOMAIN rows |->
       IF i \in UnusedRows THEN [rows[i] EXCEPT !.state = "deleted", !.age = 0]
       ELSE rows[i]]
<1>1. \A i \in DOMAIN rows : rows[i] \in Row
  BY DEF OtpTypeOK
<1>2. ASSUME NEW i \in DOMAIN rows
      PROVE  /\ f[i] \in Row /\ f[i].id = rows[i].id
             /\ f[i].state = IF rows[i].state = "unused" THEN "deleted"
                                                         ELSE rows[i].state
  <2>1. rows[i] \in Row
    BY <1>1
  <2>2. f[i] = IF rows[i].state = "unused"
               THEN [rows[i] EXCEPT !.state = "deleted", !.age = 0] ELSE rows[i]
    BY DEF UnusedRows, RowsThatAre
  <2>3. 0 \in 0 .. CodeLife + 1
    BY OtpAssumption
  <2> QED
    BY <2>1, <2>2, <2>3 DEF Row
<1>3. rows' = f
  BY DEF DeleteOld
<1>4. f \in [DOMAIN rows -> Row]
  BY <1>2
<1> HIDE DEF f
<1>5. RowsKept
  BY <1>2, <1>3, <1>4, RowsMapped
<1> QED
  BY <1>2, <1>3, <1>5

LEMMA RowUsed ==
  ASSUME OtpTypeOK, NEW id, UseRow(id)
  PROVE  /\ RowsKept
         /\ \A i \in DOMAIN rows :
              rows'[i].state = IF rows[i].state # "deleted" /\ rows[i].id = id
                               THEN "used" ELSE rows[i].state
<1> DEFINE f == [i \in DOMAIN rows |->
             IF i \in Existing /\ rows[i].id = id
             THEN [rows[i] EXCEPT !.state = "used"] ELSE rows[i]]
<1>1. \A i \in DOMAIN rows : rows[i] \in Row
  BY DEF OtpTypeOK
<1>2. ASSUME NEW i \in DOMAIN rows
      PROVE  /\ f[i] \in Row /\ f[i].id = rows[i].id
             /\ f[i].state = IF rows[i].state # "deleted" /\ rows[i].id = id
                             THEN "used" ELSE rows[i].state
  <2>1. rows[i] \in Row
    BY <1>1
  <2>2. i \in Existing <=> rows[i].state # "deleted"
    BY <2>1 DEF Existing, UnusedRows, RowsThatAre, Row
  <2> QED
    BY <2>1, <2>2 DEF Row
<1>3. rows' = f
  BY DEF UseRow
<1>4. f \in [DOMAIN rows -> Row]
  BY <1>2
<1> HIDE DEF f
<1>5. RowsKept
  BY <1>2, <1>3, <1>4, RowsMapped
<1> QED
  BY <1>2, <1>3, <1>5

LEMMA RowsAged ==
  ASSUME OtpTypeOK, Tick
  PROVE  /\ RowsKept
         /\ \A i \in DOMAIN rows : rows'[i].state = rows[i].state
<1> DEFINE f == [i \in DOMAIN rows |-> Age(rows[i])]
<1>1. \A i \in DOMAIN rows : rows[i] \in Row
  BY DEF OtpTypeOK
<1>2. ASSUME NEW i \in DOMAIN rows
      PROVE  /\ f[i] \in Row /\ f[i].id = rows[i].id
             /\ f[i].state = rows[i].state
  <2> DEFINE age == IF rows[i].state = "unused" /\ ~IsExpired(rows[i])
                    THEN rows[i].age + 1 ELSE rows[i].age
  <2>1. rows[i] \in Row
    BY <1>1
  <2>2. age \in 0 .. CodeLife + 1
    BY <2>1, OtpAssumption DEF IsExpired, Row
  <2>3. f[i] = [rows[i] EXCEPT !.age = age]
    BY DEF Age
  <2> HIDE DEF age
  <2> QED
    BY <2>1, <2>2, <2>3 DEF Row
<1>3. rows' = f
  BY DEF Tick
<1>4. f \in [DOMAIN rows -> Row]
  BY <1>2
<1> HIDE DEF f
<1>5. RowsKept
  BY <1>2, <1>3, <1>4, RowsMapped
<1> QED
  BY <1>2, <1>3, <1>5

LEMMA RowCreated ==
  ASSUME OtpTypeInv, NEW t \in Threads, Create(t)
  PROVE  /\ rows' \in Seq(Row) /\ Len(rows') = Len(rows) + 1
         /\ \A i \in DOMAIN rows : i \in DOMAIN rows' /\ rows'[i] = rows[i]
         /\ \A i \in DOMAIN rows' : i \in DOMAIN rows \/ i = Len(rows) + 1
         /\ rows'[Len(rows) + 1].state = "unused"
<1> DEFINE new == [id |-> request[t].id, state |-> "unused", age |-> 0]
<1>1. request[t].id \in Messages
  BY DEF Create, At, OtpTypeInv, Numbered, Holding
<1>2. new \in Row /\ new.state = "unused"
  BY <1>1, OtpAssumption DEF Row
<1>3. rows \in Seq(Row) /\ rows' = Append(rows, new) /\ Len(rows) \in Nat
  BY DEF OtpTypeInv, OtpTypeOK, Create
<1> HIDE DEF new
<1>4. /\ rows' \in Seq(Row) /\ Len(rows') = Len(rows) + 1
      /\ \A i \in 1 .. Len(rows) : rows'[i] = rows[i]
      /\ rows'[Len(rows) + 1] = new
  BY <1>2, <1>3
<1>5. DOMAIN rows = 1 .. Len(rows) /\ DOMAIN rows' = 1 .. Len(rows')
  BY <1>3, <1>4
<1> QED
  BY <1>2, <1>3, <1>4, <1>5

-----------------------------------------------------------------------------
(* Types are kept. *)

\* What any step of a request leaves typed, whatever became of the rows.
Counters ==
  /\ counter' \in Counter /\ revoked' \subseteq Messages
  /\ sent' \in Nat /\ uncounted' \in Nat /\ last' \in 0 .. MaxMessages

LEMMA SendType ==
  ASSUME OtpTypeInv, NEW t \in Threads, SendStep(t)
  PROVE  \E new : Takes(t, new) /\ Counters /\ rows' \in Seq(Row)
<1>1. /\ counter \in Counter /\ rows \in Seq(Row) /\ revoked \subseteq Messages
      /\ sent \in Nat /\ uncounted \in Nat /\ last \in 0 .. MaxMessages
      /\ request \in [Threads -> Request] /\ request[t] \in Request
      /\ \A i \in DOMAIN rows : rows[i] \in Row
  BY DEF OtpTypeInv, OtpTypeOK
<1>2. CASE End(t) /\ UNCHANGED <<counter, rows, revoked, sent, uncounted, last>>
  BY <1>1, <1>2, Ends DEF Counters
<1>3. CASE ReadCount(t)
  <2>1. CASE counter.count >= RateLimitCount
    BY <1>2, <1>3, <2>1 DEF ReadCount
  <2>2. CASE ~(counter.count >= RateLimitCount)
    <3> DEFINE new == [request[t] EXCEPT !.phase = "fetch",
                                         !.seen = counter.count]
    <3>1. request' = [request EXCEPT ![t] = new]
      <4>1. request' = [request EXCEPT ![t].phase = "fetch",
                                       ![t].seen = counter.count]
        BY <1>3, <2>2 DEF ReadCount
      <4> QED
        BY <1>1, <4>1 DEF Request
    <3>2. new \in Request /\ new.phase = "fetch"
      <4>1. counter.count \in 0 .. RateLimitCount
        BY <1>1, <2>2, OtpAssumption DEF Counter
      <4> QED
        BY <1>1, <4>1 DEF Request, SendPhases
    <3> HIDE DEF new
    <3>3. Takes(t, new)
      BY <3>1, <3>2 DEF Takes, Holding
    <3> QED
      BY <1>1, <1>3, <3>3 DEF ReadCount, Counters
  <2> QED
    BY <2>1, <2>2
<1>4. CASE FetchOld(t)
  <2> DEFINE new == [request[t] EXCEPT
                       !.phase = IF UnusedRows = {} THEN "delete" ELSE "revoke",
                       !.old = IdsOf(UnusedRows)]
  <2>1. IdsOf(UnusedRows) \subseteq Messages
    BY <1>1 DEF IdsOf, UnusedRows, RowsThatAre, Row
  <2>2. request' = [request EXCEPT ![t] = new]
    BY <1>1, <1>4 DEF FetchOld, Request
  <2>3. new \in Request /\ new.phase \in {"delete", "revoke"}
    BY <1>1, <2>1 DEF Request, SendPhases
  <2> HIDE DEF new
  <2>4. Takes(t, new)
    BY <2>2, <2>3 DEF Takes, Holding
  <2> QED
    BY <1>1, <1>4, <2>4 DEF FetchOld, Counters
<1>5. CASE Revoke(t)
  <2>1. PICK id \in request[t].old :
          /\ At(t, "revoke")
          /\ revoked' = revoked \cup {id}
          /\ request' = [request EXCEPT
               ![t].phase = IF request[t].old = {id} THEN "delete" ELSE @,
               ![t].old = @ \ {id}]
          /\ UNCHANGED <<counter, rows, sent, uncounted, last>>
    BY <1>5 DEF Revoke
  <2> DEFINE new == [request[t] EXCEPT
               !.phase = IF request[t].old = {id} THEN "delete" ELSE @,
               !.old = @ \ {id}]
  <2>2. request' = [request EXCEPT ![t] = new]
    BY <1>1, <2>1 DEF Request
  <2>3. new \in Request /\ new.phase \in {"delete", "revoke"}
    BY <1>1, <2>1 DEF Request, SendPhases, At
  <2>4. id \in Messages
    BY <1>1 DEF Request
  <2> HIDE DEF new
  <2>5. Takes(t, new)
    BY <2>2, <2>3 DEF Takes, Holding
  <2> QED
    BY <1>1, <2>1, <2>4, <2>5 DEF Counters
<1>6. CASE DeleteOld(t)
  <2>1. Takes(t, [request[t] EXCEPT !.phase = "post"])
    BY <1>6, Goes DEF DeleteOld, Holding
  <2>2. rows' \in Seq(Row)
    BY <1>6, RowsDeleted DEF OtpTypeInv, RowsKept
  <2> QED
    BY <1>1, <1>6, <2>1, <2>2 DEF DeleteOld, Counters
<1>7. CASE Post(t)
  <2>1. CASE End(t) /\ UNCHANGED <<sent, last>>
    BY <1>2, <1>7, <2>1 DEF Post
  <2>2. CASE /\ last < MaxMessages
             /\ last' = last + 1
             /\ sent' = sent + 1
             /\ request' = [request EXCEPT ![t].phase = "create",
                                           ![t].id = last + 1]
    <3> DEFINE new == [request[t] EXCEPT !.phase = "create", !.id = last + 1]
    <3>1. last + 1 \in Messages /\ last' \in 0 .. MaxMessages /\ sent' \in Nat
      BY <1>1, <2>2, OtpAssumption DEF Messages
    <3>2. request' = [request EXCEPT ![t] = new]
      BY <1>1, <2>2 DEF Request
    <3>3. new \in Request /\ new.phase = "create" /\ new.id \in Messages
      BY <1>1, <3>1 DEF Request, SendPhases
    <3> HIDE DEF new
    <3>4. Takes(t, new)
      BY <3>2, <3>3 DEF Takes
    <3> QED
      BY <1>1, <1>7, <3>1, <3>4 DEF Post, Counters
  <2> QED
    BY <1>7, <2>1, <2>2 DEF Post
<1>8. CASE Create(t)
  <2>1. Takes(t, [request[t] EXCEPT !.phase = "count"])
    BY <1>8, Goes DEF Create, At, Holding
  <2> QED
    BY <1>1, <1>8, <2>1, RowCreated DEF Create, Counters
<1>9. CASE Count(t)
  <2>1. Takes(t, Idle)
    BY <1>9, Ends DEF Count
  <2>2. counter' \in Counter /\ uncounted' \in Nat
    BY <1>1, <1>9, OtpAssumption DEF Count, Counter
  <2> QED
    BY <1>1, <1>9, <2>1, <2>2 DEF Count, Counters
<1> QED
  BY <1>3, <1>4, <1>5, <1>6, <1>7, <1>8, <1>9 DEF SendStep

LEMMA VerifyType ==
  ASSUME OtpTypeInv, NEW t \in Threads, VerifyStep(t) \/ Die(t) \/ Respond(t)
  PROVE  \E new : Takes(t, new) /\ Counters /\ RowsKept
<1>1. /\ counter \in Counter /\ rows \in Seq(Row) /\ revoked \subseteq Messages
      /\ sent \in Nat /\ uncounted \in Nat /\ last \in 0 .. MaxMessages
      /\ request \in [Threads -> Request] /\ request[t] \in Request
      /\ \A i \in DOMAIN rows : rows[i] \in Row
      /\ OtpTypeOK
  BY DEF OtpTypeInv, OtpTypeOK
<1>2. CASE End(t) /\ UNCHANGED <<counter, rows, revoked, sent, uncounted, last>>
  BY <1>1, <1>2, Ends, SameRows DEF Counters
<1>3. CASE LoadLatest(t)
  <2>1. CASE End(t)
    BY <1>2, <1>3, <2>1 DEF LoadLatest
  <2>2. ASSUME NEW i \in UnusedRows,
               request' = [request EXCEPT ![t].phase = "check",
                                          ![t].id = rows[i].id]
        PROVE  \E new : Takes(t, new) /\ Counters /\ RowsKept
    <3> DEFINE new == [request[t] EXCEPT !.phase = "check", !.id = rows[i].id]
    <3>1. rows[i].id \in Messages
      BY <1>1 DEF UnusedRows, RowsThatAre, Row
    <3>2. request' = [request EXCEPT ![t] = new]
      BY <1>1, <2>2 DEF Request
    <3>3. new \in Request /\ new.phase = "check" /\ new.id \in Messages
      BY <1>1, <3>1 DEF Request, VerifyPhases
    <3> HIDE DEF new
    <3>4. Takes(t, new)
      BY <3>2, <3>3 DEF Takes
    <3> QED
      BY <1>1, <1>3, <3>4, SameRows DEF LoadLatest, Counters
  <2> QED
    BY <1>3, <2>1, <2>2 DEF LoadLatest
<1>4. CASE CheckCode(t)
  <2>1. CASE Goto(t, "mark")
    <3>1. Takes(t, [request[t] EXCEPT !.phase = "mark"])
      BY <1>4, <2>1, Goes DEF CheckCode, At, Holding
    <3> QED
      BY <1>1, <1>4, <3>1, SameRows DEF CheckCode, Counters
  <2> QED
    BY <1>2, <1>4, <2>1 DEF CheckCode
<1>5. CASE MarkUsed(t)
  <2>1. RowsKept
    BY <1>1, <1>5, RowUsed DEF MarkUsed
  <2>2. CASE Goto(t, "verified")
    <3>1. Takes(t, [request[t] EXCEPT !.phase = "verified"])
      BY <1>5, <2>2, Goes DEF MarkUsed, At, Holding
    <3> QED
      BY <1>1, <1>5, <2>1, <3>1 DEF MarkUsed, Counters
  <2>3. CASE End(t)
    BY <1>1, <1>5, <2>1, <2>3, Ends DEF MarkUsed, Counters
  <2> QED
    BY <1>5, <2>2, <2>3 DEF MarkUsed
<1>6. CASE Die(t)
  <2>1. uncounted' \in Nat
    BY <1>1, <1>6 DEF Die
  <2> QED
    BY <1>1, <1>6, <2>1, Ends, SameRows DEF Die, Counters
<1>7. CASE Respond(t)
  BY <1>2, <1>7 DEF Respond
<1> QED
  BY <1>3, <1>4, <1>5, <1>6, <1>7 DEF VerifyStep

LEMMA TickType ==
  ASSUME OtpTypeInv, IsFiniteSet(Threads), Tick
  PROVE  RowsKept /\ Counters /\ request' = request
<1>1. OtpTypeOK
  BY DEF OtpTypeInv
<1>2. counter' \in Counter
  <2>1. CASE Expire
    BY <2>1, OtpAssumption DEF Expire, NoCounter, Counter
  <2>2. CASE counter.left > 1 /\ counter' = [counter EXCEPT !.left = @ - 1]
    BY <1>1, <2>2, OtpAssumption DEF OtpTypeOK, Counter
  <2> QED
    BY <1>1, <2>1, <2>2 DEF Tick, OtpTypeOK
<1>3. sent' \in Nat /\ uncounted' \in Nat
  <2> DEFINE some == {t \in Threads : request[t].phase \in {"create", "count"}}
  <2>1. IsFiniteSet(some)
    BY FS_Subset
  <2>2. Cardinality(some) \in Nat
    BY <2>1, FS_CardinalityType
  <2> QED
    BY <1>1, <2>2 DEF Tick, Expire, OtpTypeOK
<1> QED
  BY <1>1, <1>2, <1>3, RowsAged DEF Tick, Counters, OtpTypeOK

\* Every step keeps the types.
LEMMA NextOtpType ==
  ASSUME OtpTypeInv, IsFiniteSet(Threads), [OtpNext]_otpVars
  PROVE  OtpTypeInv'
<1>1. OtpTypeOK /\ Numbered
  BY DEF OtpTypeInv
<1>2. CASE UNCHANGED otpVars
  BY <1>1, <1>2 DEF otpVars, OtpTypeInv, OtpTypeOK, Numbered, At
<1>3. ASSUME NEW t \in Threads,
             SendStep(t) \/ VerifyStep(t) \/ Die(t) \/ Respond(t)
      PROVE  OtpTypeInv'
  <2>1. PICK new : Takes(t, new) /\ Counters /\ rows' \in Seq(Row)
    BY <1>3, SendType, VerifyType DEF RowsKept
  <2> QED
    BY <2>1, RequestTaken DEF Counters, OtpTypeInv, OtpTypeOK
<1>4. CASE Tick
  BY <1>1, <1>4, TickType DEF Counters, RowsKept, OtpTypeInv, OtpTypeOK, Numbered, At
<1> QED
  BY <1>2, <1>3, <1>4 DEF OtpNext

-----------------------------------------------------------------------------
(* A verification that succeeds is on record. *)

UsedIds == IdsOf(RowsThatAre("used"))

LEMMA UsedStay ==
  ASSUME OtpTypeInv, RowsKept \/ \E t \in Threads : Create(t)
  PROVE  UsedIds \subseteq UsedIds'
<1> SUFFICES ASSUME NEW i \in DOMAIN rows, rows[i].state = "used"
             PROVE  rows[i].id \in UsedIds'
  BY DEF UsedIds, IdsOf, RowsThatAre
<1>1. /\ i \in DOMAIN rows'
      /\ rows'[i].id = rows[i].id /\ rows'[i].state = "used"
  <2>1. CASE RowsKept
    BY <2>1 DEF RowsKept
  <2>2. CASE \E t \in Threads : Create(t)
    BY <2>2, RowCreated
  <2> QED
    BY <2>1, <2>2
<1> QED
  BY <1>1 DEF UsedIds, IdsOf, RowsThatAre

\* A row is never unmarked: neither a resend's deletion nor anything else
\* removes a row that a verification has marked.
LEMMA NextUsedStay ==
  ASSUME OtpTypeInv, IsFiniteSet(Threads), [OtpNext]_otpVars
  PROVE  UsedIds \subseteq UsedIds'
<1>1. OtpTypeOK
  BY DEF OtpTypeInv
<1>2. CASE rows' = rows
  BY <1>1, <1>2, SameRows, UsedStay
<1>3. ASSUME NEW t \in Threads, SendStep(t)
      PROVE  UsedIds \subseteq UsedIds'
  <2>1. CASE DeleteOld(t)
    BY <1>1, <2>1, RowsDeleted, UsedStay
  <2>2. CASE Create(t)
    BY <2>2, UsedStay
  <2>3. CASE rows' = rows
    BY <1>2, <2>3
  <2> QED
    BY <1>3, <2>1, <2>2, <2>3
       DEF SendStep, ReadCount, FetchOld, Revoke, Post, Count
<1>4. ASSUME NEW t \in Threads, VerifyStep(t) \/ Die(t) \/ Respond(t)
      PROVE  UsedIds \subseteq UsedIds'
  BY <1>4, VerifyType, UsedStay
<1>5. CASE Tick
  BY <1>1, <1>5, RowsAged, UsedStay
<1> QED
  BY <1>2, <1>3, <1>4, <1>5 DEF OtpNext, otpVars

\* A request is verified by MarkUsed alone.
LEMMA NewlyVerified ==
  ASSUME OtpTypeInv, NEW t \in Threads,
         SendStep(t) \/ VerifyStep(t) \/ Die(t) \/ Respond(t),
         request'[t].phase = "verified"
  PROVE  MarkUsed(t) /\ Goto(t, "verified")
<1>1. request \in [Threads -> Request] /\ request[t] \in Request
  BY DEF OtpTypeInv, OtpTypeOK
<1>2. ~End(t)
  BY <1>1 DEF End, Idle
<1>3. \A phase : Goto(t, phase) => phase = "verified"
  BY <1>1 DEF Goto, Request
<1>4. ~ReadCount(t) /\ ~FetchOld(t)
  BY <1>1, <1>2 DEF ReadCount, FetchOld, Request
<1>5. ~Revoke(t)
  BY <1>1 DEF Revoke, At, Request
<1>6. ~DeleteOld(t) /\ ~Create(t) /\ ~CheckCode(t)
  BY <1>2, <1>3 DEF DeleteOld, Create, CheckCode
<1>7. ~Post(t) /\ ~Count(t) /\ ~LoadLatest(t)
  BY <1>1, <1>2 DEF Post, Count, LoadLatest, Request
<1>8. ~Die(t) /\ ~Respond(t)
  BY <1>2 DEF Die, Respond
<1> QED
  BY <1>2, <1>4, <1>5, <1>6, <1>7, <1>8 DEF SendStep, VerifyStep, MarkUsed

LEMMA MarkedOnRecord ==
  ASSUME OtpTypeInv, NEW t \in Threads, MarkUsed(t), Goto(t, "verified")
  PROVE  request'[t].id \in UsedIds'
<1>1. /\ OtpTypeOK /\ request \in [Threads -> Request] /\ request[t] \in Request
      /\ \A i \in DOMAIN rows : rows[i] \in Row
  BY DEF OtpTypeInv, OtpTypeOK
<1>2. At(t, "mark") /\ UseRow(request[t].id) /\ request'[t].id = request[t].id
  BY <1>1 DEF MarkUsed, Goto, Request
<1>3. request[t].id \in IdsOf(Existing)
  <2>1. ~End(t)
    BY <1>1 DEF End, Goto, Idle, Request
  <2> QED
    BY <2>1 DEF MarkUsed
<1>4. PICK i \in DOMAIN rows :
        rows[i].id = request[t].id /\ rows[i].state # "deleted"
  BY <1>3 DEF IdsOf, Existing, UnusedRows, RowsThatAre
<1>5. /\ i \in DOMAIN rows' /\ rows'[i].id = request[t].id
      /\ rows'[i].state = "used"
  BY <1>1, <1>2, <1>4, RowUsed DEF RowsKept
<1> QED
  BY <1>2, <1>5 DEF UsedIds, IdsOf, RowsThatAre

LEMMA NextOnRecord ==
  ASSUME OtpTypeInv, IsFiniteSet(Threads), VerifiedOnRecord, [OtpNext]_otpVars
  PROVE  VerifiedOnRecord'
<1> SUFFICES ASSUME NEW u \in Threads, request'[u].phase = "verified"
             PROVE  request'[u].id \in UsedIds'
  BY DEF VerifiedOnRecord, At, UsedIds
<1>1. CASE request'[u] = request[u]
  <2>1. request[u].id \in UsedIds
    BY <1>1 DEF VerifiedOnRecord, At, UsedIds
  <2> QED
    BY <1>1, <2>1, NextUsedStay
<1>2. ASSUME NEW t \in Threads,
             SendStep(t) \/ VerifyStep(t) \/ Die(t) \/ Respond(t)
      PROVE  request'[u].id \in UsedIds'
  <2>1. PICK new : Takes(t, new)
    BY <1>2, SendType, VerifyType
  <2>2. CASE u = t
    <3>1. MarkUsed(t) /\ Goto(t, "verified")
      BY <1>2, <2>2, NewlyVerified
    <3> QED
      BY <2>2, <3>1, MarkedOnRecord
  <2>3. CASE u # t
    BY <1>1, <2>1, <2>3, RequestTaken
  <2> QED
    BY <2>2, <2>3
<1>3. CASE Tick \/ UNCHANGED otpVars
  BY <1>1, <1>3 DEF Tick, otpVars
<1> QED
  BY <1>2, <1>3 DEF OtpNext

\* The code that a verification accepted is marked used, and stays on record:
\* no resend, however timed, deletes it.
THEOREM VerificationsRecorded ==
  ASSUME IsFiniteSet(Threads)
  PROVE  OtpSpec => [](OtpTypeInv /\ VerifiedOnRecord)
<1>1. OtpInit => OtpTypeInv /\ VerifiedOnRecord
  BY InitOtpType DEF OtpInit, VerifiedOnRecord, At, Idle
<1>2. OtpTypeInv /\ VerifiedOnRecord /\ [OtpNext]_otpVars
        => OtpTypeInv' /\ VerifiedOnRecord'
  BY NextOtpType, NextOnRecord
<1> QED
  BY <1>1, <1>2, PTL DEF OtpSpec

-----------------------------------------------------------------------------
(* One request at a time: what is sent is counted and what is deleted was    *)
(* revoked.  With two, TLC shows both to fail.                               *)

OneAtATime == \A t, u \in Threads : t = u

LEMMA OneIsFinite ==
  ASSUME OneAtATime
  PROVE  IsFiniteSet(Threads)
<1>1. CASE Threads = {}
  BY <1>1, FS_EmptySet
<1>2. ASSUME NEW t \in Threads
      PROVE  IsFiniteSet(Threads)
  <2>1. Threads = {t}
    BY DEF OneAtATime
  <2> QED
    BY <2>1, FS_Singleton
<1> QED
  BY <1>1, <1>2

\* What the request in hand has read is still so.
ReadIsCurrent ==
  \A t \in Threads :
    request[t].phase \in SendPhases =>
      /\ counter.count \in {0, request[t].seen}
      /\ request[t].seen < RateLimitCount

UnusedIds == IdsOf(UnusedRows)
DeletedIds == IdsOf(RowsThatAre("deleted"))

\* The rows it is about to delete are revoked, or it is still to ask for it.
RevokedOrAsked ==
  \A t \in Threads :
    /\ At(t, "revoke") => UnusedIds \subseteq revoked \cup request[t].old
    /\ At(t, "delete") => UnusedIds \subseteq revoked

AloneInv ==
  /\ OtpTypeInv /\ ReadIsCurrent /\ counter.count <= RateLimitCount
  /\ CounterCounts /\ RevokedOrAsked /\ DeletedAreRevoked

LEMMA OneInFlight ==
  ASSUME OneAtATime, NEW t \in Threads
  PROVE  InFlight = IF request[t].phase \in {"create", "count"} THEN 1 ELSE 0
<1> DEFINE some == {u \in Threads : request[u].phase \in {"create", "count"}}
<1>1. CASE request[t].phase \in {"create", "count"}
  <2>1. some = {t}
    BY <1>1 DEF OneAtATime
  <2> QED
    BY <1>1, <2>1, FS_Singleton DEF InFlight
<1>2. CASE request[t].phase \notin {"create", "count"}
  <2>1. some = {}
    BY <1>2 DEF OneAtATime
  <2> QED
    BY <1>2, <2>1, FS_EmptySet DEF InFlight
<1> QED
  BY <1>1, <1>2

LEMMA OneInFlightNext ==
  ASSUME OneAtATime, NEW t \in Threads
  PROVE  InFlight' = IF request'[t].phase \in {"create", "count"} THEN 1 ELSE 0
<1> DEFINE some == {u \in Threads : request'[u].phase \in {"create", "count"}}
<1>1. CASE request'[t].phase \in {"create", "count"}
  <2>1. some = {t}
    BY <1>1 DEF OneAtATime
  <2> QED
    BY <1>1, <2>1, FS_Singleton DEF InFlight
<1>2. CASE request'[t].phase \notin {"create", "count"}
  <2>1. some = {}
    BY <1>2 DEF OneAtATime
  <2> QED
    BY <1>2, <2>1, FS_EmptySet DEF InFlight
<1> QED
  BY <1>1, <1>2

\* The limit, from the counter.
LEMMA CountedHolds ==
  ASSUME OneAtATime, AloneInv
  PROVE  LimitHolds
<1>1. /\ counter.count \in Nat /\ sent \in Nat /\ uncounted \in Nat
      /\ sent = counter.count + uncounted + InFlight
  BY DEF AloneInv, OtpTypeInv, OtpTypeOK, Counter, CounterCounts
<1>2. CASE Threads = {}
  <2>1. InFlight = 0
    BY <1>2, FS_EmptySet DEF InFlight
  <2> QED
    BY <1>1, <2>1, OtpAssumption DEF LimitHolds, AloneInv
<1>3. ASSUME NEW t \in Threads
      PROVE  LimitHolds
  <2>1. CASE request[t].phase \in {"create", "count"}
    <3>1. InFlight = 1
      BY <2>1, OneInFlight
    <3>2. /\ counter.count \in {0, request[t].seen}
          /\ request[t].seen < RateLimitCount
      BY <2>1 DEF AloneInv, ReadIsCurrent, SendPhases
    <3>3. request[t].seen \in Nat
      BY OtpAssumption DEF AloneInv, OtpTypeInv, OtpTypeOK, Request
    <3> QED
      BY <1>1, <3>1, <3>2, <3>3, OtpAssumption DEF LimitHolds
  <2>2. CASE request[t].phase \notin {"create", "count"}
    <3>1. InFlight = 0
      BY <2>2, OneInFlight
    <3> QED
      BY <1>1, <3>1, OtpAssumption DEF LimitHolds, AloneInv
  <2> QED
    BY <2>1, <2>2
<1> QED
  BY <1>2, <1>3

\* With one thread the invariant speaks of that thread alone.
OneInv(t) ==
  /\ request[t].phase \in SendPhases =>
       /\ counter.count \in {0, request[t].seen}
       /\ request[t].seen < RateLimitCount
  /\ counter.count <= RateLimitCount
  /\ sent = counter.count + uncounted +
              IF request[t].phase \in {"create", "count"} THEN 1 ELSE 0
  /\ At(t, "revoke") => UnusedIds \subseteq revoked \cup request[t].old
  /\ At(t, "delete") => UnusedIds \subseteq revoked
  /\ DeletedIds \subseteq revoked

LEMMA AloneIsOne ==
  ASSUME OneAtATime, NEW t \in Threads
  PROVE  AloneInv <=> OtpTypeInv /\ OneInv(t)
<1>1. \A u \in Threads : u = t
  BY DEF OneAtATime
<1>2. ReadIsCurrent <=>
        (request[t].phase \in SendPhases =>
           /\ counter.count \in {0, request[t].seen}
           /\ request[t].seen < RateLimitCount)
  BY <1>1 DEF ReadIsCurrent
<1>3. RevokedOrAsked <=>
        /\ At(t, "revoke") => UnusedIds \subseteq revoked \cup request[t].old
        /\ At(t, "delete") => UnusedIds \subseteq revoked
  BY <1>1 DEF RevokedOrAsked
<1>4. CounterCounts <=>
        sent = counter.count + uncounted +
                 IF request[t].phase \in {"create", "count"} THEN 1 ELSE 0
  BY OneInFlight DEF CounterCounts
<1> QED
  BY <1>2, <1>3, <1>4 DEF AloneInv, OneInv, DeletedAreRevoked, DeletedIds

LEMMA OneNext ==
  ASSUME OneAtATime, NEW t \in Threads, OtpTypeInv', OneInv(t)'
  PROVE  AloneInv'
<1>1. \A u \in Threads : u = t
  BY DEF OneAtATime
<1>2. ReadIsCurrent'
  BY <1>1 DEF ReadIsCurrent, OneInv
<1>3. RevokedOrAsked'
  BY <1>1 DEF RevokedOrAsked, OneInv
<1>4. CounterCounts'
  BY OneInFlightNext DEF CounterCounts, OneInv
<1> QED
  BY <1>2, <1>3, <1>4 DEF AloneInv, OneInv, DeletedAreRevoked, DeletedIds

\* The rows stay as they are.
LEMMA IdsSame ==
  ASSUME UNCHANGED rows
  PROVE  UnusedIds' = UnusedIds /\ DeletedIds' = DeletedIds
BY DEF UnusedIds, DeletedIds, UnusedRows, IdsOf, RowsThatAre

LEMMA IdsDeleted ==
  ASSUME OtpTypeOK, NEW t \in Threads, DeleteOld(t)
  PROVE  DeletedIds' = DeletedIds \cup UnusedIds
<1>1. /\ DOMAIN rows' = DOMAIN rows
      /\ \A i \in DOMAIN rows :
           /\ rows'[i].id = rows[i].id
           /\ rows'[i].state = IF rows[i].state = "unused" THEN "deleted"
                                                           ELSE rows[i].state
  BY RowsDeleted DEF RowsKept
<1> QED
  BY <1>1 DEF UnusedIds, DeletedIds, UnusedRows, IdsOf, RowsThatAre

LEMMA IdsUsed ==
  ASSUME OtpTypeOK, NEW id, UseRow(id)
  PROVE  UnusedIds' \subseteq UnusedIds /\ DeletedIds' \subseteq DeletedIds
<1>1. /\ DOMAIN rows' = DOMAIN rows
      /\ \A i \in DOMAIN rows :
           /\ rows'[i].id = rows[i].id
           /\ rows'[i].state = IF rows[i].state # "deleted" /\ rows[i].id = id
                               THEN "used" ELSE rows[i].state
  BY RowUsed DEF RowsKept
<1> QED
  BY <1>1 DEF UnusedIds, DeletedIds, UnusedRows, IdsOf, RowsThatAre

LEMMA IdsAged ==
  ASSUME OtpTypeOK, Tick
  PROVE  UnusedIds' = UnusedIds /\ DeletedIds' = DeletedIds
<1>1. /\ DOMAIN rows' = DOMAIN rows
      /\ \A i \in DOMAIN rows :
           rows'[i].id = rows[i].id /\ rows'[i].state = rows[i].state
  BY RowsAged DEF RowsKept
<1> QED
  BY <1>1 DEF UnusedIds, DeletedIds, UnusedRows, IdsOf, RowsThatAre

LEMMA IdsCreated ==
  ASSUME OtpTypeInv, NEW t \in Threads, Create(t)
  PROVE  DeletedIds' = DeletedIds
<1>1. /\ \A i \in DOMAIN rows : i \in DOMAIN rows' /\ rows'[i] = rows[i]
      /\ \A i \in DOMAIN rows' : i \in DOMAIN rows \/ rows'[i].state = "unused"
  BY RowCreated
<1> QED
  BY <1>1 DEF DeletedIds, IdsOf, RowsThatAre

\* A request that ends has nothing in flight.
LEMMA EndsOne ==
  ASSUME AloneInv, OneAtATime, NEW t \in Threads, OneInv(t), End(t),
         UNCHANGED <<counter, sent, revoked>>,
         uncounted' = uncounted +
           IF request[t].phase \in {"create", "count"} THEN 1 ELSE 0,
         DeletedIds' \subseteq DeletedIds
  PROVE  OneInv(t)'
<1>1. /\ request \in [Threads -> Request] /\ request'[t] = Idle
      /\ counter.count \in Nat /\ sent \in Nat /\ uncounted \in Nat
  BY DEF End, AloneInv, OtpTypeInv, OtpTypeOK, Counter
<1>2. request'[t].phase = "idle"
  BY <1>1 DEF Idle
<1> QED
  BY <1>1, <1>2 DEF OneInv, At, SendPhases

LEMMA SendOne ==
  ASSUME AloneInv, OneAtATime, NEW t \in Threads, OneInv(t), SendStep(t)
  PROVE  OneInv(t)'
<1>1. /\ counter \in Counter /\ counter.count \in Nat /\ sent \in Nat
      /\ uncounted \in Nat
      /\ request \in [Threads -> Request] /\ request[t] \in Request
      /\ OtpTypeOK /\ OtpTypeInv /\ request[t].seen \in Nat
  BY OtpAssumption DEF AloneInv, OtpTypeInv, OtpTypeOK, Counter, Request
<1>2. CASE ReadCount(t)
  <2>1. CASE counter.count >= RateLimitCount
    <3>1. request[t].phase = "idle"
      BY <1>2 DEF ReadCount, At
    <3> QED
      BY <1>1, <1>2, <2>1, <3>1, IdsSame, EndsOne DEF ReadCount
  <2>2. CASE ~(counter.count >= RateLimitCount)
    <3>1. /\ request[t].phase = "idle" /\ request'[t].phase = "fetch"
          /\ request'[t].seen = counter.count
          /\ UNCHANGED <<counter, rows, revoked, sent, uncounted>>
      BY <1>1, <1>2, <2>2 DEF ReadCount, At, Request
    <3>2. counter.count < RateLimitCount
      BY <1>1, <2>2, OtpAssumption
    <3> QED
      BY <1>1, <3>1, <3>2, IdsSame DEF OneInv, At, SendPhases
  <2> QED
    BY <2>1, <2>2
<1>3. CASE FetchOld(t)
  <2>1. /\ request[t].phase = "fetch"
        /\ request'[t].seen = request[t].seen
        /\ request'[t].old = UnusedIds
        /\ request'[t].phase = IF UnusedRows = {} THEN "delete" ELSE "revoke"
        /\ UNCHANGED <<counter, rows, revoked, sent, uncounted>>
    BY <1>1, <1>3 DEF FetchOld, At, Request, UnusedIds
  <2>2. UnusedRows = {} => UnusedIds = {}
    BY DEF UnusedIds, IdsOf
  <2> QED
    BY <1>1, <2>1, <2>2, IdsSame DEF OneInv, At, SendPhases
<1>4. CASE Revoke(t)
  <2>1. PICK id \in request[t].old :
          /\ At(t, "revoke")
          /\ revoked' = revoked \cup {id}
          /\ request' = [request EXCEPT
               ![t].phase = IF request[t].old = {id} THEN "delete" ELSE @,
               ![t].old = @ \ {id}]
          /\ UNCHANGED <<counter, rows, sent, uncounted, last>>
    BY <1>4 DEF Revoke
  <2>2. /\ request[t].phase = "revoke"
        /\ request'[t].seen = request[t].seen
        /\ request'[t].old = request[t].old \ {id}
        /\ request'[t].phase = IF request[t].old = {id} THEN "delete"
                                                        ELSE "revoke"
    BY <1>1, <2>1 DEF At, Request
  <2>3. /\ UnusedIds \subseteq revoked' \cup request'[t].old
        /\ request'[t].phase = "delete" => UnusedIds \subseteq revoked'
    BY <2>1, <2>2 DEF OneInv, At
  <2> QED
    BY <1>1, <2>1, <2>2, <2>3, IdsSame DEF OneInv, At, SendPhases
<1>5. CASE DeleteOld(t)
  <2>1. /\ request[t].phase = "delete" /\ request'[t].phase = "post"
        /\ request'[t].seen = request[t].seen
        /\ UNCHANGED <<counter, revoked, sent, uncounted>>
    BY <1>1, <1>5 DEF DeleteOld, Goto, At, Request
  <2>2. DeletedIds' \subseteq revoked
    BY <1>1, <1>5, <2>1, IdsDeleted DEF OneInv, At
  <2> QED
    BY <1>1, <2>1, <2>2 DEF OneInv, At, SendPhases
<1>6. CASE Post(t)
  <2>1. CASE End(t) /\ UNCHANGED <<sent, last>>
    <3>1. request[t].phase = "post"
      BY <1>6 DEF Post, At
    <3> QED
      BY <1>1, <1>6, <2>1, <3>1, IdsSame, EndsOne DEF Post
  <2>2. CASE /\ last < MaxMessages
             /\ last' = last + 1
             /\ sent' = sent + 1
             /\ request' = [request EXCEPT ![t].phase = "create",
                                           ![t].id = last + 1]
    <3>1. /\ request[t].phase = "post" /\ request'[t].phase = "create"
          /\ request'[t].seen = request[t].seen
          /\ UNCHANGED <<counter, rows, revoked, uncounted>>
      BY <1>1, <1>6, <2>2 DEF Post, At, Request
    <3> QED
      BY <1>1, <2>2, <3>1, IdsSame DEF OneInv, At, SendPhases
  <2> QED
    BY <1>6, <2>1, <2>2 DEF Post
<1>7. CASE Create(t)
  <2>1. /\ request[t].phase = "create" /\ request'[t].phase = "count"
        /\ request'[t].seen = request[t].seen
        /\ UNCHANGED <<counter, revoked, sent, uncounted>>
    BY <1>1, <1>7 DEF Create, Goto, At, Request
  <2>2. DeletedIds' = DeletedIds
    BY <1>1, <1>7, IdsCreated
  <2> QED
    BY <1>1, <2>1, <2>2 DEF OneInv, At, SendPhases
\* A count that starts the counter found none; one that adds, what it read.
<1>8. CASE Count(t)
  <2>1. /\ request[t].phase = "count" /\ request'[t] = Idle
        /\ UNCHANGED <<rows, revoked, sent>>
    BY <1>1, <1>8 DEF Count, End, At
  <2>2. request'[t].phase = "idle"
    BY <2>1 DEF Idle
  <2>3. /\ counter.count \in {0, request[t].seen}
        /\ request[t].seen < RateLimitCount
        /\ sent = counter.count + uncounted + 1
    BY <2>1 DEF OneInv, SendPhases
  <2>4. /\ counter'.count + uncounted' = counter.count + uncounted + 1
        /\ counter'.count <= RateLimitCount /\ counter'.count \in Nat
    <3>1. CASE /\ request[t].seen = 0
               /\ counter' = [count |-> 1, left |-> Window]
               /\ UNCHANGED uncounted
      BY <1>1, <2>3, <3>1, OtpAssumption
    <3>2. CASE /\ request[t].seen > 0 /\ counter.count > 0
               /\ counter' = [counter EXCEPT !.count = @ + 1]
               /\ UNCHANGED uncounted
      <4>1. counter'.count = counter.count + 1
        BY <1>1, <3>2 DEF Counter
      <4> QED
        BY <1>1, <2>3, <3>2, <4>1, OtpAssumption
    <3>3. CASE /\ request[t].seen > 0 /\ counter.count = 0
               /\ uncounted' = uncounted + 1
               /\ UNCHANGED counter
      BY <1>1, <2>3, <3>3, OtpAssumption
    <3> QED
      BY <1>8, <3>1, <3>2, <3>3 DEF Count
  <2>5. sent' = counter'.count + uncounted' + 0
    BY <1>1, <2>1, <2>3, <2>4
  <2> QED
    BY <2>1, <2>2, <2>4, <2>5, IdsSame DEF OneInv, At, SendPhases
<1> QED
  BY <1>2, <1>3, <1>4, <1>5, <1>6, <1>7, <1>8 DEF SendStep

LEMMA VerifyOne ==
  ASSUME AloneInv, OneAtATime, NEW t \in Threads, OneInv(t),
         VerifyStep(t) \/ Die(t) \/ Respond(t)
  PROVE  OneInv(t)'
<1>1. /\ counter \in Counter /\ counter.count \in Nat /\ sent \in Nat
      /\ uncounted \in Nat
      /\ request \in [Threads -> Request] /\ request[t] \in Request
      /\ OtpTypeOK /\ OtpTypeInv
  BY DEF AloneInv, OtpTypeInv, OtpTypeOK, Counter
\* A verification is no send.
<1>2. ASSUME request[t].phase \notin SendPhases,
             request'[t].phase \notin SendPhases,
             UNCHANGED <<counter, revoked, sent, uncounted>>,
             DeletedIds' \subseteq DeletedIds
      PROVE  OneInv(t)'
  BY <1>1, <1>2 DEF OneInv, At, SendPhases
<1>3. ASSUME End(t), UNCHANGED <<counter, rows, revoked, sent, uncounted>>,
             request[t].phase \notin {"create", "count"}
      PROVE  OneInv(t)'
  BY <1>1, <1>3, IdsSame, EndsOne
<1>4. CASE LoadLatest(t)
  <2>1. request[t].phase = "idle"
        /\ UNCHANGED <<counter, rows, revoked, sent, uncounted>>
    BY <1>4 DEF LoadLatest, At
  <2>2. End(t) \/ request'[t].phase = "check"
    BY <1>1, <1>4 DEF LoadLatest, Request
  <2> QED
    BY <1>2, <1>3, <2>1, <2>2, IdsSame DEF SendPhases
<1>5. CASE CheckCode(t)
  <2>1. request[t].phase = "check"
        /\ UNCHANGED <<counter, rows, revoked, sent, uncounted>>
    BY <1>5 DEF CheckCode, At
  <2>2. End(t) \/ request'[t].phase = "mark"
    BY <1>1, <1>5 DEF CheckCode, Goto, Request
  <2> QED
    BY <1>2, <1>3, <2>1, <2>2, IdsSame DEF SendPhases
<1>6. CASE MarkUsed(t)
  <2>1. request[t].phase = "mark"
        /\ UNCHANGED <<counter, revoked, sent, uncounted>>
    BY <1>6 DEF MarkUsed, At
  <2>2. request'[t].phase \in {"idle", "verified"}
    BY <1>1, <1>6 DEF MarkUsed, Goto, End, Idle, Request
  <2>3. DeletedIds' \subseteq DeletedIds
    BY <1>1, <1>6, IdsUsed DEF MarkUsed
  <2> QED
    BY <1>2, <2>1, <2>2, <2>3 DEF SendPhases
<1>7. CASE Die(t)
  BY <1>1, <1>7, IdsSame, EndsOne DEF Die
<1>8. CASE Respond(t)
  BY <1>3, <1>8 DEF Respond, At
<1> QED
  BY <1>4, <1>5, <1>6, <1>7, <1>8 DEF VerifyStep

LEMMA TickOne ==
  ASSUME AloneInv, OneAtATime, NEW t \in Threads, OneInv(t), Tick
  PROVE  OneInv(t)'
<1>1. /\ counter \in Counter /\ counter.count \in Nat /\ sent \in Nat
      /\ uncounted \in Nat /\ OtpTypeOK
      /\ request' = request /\ revoked' = revoked
  BY DEF AloneInv, OtpTypeInv, OtpTypeOK, Counter, Tick
<1>2. UnusedIds' = UnusedIds /\ DeletedIds' = DeletedIds
  BY <1>1, IdsAged
<1>3. CASE Expire
  <2>1. counter'.count = 0 /\ uncounted' = 0 /\ sent' = InFlight
    BY <1>3 DEF Expire, NoCounter, InFlight
  <2>2. InFlight = IF request[t].phase \in {"create", "count"} THEN 1 ELSE 0
    BY OneInFlight
  <2> QED
    BY <1>1, <1>2, <2>1, <2>2, OtpAssumption DEF OneInv, At
<1>4. CASE counter'.count = counter.count /\ UNCHANGED <<sent, uncounted>>
  BY <1>1, <1>2, <1>4 DEF OneInv, At
<1>5. counter.left > 1 /\ counter' = [counter EXCEPT !.left = @ - 1]
        => counter'.count = counter.count
  BY <1>1 DEF Counter
<1> QED
  BY <1>3, <1>4, <1>5 DEF Tick

LEMMA NextAlone ==
  ASSUME OneAtATime, AloneInv, [OtpNext]_otpVars
  PROVE  AloneInv'
<1>1. OtpTypeInv'
  BY NextOtpType, OneIsFinite DEF AloneInv
<1>2. CASE UNCHANGED otpVars
  <2>1. ReadIsCurrent' /\ RevokedOrAsked' /\ CounterCounts'
    BY <1>2, IdsSame
       DEF otpVars, AloneInv, ReadIsCurrent, RevokedOrAsked, CounterCounts,
           InFlight, At
  <2> QED
    BY <1>1, <1>2, <2>1, IdsSame DEF otpVars, AloneInv, DeletedAreRevoked, DeletedIds
<1>3. ASSUME NEW t \in Threads,
             SendStep(t) \/ VerifyStep(t) \/ Die(t) \/ Respond(t) \/ Tick
      PROVE  AloneInv'
  <2>1. OneInv(t)
    BY AloneIsOne
  <2>2. OneInv(t)'
    BY <1>3, <2>1, SendOne, VerifyOne, TickOne
  <2> QED
    BY <1>1, <2>2, OneNext
<1>4. CASE Threads = {} /\ Tick
  <2>1. InFlight' = 0
    BY <1>4, FS_EmptySet DEF InFlight
  <2>2. InFlight = 0
    BY <1>4, FS_EmptySet DEF InFlight
  <2>3. /\ counter \in Counter /\ sent = counter.count + uncounted
        /\ sent \in Nat /\ uncounted \in Nat /\ OtpTypeOK
        /\ counter.count \in Nat /\ counter.count <= RateLimitCount
    BY <2>2 DEF AloneInv, CounterCounts, OtpTypeInv, OtpTypeOK, Counter
  <2>4. counter'.count <= RateLimitCount /\ sent' = counter'.count + uncounted'
    <3>1. CASE Expire
      <4>1. counter'.count = 0 /\ uncounted' = 0 /\ sent' = InFlight
        BY <3>1 DEF Expire, NoCounter, InFlight
      <4> QED
        BY <2>2, <4>1, OtpAssumption
    <3>2. CASE counter' = [counter EXCEPT !.left = @ - 1]
               /\ UNCHANGED <<sent, uncounted>>
      BY <2>3, <3>2 DEF Counter
    <3>3. CASE UNCHANGED <<counter, sent, uncounted>>
      BY <2>3, <3>3
    <3> QED
      BY <1>4, <3>1, <3>2, <3>3 DEF Tick
  <2>5. CounterCounts'
    BY <2>1, <2>4, <1>1 DEF CounterCounts, OtpTypeInv, OtpTypeOK, Counter
  <2>6. DeletedAreRevoked'
    <3>1. DeletedIds' = DeletedIds /\ revoked' = revoked
      BY <1>4, <2>3, IdsAged DEF Tick
    <3> QED
      BY <3>1 DEF AloneInv, DeletedAreRevoked, DeletedIds
  <2> QED
    BY <1>1, <1>4, <2>4, <2>5, <2>6 DEF AloneInv, ReadIsCurrent, RevokedOrAsked
<1> QED
  BY <1>2, <1>3, <1>4 DEF OtpNext

LEMMA InitAlone ==
  ASSUME OtpInit
  PROVE  AloneInv
<1>1. \A t \in Threads : request[t].phase = "idle"
  BY DEF OtpInit, Idle
<1>2. rows = <<>> /\ counter.count = 0 /\ sent = 0 /\ uncounted = 0
  BY DEF OtpInit, NoCounter
<1>3. InFlight = 0
  <2>1. {t \in Threads : request[t].phase \in {"create", "count"}} = {}
    BY <1>1
  <2> QED
    BY <2>1, FS_EmptySet DEF InFlight
<1>4. DeletedAreRevoked
  <2>1. DOMAIN rows = {}
    BY <1>2
  <2> QED
    BY <2>1 DEF DeletedAreRevoked, IdsOf, RowsThatAre
<1> QED
  BY <1>1, <1>2, <1>3, <1>4, InitOtpType, OtpAssumption
     DEF AloneInv, ReadIsCurrent, RevokedOrAsked, CounterCounts, At, SendPhases

LEMMA AlwaysAlone ==
  ASSUME OneAtATime
  PROVE  OtpSpec => []AloneInv
<1>1. OtpInit => AloneInv
  BY InitAlone
<1>2. AloneInv /\ [OtpNext]_otpVars => AloneInv'
  BY NextAlone
<1> QED
  BY <1>1, <1>2, PTL DEF OtpSpec

\* One request at a time, every message of a window is counted ...
THEOREM MessagesCounted ==
  ASSUME OneAtATime
  PROVE  OtpSpec => []CounterCounts
<1>1. AloneInv => CounterCounts
  BY DEF AloneInv
<1> QED
  BY <1>1, AlwaysAlone, PTL

\* ... the documented limit holds, but for requests that failed ...
THEOREM LimitAlone ==
  ASSUME OneAtATime
  PROVE  OtpSpec => []LimitHolds
<1>1. AloneInv => LimitHolds
  BY CountedHolds
<1> QED
  BY <1>1, AlwaysAlone, PTL

\* ... and whatever is deleted the gateway was asked to revoke.  With a second
\* request this fails, and that is the case worth knowing of (services.py:70).
LEMMA DeletedAsked ==
  ASSUME OneAtATime
  PROVE  OtpSpec => []DeletedAreRevoked
<1>1. AloneInv => DeletedAreRevoked
  BY DEF AloneInv
<1> QED
  BY <1>1, AlwaysAlone, PTL

-----------------------------------------------------------------------------
(* Accounts and tokens: types. *)

Token == [session : Sessions, live : BOOLEAN]

SignInTypeOK ==
  /\ account \in Account /\ walletFailed \in BOOLEAN /\ newcomers \in Nat
  /\ login \in [Threads -> Login]
  /\ token \in Seq(Token) /\ Len(token) <= MaxTokens

\* A request that presented a token holds one that was signed.
Presented ==
  \A t \in Threads :
    login[t].at \in {"rotate", "logout", "issue"} =>
      login[t].token \in DOMAIN token

\* The initial state has its types.
LEMMA InitSignInType == SignInInit => SignInTypeOK
<1> SUFFICES ASSUME SignInInit
             PROVE  SignInTypeOK
  OBVIOUS
<1>1. NoLogin \in Login
  BY SignInAssumption DEF NoLogin, Login
<1>2. token \in Seq(Token) /\ Len(token) <= MaxTokens
  BY SignInAssumption DEF SignInInit
<1> QED
  BY <1>1, <1>2 DEF SignInInit, SignInTypeOK, Account

\* A request that goes on or ends is at a known place.
LEMMA LoginType ==
  ASSUME SignInTypeOK, NEW t \in Threads,
         \/ \E stage \in {"none", "get", "insert", "signal", "commit", "again",
                          "stamp", "sign", "rotate", "issue", "logout",
                          "create_wallet"} : GoOn(t, stage)
         \/ Done(t)
  PROVE  login' \in [Threads -> Login]
<1>1. CASE Done(t)
  <2>1. NoLogin \in Login
    BY SignInAssumption DEF NoLogin, Login
  <2> QED
    BY <1>1, <2>1 DEF Done, SignInTypeOK
<1>2. ASSUME NEW stage \in {"none", "get", "insert", "signal", "commit",
                            "again", "stamp", "sign", "rotate", "issue",
                            "logout", "create_wallet"},
             GoOn(t, stage)
      PROVE  login' \in [Threads -> Login]
  <2> DEFINE new == [login[t] EXCEPT !.at = stage]
  <2>1. new \in Login
    BY DEF SignInTypeOK, Login
  <2>2. login' = [login EXCEPT ![t] = new]
    BY <1>2 DEF GoOn, SignInTypeOK, Login
  <2> HIDE DEF new
  <2> QED
    BY <2>1, <2>2 DEF SignInTypeOK
<1> QED
  BY <1>1, <1>2

\* A token is signed after the others ...
LEMMA TokenSigned ==
  ASSUME SignInTypeOK, NEW session \in Sessions, SignToken(session)
  PROVE  /\ token' \in Seq(Token) /\ Len(token') <= MaxTokens
         /\ Len(token') = Len(token) + 1
         /\ \A k \in DOMAIN token : k \in DOMAIN token' /\ token'[k] = token[k]
         /\ \A k \in DOMAIN token' : k \in DOMAIN token \/ k = Len(token) + 1
         /\ token'[Len(token) + 1] = [session |-> session, live |-> TRUE]
<1> DEFINE new == [session |-> session, live |-> TRUE]
<1>1. new \in Token
  BY DEF Token
<1>2. token \in Seq(Token) /\ token' = Append(token, new)
      /\ Len(token) < MaxTokens /\ Len(token) \in Nat
  BY DEF SignInTypeOK, SignToken
<1> HIDE DEF new
<1>3. token' \in Seq(Token) /\ Len(token') = Len(token) + 1
  BY <1>1, <1>2
<1>4. /\ \A k \in 1 .. Len(token) : token'[k] = token[k]
      /\ token'[Len(token) + 1] = new
  BY <1>1, <1>2
<1>5. DOMAIN token = 1 .. Len(token) /\ DOMAIN token' = 1 .. Len(token')
  BY <1>2, <1>3
<1> QED
  BY <1>2, <1>3, <1>4, <1>5, SignInAssumption DEF new

\* ... or put on the blacklist.
LEMMA TokenListed ==
  ASSUME SignInTypeOK, NEW t \in Threads, login[t].token \in DOMAIN token,
         Blacklisted(t)
  PROVE  /\ token' \in Seq(Token) /\ Len(token') = Len(token)
         /\ DOMAIN token' = DOMAIN token
         /\ \A k \in DOMAIN token :
              /\ token'[k].session = token[k].session
              /\ token'[k].live <=> token[k].live /\ k # login[t].token
<1> DEFINE j == login[t].token
           new == [token[j] EXCEPT !.live = FALSE]
<1>1. token \in Seq(Token) /\ j \in 1 .. Len(token)
  BY DEF SignInTypeOK
<1>2. token[j] \in Token
  BY <1>1
<1>3. /\ new \in Token /\ new.session = token[j].session /\ new.live = FALSE
  BY <1>2 DEF Token
<1>4. token' = [token EXCEPT ![j] = new]
  BY <1>1, <1>2 DEF Blacklisted, Token
<1> HIDE DEF new, j
<1>5. token' \in Seq(Token) /\ Len(token') = Len(token)
  BY <1>1, <1>3, <1>4, ExceptSeq
<1>6. DOMAIN token = 1 .. Len(token) /\ DOMAIN token' = 1 .. Len(token)
  BY <1>1, <1>5
<1>7. \A k \in DOMAIN token : token'[k] = IF k = j THEN new ELSE token[k]
  BY <1>1, <1>4, <1>6
<1>8. \A k \in DOMAIN token :
        /\ token'[k].session = token[k].session
        /\ token'[k].live <=> token[k].live /\ k # j
  BY <1>3, <1>7
<1> QED
  BY <1>5, <1>6, <1>8 DEF j

\* Every step keeps the types.
LEMMA NextSignInType ==
  ASSUME SignInTypeOK, Presented, [SignInNext]_signInVars
  PROVE  SignInTypeOK'
<1>1. CASE UNCHANGED signInVars
  BY <1>1 DEF signInVars, accountVars, tokenVars, SignInTypeOK
<1>2. CASE OtpStep
  BY <1>2 DEF OtpStep, accountVars, tokenVars, SignInTypeOK
<1>3. ASSUME NEW t \in Threads, SignInStep(t)
      PROVE  SignInTypeOK'
  <2>1. CASE Authenticate(t)
    BY <2>1, LoginType DEF Authenticate, accountVars, tokenVars, SignInTypeOK
  <2>2. CASE Get(t)
    BY <2>2, LoginType DEF Get, Found, accountVars, tokenVars, SignInTypeOK
  <2>3. CASE Insert(t)
    BY <2>3, LoginType DEF Insert, tokenVars, SignInTypeOK
  <2>4. CASE CreateUserWallet(t)
    <3>1. login' \in [Threads -> Login]
      <4>1. CASE login' = [login EXCEPT ![t].at = "commit", ![t].wallet = TRUE]
        BY <4>1, ZenonT(40) DEF SignInTypeOK, Login
      <4> QED
        BY <2>4, <4>1, LoginType DEF CreateUserWallet
    <3> QED
      BY <2>4, <3>1 DEF CreateUserWallet, tokenVars, SignInTypeOK
  <2>5. CASE Commit(t)
    <3>1. login' \in [Threads -> Login]
      BY <2>5, ZenonT(40) DEF Commit, SignInTypeOK, Login
    <3>2. account' \in Account
      BY <2>5 DEF Commit, SignInTypeOK, Login, Account
    <3> QED
      BY <2>5, <3>1, <3>2 DEF Commit, tokenVars, SignInTypeOK
  <2>6. CASE GetAgain(t)
    BY <2>6, LoginType DEF GetAgain, Found, accountVars, tokenVars, SignInTypeOK
  <2>7. CASE Stamp(t)
    BY <2>7, LoginType DEF Stamp, accountVars, tokenVars, SignInTypeOK
  <2>8. CASE GenerateTokens(t)
    <3>1. Len(token) + 1 \in Sessions
      BY <2>8, SignInAssumption
      DEF GenerateTokens, SignToken, SignInTypeOK, Sessions
    <3>2. token' \in Seq(Token) /\ Len(token') <= MaxTokens
      BY <2>8, <3>1, TokenSigned DEF GenerateTokens
    <3>3. login' \in [Threads -> Login]
      BY <2>8, LoginType DEF GenerateTokens
    <3>4. newcomers' \in Nat
      BY <2>8 DEF GenerateTokens, SignInTypeOK
    <3> QED
      BY <2>8, <3>2, <3>3, <3>4 DEF GenerateTokens, SignInTypeOK
  <2> QED
    BY <1>3, <2>1, <2>2, <2>3, <2>4, <2>5, <2>6, <2>7, <2>8 DEF SignInStep
<1>4. ASSUME NEW t \in Threads, TokenStep(t)
      PROVE  SignInTypeOK'
  <2>1. ASSUME NEW k \in DOMAIN token, NEW stage \in {"rotate", "logout"},
               Present(t, k, stage)
        PROVE  SignInTypeOK'
    <3>1. k \in 0 .. MaxTokens
      BY SignInAssumption DEF SignInTypeOK
    <3>2. login' \in [Threads -> Login]
      BY <2>1, <3>1, ZenonT(40) DEF Present, SignInTypeOK, Login
    <3> QED
      BY <2>1, <3>2 DEF Present, accountVars, SignInTypeOK
  <2>2. CASE Rotate(t)
    <3>1. login[t].token \in DOMAIN token
      BY <2>2 DEF Rotate, Doing, Presented
    <3>2. token' \in Seq(Token) /\ Len(token') <= MaxTokens
      BY <2>2, <3>1, TokenListed DEF Rotate, SignInTypeOK
    <3>3. login' \in [Threads -> Login]
      BY <2>2, LoginType DEF Rotate
    <3> QED
      BY <2>2, <3>2, <3>3 DEF Rotate, accountVars, SignInTypeOK
  <2>3. CASE Logout(t)
    <3>1. login[t].token \in DOMAIN token
      BY <2>3 DEF Logout, Doing, Presented
    <3>2. token' \in Seq(Token) /\ Len(token') <= MaxTokens
      BY <2>3, <3>1, TokenListed DEF Logout, SignInTypeOK
    <3>3. login' \in [Threads -> Login]
      BY <2>3, LoginType DEF Logout
    <3> QED
      BY <2>3, <3>2, <3>3 DEF Logout, accountVars, SignInTypeOK
  <2>4. CASE Issue(t)
    <3>1. login[t].token \in DOMAIN token
      BY <2>4 DEF Issue, Doing, Presented
    <3>2. SessionOf(t) \in Sessions
      <4>1. token[login[t].token] \in Token
        BY <3>1 DEF SignInTypeOK
      <4> QED
        BY <4>1 DEF SessionOf, Token
    <3>3. token' \in Seq(Token) /\ Len(token') <= MaxTokens
      BY <2>4, <3>2, TokenSigned DEF Issue
    <3>4. login' \in [Threads -> Login]
      BY <2>4, LoginType DEF Issue
    <3> QED
      BY <2>4, <3>3, <3>4 DEF Issue, accountVars, SignInTypeOK
  <2> QED
    BY <1>4, <2>1, <2>2, <2>3, <2>4 DEF TokenStep
<1>5. ASSUME NEW t \in Threads,
             MissWallet(t) \/ CreateWallet(t) \/ DieSigningIn(t)
      PROVE  SignInTypeOK'
  <2>1. login' \in [Threads -> Login]
    BY <1>5, LoginType DEF MissWallet, CreateWallet, DieSigningIn
  <2>2. account' \in Account
    BY <1>5 DEF MissWallet, CreateWallet, DieSigningIn, accountVars,
                SignInTypeOK, Account
  <2> QED
    BY <1>5, <2>1, <2>2
    DEF MissWallet, CreateWallet, DieSigningIn, accountVars, tokenVars,
        SignInTypeOK
<1>6. CASE Suspend
  BY <1>6 DEF Suspend, tokenVars, SignInTypeOK, Account
<1> QED
  BY <1>1, <1>2, <1>3, <1>4, <1>5, <1>6 DEF SignInNext
-----------------------------------------------------------------------------
(* The account. *)

\* One row of the user is uncommitted at a time, and none once it exists; who
\* created it is the only one to say so.
AccountInv ==
  /\ account.exists => account.wallet \/ walletFailed
  /\ \A t \in Threads :
       /\ login[t].at = "commit" => login[t].wallet \/ walletFailed
       /\ login[t].at \in {"signal", "commit"} => inserting = {t}
       /\ login[t].created =>
            /\ login[t].at \in {"stamp", "sign"}
            /\ account.exists /\ newcomers = 0
  /\ \A t, u \in Threads : login[t].created /\ login[u].created => t = u
  /\ inserting # {} => ~account.exists
  /\ newcomers > 0 => account.exists
  /\ newcomers <= 1

\* What a step leaves of its request, and of the others.
LEMMA LoginMoves ==
  ASSUME SignInTypeOK, NEW t \in Threads
  PROVE  /\ \A stage : GoOn(t, stage) =>
              /\ login'[t].at = stage /\ login'[t].created = login[t].created
              /\ login'[t].token = login[t].token
              /\ \A u \in Threads \ {t} : login'[u] = login[u]
         /\ Done(t) =>
              /\ login'[t].at = "none" /\ login'[t].created = FALSE
              /\ \A u \in Threads \ {t} : login'[u] = login[u]
<1>1. ASSUME NEW stage, GoOn(t, stage)
      PROVE  /\ login'[t].at = stage /\ login'[t].created = login[t].created
             /\ login'[t].token = login[t].token
             /\ \A u \in Threads \ {t} : login'[u] = login[u]
  BY <1>1 DEF GoOn, SignInTypeOK, Login
<1>2. ASSUME Done(t)
      PROVE  /\ login'[t].at = "none" /\ login'[t].created = FALSE
             /\ \A u \in Threads \ {t} : login'[u] = login[u]
  BY <1>2 DEF Done, NoLogin, SignInTypeOK
<1> QED
  BY <1>1, <1>2

\* A step elsewhere in a request.
LEMMA ElsewhereAccount ==
  ASSUME AccountInv, UNCHANGED accountVars, NEW t \in Threads,
         \A u \in Threads \ {t} : login'[u] = login[u],
         login'[t].at \notin {"signal", "commit"},
         login'[t].created =>
           login[t].created /\ login'[t].at \in {"stamp", "sign"}
  PROVE  AccountInv'
<1>1. /\ account' = account /\ inserting' = inserting
      /\ walletFailed' = walletFailed /\ newcomers' = newcomers
  BY DEF accountVars
<1>2. \A u \in Threads :
        /\ login'[u].at = "commit" => login'[u].wallet \/ walletFailed
        /\ login'[u].at \in {"signal", "commit"} => inserting = {u}
        /\ login'[u].created =>
             /\ login'[u].at \in {"stamp", "sign"}
             /\ account.exists /\ newcomers = 0
  BY DEF AccountInv
<1>3. \A u, v \in Threads : login'[u].created /\ login'[v].created => u = v
  BY DEF AccountInv
<1> QED
  BY <1>1, <1>2, <1>3 DEF AccountInv

\* Finding or creating the account.
LEMMA SignInAccount ==
  ASSUME SignInTypeOK, AccountInv, NEW t \in Threads, SignInStep(t)
  PROVE  AccountInv'
<1>1. CASE Authenticate(t) \/ Get(t) \/ GetAgain(t) \/ Stamp(t)
  <2>1. UNCHANGED accountVars
    BY <1>1 DEF Authenticate, Get, GetAgain, Stamp
  <2>2. login[t].created => login[t].at \in {"stamp", "sign"}
    BY DEF AccountInv
  <2>3. \/ /\ login[t].at \in {"none", "get", "again"}
           /\ GoOn(t, "get") \/ GoOn(t, "insert") \/ GoOn(t, "stamp")
        \/ GoOn(t, "sign") \/ Done(t)
    BY <1>1 DEF Authenticate, Get, GetAgain, Stamp, Found, Doing
  <2>4. CASE /\ login[t].at \in {"none", "get", "again"}
             /\ GoOn(t, "get") \/ GoOn(t, "insert") \/ GoOn(t, "stamp")
    <3>1. /\ login'[t].at \notin {"signal", "commit"}
          /\ \A u \in Threads \ {t} : login'[u] = login[u]
          /\ login'[t].created =>
               login[t].created /\ login'[t].at \in {"stamp", "sign"}
      BY <2>2, <2>4 DEF GoOn, SignInTypeOK, Login
    <3> QED
      BY <2>1, <3>1, ElsewhereAccount
  <2>5. CASE GoOn(t, "sign") \/ Done(t)
    <3>1. /\ login'[t].at \notin {"signal", "commit"}
          /\ \A u \in Threads \ {t} : login'[u] = login[u]
          /\ login'[t].created =>
               login[t].created /\ login'[t].at \in {"stamp", "sign"}
      BY <2>2, <2>5 DEF GoOn, Done, NoLogin, SignInTypeOK, Login
    <3> QED
      BY <2>1, <3>1, ElsewhereAccount
  <2> QED
    BY <2>3, <2>4, <2>5
<1>2. CASE Insert(t)
  <2>1. /\ login[t].at = "insert" /\ inserting = {}
        /\ account' = account /\ walletFailed' = walletFailed
        /\ newcomers' = newcomers
    BY <1>2 DEF Insert, Doing
  <2>2. ~login[t].created
    BY <2>1 DEF AccountInv
  <2>3. CASE GoOn(t, "again") /\ inserting' = inserting
    <3>1. /\ login'[t].at \notin {"signal", "commit"}
          /\ \A u \in Threads \ {t} : login'[u] = login[u]
          /\ login'[t].created =>
               login[t].created /\ login'[t].at \in {"stamp", "sign"}
      BY <2>2, <2>3 DEF GoOn, SignInTypeOK, Login
    <3> QED
      BY <2>1, <2>3, <3>1, ElsewhereAccount DEF accountVars
  <2>4. CASE /\ ~account.exists /\ inserting' = {t} /\ GoOn(t, "signal")
    <3>1. /\ login'[t].at = "signal" /\ ~login'[t].created
          /\ \A u \in Threads \ {t} : login'[u] = login[u]
      BY <2>2, <2>4, LoginMoves
    <3>2. \A u \in Threads : login[u].at \notin {"signal", "commit"}
      BY <2>1 DEF AccountInv
    <3> QED
      BY <2>1, <2>4, <3>1, <3>2 DEF AccountInv
  <2> QED
    BY <1>2, <2>3, <2>4 DEF Insert
<1>3. CASE CreateUserWallet(t)
  <2>1. /\ login[t].at = "signal" /\ inserting = {t} /\ ~account.exists
        /\ account' = account /\ newcomers' = newcomers
        /\ walletFailed => walletFailed'
    BY <1>3 DEF CreateUserWallet, Doing, AccountInv
  <2>2. /\ ~login[t].created
        /\ \A u \in Threads \ {t} : login[u].at \notin {"signal", "commit"}
    BY <2>1 DEF AccountInv
  <2>3. CASE /\ login' = [login EXCEPT ![t].at = "commit", ![t].wallet = TRUE]
             /\ inserting' = inserting /\ walletFailed' = walletFailed
    <3>1. /\ login'[t].at = "commit" /\ login'[t].wallet
          /\ ~login'[t].created
          /\ \A u \in Threads \ {t} : login'[u] = login[u]
      BY <2>2, <2>3 DEF SignInTypeOK, Login
    <3> QED
      BY <2>1, <2>2, <2>3, <3>1 DEF AccountInv
  <2>4. CASE GoOn(t, "commit") /\ walletFailed' = TRUE /\ inserting' = inserting
    <3>1. /\ login'[t].at = "commit" /\ ~login'[t].created
          /\ \A u \in Threads \ {t} : login'[u] = login[u]
      BY <2>2, <2>4, LoginMoves
    <3> QED
      BY <2>1, <2>2, <2>4, <3>1 DEF AccountInv
  <2>5. CASE Done(t) /\ inserting' = {} /\ walletFailed' = walletFailed
    <3>1. /\ login'[t].at = "none" /\ ~login'[t].created
          /\ \A u \in Threads \ {t} : login'[u] = login[u]
      BY <2>5, LoginMoves
    <3> QED
      BY <2>1, <2>2, <2>5, <3>1 DEF AccountInv
  <2> QED
    BY <1>3, <2>3, <2>4, <2>5 DEF CreateUserWallet
<1>4. CASE Commit(t)
  <2>1. /\ login[t].at = "commit" /\ inserting = {t} /\ ~account.exists
        /\ login[t].wallet \/ walletFailed
        /\ newcomers' = newcomers /\ walletFailed' = walletFailed
        /\ inserting' = {}
    BY <1>4 DEF Commit, Doing, AccountInv
  <2>2. /\ \A u \in Threads : ~login[u].created
        /\ \A u \in Threads \ {t} : login[u].at \notin {"signal", "commit"}
        /\ newcomers = 0
    BY <2>1 DEF AccountInv, SignInTypeOK
  <2>3. account'.exists = TRUE /\ account'.wallet = login[t].wallet
    BY <1>4 DEF Commit, SignInTypeOK, Account
  <2>4. /\ login'[t].at = "stamp" /\ login'[t].created
        /\ \A u \in Threads \ {t} : login'[u] = login[u]
    BY <1>4 DEF Commit, SignInTypeOK, Login
  <2> QED
    BY <2>1, <2>2, <2>3, <2>4 DEF AccountInv
<1>5. CASE GenerateTokens(t)
  <2>1. /\ account' = account /\ inserting' = inserting
        /\ walletFailed' = walletFailed
        /\ newcomers' = newcomers + (IF login[t].created THEN 1 ELSE 0)
    BY <1>5 DEF GenerateTokens
  <2>2. /\ login'[t].at = "none" /\ ~login'[t].created
        /\ \A u \in Threads \ {t} : login'[u] = login[u]
    BY <1>5, LoginMoves DEF GenerateTokens
  <2>3. CASE login[t].created
    <3>1. /\ newcomers' = 1 /\ account.exists
          /\ \A u \in Threads : ~login'[u].created
      BY <2>1, <2>2, <2>3 DEF AccountInv
    <3> QED
      BY <2>1, <2>2, <3>1 DEF AccountInv
  <2>4. CASE ~login[t].created
    BY <2>1, <2>2, <2>4, ElsewhereAccount DEF accountVars, SignInTypeOK
  <2> QED
    BY <2>3, <2>4
<1> QED
  BY <1>1, <1>2, <1>3, <1>4, <1>5 DEF SignInStep

\* The rest.
LEMMA NextAccount ==
  ASSUME SignInTypeOK, AccountInv, [SignInNext]_signInVars
  PROVE  AccountInv'
<1>1. CASE UNCHANGED signInVars \/ OtpStep
  <2>1. UNCHANGED accountVars /\ login' = login
    BY <1>1 DEF signInVars, OtpStep
  <2> QED
    BY <2>1 DEF accountVars, AccountInv
<1>2. ASSUME NEW t \in Threads, TokenStep(t) \/ MissWallet(t)
      PROVE  AccountInv'
  <2>1. UNCHANGED accountVars
    BY <1>2 DEF TokenStep, Present, Rotate, Issue, Logout, MissWallet
  <2>2. login[t].created => login[t].at \in {"stamp", "sign"}
    BY DEF AccountInv
  <2>3. \/ \E k \in DOMAIN token, stage \in {"rotate", "logout"} :
             Present(t, k, stage)
        \/ login[t].at \in {"rotate", "none"}
           /\ (GoOn(t, "issue") \/ GoOn(t, "create_wallet"))
        \/ Done(t)
    BY <1>2 DEF TokenStep, Rotate, Issue, Logout, MissWallet, Doing, Free
  <2>4. ASSUME NEW k \in DOMAIN token, NEW stage \in {"rotate", "logout"},
               Present(t, k, stage)
        PROVE  AccountInv'
    <3>1. login[t].at = "none"
      BY <2>4 DEF Present, Free, Doing
    <3>2. /\ login'[t].at = stage /\ login'[t].created = login[t].created
          /\ \A u \in Threads \ {t} : login'[u] = login[u]
      BY <2>4 DEF Present, SignInTypeOK, Login
    <3> QED
      BY <2>1, <2>2, <3>1, <3>2, ElsewhereAccount
  <2>5. CASE login[t].at \in {"rotate", "none"}
             /\ (GoOn(t, "issue") \/ GoOn(t, "create_wallet"))
    <3>1. /\ login'[t].at \notin {"signal", "commit"}
          /\ \A u \in Threads \ {t} : login'[u] = login[u]
          /\ login'[t].created =>
               login[t].created /\ login'[t].at \in {"stamp", "sign"}
      BY <2>2, <2>5, LoginMoves, ZenonT(40)
    <3> QED
      BY <2>1, <3>1, ElsewhereAccount
  <2>6. CASE Done(t)
    <3>1. /\ login'[t].at \notin {"signal", "commit"}
          /\ \A u \in Threads \ {t} : login'[u] = login[u]
          /\ login'[t].created =>
               login[t].created /\ login'[t].at \in {"stamp", "sign"}
      BY <2>6, LoginMoves
    <3> QED
      BY <2>1, <3>1, ElsewhereAccount
  <2> QED
    BY <2>3, <2>4, <2>5, <2>6
<1>3. ASSUME NEW t \in Threads, CreateWallet(t)
      PROVE  AccountInv'
  <2>1. /\ inserting' = inserting /\ walletFailed' = walletFailed
        /\ newcomers' = newcomers
    BY <1>3 DEF CreateWallet
  <2>2. account'.exists = account.exists /\ account'.wallet = TRUE
    BY <1>3 DEF CreateWallet, SignInTypeOK, Account
  <2>3. /\ login'[t].at = "none" /\ ~login'[t].created
        /\ \A u \in Threads \ {t} : login'[u] = login[u]
    BY <1>3, LoginMoves DEF CreateWallet
  <2> QED
    BY <2>1, <2>2, <2>3 DEF AccountInv
<1>4. ASSUME NEW t \in Threads, DieSigningIn(t)
      PROVE  AccountInv'
  <2>1. /\ account' = account /\ walletFailed' = walletFailed
        /\ newcomers' = newcomers /\ inserting' = inserting \ {t}
    BY <1>4 DEF DieSigningIn
  <2>2. /\ login'[t].at = "none" /\ ~login'[t].created
        /\ \A u \in Threads \ {t} : login'[u] = login[u]
    BY <1>4, LoginMoves DEF DieSigningIn
  <2>3. \A u \in Threads \ {t} : inserting = {u} => inserting' = {u}
    BY <2>1
  <2> QED
    BY <2>1, <2>2, <2>3 DEF AccountInv
<1>5. CASE Suspend
  <2>1. account'.exists = account.exists /\ account'.wallet = account.wallet
    BY <1>5 DEF Suspend, SignInTypeOK, Account
  <2> QED
    BY <1>5, <2>1 DEF Suspend, AccountInv
<1> QED
  BY <1>1, <1>2, <1>3, <1>4, <1>5, SignInAccount DEF SignInNext

-----------------------------------------------------------------------------
(* Sessions. *)

Holds(t) == login[t].at \in {"rotate", "logout", "issue"}
Single(k) == token[k].session \notin overlapped

\* A session without overlap has one usable token or one request that is
\* about to sign the next; after its logout it has neither.
SessionInv ==
  /\ Presented
  /\ loggedOut \subseteq 1 .. Len(token)
  /\ \A k \in DOMAIN token : token[k].session \in 1 .. Len(token)
  /\ \A k, l \in DOMAIN token :
       /\ Single(k) /\ token[k].session = token[l].session
       /\ token[k].live /\ token[l].live
       => k = l
  /\ \A t \in Threads :
       login[t].at \in {"rotate", "logout"} /\ Single(login[t].token) =>
         token[login[t].token].live
  /\ \A t \in Threads, k \in DOMAIN token :
       /\ login[t].at = "issue" /\ Single(k)
       /\ SessionOf(t) = token[k].session
       => ~token[k].live
  /\ \A t, u \in Threads :
       /\ Holds(t) /\ Holds(u) /\ Single(login[t].token)
       /\ SessionOf(t) = SessionOf(u)
       => t = u
  /\ \A k \in DOMAIN token :
       Single(k) /\ token[k].session \in loggedOut => ~token[k].live
  /\ \A t \in Threads :
       login[t].at = "issue" /\ Single(login[t].token) =>
         SessionOf(t) \notin loggedOut

\* A step away from the tokens.
LEMMA ElsewhereSessions ==
  ASSUME SessionInv, token' = token, loggedOut' = loggedOut,
         overlapped' = overlapped, NEW t \in Threads,
         \A u \in Threads \ {t} : login'[u] = login[u],
         login'[t].at \notin {"rotate", "logout", "issue"}
  PROVE  SessionInv'
<1>1. \A u \in Threads : login'[u].at \in {"rotate", "logout", "issue"} =>
        login'[u] = login[u]
  OBVIOUS
<1>2. Presented'
  BY <1>1 DEF SessionInv, Presented
<1> QED
  BY <1>1, <1>2 DEF SessionInv, Holds, Single, SessionOf

\* A token is presented.
LEMMA PresentSessions ==
  ASSUME SignInTypeOK, SessionInv, NEW t \in Threads, NEW k \in DOMAIN token,
         NEW stage \in {"rotate", "logout"}, Present(t, k, stage)
  PROVE  SessionInv'
<1>1. /\ token' = token /\ loggedOut' = loggedOut /\ token[k].live
      /\ login[t].at = "none"
      /\ overlapped' = IF Presenting(k) = {} THEN overlapped
                       ELSE overlapped \cup {token[k].session}
  BY DEF Present, Free, Doing
<1>2. /\ login'[t].at = stage /\ login'[t].token = k
      /\ \A u \in Threads \ {t} : login'[u] = login[u]
  BY DEF Present, SignInTypeOK, Login
<1>3. ASSUME NEW l \in DOMAIN token, Single(l)'
      PROVE  Single(l)
  BY <1>1, <1>3 DEF Single
<1>4. ASSUME NEW u \in Threads \ {t}, Holds(u), Single(k)',
             SessionOf(u) = token[k].session
      PROVE  FALSE
  <2>1. Single(k) /\ login[u].token \in DOMAIN token
    BY <1>3, <1>4 DEF SessionInv, Presented, Holds
  <2>2. Single(login[u].token)
    BY <1>4, <2>1 DEF Single, SessionOf
  <2>3. login[u].at # "issue"
    BY <1>1, <1>4, <2>1 DEF SessionInv
  <2>4. token[login[u].token].live
    BY <1>4, <2>2, <2>3 DEF SessionInv, Holds
  <2>5. login[u].token = k
    BY <1>1, <1>4, <2>1, <2>2, <2>4 DEF SessionInv, SessionOf
  <2>6. u \in Presenting(k)
    BY <1>4, <2>3, <2>5 DEF Presenting, Holds
  <2>7. token[k].session \in overlapped'
    BY <1>1, <2>6
  <2> QED
    BY <1>1, <1>4, <2>7 DEF Single
<1>5. Presented'
  BY <1>1, <1>2 DEF SessionInv, Presented
<1>6. \A u \in Threads :
        /\ login'[u].at \in {"rotate", "logout"}
        /\ token[login'[u].token].session \notin overlapped'
        => token[login'[u].token].live
  <2> SUFFICES ASSUME NEW u \in Threads,
                      login'[u].at \in {"rotate", "logout"},
                      token[login'[u].token].session \notin overlapped'
               PROVE  token[login'[u].token].live
    OBVIOUS
  <2>1. CASE u = t
    BY <1>1, <1>2, <2>1
  <2>2. CASE u # t
    <3>1. token[login[u].token].session \notin overlapped
      BY <1>1, <1>2, <2>2
    <3> QED
      BY <1>2, <2>2, <3>1 DEF SessionInv, Single
  <2> QED
    BY <2>1, <2>2
<1>7. \A u \in Threads : login'[u].at = "issue" =>
        u # t /\ login'[u] = login[u]
  BY <1>2
<1>8. \A u, v \in Threads :
        /\ login'[u].at \in {"rotate", "logout", "issue"}
        /\ login'[v].at \in {"rotate", "logout", "issue"}
        /\ token[login'[u].token].session \notin overlapped'
        /\ token[login'[u].token].session = token[login'[v].token].session
        => u = v
  <2> SUFFICES ASSUME NEW u \in Threads, NEW v \in Threads, u # v,
                      login'[u].at \in {"rotate", "logout", "issue"},
                      login'[v].at \in {"rotate", "logout", "issue"},
                      token[login'[u].token].session \notin overlapped',
                      token[login'[u].token].session =
                        token[login'[v].token].session
               PROVE  FALSE
    OBVIOUS
  <2>1. CASE u = t
    BY <1>1, <1>2, <1>4, <2>1 DEF Holds, Single, SessionOf
  <2>2. CASE v = t
    BY <1>1, <1>2, <1>4, <2>2 DEF Holds, Single, SessionOf
  <2>3. CASE u # t /\ v # t
    <3>1. token[login[u].token].session \notin overlapped
      BY <1>1, <1>2, <2>3
    <3> QED
      BY <1>2, <2>3, <3>1 DEF SessionInv, Holds, Single, SessionOf
  <2> QED
    BY <2>1, <2>2, <2>3
<1>9. \A l \in DOMAIN token : token[l].session \notin overlapped' =>
        token[l].session \notin overlapped
  BY <1>1
<1>10. \A u \in Threads : login'[u].at = "issue" =>
         login[u].at = "issue" /\ login[u].token \in DOMAIN token
  BY <1>7 DEF SessionInv, Presented
<1>11. \A l, m \in DOMAIN token :
         /\ token[l].session \notin overlapped'
         /\ token[l].session = token[m].session
         /\ token[l].live /\ token[m].live
         => l = m
  BY <1>9 DEF SessionInv, Single
<1>12. \A u \in Threads, l \in DOMAIN token :
         /\ login'[u].at = "issue" /\ token[l].session \notin overlapped'
         /\ token[login'[u].token].session = token[l].session
         => ~token[l].live
  BY <1>7, <1>9 DEF SessionInv, Single, SessionOf
<1>13. \A l \in DOMAIN token :
         token[l].session \notin overlapped' /\ token[l].session \in loggedOut
         => ~token[l].live
  BY <1>9 DEF SessionInv, Single
<1>14. \A u \in Threads :
         /\ login'[u].at = "issue"
         /\ token[login'[u].token].session \notin overlapped'
         => token[login'[u].token].session \notin loggedOut
  BY <1>7, <1>9, <1>10 DEF SessionInv, Single, SessionOf
<1> QED
  BY <1>1, <1>5, <1>6, <1>8, <1>11, <1>12, <1>13, <1>14
  DEF SessionInv, Holds, Single, SessionOf

\* The token presented is put on the blacklist.
LEMMA ListedSessions ==
  ASSUME SignInTypeOK, SessionInv, NEW t \in Threads,
         login[t].at \in {"rotate", "logout"}, Blacklisted(t),
         overlapped' = overlapped,
         \A u \in Threads \ {t} : login'[u] = login[u],
         \/ /\ login'[t].at = "issue" /\ login'[t].token = login[t].token
            /\ loggedOut' = loggedOut
         \/ /\ login'[t].at = "none"
            /\ loggedOut' = loggedOut \cup {SessionOf(t)}
  PROVE  SessionInv'
<1> DEFINE k == login[t].token
<1>1. k \in DOMAIN token /\ Holds(t)
  BY DEF SessionInv, Presented, Holds
<1>2. /\ DOMAIN token' = DOMAIN token /\ Len(token') = Len(token)
      /\ \A l \in DOMAIN token :
           /\ token'[l].session = token[l].session
           /\ token'[l].live <=> token[l].live /\ l # k
  BY <1>1, TokenListed
<1>3. \A l \in DOMAIN token :
        /\ token[k].session \notin overlapped
        /\ token[l].session = token[k].session
        => ~token'[l].live
  BY <1>1, <1>2 DEF SessionInv, Single
<1>4. ASSUME NEW u \in Threads \ {t}, Holds(u),
             token[k].session \notin overlapped
      PROVE  token[login[u].token].session # token[k].session
  BY <1>1, <1>4 DEF SessionInv, Single, SessionOf
<1>5. \A u \in Threads :
        login'[u].at \in {"rotate", "logout", "issue"} =>
          /\ login'[u].token \in DOMAIN token
          /\ login'[u].token = login[u].token /\ Holds(u)
          /\ u = t => login'[u].at = "issue"
  BY <1>1 DEF SessionInv, Presented, Holds
<1>6. Presented'
  BY <1>2, <1>5 DEF Presented
<1>7. loggedOut' \subseteq 1 .. Len(token')
  BY <1>1, <1>2 DEF SessionInv, SessionOf
<1>8. \A l, m \in DOMAIN token :
        /\ token[l].session \notin overlapped
        /\ token[l].session = token[m].session
        /\ token'[l].live /\ token'[m].live
        => l = m
  BY <1>2 DEF SessionInv, Single
<1>9. \A u \in Threads :
        /\ login'[u].at \in {"rotate", "logout"}
        /\ token[login'[u].token].session \notin overlapped
        => token'[login'[u].token].live
  <2> SUFFICES ASSUME NEW u \in Threads,
                      login'[u].at \in {"rotate", "logout"},
                      token[login'[u].token].session \notin overlapped
               PROVE  token'[login'[u].token].live
    OBVIOUS
  <2>1. /\ u # t /\ Holds(u) /\ login'[u] = login[u]
        /\ login[u].token \in DOMAIN token
    BY <1>5
  <2>2. token[login[u].token].live
    BY <2>1 DEF SessionInv, Single
  <2>3. login[u].token # k
    BY <1>4, <2>1
  <2> QED
    BY <1>2, <2>1, <2>2, <2>3
<1>10. \A u \in Threads, l \in DOMAIN token :
        /\ login'[u].at = "issue" /\ token[l].session \notin overlapped
        /\ token[login'[u].token].session = token[l].session
        => ~token'[l].live
  <2> SUFFICES ASSUME NEW u \in Threads, NEW l \in DOMAIN token,
                      login'[u].at = "issue",
                      token[l].session \notin overlapped,
                      token[login'[u].token].session = token[l].session
               PROVE  ~token'[l].live
    OBVIOUS
  <2>1. CASE u = t
    BY <1>3, <1>5, <2>1
  <2>2. CASE u # t
    <3>1. ~token[l].live
      BY <2>2 DEF SessionInv, Single, SessionOf
    <3> QED
      BY <1>2, <3>1
  <2> QED
    BY <2>1, <2>2
<1>11. \A u, v \in Threads :
        /\ login'[u].at \in {"rotate", "logout", "issue"}
        /\ login'[v].at \in {"rotate", "logout", "issue"}
        /\ token[login'[u].token].session \notin overlapped
        /\ token[login'[u].token].session = token[login'[v].token].session
        => u = v
  BY <1>5 DEF SessionInv, Single, SessionOf
<1>12. \A l \in DOMAIN token :
        token[l].session \notin overlapped /\ token[l].session \in loggedOut'
        => ~token'[l].live
  BY <1>1, <1>2, <1>3 DEF SessionInv, Single, SessionOf
<1>13. \A u \in Threads :
        /\ login'[u].at = "issue"
        /\ token[login'[u].token].session \notin overlapped
        => token[login'[u].token].session \notin loggedOut'
  <2> SUFFICES ASSUME NEW u \in Threads, login'[u].at = "issue",
                      token[login'[u].token].session \notin overlapped,
                      token[login'[u].token].session \in loggedOut'
               PROVE  FALSE
    OBVIOUS
  <2>1. CASE u = t
    <3>1. token[k].session \in loggedOut /\ token[k].session \notin overlapped
      BY <2>1
    <3>2. ~token[k].live /\ token[k].live
      BY <1>1, <3>1 DEF SessionInv, Single
    <3> QED
      BY <3>2
  <2>2. CASE u # t
    <3>1. /\ login[u].at = "issue" /\ Single(login[u].token)
          /\ token[login[u].token].session \in loggedOut'
      BY <2>2 DEF Single
    <3>2. token[login[u].token].session \notin loggedOut
      BY <3>1 DEF SessionInv, SessionOf
    <3>3. token[login[u].token].session = token[k].session
      BY <3>1, <3>2 DEF SessionOf
    <3> QED
      BY <1>4, <2>2, <3>1, <3>3 DEF Holds, Single
  <2> QED
    BY <2>1, <2>2
<1>14. \A l \in DOMAIN token : token[l].session \in 1 .. Len(token)
  BY DEF SessionInv
<1>15. \A u \in Threads :
        login'[u].at \in {"rotate", "logout", "issue"} =>
          token'[login'[u].token].session = token[login'[u].token].session
  BY <1>2, <1>5
<1> HIDE DEF k
<1>16. /\ \A l \in DOMAIN token' : token'[l].session \in 1 .. Len(token')
       /\ \A l, m \in DOMAIN token' :
            /\ token'[l].session \notin overlapped'
            /\ token'[l].session = token'[m].session
            /\ token'[l].live /\ token'[m].live
            => l = m
       /\ \A l \in DOMAIN token' :
            /\ token'[l].session \notin overlapped'
            /\ token'[l].session \in loggedOut'
            => ~token'[l].live
  BY <1>2, <1>8, <1>12, <1>14
<1>17. \A u \in Threads :
        /\ login'[u].at \in {"rotate", "logout"}
        /\ token'[login'[u].token].session \notin overlapped'
        => token'[login'[u].token].live
  BY <1>9, <1>15
<1>18. \A u \in Threads, l \in DOMAIN token' :
        /\ login'[u].at = "issue" /\ token'[l].session \notin overlapped'
        /\ token'[login'[u].token].session = token'[l].session
        => ~token'[l].live
  BY <1>2, <1>10, <1>15
<1>19. \A u, v \in Threads :
        /\ login'[u].at \in {"rotate", "logout", "issue"}
        /\ login'[v].at \in {"rotate", "logout", "issue"}
        /\ token'[login'[u].token].session \notin overlapped'
        /\ token'[login'[u].token].session = token'[login'[v].token].session
        => u = v
  BY <1>11, <1>15
<1>20. \A u \in Threads :
        /\ login'[u].at = "issue"
        /\ token'[login'[u].token].session \notin overlapped'
        => token'[login'[u].token].session \notin loggedOut'
  BY <1>13, <1>15
<1> QED
  BY <1>6, <1>7, <1>16, <1>17, <1>18, <1>19, <1>20
  DEF SessionInv, Holds, Single, SessionOf

\* A token is signed for a session that has no other and owes no other.
LEMMA SignedSessions ==
  ASSUME SignInTypeOK, SessionInv, NEW t \in Threads,
         NEW s \in Sessions, s \in 1 .. Len(token) + 1, SignToken(s),
         loggedOut' = loggedOut, overlapped' = overlapped,
         login'[t].at = "none",
         \A u \in Threads \ {t} : login'[u] = login[u],
         s \notin overlapped =>
           /\ \A k \in DOMAIN token : token[k].session = s => ~token[k].live
           /\ \A u \in Threads \ {t} : Holds(u) => SessionOf(u) # s
           /\ s \notin loggedOut
  PROVE  SessionInv'
<1> DEFINE n == Len(token) + 1
<1>1. /\ Len(token') = n /\ Len(token) \in Nat
      /\ \A k \in DOMAIN token : k \in DOMAIN token' /\ token'[k] = token[k]
      /\ \A k \in DOMAIN token' : k \in DOMAIN token \/ k = n
      /\ token'[n].session = s /\ token'[n].live
  <2>1. Len(token) \in Nat
    BY DEF SignInTypeOK
  <2>2. token'[n] = [session |-> s, live |-> TRUE]
    BY TokenSigned
  <2>3. token'[n].session = s /\ token'[n].live
    BY <2>2
  <2> QED
    BY <2>1, <2>3, TokenSigned
<1>2. \A u \in Threads :
        login'[u].at \in {"rotate", "logout", "issue"} =>
          /\ u # t /\ login'[u] = login[u] /\ Holds(u)
          /\ login[u].token \in DOMAIN token
          /\ token'[login[u].token] = token[login[u].token]
  BY <1>1 DEF SessionInv, Presented, Holds
<1> HIDE DEF n
<1>3. Presented'
  BY <1>1, <1>2 DEF Presented
<1>4. loggedOut' \subseteq 1 .. Len(token')
  BY <1>1 DEF SessionInv, n
<1>5. \A k \in DOMAIN token' : token'[k].session \in 1 .. Len(token')
  BY <1>1 DEF SessionInv, n
<1>6. \A k, l \in DOMAIN token' :
        /\ token'[k].session \notin overlapped'
        /\ token'[k].session = token'[l].session
        /\ token'[k].live /\ token'[l].live
        => k = l
  <2> SUFFICES ASSUME NEW k \in DOMAIN token', NEW l \in DOMAIN token',
                      token'[k].session \notin overlapped,
                      token'[k].session = token'[l].session,
                      token'[k].live, token'[l].live
               PROVE  k = l
    OBVIOUS
  <2>1. CASE k = n \/ l = n
    BY <1>1, <2>1
  <2>2. CASE k # n /\ l # n
    BY <1>1, <2>2 DEF SessionInv, Single
  <2> QED
    BY <2>1, <2>2
<1>7. \A u \in Threads :
        /\ login'[u].at \in {"rotate", "logout"}
        /\ token'[login'[u].token].session \notin overlapped'
        => token'[login'[u].token].live
  BY <1>2 DEF SessionInv, Single
<1>8. \A u \in Threads, l \in DOMAIN token' :
        /\ login'[u].at = "issue" /\ token'[l].session \notin overlapped'
        /\ token'[login'[u].token].session = token'[l].session
        => ~token'[l].live
  <2> SUFFICES ASSUME NEW u \in Threads, NEW l \in DOMAIN token',
                      login'[u].at = "issue",
                      token'[l].session \notin overlapped,
                      token'[login'[u].token].session = token'[l].session
               PROVE  ~token'[l].live
    OBVIOUS
  <2>1. l # n
    BY <1>1, <1>2 DEF SessionOf
  <2> QED
    BY <1>1, <1>2, <2>1 DEF SessionInv, Single, SessionOf
<1>9. \A u, v \in Threads :
        /\ login'[u].at \in {"rotate", "logout", "issue"}
        /\ login'[v].at \in {"rotate", "logout", "issue"}
        /\ token'[login'[u].token].session \notin overlapped'
        /\ token'[login'[u].token].session = token'[login'[v].token].session
        => u = v
  <2> SUFFICES ASSUME NEW u \in Threads, NEW v \in Threads,
                      login'[u].at \in {"rotate", "logout", "issue"},
                      login'[v].at \in {"rotate", "logout", "issue"},
                      token'[login'[u].token].session \notin overlapped,
                      token'[login'[u].token].session =
                        token'[login'[v].token].session
               PROVE  u = v
    OBVIOUS
  <2>1. /\ Holds(u) /\ Holds(v) /\ SessionOf(u) = SessionOf(v)
        /\ Single(login[u].token)
    BY <1>2 DEF Single, SessionOf
  <2> QED
    BY <2>1 DEF SessionInv
<1>10. \A k \in DOMAIN token' :
        /\ token'[k].session \notin overlapped'
        /\ token'[k].session \in loggedOut'
        => ~token'[k].live
  BY <1>1 DEF SessionInv, Single
<1>11. \A u \in Threads :
        /\ login'[u].at = "issue"
        /\ token'[login'[u].token].session \notin overlapped'
        => token'[login'[u].token].session \notin loggedOut'
  BY <1>2 DEF SessionInv, Single, SessionOf
<1> QED
  BY <1>3, <1>4, <1>5, <1>6, <1>7, <1>8, <1>9, <1>10, <1>11
  DEF SessionInv, Holds, Single, SessionOf

\* Every step keeps the sessions.
LEMMA NextSessions ==
  ASSUME SignInTypeOK, SessionInv, [SignInNext]_signInVars
  PROVE  SessionInv'
<1>1. CASE UNCHANGED signInVars \/ OtpStep \/ Suspend
  <2>1. UNCHANGED tokenVars /\ login' = login
    BY <1>1 DEF signInVars, OtpStep, Suspend
  <2> QED
    BY <2>1 DEF tokenVars, SessionInv, Presented, Holds, Single, SessionOf
<1>2. ASSUME NEW t \in Threads,
             \/ SignInStep(t) /\ ~GenerateTokens(t)
             \/ MissWallet(t) \/ CreateWallet(t) \/ DieSigningIn(t)
      PROVE  SessionInv'
  <2>1. UNCHANGED tokenVars
    BY <1>2 DEF SignInStep, Authenticate, Get, Insert, CreateUserWallet, Commit,
                GetAgain, Stamp, MissWallet, CreateWallet, DieSigningIn
  <2>2. \/ GoOn(t, "get") \/ GoOn(t, "insert") \/ GoOn(t, "again")
        \/ GoOn(t, "signal") \/ GoOn(t, "commit") \/ GoOn(t, "stamp")
        \/ GoOn(t, "sign") \/ GoOn(t, "create_wallet") \/ Done(t)
        \/ login' = [login EXCEPT ![t].at = "commit", ![t].wallet = TRUE]
        \/ login' = [login EXCEPT ![t].at = "stamp", ![t].created = TRUE]
    BY <1>2 DEF SignInStep, Authenticate, Get, Found, Insert, CreateUserWallet,
                Commit, GetAgain, Stamp, MissWallet, CreateWallet, DieSigningIn
  <2>3. /\ \A u \in Threads \ {t} : login'[u] = login[u]
        /\ login'[t].at \notin {"rotate", "logout", "issue"}
    BY <2>2 DEF GoOn, Done, NoLogin, SignInTypeOK, Login
  <2> QED
    BY <2>1, <2>3, ElsewhereSessions DEF tokenVars
<1>3. ASSUME NEW t \in Threads, GenerateTokens(t)
      PROVE  SessionInv'
  <2> DEFINE s == Len(token) + 1
  <2>1. s \in Sessions /\ s \in 1 .. Len(token) + 1
    BY <1>3, SignInAssumption
    DEF GenerateTokens, SignToken, SignInTypeOK, Sessions
  <2>2. /\ login'[t].at = "none"
        /\ \A u \in Threads \ {t} : login'[u] = login[u]
    BY <1>3 DEF GenerateTokens, Done, NoLogin, SignInTypeOK
  <2>3. /\ SignToken(s) /\ loggedOut' = loggedOut /\ overlapped' = overlapped
    BY <1>3 DEF GenerateTokens
  <2>4. /\ \A k \in DOMAIN token : token[k].session # s
        /\ s \notin loggedOut /\ Len(token) \in Nat
    BY DEF SessionInv, SignInTypeOK
  <2>5. \A u \in Threads : Holds(u) => SessionOf(u) # s
    BY <2>4 DEF Holds, SessionOf, SessionInv, Presented
  <2> HIDE DEF s
  <2> QED
    BY <2>1, <2>2, <2>3, <2>4, <2>5, SignedSessions DEF s
<1>4. ASSUME NEW t \in Threads, TokenStep(t)
      PROVE  SessionInv'
  <2>1. ASSUME NEW k \in DOMAIN token, NEW stage \in {"rotate", "logout"},
               Present(t, k, stage)
        PROVE  SessionInv'
    BY <2>1, PresentSessions
  <2>2. CASE Rotate(t)
    <3>1. /\ login[t].at = "rotate" /\ Blacklisted(t)
          /\ loggedOut' = loggedOut /\ overlapped' = overlapped
      BY <2>2 DEF Rotate, Doing
    <3>2. /\ login'[t].at = "issue" /\ login'[t].token = login[t].token
          /\ \A u \in Threads \ {t} : login'[u] = login[u]
      BY <2>2 DEF Rotate, GoOn, SignInTypeOK, Login
    <3> QED
      BY <3>1, <3>2, ListedSessions
  <2>3. CASE Logout(t)
    <3>1. /\ login[t].at = "logout" /\ Blacklisted(t)
          /\ loggedOut' = loggedOut \cup {SessionOf(t)}
          /\ overlapped' = overlapped
      BY <2>3 DEF Logout, Doing
    <3>2. /\ login'[t].at = "none"
          /\ \A u \in Threads \ {t} : login'[u] = login[u]
      BY <2>3 DEF Logout, Done, NoLogin, SignInTypeOK
    <3> QED
      BY <3>1, <3>2, ListedSessions
  <2>4. CASE Issue(t)
    <3> DEFINE s == SessionOf(t)
    <3>1. /\ login[t].at = "issue" /\ SignToken(s)
          /\ loggedOut' = loggedOut /\ overlapped' = overlapped
      BY <2>4 DEF Issue, Doing
    <3>2. login[t].token \in DOMAIN token
      BY <3>1 DEF SessionInv, Presented
    <3>3. s \in Sessions /\ s \in 1 .. Len(token) + 1
      <4>1. token[login[t].token] \in Token /\ s \in 1 .. Len(token)
        BY <3>2 DEF SignInTypeOK, SessionInv, SessionOf
      <4> QED
        BY <4>1 DEF Token, SessionOf, SignInTypeOK
    <3>4. /\ login'[t].at = "none"
          /\ \A u \in Threads \ {t} : login'[u] = login[u]
      BY <2>4 DEF Issue, Done, NoLogin, SignInTypeOK
    <3>5. s \notin overlapped =>
           /\ \A k \in DOMAIN token : token[k].session = s => ~token[k].live
           /\ \A u \in Threads \ {t} : Holds(u) => SessionOf(u) # s
           /\ s \notin loggedOut
      BY <3>1, <3>2 DEF SessionInv, Single, Holds, SessionOf
    <3> HIDE DEF s
    <3> QED
      BY <3>1, <3>3, <3>4, <3>5, SignedSessions
  <2> QED
    BY <1>4, <2>1, <2>2, <2>3, <2>4 DEF TokenStep
<1> QED
  BY <1>1, <1>2, <1>3, <1>4 DEF SignInNext
-----------------------------------------------------------------------------
(* The theorems. *)

SignInInv == SignInTypeOK /\ AccountInv /\ SessionInv

(***************************************************************************)
(* Between a verified code and its tokens nothing leaves the types, nor    *)
(* the facts about the account and about the sessions.                     *)
(***************************************************************************)
THEOREM SignInAlwaysInv == SignInSpec => []SignInInv
<1>1. SignInInit => SignInInv
  <2> SUFFICES ASSUME SignInInit
               PROVE  SignInInv
    OBVIOUS
  <2>1. \A t \in Threads : login[t].at = "none" /\ login[t].created = FALSE
    BY DEF SignInInit, NoLogin
  <2>2. AccountInv
    BY <2>1 DEF SignInInit, AccountInv
  <2>3. DOMAIN token = {} /\ loggedOut = {}
    BY DEF SignInInit
  <2>4. SessionInv
    BY <2>1, <2>3 DEF SessionInv, Presented, Holds
  <2> QED
    BY <2>2, <2>4, InitSignInType DEF SignInInv
<1>2. SignInInv /\ [SignInNext]_signInVars => SignInInv'
  BY NextSignInType, NextAccount, NextSessions DEF SignInInv, SessionInv
<1> QED
  BY <1>1, <1>2, PTL DEF SignInSpec

(***************************************************************************)
(* An account is never without its wallet unless the signal logged that it *)
(* failed, wherever a request dies.                                        *)
(***************************************************************************)
THEOREM AccountHasWallet == SignInSpec => []WalletUnlessFailed
<1>1. SignInInv => WalletUnlessFailed
  BY DEF SignInInv, AccountInv, WalletUnlessFailed
<1> QED
  BY <1>1, SignInAlwaysInv, PTL

(***************************************************************************)
(* However many first sign-ins race, one answer calls the user new.        *)
(***************************************************************************)
THEOREM OneNewcomer == SignInSpec => []NewUserOnce
<1>1. SignInInv => NewUserOnce
  BY DEF SignInInv, AccountInv, NewUserOnce
<1> QED
  BY <1>1, SignInAlwaysInv, PTL

(***************************************************************************)
(* A session has one usable token at most and none after its logout, but   *)
(* for one of which two requests presented the same token at once.         *)
(***************************************************************************)
THEOREM OneTokenASession == SignInSpec => []SessionHasOneToken
<1>1. SignInInv => SessionHasOneToken
  <2> SUFFICES ASSUME SignInInv, NEW s \in Sessions \ overlapped
               PROVE  Cardinality(Usable(s)) <= IF s \in loggedOut THEN 0 ELSE 1
    BY DEF SessionHasOneToken
  <2>1. \A x \in Usable(s) :
          \/ x \in DOMAIN token /\ token[x].session = s /\ token[x].live
          \/ \E t \in Threads :
               login[t].at = "issue" /\ SessionOf(t) = s /\ x = -login[t].token
    BY DEF Usable, Doing
  <2>2. SessionInv
    BY DEF SignInInv
  <2>3. \A x, y \in Usable(s) : x = y
    BY <2>1, <2>2 DEF SessionInv, Presented, Holds, Single, SessionOf
  <2>4. s \in loggedOut => Usable(s) = {}
    BY <2>1, <2>2 DEF SessionInv, Presented, Single, SessionOf
  <2>5. CASE Usable(s) = {}
    BY <2>5, FS_EmptySet
  <2>6. CASE Usable(s) # {}
    <3>1. PICK x : Usable(s) = {x}
      BY <2>3, <2>6
    <3>2. Cardinality(Usable(s)) = 1
      BY <3>1, FS_Singleton
    <3> QED
      BY <2>4, <2>6, <3>2
  <2> QED
    BY <2>5, <2>6
<1> QED
  BY <1>1, SignInAlwaysInv, PTL

-----------------------------------------------------------------------------
(* Signing in uses the one-time passwords as they are meant to be used: a    *)
(* request that goes on after its code is a verified one, or one of another  *)
(* kind on a thread that was free.                                           *)

Placed ==
  \A t \in Threads : ~Doing(t, "none") => At(t, "verified") \/ At(t, "idle")

\* Where the request of one thread is moved.
LEMMA PlacedMoves ==
  ASSUME Placed, NEW t \in Threads,
         \A u \in Threads \ {t} :
           login'[u] = login[u] /\ request'[u] = request[u],
         \/ login'[t].at = "none"
         \/ request'[t].phase \in {"verified", "idle"}
  PROVE  Placed'
<1>1. ASSUME NEW u \in Threads, login'[u].at # "none"
      PROVE  request'[u].phase \in {"verified", "idle"}
  BY <1>1 DEF Placed, Doing, At
<1> QED
  BY <1>1 DEF Placed, Doing, At

\* A request that ends has been verified, or never was one for a code.
LEMMA DoneIsRespond ==
  ASSUME OtpTypeInv, SignInTypeOK, Placed, NEW t \in Threads,
         ~Doing(t, "none"), Done(t)
  PROVE  [OtpNext]_otpVars /\ Placed'
<1>1. request \in [Threads -> Request] /\ End(t)
  BY DEF OtpTypeInv, OtpTypeOK, Done
<1>2. Placed'
  <2>1. /\ \A u \in Threads \ {t} :
             login'[u] = login[u] /\ request'[u] = request[u]
        /\ login'[t].at = "none"
    BY <1>1, LoginMoves DEF End
  <2> QED
    BY <2>1, PlacedMoves
<1>3. CASE At(t, "verified")
  <2>1. Respond(t)
    BY <1>1, <1>3 DEF Respond, Done
  <2> QED
    BY <1>2, <2>1 DEF OtpNext
<1>4. CASE At(t, "idle")
  <2>1. request[t] = Idle
    BY <1>4 DEF OtpTypeInv, Numbered
  <2>2. request' = request
    BY <1>1, <2>1 DEF End
  <2>3. UNCHANGED otpVars
    BY <2>2 DEF Done, otpVars
  <2> QED
    BY <1>2, <2>3
<1> QED
  BY <1>3, <1>4 DEF Placed

\* A step that only moves the sign-in, of a request that may be there.
LEMMA MovesApart ==
  ASSUME Placed, NEW t \in Threads, UNCHANGED otpVars,
         \A u \in Threads \ {t} : login'[u] = login[u],
         ~Doing(t, "none") \/ At(t, "verified") \/ At(t, "idle")
  PROVE  [OtpNext]_otpVars /\ Placed'
<1>1. request' = request
  BY DEF otpVars
<1>2. request'[t].phase \in {"verified", "idle"}
  BY <1>1 DEF Placed, At
<1> QED
  BY <1>1, <1>2, PlacedMoves

LEMMA SignInIsOtp ==
  ASSUME OtpTypeInv, SignInTypeOK, Placed, [SignInNext]_signInVars
  PROVE  [OtpNext]_otpVars /\ Placed'
<1>1. CASE UNCHANGED signInVars
  BY <1>1 DEF signInVars, otpVars, Placed, Doing, At
<1>2. CASE OtpStep
  <2>1. login' = login
    BY <1>2 DEF OtpStep
  <2>2. ASSUME NEW t \in Threads, Doing(t, "none"),
               SendStep(t) \/ VerifyStep(t) \/ Die(t)
        PROVE  [OtpNext]_otpVars /\ Placed'
    <3>1. PICK new : Takes(t, new)
      BY <2>2, SendType, VerifyType
    <3>2. \A u \in Threads \ {t} : request'[u] = request[u]
      BY <3>1, RequestTaken
    <3>3. Placed'
      BY <2>1, <2>2, <3>2, PlacedMoves DEF Doing
    <3> QED
      BY <2>2, <3>3 DEF OtpNext
  <2>3. CASE Tick
    <3>1. request' = request
      BY <2>3 DEF Tick
    <3> QED
      BY <2>1, <2>3, <3>1 DEF OtpNext, Placed, Doing, At
  <2> QED
    BY <1>2, <2>2, <2>3 DEF OtpStep
<1>3. ASSUME NEW t \in Threads, NEW stage, GoOn(t, stage),
             ~Doing(t, "none") \/ At(t, "verified") \/ At(t, "idle")
      PROVE  [OtpNext]_otpVars /\ Placed'
  <2>1. \A u \in Threads \ {t} : login'[u] = login[u]
    BY <1>3, LoginMoves
  <2> QED
    BY <1>3, <2>1, MovesApart DEF GoOn
<1>4. ASSUME NEW t \in Threads, Found(t), ~Doing(t, "none")
      PROVE  [OtpNext]_otpVars /\ Placed'
  BY <1>3, <1>4, DoneIsRespond DEF Found
<1>5. ASSUME NEW t \in Threads, SignInStep(t)
      PROVE  [OtpNext]_otpVars /\ Placed'
  <2>1. CASE Authenticate(t)
    BY <1>3, <2>1 DEF Authenticate
  <2>2. CASE Get(t) \/ GetAgain(t)
    BY <1>3, <1>4, <2>2 DEF Get, GetAgain, Doing
  <2>3. CASE Insert(t)
    BY <1>3, <2>3 DEF Insert, Doing
  <2>4. CASE CreateUserWallet(t)
    <3>1. ~Doing(t, "none")
      BY <2>4 DEF CreateUserWallet, Doing
    <3>2. CASE /\ login' = [login EXCEPT ![t].at = "commit", ![t].wallet = TRUE]
               /\ UNCHANGED otpVars
      <4>1. \A u \in Threads \ {t} : login'[u] = login[u]
        BY <3>2 DEF SignInTypeOK
      <4> QED
        BY <3>1, <3>2, <4>1, MovesApart
    <3> QED
      BY <1>3, <2>4, <3>1, <3>2, DoneIsRespond DEF CreateUserWallet
  <2>5. CASE Commit(t)
    <3>1. ~Doing(t, "none") /\ UNCHANGED otpVars
      BY <2>5 DEF Commit, Doing
    <3>2. \A u \in Threads \ {t} : login'[u] = login[u]
      BY <2>5 DEF Commit, SignInTypeOK
    <3> QED
      BY <3>1, <3>2, MovesApart
  <2>6. CASE Stamp(t)
    BY <1>3, <2>6 DEF Stamp, Doing
  <2>7. CASE GenerateTokens(t)
    BY <2>7, DoneIsRespond DEF GenerateTokens, Doing
  <2> QED
    BY <1>5, <2>1, <2>2, <2>3, <2>4, <2>5, <2>6, <2>7 DEF SignInStep
<1>6. ASSUME NEW t \in Threads, TokenStep(t)
      PROVE  [OtpNext]_otpVars /\ Placed'
  <2>1. ASSUME NEW k \in DOMAIN token, NEW stage \in {"rotate", "logout"},
               Present(t, k, stage)
        PROVE  [OtpNext]_otpVars /\ Placed'
    <3>1. At(t, "idle") /\ UNCHANGED otpVars
      BY <2>1 DEF Present, Free
    <3>2. \A u \in Threads \ {t} : login'[u] = login[u]
      BY <2>1 DEF Present, SignInTypeOK
    <3> QED
      BY <3>1, <3>2, MovesApart
  <2>2. CASE Rotate(t)
    BY <1>3, <2>2 DEF Rotate, Doing
  <2>3. CASE Issue(t) \/ Logout(t)
    BY <2>3, DoneIsRespond DEF Issue, Logout, Doing
  <2> QED
    BY <1>6, <2>1, <2>2, <2>3 DEF TokenStep
<1>7. ASSUME NEW t \in Threads, MissWallet(t) \/ CreateWallet(t) \/ DieSigningIn(t)
      PROVE  [OtpNext]_otpVars /\ Placed'
  BY <1>3, <1>7, DoneIsRespond DEF MissWallet, Free, CreateWallet, DieSigningIn, Doing
<1>8. CASE Suspend
  BY <1>8 DEF Suspend, otpVars, Placed, Doing, At
<1> QED
  BY <1>1, <1>2, <1>5, <1>6, <1>7, <1>8 DEF SignInNext

(***************************************************************************)
(* With accounts and tokens, the phone's codes still behave as OtpSpec     *)
(* says: what is proved of the codes alone holds of signing in.            *)
(***************************************************************************)
THEOREM SignInImplementsOtp ==
  ASSUME IsFiniteSet(Threads)
  PROVE  SignInSpec => OtpSpec
<1>1. SignInInit => OtpInit /\ OtpTypeInv /\ Placed
  BY InitOtpType DEF SignInInit, Placed, Doing, NoLogin
<1>2. OtpTypeInv /\ Placed /\ SignInInv /\ [SignInNext]_signInVars
        => [OtpNext]_otpVars /\ OtpTypeInv' /\ Placed'
  BY SignInIsOtp, NextOtpType DEF SignInInv
<1> QED
  BY <1>1, <1>2, SignInAlwaysInv, PTL DEF SignInSpec, OtpSpec

(***************************************************************************)
(* Whoever is signed in with a code has its row on record, used, whatever  *)
(* resends of the same phone delete meanwhile.                             *)
(***************************************************************************)
THEOREM CodesOnRecord ==
  ASSUME IsFiniteSet(Threads)
  PROVE  SignInSpec => []VerifiedOnRecord
<1> QED
  BY SignInImplementsOtp, VerificationsRecorded, PTL
=============================================================================
