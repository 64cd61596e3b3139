----------------------------- MODULE ChatProofs -----------------------------
(***************************************************************************)
(* The room of a job, for any number of connections, messages and places   *)
(* in a channel: an accepted client misses no message its inbox had room   *)
(* for, two clients disagree only on the order of overlapping broadcasts,  *)
(* each sender's messages keep theirs, and no receipt marks its own user's *)
(* messages.                                                               *)
(***************************************************************************)
EXTENDS ChatRoom, SequenceTheorems, TLAPS

ChatTypeOK ==
  /\ room \in {"none", "active", "inactive"}
  /\ messages \in Seq(Message) /\ Len(messages) <= MaxMessages
  /\ socket \in [Sockets -> Socket]
  /\ group \subseteq Sockets
  /\ broadcasts \in Seq(Broadcast)
  /\ inbox \in [Sockets -> SUBSET (Nat \ {0})]
  /\ taken \in [Sockets -> Nat]
  /\ shown \in [Sockets -> Seq(Nat)]
  /\ owed \in [Sockets -> SUBSET Nat]

\* Nobody is in a room that does not exist.
RoomFirst ==
  room = "none" =>
    messages = <<>> /\ \A c \in Sockets : socket[c].phase \in {"new", "refused"}

\* A client is accepted into a group that its channel has joined.
JoinedFirst == \A c \in Sockets : At(c, "joined") \/ Connected(c) => c \in group

\* The room admits its two parties only.
OnlyParties ==
  \A c \in Sockets :
    socket[c].phase \notin {"new", "refused"} => UserOf[c] \in Participants

Basics == ChatTypeOK /\ RoomFirst /\ JoinedFirst /\ OnlyParties

-----------------------------------------------------------------------------
(* The broadcasts: each stands for a message that is stored, those of one  *)
(* connection follow one another, and one that is under way is in no inbox *)
(* and overlaps all that began after it.                                   *)

By(n) == messages[Id(n)].by

BesideEarlier ==
  \A n \in DOMAIN broadcasts : \A m \in broadcasts[n].beside : m < n

IdsStored == \A n \in DOMAIN broadcasts : IsMessage(n) => Id(n) \in DOMAIN messages

SendersInTurn ==
  \A m, n \in DOMAIN broadcasts :
    IsMessage(m) /\ IsMessage(n) /\ By(m) = By(n) =>
      m \notin broadcasts[n].beside /\ (m < n => Id(m) < Id(n))

Table == BesideEarlier /\ IdsStored /\ SendersInTurn

\* What a consumer has stored and not broadcast is newer than what it has.
NewFrom(c, id) ==
  /\ id \in DOMAIN messages /\ messages[id].by = c
  /\ \A n \in DOMAIN broadcasts : IsMessage(n) /\ By(n) = c => Id(n) < id

SavedIsNew == \A c \in Sockets : At(c, "saved") => NewFrom(c, socket[c].number)

Handed(c) == Shown(c) \cup ({taken[c]} \ {None})

UnderWay(c, n) ==
  /\ n \in DOMAIN broadcasts
  /\ socket[c].heard \subseteq socket[c].to
  /\ \A d \in Sockets : n \notin Handed(d) \cup inbox[d]
  /\ \A m \in DOMAIN broadcasts : n < m => n \in broadcasts[m].beside
  /\ IsMessage(n) => By(n) = c
  /\ \A d \in Sockets : At(d, "sending") /\ socket[d].number = n => d = c

AllUnderWay == \A c \in Sockets : At(c, "sending") => UnderWay(c, socket[c].number)

-----------------------------------------------------------------------------
(* The feeds: what a client was shown, what was taken for it, what waits.  *)

\* Only what began while m was under way may be handed on before m.
Late(m, n) == m < n \/ n \in broadcasts[m].beside

FeedsKnown ==
  \A c \in Sockets :
    /\ Handed(c) \cup inbox[c] \subseteq DOMAIN broadcasts
    /\ \A n \in Shown(c) : IsMessage(n)

InboxLate == \A c \in Sockets : \A m \in Handed(c), n \in inbox[c] : Late(m, n)

TakenLate ==
  \A c \in Sockets : taken[c] # None => \A m \in Shown(c) : Late(m, taken[c])

ShownLate ==
  \A c \in Sockets : \A i, j \in DOMAIN shown[c] :
    i < j => Late(shown[c][i], shown[c][j])

OwedWaits ==
  \A c \in Sockets :
    /\ \A n \in owed[c] : n \in DOMAIN broadcasts /\ IsMessage(n)
    /\ Connected(c) => owed[c] \subseteq Shown(c) \cup Waiting(c)
    /\ ~Connected(c) => owed[c] = {}

Feeds == FeedsKnown /\ InboxLate /\ TakenLate /\ ShownLate /\ OwedWaits

ChatInv == Basics /\ Table /\ SavedIsNew /\ AllUnderWay /\ Feeds

\* The invariant says what the properties say.
LEMMA InvIsEnough ==
  ASSUME ChatInv
  PROVE  AcceptedMissNothing /\ DisagreeOnlyOverlapped /\ SenderOrder
<1>1. AcceptedMissNothing
  BY DEF ChatInv, Feeds, OwedWaits, AcceptedMissNothing
<1>2. \A c \in Sockets : \A i \in DOMAIN shown[c] :
        /\ shown[c][i] \in DOMAIN broadcasts /\ shown[c][i] \in Nat
        /\ IsMessage(shown[c][i])
  <2> SUFFICES ASSUME NEW c \in Sockets, NEW i \in DOMAIN shown[c]
               PROVE  /\ shown[c][i] \in DOMAIN broadcasts /\ shown[c][i] \in Nat
                      /\ IsMessage(shown[c][i])
    OBVIOUS
  <2>1. shown[c] \in Seq(Nat)
    BY DEF ChatInv, Basics, ChatTypeOK
  <2>2. shown[c][i] \in Nat
    BY <2>1
  <2>3. shown[c][i] \in Shown(c)
    BY DEF Shown
  <2> QED  BY <2>2, <2>3 DEF ChatInv, Feeds, FeedsKnown, Handed
<1>3. DisagreeOnlyOverlapped
  <2> SUFFICES ASSUME NEW c \in Sockets, NEW d \in Sockets,
                      NEW i \in DOMAIN shown[c], NEW j \in DOMAIN shown[c],
                      NEW k \in DOMAIN shown[d], NEW l \in DOMAIN shown[d],
                      i < j, k < l,
                      shown[c][i] = shown[d][l], shown[c][j] = shown[d][k]
               PROVE  Overlapped(shown[c][i], shown[c][j])
    BY DEF DisagreeOnlyOverlapped
  <2>1. /\ Late(shown[c][i], shown[c][j])
        /\ Late(shown[c][j], shown[c][i])
    BY DEF ChatInv, Feeds, ShownLate
  <2>2. shown[c][i] \in Nat /\ shown[c][j] \in Nat
    BY <1>2
  <2> QED  BY <2>1, <2>2 DEF Late, Overlapped
<1>4. SenderOrder
  <2> SUFFICES ASSUME NEW c \in Sockets,
                      NEW i \in DOMAIN shown[c], NEW j \in DOMAIN shown[c], i < j,
                      messages[Id(shown[c][i])].by = messages[Id(shown[c][j])].by
               PROVE  Id(shown[c][i]) < Id(shown[c][j])
    BY DEF SenderOrder
  <2> DEFINE m == shown[c][i]  n == shown[c][j]
  <2>1. Late(m, n)
    BY DEF ChatInv, Feeds, ShownLate
  <2>2. /\ m \in DOMAIN broadcasts /\ n \in DOMAIN broadcasts
        /\ IsMessage(m) /\ IsMessage(n) /\ By(m) = By(n)
    BY <1>2 DEF By
  <2> HIDE DEF m, n
  <2>3. n \notin broadcasts[m].beside /\ (m < n => Id(m) < Id(n))
    BY <2>2 DEF ChatInv, Table, SendersInTurn
  <2>4. Id(m) < Id(n)
    BY <2>1, <2>3 DEF Late
  <2> QED  BY <2>4 DEF m, n
<1> QED  BY <1>1, <1>3, <1>4

\* No connection, no message and no signal: nothing to be wrong.
LEMMA InitChatInv == ASSUME ChatInit  PROVE ChatInv
<1> USE ChatAssumption
<1>1. ChatTypeOK
  BY DEF ChatInit, ChatTypeOK, Socket, Idle, None
<1>2. RoomFirst /\ JoinedFirst /\ OnlyParties
  BY DEF OnlyParties, ChatInit, RoomFirst, JoinedFirst, At, Connected, Idle
<1>3. Table
  BY DEF ChatInit, Table, BesideEarlier, IdsStored, SendersInTurn
<1>4. SavedIsNew /\ AllUnderWay
  BY DEF ChatInit, SavedIsNew, AllUnderWay, At, Idle
<1>5. \A c \in Sockets : Shown(c) = {} /\ Handed(c) = {} /\ inbox[c] = {}
  BY DEF ChatInit, Shown, Handed
<1>6. Feeds
  BY <1>5 DEF ChatInit, Feeds, FeedsKnown, InboxLate, TakenLate, ShownLate,
              OwedWaits, Idle
<1> QED  BY <1>1, <1>2, <1>3, <1>4, <1>6 DEF ChatInv, Basics

-----------------------------------------------------------------------------
(* What most steps leave alone. *)

\* Rows of chat_messages stay, with whoever stored them.
RowsStay ==
  /\ DOMAIN messages \subseteq DOMAIN messages'
  /\ \A i \in DOMAIN messages : messages'[i].by = messages[i].by

LEMMA TableStays ==
  ASSUME Table, RowsStay, broadcasts' = broadcasts  PROVE Table'
<1>1. \A n : IsMessage(n)' = IsMessage(n) /\ Id(n)' = Id(n)
  BY DEF IsMessage, Id
<1>2. \A n \in DOMAIN broadcasts : IsMessage(n) => By(n)' = By(n)
  BY <1>1 DEF Table, IdsStored, RowsStay, By
<1> QED  BY <1>1, <1>2 DEF Table, BesideEarlier, IdsStored, SendersInTurn, RowsStay

LEMMA NewStays ==
  ASSUME IdsStored, RowsStay, broadcasts' = broadcasts,
         NEW c \in Sockets, NEW id, NewFrom(c, id)
  PROVE  NewFrom(c, id)'
<1>1. \A n : IsMessage(n)' = IsMessage(n) /\ Id(n)' = Id(n)
  BY DEF IsMessage, Id
<1>2. \A n \in DOMAIN broadcasts : IsMessage(n) => By(n)' = By(n)
  BY <1>1 DEF IdsStored, RowsStay, By
<1> QED  BY <1>1, <1>2 DEF NewFrom, RowsStay

\* A step at which nobody stores a message or begins a broadcast, and which
\* puts no broadcast that is under way into a feed.
Steady ==
  /\ RowsStay /\ broadcasts' = broadcasts
  /\ \A c \in Sockets : socket'[c].phase \in {"saved", "sending"} =>
       socket'[c] = socket[c]
  /\ \A c, d \in Sockets :
       At(c, "sending") /\ socket'[c] = socket[c]
         /\ socket[c].number \notin Handed(d) \cup inbox[d]
       => socket[c].number \notin (Handed(d) \cup inbox[d])'

LEMMA SteadyConsumers ==
  ASSUME Table, SavedIsNew, AllUnderWay, Steady
  PROVE  Table' /\ SavedIsNew' /\ AllUnderWay'
<1>1. Table'
  BY TableStays DEF Steady
<1>2. SavedIsNew'
  <2> SUFFICES ASSUME NEW c \in Sockets, socket'[c].phase = "saved",
                      NEW id, id = socket'[c].number
               PROVE  NewFrom(c, id)'
    BY DEF SavedIsNew, At
  <2>1. NewFrom(c, id)
    BY DEF Steady, At, SavedIsNew
  <2> QED  BY <2>1, NewStays DEF Steady, Table
<1>3. AllUnderWay'
  <2> SUFFICES ASSUME NEW c \in Sockets, socket'[c].phase = "sending",
                      NEW n, n = socket'[c].number
               PROVE  UnderWay(c, n)'
    BY DEF AllUnderWay, At
  <2>1. socket'[c] = socket[c] /\ At(c, "sending") /\ UnderWay(c, n)
    BY DEF Steady, At, AllUnderWay
  <2>2. IsMessage(n)' = IsMessage(n) /\ Id(n)' = Id(n)
    BY DEF IsMessage, Id, Steady
  <2>3. IsMessage(n) => By(n)' = By(n)
    BY <2>1, <2>2 DEF UnderWay, Table, IdsStored, Steady, RowsStay, By
  <2>4. \A d \in Sockets : n \notin (Handed(d) \cup inbox[d])'
    BY <2>1 DEF UnderWay, Steady
  <2>5. \A d \in Sockets : At(d, "sending")' /\ socket'[d].number = n => d = c
    BY <2>1 DEF UnderWay, Steady, At
  <2> QED  BY <2>1, <2>2, <2>3, <2>4, <2>5 DEF UnderWay, Steady
<1> QED  BY <1>1, <1>2, <1>3

\* The rows, the channels and the screens stay, and clients may only come.
LEMMA FeedsStay ==
  ASSUME Feeds, UNCHANGED <<broadcasts, inbox, taken, shown, owed>>,
         \A c \in Sockets : Connected(c) => Connected(c)'
  PROVE  Feeds'
<1>1. \A n : IsMessage(n)' = IsMessage(n)
  BY DEF IsMessage
<1>2. \A c : /\ Shown(c)' = Shown(c) /\ Handed(c)' = Handed(c)
             /\ Waiting(c)' = Waiting(c)
  BY DEF Shown, Handed, Waiting
<1>3. \A m, n : Late(m, n)' = Late(m, n)
  BY DEF Late
<1>4. FeedsKnown' /\ InboxLate' /\ TakenLate' /\ ShownLate'
  BY <1>1, <1>2, <1>3 DEF Feeds, FeedsKnown, InboxLate, TakenLate, ShownLate
<1>5. OwedWaits'
  BY <1>1, <1>2 DEF Feeds, OwedWaits
<1> QED  BY <1>4, <1>5 DEF Feeds

-----------------------------------------------------------------------------
(* The steps. *)

Phases ==
  {"new", "admitted", "joined", "open", "marked", "refused", "failed", "closed"}

LEMMA GotoMoves ==
  ASSUME ChatTypeOK, NEW c \in Sockets, NEW p \in Phases, Goto(c, p)
  PROVE  /\ socket' \in [Sockets -> Socket]
         /\ socket'[c].phase = p
         /\ \A d \in Sockets \ {c} : socket'[d] = socket[d]
BY DEF ChatTypeOK, Goto, Phases, Socket, Idle, None

\* A message is appended to the rows.
LEMMA RowAdded ==
  ASSUME messages \in Seq(Message), NEW m \in Message,
         messages' = Append(messages, m)
  PROVE  /\ messages' \in Seq(Message) /\ Len(messages') = Len(messages) + 1
         /\ RowsStay
         /\ Len(messages) + 1 \in DOMAIN messages'
         /\ messages'[Len(messages) + 1] = m
BY DEF RowsStay

\* The steps of the rows alone.
LEMMA RowsStep ==
  ASSUME ChatInv, RowsStay, UNCHANGED <<socket, LayerVars>>, Basics'
  PROVE  ChatInv'
<1>1. /\ UNCHANGED <<broadcasts, inbox, taken, shown, owed>> /\ socket' = socket
      /\ \A d \in Sockets : Handed(d)' = Handed(d)
  BY DEF LayerVars, QueueVars, Handed, Shown
<1>2. Steady
  BY <1>1 DEF Steady
<1>3. Feeds'
  BY <1>1, FeedsStay DEF ChatInv, Connected
<1> QED  BY <1>2, <1>3, SteadyConsumers DEF ChatInv

\* The receiver creates a room where there is none, and greets.
LEMMA CreateStep ==
  ASSUME ChatInv, CreateChatRoomOnAccept, UNCHANGED <<socket, LayerVars>>
  PROVE  ChatInv'
<1>1. CASE ~(ReceiverAlive /\ room = "none")
  <2>1. UNCHANGED <<room, messages>>
    BY <1>1 DEF CreateChatRoomOnAccept
  <2>2. Basics' /\ RowsStay
    BY <2>1 DEF ChatInv, Basics, ChatTypeOK, RoomFirst, JoinedFirst, OnlyParties,
                LayerVars, QueueVars, At, Connected, RowsStay
  <2> QED  BY <2>2, RowsStep
<1>2. CASE ReceiverAlive /\ room = "none"
  <2>1. /\ room' = "active" /\ messages = <<>> /\ messages' = <<Greeting>>
        /\ Greeting \in Message
    BY <1>2 DEF CreateChatRoomOnAccept, ChatInv, Basics, RoomFirst, Greeting, Message
  <2>2. ChatTypeOK' /\ RowsStay
    <3>1. messages' \in Seq(Message) /\ Len(messages') = 1 /\ DOMAIN messages = {}
      BY <2>1
    <3> QED  BY <2>1, <3>1, ChatAssumption
             DEF ChatInv, Basics, ChatTypeOK, LayerVars, QueueVars, RowsStay
  <2>3. RoomFirst' /\ JoinedFirst' /\ OnlyParties'
    BY <2>1 DEF ChatInv, Basics, RoomFirst, JoinedFirst, OnlyParties, LayerVars,
                At, Connected
  <2> QED  BY <2>2, <2>3, RowsStep DEF Basics
<1> QED  BY <1>1, <1>2

LEMMA SetActiveStep ==
  ASSUME ChatInv, NEW state \in {"active", "inactive"}, SetActive(state)
  PROVE  ChatInv'
<1>1. Basics' /\ RowsStay
  BY DEF ChatInv, Basics, ChatTypeOK, RoomFirst, JoinedFirst, OnlyParties,
         LayerVars, QueueVars, At, Connected, SetActive, RowsStay
<1> QED  BY <1>1, RowsStep DEF SetActive

LEMMA SendMessageStep ==
  ASSUME ChatInv, NEW u \in Participants, SendMessage(u)  PROVE ChatInv'
<1> DEFINE m == [sender |-> u, by |-> NoSocket, is_read |-> FALSE]
<1>1. m \in Message /\ messages \in Seq(Message) /\ messages' = Append(messages, m)
  BY DEF Message, ChatInv, Basics, ChatTypeOK, SendMessage
<1>2. /\ messages' \in Seq(Message) /\ Len(messages') = Len(messages) + 1
      /\ RowsStay
  BY <1>1, RowAdded
<1>3. ChatTypeOK'
  <2>1. Len(messages) < MaxMessages /\ Len(messages) \in Nat
    BY <1>1 DEF SendMessage
  <2> QED  BY <1>2, <2>1, ChatAssumption
           DEF ChatInv, Basics, ChatTypeOK, LayerVars, QueueVars, SendMessage
<1>4. RoomFirst' /\ JoinedFirst' /\ OnlyParties'
  BY DEF ChatInv, Basics, RoomFirst, JoinedFirst, OnlyParties, LayerVars, At,
         Connected, SendMessage
<1> QED  BY <1>2, <1>3, <1>4, RowsStep DEF Basics, SendMessage

\* A consumer that got as far as the group is in a room.
LEMMA SomeRoom ==
  ASSUME ChatInv, NEW c \in Sockets, socket[c].phase \notin {"new", "refused"}
  PROVE  room # "none" /\ UserOf[c] \in Participants
BY DEF ChatInv, Basics, RoomFirst, OnlyParties

\* What the steps that move one consumer to a phase p have in common.
LEMMA MovedBasics ==
  ASSUME ChatInv, NEW c \in Sockets, NEW p \in Phases, Goto(c, p),
         UNCHANGED <<room, broadcasts, shown>>,
         messages' \in Seq(Message) /\ Len(messages') <= MaxMessages,
         room = "none" => messages' = messages,
         inbox' \in [Sockets -> SUBSET (Nat \ {0})],
         taken' \in [Sockets -> Nat], owed' \in [Sockets -> SUBSET Nat],
         group' \subseteq Sockets,
         \A d \in Sockets \ {c} : d \in group => d \in group',
         p \in {"joined", "open", "marked"} => c \in group',
         p = "refused" \/ (room # "none" /\ UserOf[c] \in Participants)
  PROVE  Basics'
<1>1. /\ socket' \in [Sockets -> Socket] /\ socket'[c].phase = p
      /\ \A d \in Sockets \ {c} : socket'[d] = socket[d]
  BY GotoMoves DEF ChatInv, Basics
<1>2. ChatTypeOK'
  BY <1>1 DEF ChatInv, Basics, ChatTypeOK
<1>3. RoomFirst' /\ OnlyParties'
  BY <1>1 DEF ChatInv, Basics, RoomFirst, OnlyParties
<1>4. JoinedFirst'
  BY <1>1 DEF ChatInv, Basics, JoinedFirst, At, Connected, Phases
<1> QED  BY <1>2, <1>3, <1>4 DEF Basics

\* Those of them that leave the channels and the screens alone.
LEMMA MoveStep ==
  ASSUME ChatInv, NEW c \in Sockets, NEW p \in Phases, Goto(c, p),
         UNCHANGED QueueVars, RowsStay, Basics',
         Connected(c) => p \in {"open", "marked"}
  PROVE  ChatInv'
<1>1. /\ socket'[c].phase = p
      /\ \A d \in Sockets \ {c} : socket'[d] = socket[d]
  BY GotoMoves DEF ChatInv, Basics
<1>2. /\ UNCHANGED <<broadcasts, inbox, taken, shown, owed>>
      /\ \A d \in Sockets : Handed(d)' = Handed(d)
  BY DEF QueueVars, Handed, Shown
<1>3. Steady
  BY <1>1, <1>2 DEF Steady, Phases
<1>4. Feeds'
  BY <1>1, <1>2, FeedsStay DEF ChatInv, Connected
<1> QED  BY <1>3, <1>4, SteadyConsumers DEF ChatInv

LEMMA ConnectStep == ASSUME ChatInv, NEW c \in Sockets, Connect(c)  PROVE ChatInv'
<1> DEFINE p == IF LoginOf[c] = "session" /\ room = "active"
                   /\ UserOf[c] \in Participants
                THEN "admitted" ELSE "refused"
<1>1. /\ p \in Phases /\ Goto(c, p) /\ ~Connected(c) /\ UNCHANGED QueueVars
      /\ p \in {"admitted", "refused"}
      /\ p = "refused" \/ (room # "none" /\ UserOf[c] \in Participants)
  BY DEF Connect, Phases, At, Connected, LayerVars
<1> HIDE DEF p
<1>2. Basics' /\ RowsStay
  BY <1>1, MovedBasics
  DEF Connect, RoomVars, LayerVars, QueueVars, ChatInv, Basics, ChatTypeOK, RowsStay
<1> QED  BY <1>1, <1>2, MoveStep

LEMMA JoinStep == ASSUME ChatInv, NEW c \in Sockets, Join(c)  PROVE ChatInv'
<1> DEFINE p == IF LayerConfigured THEN "joined" ELSE "failed"
<1>1. /\ room # "none" /\ UserOf[c] \in Participants /\ group \subseteq Sockets
      /\ p \in Phases /\ Goto(c, p) /\ ~Connected(c) /\ UNCHANGED QueueVars
      /\ group \subseteq group' /\ group' \subseteq Sockets
      /\ p \in {"joined", "open", "marked"} => c \in group'
  BY SomeRoom DEF Join, At, ChatInv, Basics, ChatTypeOK, Phases, Connected
<1> HIDE DEF p
<1>2. Basics' /\ RowsStay
  BY <1>1, MovedBasics
  DEF Join, RoomVars, LayerVars, QueueVars, ChatInv, Basics, ChatTypeOK, RowsStay
<1> QED  BY <1>1, <1>2, MoveStep

LEMMA AcceptStep == ASSUME ChatInv, NEW c \in Sockets, Accept(c)  PROVE ChatInv'
<1>1. /\ room # "none" /\ UserOf[c] \in Participants /\ group \subseteq Sockets
      /\ c \in group /\ "open" \in Phases
      /\ Goto(c, "open") /\ UNCHANGED QueueVars /\ UNCHANGED group
  BY SomeRoom
  DEF Accept, At, ChatInv, Basics, ChatTypeOK, JoinedFirst, Phases, LayerVars
<1>2. Basics' /\ RowsStay
  BY <1>1, MovedBasics
  DEF Accept, RoomVars, LayerVars, QueueVars, ChatInv, Basics, ChatTypeOK, RowsStay
<1> QED  BY <1>1, <1>2, MoveStep

\* Marking is a step of the rows, which keep their length and their writers.
LEMMA MarkMessagesReadStep ==
  ASSUME ChatInv, NEW c \in Sockets, MarkMessagesRead(c)  PROVE ChatInv'
<1>1. /\ room # "none" /\ UserOf[c] \in Participants /\ c \in group
      /\ group \subseteq Sockets /\ "marked" \in Phases
      /\ Goto(c, "marked") /\ UNCHANGED QueueVars /\ UNCHANGED group
  BY SomeRoom
  DEF MarkMessagesRead, At, Connected, ChatInv, Basics, ChatTypeOK, JoinedFirst, Phases
<1>2. /\ messages \in Seq(Message) /\ Len(messages) \in Nat
      /\ DOMAIN messages = 1 .. Len(messages) /\ Len(messages) <= MaxMessages
      /\ \A i \in DOMAIN messages : messages[i] \in Message
  <2>1. messages \in Seq(Message) /\ Len(messages) <= MaxMessages
    BY DEF ChatInv, Basics, ChatTypeOK
  <2> QED  BY <2>1
<1>3. /\ DOMAIN messages' = 1 .. Len(messages)
      /\ \A i \in DOMAIN messages :
           messages'[i] \in Message /\ messages'[i].by = messages[i].by
  BY <1>2 DEF MarkMessagesRead, Message
<1>4. messages' \in Seq(Message) /\ Len(messages') = Len(messages)
  <2>1. messages' = [i \in 1 .. Len(messages) |-> messages'[i]]
    BY <1>2 DEF MarkMessagesRead
  <2>2. messages' \in [1 .. Len(messages) -> Message]
    BY <2>1, <1>2, <1>3
  <2> QED  BY <2>2, <1>2
<1>5. Basics'
  BY <1>1, <1>2, <1>4, MovedBasics
  DEF MarkMessagesRead, QueueVars, ChatInv, Basics, ChatTypeOK
<1>6. RowsStay
  BY <1>2, <1>3 DEF RowsStay
<1> QED  BY <1>1, <1>5, <1>6, MoveStep

\* A client that goes takes with it what was taken for it.
LEMMA GoneStep ==
  ASSUME ChatInv, NEW c \in Sockets, socket[c].phase \notin {"new", "refused"},
         Goto(c, "closed"), Forget(c),
         UNCHANGED <<RoomVars, broadcasts, inbox, shown>>,
         group' \subseteq group, \A d \in Sockets \ {c} : d \in group => d \in group'
  PROVE  ChatInv'
<1>1. /\ taken' \in [Sockets -> Nat] /\ taken'[c] = None
      /\ owed' \in [Sockets -> SUBSET Nat] /\ owed'[c] = {}
      /\ \A d \in Sockets \ {c} : taken'[d] = taken[d] /\ owed'[d] = owed[d]
  BY DEF Forget, ChatInv, Basics, ChatTypeOK, None
<1>2. /\ socket'[c].phase = "closed" /\ "closed" \in Phases
      /\ \A d \in Sockets \ {c} : socket'[d] = socket[d]
  BY GotoMoves DEF ChatInv, Basics, Phases
<1>3. Basics'
  BY <1>1, <1>2, SomeRoom, MovedBasics
  DEF RoomVars, ChatInv, Basics, ChatTypeOK
<1>4. /\ \A d \in Sockets : Shown(d)' = Shown(d) /\ Handed(d)' \subseteq Handed(d)
      /\ \A d \in Sockets \ {c} : Waiting(d)' = Waiting(d)
      /\ \A m, n : Late(m, n)' = Late(m, n)
      /\ \A n : IsMessage(n)' = IsMessage(n)
  BY <1>1 DEF Shown, Handed, Waiting, Late, IsMessage
<1>5. Steady
  BY <1>2, <1>4 DEF Steady, RowsStay, RoomVars
<1>6. FeedsKnown' /\ InboxLate' /\ TakenLate' /\ ShownLate'
  BY <1>1, <1>4 DEF ChatInv, Feeds, FeedsKnown, InboxLate, TakenLate, ShownLate
<1>7. OwedWaits'
  BY <1>1, <1>2, <1>4 DEF ChatInv, Feeds, OwedWaits, Connected
<1> QED  BY <1>3, <1>5, <1>6, <1>7, SteadyConsumers DEF ChatInv, Feeds

LEMMA DisconnectStep ==
  ASSUME ChatInv, NEW c \in Sockets, Disconnect(c)  PROVE ChatInv'
BY GoneStep DEF Disconnect, At

LEMMA CrashStep == ASSUME ChatInv, NEW c \in Sockets, Crash(c)  PROVE ChatInv'
BY GoneStep DEF Crash

LEMMA SaveMessageStep ==
  ASSUME ChatInv, NEW c \in Sockets, SaveMessage(c)  PROVE ChatInv'
<1> DEFINE m == [sender |-> UserOf[c], by |-> c, is_read |-> FALSE]
           id == Len(messages) + 1
<1>1. /\ room # "none" /\ UserOf[c] \in Participants /\ c \in group
      /\ At(c, "open") /\ UNCHANGED <<broadcasts, inbox, taken, shown, owed>>
  BY SomeRoom
  DEF SaveMessage, At, Connected, ChatInv, Basics, JoinedFirst, LayerVars, QueueVars
<1>2. /\ messages \in Seq(Message) /\ Len(messages) \in Nat
      /\ DOMAIN messages = 1 .. Len(messages)
      /\ Len(messages) < MaxMessages /\ id \in Nat
  <2>1. messages \in Seq(Message)
    BY DEF ChatInv, Basics, ChatTypeOK
  <2> QED  BY <2>1 DEF SaveMessage
<1>3. m \in Message /\ m.by = c /\ messages' = Append(messages, m)
  BY <1>1 DEF Message, SaveMessage
<1>4. /\ messages' \in Seq(Message) /\ Len(messages') = Len(messages) + 1
      /\ RowsStay /\ id \in DOMAIN messages' /\ messages'[id].by = c
  BY <1>2, <1>3, RowAdded
<1>5. /\ socket' \in [Sockets -> Socket]
      /\ socket'[c].phase = "saved" /\ socket'[c].number = id
      /\ \A d \in Sockets \ {c} : socket'[d] = socket[d]
  BY <1>2 DEF SaveMessage, Socket, Idle, ChatInv, Basics, ChatTypeOK
<1> HIDE DEF m
<1>6. ChatTypeOK'
  BY <1>1, <1>2, <1>4, <1>5, ChatAssumption
  DEF ChatInv, Basics, ChatTypeOK, LayerVars, SaveMessage
<1>7. RoomFirst' /\ JoinedFirst' /\ OnlyParties'
  BY <1>1, <1>5 DEF ChatInv, Basics, RoomFirst, JoinedFirst, OnlyParties,
                    LayerVars, At, Connected, SaveMessage
<1>8. Table'
  BY <1>1, <1>4, TableStays DEF ChatInv
<1>9. SavedIsNew'
  <2> SUFFICES ASSUME NEW d \in Sockets, socket'[d].phase = "saved",
                      NEW n, n = socket'[d].number
               PROVE  NewFrom(d, n)'
    BY DEF SavedIsNew, At
  <2>1. CASE d = c
    <3>1. \A k \in DOMAIN broadcasts :
            IsMessage(k)' => Id(k)' \in DOMAIN messages /\ Id(k)' < id
      BY <1>1, <1>2 DEF ChatInv, Table, IdsStored, IsMessage, Id
    <3> QED  BY <2>1, <3>1, <1>1, <1>4, <1>5 DEF NewFrom
  <2>2. CASE d # c
    <3>1. NewFrom(d, n)
      BY <2>2, <1>5 DEF ChatInv, SavedIsNew, At
    <3> QED  BY <3>1, <1>1, <1>4, NewStays DEF ChatInv, Table
  <2> QED  BY <2>1, <2>2
<1>10. AllUnderWay'
  <2> SUFFICES ASSUME NEW d \in Sockets, socket'[d].phase = "sending",
                      NEW n, n = socket'[d].number
               PROVE  UnderWay(d, n)'
    BY DEF AllUnderWay, At
  <2>1. d # c /\ socket'[d] = socket[d] /\ At(d, "sending") /\ UnderWay(d, n)
    BY <1>5 DEF At, ChatInv, AllUnderWay
  <2>2. IsMessage(n)' = IsMessage(n) /\ Id(n)' = Id(n)
    BY <1>1 DEF IsMessage, Id
  <2>3. IsMessage(n) => By(n)' = By(n)
    BY <2>1, <2>2, <1>4 DEF UnderWay, ChatInv, Table, IdsStored, RowsStay, By
  <2>4. \A e \in Sockets : (Handed(e) \cup inbox[e])' = Handed(e) \cup inbox[e]
    BY <1>1 DEF Handed, Shown
  <2>5. \A e \in Sockets : At(e, "sending")' /\ socket'[e].number = n => e = d
    BY <2>1, <1>5 DEF UnderWay, At
  <2> QED  BY <2>1, <2>2, <2>3, <2>4, <2>5, <1>1 DEF UnderWay
<1>11. Feeds'
  <2>1. \A d \in Sockets : Connected(d) => Connected(d)'
    BY <1>5 DEF Connected
  <2> QED  BY <2>1, <1>1, FeedsStay DEF ChatInv
<1> QED  BY <1>6, <1>7, <1>8, <1>9, <1>10, <1>11 DEF ChatInv, Basics

\* group_send takes the next number: what is under way overlaps it, and what it
\* stands for, if it is a message, is the newest of its connection.
LEMMA GroupSendStep ==
  ASSUME ChatInv, NEW c \in Sockets, NEW event \in Event, GroupSend(c, event),
         At(c, "saved") \/ At(c, "marked") \/ At(c, "open"),
         event.type = "chat_message" => NewFrom(c, event.id),
         UNCHANGED <<RoomVars, group, inbox, taken, shown, owed>>
  PROVE  ChatInv'
<1> PICK n : n = Len(broadcasts) + 1
  OBVIOUS
<1> DEFINE row == [event |-> event, beside |-> {socket[d].number : d \in Sending}]
           held == [phase |-> "sending", number |-> n, to |-> group,
                    heard |-> {d \in Sockets : Connected(d)}]
<1>1. /\ room # "none" /\ UserOf[c] \in Participants /\ c \in group
      /\ Connected(c) /\ ~At(c, "sending")
  BY SomeRoom DEF At, Connected, ChatInv, Basics, JoinedFirst
<1>2. /\ broadcasts \in Seq(Broadcast) /\ Len(broadcasts) \in Nat /\ n \in Nat \ {0}
      /\ DOMAIN broadcasts = 1 .. Len(broadcasts) /\ n \notin DOMAIN broadcasts
      /\ \A k \in DOMAIN broadcasts : k \in Nat /\ k < n
      /\ socket \in [Sockets -> Socket]
      /\ \A d \in Sockets : socket[d].number \in Nat
  <2>1. broadcasts \in Seq(Broadcast) /\ socket \in [Sockets -> Socket]
    BY DEF ChatInv, Basics, ChatTypeOK
  <2>2. \A d \in Sockets : socket[d].number \in Nat
    BY <2>1 DEF Socket
  <2> QED  BY <2>1, <2>2
<1>3. row \in Broadcast /\ held \in Socket
  <2>1. {socket[d].number : d \in Sending} \in SUBSET Nat
    BY <1>2 DEF Sending
  <2>2. group \in SUBSET Sockets /\ {d \in Sockets : Connected(d)} \in SUBSET Sockets
    BY DEF ChatInv, Basics, ChatTypeOK
  <2> QED  BY <2>1, <2>2, <1>2 DEF Broadcast, Socket
<1>4. /\ row.event = event /\ row.beside = {socket[d].number : d \in Sending}
      /\ held.phase = "sending" /\ held.number = n /\ held.to = group
      /\ held.heard = {d \in Sockets : Connected(d)}
      /\ broadcasts' = Append(broadcasts, row)
      /\ socket' = [socket EXCEPT ![c] = held]
  BY DEF GroupSend, Announce
<1> HIDE DEF row, held
<1>5. /\ broadcasts' \in Seq(Broadcast)
      /\ DOMAIN broadcasts' = DOMAIN broadcasts \cup {n}
      /\ broadcasts'[n] = row
      /\ \A k \in DOMAIN broadcasts : broadcasts'[k] = broadcasts[k]
  BY <1>2, <1>3, <1>4
<1>6. /\ socket' \in [Sockets -> Socket] /\ socket'[c] = held
      /\ \A d \in Sockets \ {c} : socket'[d] = socket[d]
  BY <1>2, <1>3, <1>4
<1>7. ChatTypeOK'
  BY <1>5, <1>6 DEF ChatInv, Basics, ChatTypeOK, RoomVars
<1>8. RoomFirst' /\ JoinedFirst' /\ OnlyParties'
  BY <1>1, <1>4, <1>6 DEF ChatInv, Basics, RoomFirst, JoinedFirst, OnlyParties,
                          At, Connected, RoomVars
<1>9. /\ \A k \in DOMAIN broadcasts :
           /\ IsMessage(k)' = IsMessage(k) /\ Id(k)' = Id(k) /\ By(k)' = By(k)
           /\ broadcasts'[k].beside = broadcasts[k].beside
      /\ IsMessage(n)' = (event.type = "chat_message")
      /\ IsMessage(n)' => Id(n)' = event.id /\ By(n)' = c
                          /\ Id(n)' \in DOMAIN messages
  BY <1>4, <1>5 DEF IsMessage, Id, By, RoomVars, NewFrom
<1>10. \A d \in Sending : UnderWay(d, socket[d].number) /\ d # c
  BY <1>1 DEF ChatInv, AllUnderWay, Sending
<1>11. Table'
  <2>1. BesideEarlier'
    <3>1. \A k \in row.beside : k < n
      BY <1>2, <1>4, <1>10 DEF UnderWay
    <3> QED  BY <3>1, <1>5, <1>9 DEF ChatInv, Table, BesideEarlier
  <2>2. IdsStored'
    BY <1>5, <1>9 DEF ChatInv, Table, IdsStored, RoomVars
  <2>3. \A k \in DOMAIN broadcasts : IsMessage(k) /\ By(k) = c /\ IsMessage(n)' =>
          k \notin row.beside /\ Id(k) < Id(n)'
    <3> SUFFICES ASSUME NEW k \in DOMAIN broadcasts, IsMessage(k), By(k) = c,
                        IsMessage(n)'
                 PROVE  k \notin row.beside /\ Id(k) < Id(n)'
      OBVIOUS
    <3>1. \A d \in Sending : By(socket[d].number) = c /\ IsMessage(socket[d].number)
            => FALSE
      BY <1>10 DEF UnderWay, Sending
    <3>2. k \notin row.beside
      BY <3>1, <1>4
    <3>3. Id(k) < event.id
      BY <1>9 DEF NewFrom
    <3> QED  BY <3>2, <3>3, <1>9
  <2>4. \A k \in DOMAIN broadcasts : n \notin broadcasts[k].beside /\ ~(n < k)
    BY <1>2 DEF ChatInv, Table, BesideEarlier
  <2>5. n \notin row.beside /\ ~(n < n)
    BY <1>2, <1>4, <1>10 DEF UnderWay
  <2>6. SendersInTurn'
    <3> SUFFICES ASSUME NEW k \in DOMAIN broadcasts', NEW l \in DOMAIN broadcasts',
                        IsMessage(k)', IsMessage(l)', By(k)' = By(l)'
                 PROVE  /\ k \notin broadcasts'[l].beside
                        /\ k < l => Id(k)' < Id(l)'
      BY DEF SendersInTurn
    <3>1. CASE k # n /\ l # n
      BY <3>1, <1>5, <1>9 DEF ChatInv, Table, SendersInTurn
    <3>2. CASE k # n /\ l = n
      BY <3>2, <2>3, <1>5, <1>9
    <3>3. CASE k = n /\ l # n
      BY <3>3, <2>4, <1>5
    <3>4. CASE k = n /\ l = n
      BY <3>4, <2>5, <1>5
    <3> QED  BY <3>1, <3>2, <3>3, <3>4
  <2> QED  BY <2>1, <2>2, <2>6 DEF Table
<1>12. SavedIsNew'
  <2> SUFFICES ASSUME NEW d \in Sockets, socket'[d].phase = "saved",
                      NEW id, id = socket'[d].number
               PROVE  NewFrom(d, id)'
    BY DEF SavedIsNew, At
  <2>1. d # c /\ NewFrom(d, id)
    BY <1>4, <1>6 DEF ChatInv, SavedIsNew, At
  <2> QED  BY <2>1, <1>5, <1>9 DEF NewFrom, RoomVars
<1>13. \A d \in Sockets : Handed(d)' = Handed(d) /\ inbox'[d] = inbox[d]
                          /\ Shown(d)' = Shown(d) /\ Waiting(d)' = Waiting(d)
  BY DEF Handed, Shown, Waiting
<1>14. \A d \in Sockets : Handed(d) \cup inbox[d] \subseteq DOMAIN broadcasts
  BY DEF ChatInv, Feeds, FeedsKnown
<1>15. AllUnderWay'
  <2> SUFFICES ASSUME NEW d \in Sockets, socket'[d].phase = "sending",
                      NEW k, k = socket'[d].number
               PROVE  UnderWay(d, k)'
    BY DEF AllUnderWay, At
  <2>1. CASE d = c
    <3>1. k = n /\ k \in DOMAIN broadcasts' /\ k \notin DOMAIN broadcasts
      BY <2>1, <1>2, <1>4, <1>5, <1>6
    <3>2. socket'[d].heard \subseteq socket'[d].to
      BY <2>1, <1>4, <1>6 DEF ChatInv, Basics, JoinedFirst
    <3>3. \A e \in Sockets : k \notin (Handed(e) \cup inbox[e])'
      BY <3>1, <1>13, <1>14
    <3>4. \A m \in DOMAIN broadcasts' : ~(k < m)
      BY <3>1, <1>2, <1>5
    <3>5. \A e \in Sockets : At(e, "sending")' /\ socket'[e].number = k => e = d
      BY <2>1, <3>1, <1>2, <1>6, <1>10 DEF At, Sending, UnderWay
    <3> QED  BY <2>1, <3>1, <3>2, <3>3, <3>4, <3>5, <1>9 DEF UnderWay
  <2>2. CASE d # c
    <3>1. socket'[d] = socket[d] /\ d \in Sending /\ UnderWay(d, k)
      BY <2>2, <1>6, <1>10 DEF At, Sending
    <3>2. k \in DOMAIN broadcasts /\ k # n
      BY <3>1, <1>2 DEF UnderWay
    <3>3. \A m \in DOMAIN broadcasts' : k < m => k \in broadcasts'[m].beside
      <4>1. k \in row.beside
        BY <3>1, <2>2, <1>4, <1>6
      <4> QED  BY <3>1, <4>1, <1>5 DEF UnderWay
    <3>4. \A e \in Sockets : At(e, "sending")' /\ socket'[e].number = k => e = d
      <4>1. held.number # k
        BY <3>2, <1>4
      <4> QED  BY <3>1, <4>1, <1>6 DEF UnderWay, At
    <3> QED  BY <3>1, <3>2, <3>3, <3>4, <1>5, <1>9, <1>13 DEF UnderWay
  <2> QED  BY <2>1, <2>2
<1>16. Feeds'
  <2>1. FeedsKnown'
    <3>1. \A d \in Sockets : Shown(d) \subseteq DOMAIN broadcasts
      BY <1>14 DEF Handed
    <3> QED  BY <3>1, <1>5, <1>9, <1>13 DEF ChatInv, Feeds, FeedsKnown
  <2>2. \A k \in DOMAIN broadcasts : \A l : Late(k, l) => Late(k, l)'
    BY <1>9 DEF Late
  <2>3. InboxLate'
    BY <2>2, <1>13, <1>14 DEF ChatInv, Feeds, InboxLate
  <2>4. TakenLate'
    BY <2>2, <1>13, <1>14 DEF ChatInv, Feeds, TakenLate, Handed
  <2>5. ShownLate'
    <3>1. \A d \in Sockets : \A i \in DOMAIN shown[d] : shown[d][i] \in DOMAIN broadcasts
      BY <1>14 DEF Handed, Shown
    <3> QED  BY <2>2, <3>1 DEF ChatInv, Feeds, ShownLate
  <2>6. OwedWaits'
    <3>1. \A d \in Sockets : Connected(d)' <=> Connected(d)
      BY <1>1, <1>4, <1>6 DEF Connected
    <3> QED  BY <3>1, <1>5, <1>9, <1>13 DEF ChatInv, Feeds, OwedWaits
  <2> QED  BY <2>1, <2>3, <2>4, <2>5, <2>6 DEF Feeds
<1> QED  BY <1>7, <1>8, <1>11, <1>12, <1>15, <1>16 DEF ChatInv, Basics

LEMMA BroadcastMessageStep ==
  ASSUME ChatInv, NEW c \in Sockets, BroadcastMessage(c)  PROVE ChatInv'
<1>1. PICK id : id = socket[c].number
  OBVIOUS
<1>2. NewFrom(c, id)
  BY <1>1 DEF BroadcastMessage, ChatInv, SavedIsNew
<1>3. id \in Ids
  <2>1. messages \in Seq(Message) /\ Len(messages) <= MaxMessages
    BY DEF ChatInv, Basics, ChatTypeOK
  <2> QED  BY <2>1, <1>2, ChatAssumption DEF Ids, NewFrom
<1>4. PICK event : event = [type |-> "chat_message", id |-> id]
  OBVIOUS
<1>5. event \in Event /\ NewFrom(c, event.id) /\ GroupSend(c, event)
  BY <1>1, <1>2, <1>3, <1>4 DEF Event, BroadcastMessage
<1> QED  BY <1>5, GroupSendStep DEF BroadcastMessage

LEMMA BroadcastReceiptStep ==
  ASSUME ChatInv, NEW c \in Sockets, BroadcastReceipt(c)  PROVE ChatInv'
<1>1. PICK event : event = [type |-> "read_receipt"]
  OBVIOUS
<1>2. event \in Event /\ event.type # "chat_message" /\ GroupSend(c, event)
  BY <1>1 DEF Event, BroadcastReceipt
<1> QED  BY <1>2, GroupSendStep DEF BroadcastReceipt

LEMMA HandleTypingStep ==
  ASSUME ChatInv, NEW c \in Sockets, HandleTyping(c)  PROVE ChatInv'
<1>1. UserOf[c] \in Participants
  BY SomeRoom DEF HandleTyping, At
<1>2. PICK event : event = [type |-> "typing_indicator", user |-> UserOf[c]]
  OBVIOUS
<1>3. event \in Event /\ event.type # "chat_message" /\ GroupSend(c, event)
  BY <1>1, <1>2 DEF Event, HandleTyping
<1> QED  BY <1>3, GroupSendStep DEF HandleTyping

\* The script puts the event behind what was handed on, late by the clock only
\* to what began while it was under way.
LEMMA DeliverStep == ASSUME ChatInv, NEW c \in Sockets, Deliver(c)  PROVE ChatInv'
<1> PICK n : n = socket[c].number
  OBVIOUS
<1>1. /\ room # "none" /\ UserOf[c] \in Participants /\ c \in group
      /\ group \subseteq Sockets /\ Connected(c) /\ "open" \in Phases
      /\ At(c, "sending") /\ Goto(c, "open")
  BY SomeRoom DEF Deliver, At, Connected, ChatInv, Basics, ChatTypeOK,
                  JoinedFirst, Phases
<1>2. UnderWay(c, n) /\ n \in Nat \ {0}
  <2>1. UnderWay(c, n) /\ broadcasts \in Seq(Broadcast)
    BY <1>1 DEF ChatInv, AllUnderWay, Basics, ChatTypeOK
  <2> QED  BY <2>1 DEF UnderWay
<1>3. /\ inbox' \in [Sockets -> SUBSET (Nat \ {0})] /\ owed' \in [Sockets -> SUBSET Nat]
      /\ \A d \in Sockets :
           /\ inbox'[d] = inbox[d] \cup
                {m \in {n} : d \in socket[c].to /\ HasRoom(d)}
           /\ owed'[d] = owed[d] \cup
                {m \in {n} : IsMessage(n) /\ HasRoom(d)
                             /\ Connected(d) /\ d \in socket[c].heard}
  BY <1>2 DEF Deliver, Put, ChatInv, Basics, ChatTypeOK
<1>4. /\ socket'[c].phase = "open"
      /\ \A d \in Sockets \ {c} : socket'[d] = socket[d]
  BY <1>1, GotoMoves DEF ChatInv, Basics
<1>5. Basics'
  BY <1>1, <1>3, MovedBasics DEF Deliver, RoomVars, ChatInv, Basics, ChatTypeOK
<1>6. /\ \A d \in Sockets : Shown(d)' = Shown(d) /\ Handed(d)' = Handed(d)
      /\ \A k, l : Late(k, l)' = Late(k, l)
      /\ \A k : IsMessage(k)' = IsMessage(k)
      /\ UNCHANGED <<broadcasts, taken, shown, messages>>
  BY DEF Deliver, RoomVars, Shown, Handed, Late, IsMessage
<1>7. Steady
  <2>1. ASSUME NEW d \in Sockets, NEW e \in Sockets,
               At(d, "sending"), socket'[d] = socket[d],
               socket[d].number \notin Handed(e) \cup inbox[e]
        PROVE  socket[d].number \notin Handed(e)' \cup inbox'[e]
    <3>1. d # c
      BY <2>1, <1>4 DEF At
    <3>2. socket[d].number # n
      BY <2>1, <3>1, <1>2 DEF UnderWay
    <3> QED  BY <2>1, <3>2, <1>3, <1>6
  <2> QED  BY <2>1, <1>4, <1>6 DEF Steady, RowsStay
<1>8. FeedsKnown'
  BY <1>2, <1>3, <1>6 DEF ChatInv, Feeds, FeedsKnown, UnderWay
<1>9. InboxLate'
  <2> SUFFICES ASSUME NEW d \in Sockets, NEW m \in Handed(d), NEW k \in inbox'[d]
               PROVE  Late(m, k)
    BY <1>6 DEF InboxLate
  <2>1. CASE k \in inbox[d]
    BY <2>1 DEF ChatInv, Feeds, InboxLate
  <2>2. CASE k = n
    <3>1. m \in DOMAIN broadcasts /\ m # n
      BY <1>2 DEF ChatInv, Feeds, FeedsKnown, UnderWay
    <3>2. m \in Nat
      BY <3>1 DEF ChatInv, Basics, ChatTypeOK
    <3>3. n < m => n \in broadcasts[m].beside
      BY <3>1, <1>2 DEF UnderWay
    <3> QED  BY <2>2, <3>1, <3>2, <3>3, <1>2 DEF Late
  <2> QED  BY <2>1, <2>2, <1>3
<1>10. TakenLate' /\ ShownLate'
  BY <1>6 DEF ChatInv, Feeds, TakenLate, ShownLate
<1>11. OwedWaits'
  <2> SUFFICES ASSUME NEW d \in Sockets
               PROVE  /\ \A k \in owed'[d] : k \in DOMAIN broadcasts /\ IsMessage(k)
                      /\ Connected(d)' =>
                           owed'[d] \subseteq Shown(d) \cup Waiting(d)'
                      /\ ~Connected(d)' => owed'[d] = {}
    BY <1>6 DEF OwedWaits
  <2>1. Connected(d)' <=> Connected(d)
    BY <1>1, <1>4 DEF Connected
  <2>2. Waiting(d)' = Waiting(d) \cup {m \in {n} : d \in socket[c].to /\ HasRoom(d)}
    BY <1>3, <1>6 DEF Waiting
  <2> QED  BY <2>1, <2>2, <1>2, <1>3 DEF ChatInv, Feeds, OwedWaits, UnderWay
<1> QED  BY <1>5, <1>7, <1>8, <1>9, <1>10, <1>11, SteadyConsumers DEF ChatInv, Feeds

LEMMA FetchStep == ASSUME ChatInv, NEW c \in Sockets, Fetch(c)  PROVE ChatInv'
<1>1. PICK n \in inbox[c] :
        /\ \A m \in inbox[c] : n <= m
        /\ taken' = [taken EXCEPT ![c] = n]
        /\ inbox' = [inbox EXCEPT ![c] = @ \ {n}]
  BY DEF Fetch
<1>2. /\ inbox[c] \subseteq Nat \ {0} /\ n \in Nat \ {0} /\ taken[c] = None
      /\ inbox' \in [Sockets -> SUBSET (Nat \ {0})] /\ inbox'[c] = inbox[c] \ {n}
      /\ taken' \in [Sockets -> Nat] /\ taken'[c] = n
      /\ \A d \in Sockets \ {c} : taken'[d] = taken[d] /\ inbox'[d] = inbox[d]
      /\ UNCHANGED <<RoomVars, socket, group, broadcasts, shown, owed>>
  BY <1>1 DEF Fetch, ChatInv, Basics, ChatTypeOK
<1>3. Basics'
  BY <1>2 DEF ChatInv, Basics, ChatTypeOK, RoomFirst, JoinedFirst, OnlyParties, At,
              Connected, RoomVars
<1>4. /\ \A d \in Sockets : Shown(d)' = Shown(d) /\ Waiting(d)' = Waiting(d)
      /\ \A d \in Sockets \ {c} : Handed(d)' = Handed(d)
      /\ Handed(c)' = Handed(c) \cup {n}
      /\ \A k, l : Late(k, l)' = Late(k, l)
      /\ \A k : IsMessage(k)' = IsMessage(k)
  BY <1>2 DEF Shown, Waiting, Handed, Late, IsMessage, None
<1>5. \A d \in Sockets : (Handed(d) \cup inbox[d])' = Handed(d) \cup inbox[d]
  BY <1>1, <1>2, <1>4
<1>6. Steady
  BY <1>2, <1>5 DEF Steady, RowsStay, RoomVars
<1>7. FeedsKnown'
  BY <1>2, <1>4, <1>5 DEF ChatInv, Feeds, FeedsKnown
<1>8. InboxLate'
  <2> SUFFICES ASSUME NEW d \in Sockets, NEW m \in Handed(d)', NEW k \in inbox'[d]
               PROVE  Late(m, k)
    BY <1>4 DEF InboxLate
  <2>1. CASE d = c /\ m = n
    <3>1. k \in inbox[c] /\ k # n
      BY <2>1, <1>2
    <3>2. n <= k /\ k \in Nat
      BY <3>1, <1>1, <1>2
    <3> QED  BY <2>1, <3>1, <3>2, <1>2 DEF Late
  <2>2. CASE ~(d = c /\ m = n)
    BY <2>2, <1>2, <1>4 DEF ChatInv, Feeds, InboxLate
  <2> QED  BY <2>1, <2>2
<1>9. TakenLate'
  <2>1. \A m \in Shown(c) : Late(m, n)
    BY <1>1 DEF ChatInv, Feeds, InboxLate, Handed
  <2> QED  BY <2>1, <1>2, <1>4 DEF ChatInv, Feeds, TakenLate
<1>10. ShownLate'
  BY <1>2, <1>4 DEF ChatInv, Feeds, ShownLate
<1>11. OwedWaits'
  BY <1>2, <1>4 DEF ChatInv, Feeds, OwedWaits, Connected
<1> QED  BY <1>3, <1>6, <1>7, <1>8, <1>9, <1>10, <1>11, SteadyConsumers DEF ChatInv, Feeds

LEMMA HandleEventStep ==
  ASSUME ChatInv, NEW c \in Sockets, HandleEvent(c)  PROVE ChatInv'
<1> PICK n : n = taken[c]
  OBVIOUS
<1>1. /\ n \in Nat /\ n # None
      /\ taken' \in [Sockets -> Nat] /\ taken'[c] = None
      /\ \A d \in Sockets \ {c} : taken'[d] = taken[d]
      /\ UNCHANGED <<RoomVars, socket, group, broadcasts, inbox, owed>>
  BY DEF HandleEvent, ChatInv, Basics, ChatTypeOK, None
<1>2. shown \in [Sockets -> Seq(Nat)] /\ shown[c] \in Seq(Nat)
  BY DEF ChatInv, Basics, ChatTypeOK
<1>3. /\ shown' \in [Sockets -> Seq(Nat)]
      /\ \A d \in Sockets \ {c} : shown'[d] = shown[d]
      /\ IsMessage(n) => shown'[c] = Append(shown[c], n)
      /\ ~IsMessage(n) => shown'[c] = shown[c]
  <2> DEFINE u == IF IsMessage(n) THEN Append(shown[c], n) ELSE shown[c]
  <2>1. PICK t \in Seq(Nat) : t = u
    <3>1. Append(shown[c], n) \in Seq(Nat)
      BY <1>1, <1>2
    <3>2. u \in Seq(Nat)
      BY <3>1, <1>2
    <3> QED  BY <3>2
  <2>2. shown' = [shown EXCEPT ![c] = t]
    <3>1. CASE IsMessage(n)
      BY <2>1, <3>1 DEF HandleEvent, ShowMessage
    <3>2. CASE ~IsMessage(n)
      BY <2>1, <3>2, <1>2 DEF HandleEvent, ShowMessage
    <3> QED  BY <3>1, <3>2
  <2>3. shown'[c] = t
    BY <2>2, <1>2
  <2> QED  BY <2>1, <2>2, <2>3, <1>2
<1>4. /\ IsMessage(n) =>
           /\ DOMAIN shown'[c] = DOMAIN shown[c] \cup {Len(shown[c]) + 1}
           /\ shown'[c][Len(shown[c]) + 1] = n
           /\ \A i \in DOMAIN shown[c] : shown'[c][i] = shown[c][i]
      /\ DOMAIN shown[c] = 1 .. Len(shown[c]) /\ Len(shown[c]) \in Nat
  <2>1. PICK s : s = shown[c]
    OBVIOUS
  <2>2. PICK t : t = shown'[c]
    OBVIOUS
  <2>3. s \in Seq(Nat) /\ DOMAIN s = 1 .. Len(s) /\ Len(s) \in Nat
    BY <2>1, <1>2
  <2>4. IsMessage(n) => t = Append(s, n)
    BY <2>1, <2>2, <1>3
  <2>5. IsMessage(n) =>
          /\ DOMAIN t = DOMAIN s \cup {Len(s) + 1} /\ t[Len(s) + 1] = n
          /\ \A i \in DOMAIN s : t[i] = s[i]
    BY <2>3, <2>4, <1>1
  <2> QED  BY <2>1, <2>2, <2>3, <2>5
<1>5. /\ Shown(c)' = Shown(c) \cup {m \in {n} : IsMessage(n)}
      /\ \A d \in Sockets \ {c} : Shown(d)' = Shown(d) /\ Waiting(d)' = Waiting(d)
                                  /\ Handed(d)' = Handed(d)
      /\ Waiting(c) = inbox[c] \cup {n} /\ Waiting(c)' = inbox[c]
      /\ Handed(c) = Shown(c) \cup {n} /\ Handed(c)' = Shown(c)'
      /\ \A k, l : Late(k, l)' = Late(k, l)
      /\ \A k : IsMessage(k)' = IsMessage(k)
  <2>1. Shown(c)' = Shown(c) \cup {m \in {n} : IsMessage(n)}
    <3>1. CASE IsMessage(n)
      <4>1. Len(shown[c]) + 1 \in DOMAIN shown'[c]
        BY <3>1, <1>4
      <4>2. Shown(c) \cup {n} \subseteq Shown(c)'
        BY <3>1, <4>1, <1>4 DEF Shown
      <4>3. Shown(c)' \subseteq Shown(c) \cup {n}
        BY <3>1, <1>4 DEF Shown
      <4> QED  BY <3>1, <4>2, <4>3
    <3>2. CASE ~IsMessage(n)
      BY <3>2, <1>3 DEF Shown
    <3> QED  BY <3>1, <3>2
  <2>2. \A d \in Sockets \ {c} : Shown(d)' = Shown(d)
    BY <1>3 DEF Shown
  <2>3. /\ \A k, l : Late(k, l)' = Late(k, l)
        /\ \A k : IsMessage(k)' = IsMessage(k)
    BY <1>1 DEF Late, IsMessage
  <2> QED  BY <2>1, <2>2, <2>3, <1>1 DEF Handed, Waiting
<1>6. Basics'
  BY <1>1, <1>3 DEF ChatInv, Basics, ChatTypeOK, RoomFirst, JoinedFirst, OnlyParties,
                    At, Connected, RoomVars
<1>7. \A d \in Sockets : Handed(d)' \subseteq Handed(d)
  BY <1>5
<1>8. Steady
  BY <1>1, <1>7 DEF Steady, RowsStay, RoomVars
<1>9. FeedsKnown'
  BY <1>1, <1>5, <1>7 DEF ChatInv, Feeds, FeedsKnown
<1>10. InboxLate'
  BY <1>1, <1>5, <1>7 DEF ChatInv, Feeds, InboxLate
<1>11. TakenLate'
  BY <1>1, <1>5 DEF ChatInv, Feeds, TakenLate
<1>12. ShownLate'
  <2>1. \A i \in DOMAIN shown[c] : Late(shown[c][i], n)
    BY <1>1 DEF ChatInv, Feeds, TakenLate, Shown
  <2>2. ASSUME NEW i \in DOMAIN shown'[c], NEW j \in DOMAIN shown'[c], i < j
        PROVE  Late(shown'[c][i], shown'[c][j])
    <3>1. CASE j \in DOMAIN shown[c] /\ i \in DOMAIN shown[c]
      BY <2>2, <3>1, <1>3, <1>4 DEF ChatInv, Feeds, ShownLate
    <3>2. CASE IsMessage(n) /\ j = Len(shown[c]) + 1
      <4>1. i \in DOMAIN shown[c]
        BY <2>2, <3>2, <1>4
      <4> QED  BY <3>2, <4>1, <2>1, <1>4
    <3>3. CASE IsMessage(n) /\ i = Len(shown[c]) + 1
      BY <2>2, <3>3, <1>4
    <3> QED  BY <3>1, <3>2, <3>3, <1>3, <1>4
  <2> QED  BY <2>2, <1>3, <1>5 DEF ChatInv, Feeds, ShownLate
<1>13. OwedWaits'
  BY <1>1, <1>5 DEF ChatInv, Feeds, OwedWaits, Connected
<1> QED  BY <1>6, <1>8, <1>9, <1>10, <1>11, <1>12, <1>13, SteadyConsumers
         DEF ChatInv, Feeds

-----------------------------------------------------------------------------
(* The results. *)

LEMMA NextChatInv == ASSUME ChatInv, [ChatNext]_chatVars  PROVE ChatInv'
<1>1. CASE UNCHANGED chatVars
  <2>1. Basics' /\ RowsStay
    BY <1>1 DEF chatVars, ChatInv, Basics, ChatTypeOK, RoomFirst, JoinedFirst,
                OnlyParties, At, Connected, RowsStay
  <2> QED  BY <1>1, <2>1, RowsStep DEF chatVars, LayerVars, QueueVars
<1>2. CASE AcceptJob
  BY <1>2, CreateStep DEF AcceptJob
<1>3. CASE SaveAcceptedJob
  BY <1>3, CreateStep DEF SaveAcceptedJob
<1>4. CASE \E state \in {"active", "inactive"} : SetActive(state)
  BY <1>4, SetActiveStep
<1>5. CASE \E u \in Participants : SendMessage(u)
  BY <1>5, SendMessageStep
<1>6. ASSUME NEW c \in Sockets,
             Connect(c) \/ Receive(c) \/ Proceed(c) \/ Disconnect(c) \/ Crash(c)
      PROVE  ChatInv'
  <2>1. CASE Connect(c)
    BY <2>1, ConnectStep
  <2>2. CASE Receive(c)
    BY <2>2, SaveMessageStep, MarkMessagesReadStep, HandleTypingStep DEF Receive
  <2>3. CASE Proceed(c)
    BY <2>3, JoinStep, AcceptStep, BroadcastMessageStep, BroadcastReceiptStep,
       DeliverStep, FetchStep, HandleEventStep DEF Proceed
  <2>4. CASE Disconnect(c) \/ Crash(c)
    BY <2>4, DisconnectStep, CrashStep
  <2> QED  BY <1>6, <2>1, <2>2, <2>3, <2>4
<1> QED  BY <1>1, <1>2, <1>3, <1>4, <1>5, <1>6 DEF ChatNext

(***************************************************************************)
(* Messages are stored, broadcast, put into inboxes, taken and shown in    *)
(* step: the types, that only the two parties of a room that exists get    *)
(* into its group, that what is under way is in no inbox, and that only    *)
(* what began meanwhile can be handed on before it.                        *)
(***************************************************************************)
THEOREM ChatKeepsInvariant == ChatSpec => []ChatInv
<1>1. ChatInit => ChatInv
  BY InitChatInv
<1>2. ChatInv /\ [ChatNext]_chatVars => ChatInv'
  BY NextChatInv
<1> QED  BY <1>1, <1>2, PTL DEF ChatSpec

(***************************************************************************)
(* connect joins the group before it accepts the client, so that the       *)
(* client misses no message its inbox had room for.                        *)
(***************************************************************************)
THEOREM BroadcastsReachTheAccepted == ChatSpec => []AcceptedMissNothing
<1>1. ChatInv => AcceptedMissNothing
  BY InvIsEnough
<1> QED  BY <1>1, ChatKeepsInvariant, PTL

(***************************************************************************)
(* Events are sorted by the clock read before the script runs: two clients *)
(* are shown two messages in different orders only if one call of          *)
(* group_send began while the other was between its clock and its script.  *)
(***************************************************************************)
THEOREM DisagreementsOverlap == ChatSpec => []DisagreeOnlyOverlapped
<1>1. ChatInv => DisagreeOnlyOverlapped
  BY InvIsEnough
<1> QED  BY <1>1, ChatKeepsInvariant, PTL

(***************************************************************************)
(* A consumer broadcasts what it stored before it stores again: each       *)
(* connection's messages are shown in its own order, none of them twice.   *)
(***************************************************************************)
THEOREM SendersKeepTheirOrder == ChatSpec => []SenderOrder
<1>1. ChatInv => SenderOrder
  BY InvIsEnough
<1> QED  BY <1>1, ChatKeepsInvariant, PTL

(***************************************************************************)
(* mark_messages_read excludes the messages of its own user: what becomes  *)
(* read was sent by somebody else than the user whose connection acts.     *)
(***************************************************************************)
THEOREM ReceiptsMarkOthers == ChatSpec => ReadByAnother
<1> DEFINE Marked(i) ==
      (~messages[i].is_read /\ messages'[i].is_read) =>
        \E c \in Sockets : socket'[c] # socket[c] /\ UserOf[c] # messages[i].sender
<1>1. ASSUME ChatInv, [ChatNext]_chatVars, NEW i \in DOMAIN messages
      PROVE  Marked(i)
  <2>1. messages \in Seq(Message) /\ messages[i] \in Message
    BY <1>1 DEF ChatInv, Basics, ChatTypeOK
  <2>2. CASE messages' = messages
    BY <2>2
  <2>3. ASSUME NEW m, messages' = Append(messages, m)  PROVE Marked(i)
    <3>1. messages'[i] = messages[i]
      BY <2>1, <2>3
    <3> QED  BY <3>1
  <2>4. CASE CreateChatRoomOnAccept
    <3>1. room # "none"
      BY <1>1 DEF ChatInv, Basics, RoomFirst
    <3> QED  BY <2>2, <2>4, <3>1 DEF CreateChatRoomOnAccept
  <2>5. CASE \E c \in Sockets : MarkMessagesRead(c)
    <3>1. PICK c \in Sockets : MarkMessagesRead(c)
      BY <2>5
    <3>2. messages'[i].is_read =
            (messages[i].is_read \/ messages[i].sender # UserOf[c])
      BY <2>1, <3>1 DEF MarkMessagesRead, Message
    <3>3. socket'[c] # socket[c]
      BY <1>1, <3>1 DEF MarkMessagesRead, Goto, Idle, At, ChatInv, Basics, ChatTypeOK
    <3> QED  BY <3>2, <3>3
  <2> QED
    BY <1>1, <2>2, <2>3, <2>4, <2>5
    DEF ChatNext, chatVars, AcceptJob, SaveAcceptedJob, SetActive, SendMessage,
        Connect, Receive, SaveMessage, HandleTyping, Proceed, Join, Accept,
        BroadcastMessage, BroadcastReceipt, Deliver, Fetch, HandleEvent, Disconnect,
        Crash, RoomVars
<1>2. ASSUME ChatInv, [ChatNext]_chatVars
      PROVE  [\A i \in DOMAIN messages : Marked(i)]_chatVars
  BY <1>1, <1>2
<1> QED  BY <1>2, ChatKeepsInvariant, PTL DEF ChatSpec, ReadByAnother
=============================================================================
