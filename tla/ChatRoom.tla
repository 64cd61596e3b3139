------------------------------ MODULE ChatRoom ------------------------------
(***************************************************************************)
(* The chat room of one job: its creation when the job is accepted, the    *)
(* messages stored over HTTP and over web sockets, read receipts, and the  *)
(* consumers that broadcast through the channel layer.  A consumer handles *)
(* one event at a time, its client's or one from its inbox, and other      *)
(* consumers run at every await.  The channel layer is that of the         *)
(* requirements, channels-redis: group_send reads the members of the       *)
(* group, then the clock, and a script puts the event into the inboxes     *)
(* later, sorted by that clock.  Broadcasts are numbered in clock order:   *)
(* there is one clock, and no two of them read the same.                   *)
(***************************************************************************)
EXTENDS Integers, Sequences, FiniteSets

CONSTANTS
  Sockets,          \* the connections of a behaviour, each used once
  UserOf,           \* whose they are
  LoginOf,          \* what the client shows: a session cookie or ?token=
  FramesOf,         \* the types of frames the client sends
  ReceiverAlive,    \* create_chat_room_on_accept outlives setup_chat_signals
  LayerConfigured,  \* the settings name a channel layer
  QueueLimit,       \* the capacity of a channel
  MaxMessages,      \* bound: messages stored in a behaviour
  MaxSignals        \* bound: receipts and typing indicators

Participants == {"employer", "worker"}
System == "system"  \* the sender of the greeting is null
NoSocket == "none"

ASSUME ChatAssumption ==
  /\ UserOf \in [Sockets -> Participants \cup {"stranger"}]
  /\ LoginOf \in [Sockets -> {"session", "token"}]
  /\ FramesOf \in [Sockets -> SUBSET {"chat_message", "typing", "read_receipt"}]
  /\ {ReceiverAlive, LayerConfigured} \subseteq BOOLEAN
  /\ QueueLimit \in Nat \ {0} /\ MaxMessages \in Nat \ {0} /\ MaxSignals \in Nat

VARIABLES
  accepted,  \* the job has been accepted
  room,      \* chat_rooms
  messages,  \* chat_messages in order of creation
  socket,    \* per connection, where its consumer is
  group,     \* the channels in chat_<room id>
  broadcasts, \* what group_send was called with, in the order of the clock
  inbox,     \* per channel, the numbers of the broadcasts waiting in Redis ...
  taken,     \* ... and the one taken from there for the consumer, or None
  shown,     \* per connection, the messages its client was sent, in order ...
  owed,      \* ... and those broadcast while it was connected
  signals    \* receipts and typing indicators received from clients

chatVars == <<accepted, room, messages, socket, group, broadcasts, inbox, taken,
              shown, owed, signals>>

Ids == 1 .. MaxMessages
None == 0

Message == [sender : Participants \cup {System},
            by : Sockets \cup {NoSocket},   \* the connection, if there is one
            is_read : BOOLEAN]

Event == [type : {"chat_message"}, id : Ids] \cup
         [type : {"typing_indicator"}, user : Participants] \cup
         [type : {"read_receipt"}]

\* A call of group_send, with the numbers of those that were under way then.
Broadcast == [event : Event, beside : SUBSET Nat]

\* The number is that of the message saved or of the broadcast under way, which
\* goes to the members read; the others connected then are owed it as well.
Socket == [phase : {"new", "admitted", "joined", "open", "saved", "marked",
                    "sending", "refused", "failed", "closed"},
           number : Nat, to : SUBSET Sockets, heard : SUBSET Sockets]

Idle(phase) == [phase |-> phase, number |-> None, to |-> {}, heard |-> {}]

ChatInit ==
  /\ accepted = FALSE /\ room = "none" /\ messages = <<>>
  /\ socket = [c \in Sockets |-> Idle("new")]
  /\ group = {} /\ broadcasts = <<>>
  /\ inbox = [c \in Sockets |-> {}] /\ taken = [c \in Sockets |-> None]
  /\ shown = [c \in Sockets |-> <<>>] /\ owed = [c \in Sockets |-> {}]
  /\ signals = 0

At(c, phase) == socket[c].phase = phase
Connected(c) == socket[c].phase \in {"open", "saved", "marked", "sending"}
Goto(c, phase) == socket' = [socket EXCEPT ![c] = Idle(phase)]

RoomVars == <<accepted, room, messages>>
QueueVars == <<broadcasts, inbox, taken, shown, owed>>
LayerVars == <<group, QueueVars, signals>>

-----------------------------------------------------------------------------
(* The room *)

Greeting == [sender |-> System, by |-> NoSocket, is_read |-> FALSE]

CreateChatRoomOnAccept ==
  IF ReceiverAlive /\ room = "none"
  THEN room' = "active" /\ messages' = <<Greeting>>
  ELSE UNCHANGED <<room, messages>>

\* accept_job saves the job in its transaction, and the receiver runs in it.
AcceptJob ==
  /\ ~accepted /\ accepted' = TRUE
  /\ CreateChatRoomOnAccept
  /\ UNCHANGED <<socket, LayerVars>>

\* An administrator saves the accepted job again.
SaveAcceptedJob ==
  /\ accepted /\ UNCHANGED accepted
  /\ CreateChatRoomOnAccept
  /\ UNCHANGED <<socket, LayerVars>>

SetActive(state) ==
  /\ room # "none" /\ room' = state
  /\ UNCHANGED <<accepted, messages, socket, LayerVars>>

\* The HTTP fallback stores a message and tells no consumer.
SendMessage(u) ==
  /\ room # "none" /\ Len(messages) < MaxMessages
  /\ messages' =
       Append(messages, [sender |-> u, by |-> NoSocket, is_read |-> FALSE])
  /\ UNCHANGED <<accepted, room, socket, LayerVars>>

-----------------------------------------------------------------------------
(* connect and disconnect *)

Connect(c) ==
  /\ At(c, "new")
  /\ Goto(c, IF LoginOf[c] = "session" /\ room = "active"
                /\ UserOf[c] \in Participants
             THEN "admitted" ELSE "refused")
  /\ UNCHANGED <<RoomVars, LayerVars>>

\* Mutant of Join: the client is accepted before the channel joins the group.
JoinLate(c) ==
  /\ \/ At(c, "admitted") /\ Goto(c, "joined") /\ UNCHANGED group
     \/ At(c, "open") /\ c \notin group /\ group' = group \cup {c}
        /\ UNCHANGED socket
  /\ UNCHANGED <<RoomVars, QueueVars, signals>>

\* Without a channel layer channel_layer is None and group_add raises.
Join(c) ==
  /\ At(c, "admitted")
  /\ IF LayerConfigured THEN group' = group \cup {c} /\ Goto(c, "joined")
     ELSE UNCHANGED group /\ Goto(c, "failed")
  /\ UNCHANGED <<RoomVars, QueueVars, signals>>

Accept(c) ==
  /\ At(c, "joined") /\ Goto(c, "open")
  /\ UNCHANGED <<RoomVars, LayerVars>>

\* What was taken from Redis is lost, and nothing is owed to a client that went.
Forget(c) ==
  taken' = [taken EXCEPT ![c] = None] /\ owed' = [owed EXCEPT ![c] = {}]

Disconnect(c) ==
  /\ At(c, "open") /\ Goto(c, "closed")
  /\ group' = group \ {c} /\ Forget(c)
  /\ UNCHANGED <<RoomVars, broadcasts, inbox, shown, signals>>

\* The process dies or a handler raises: no disconnect, the channel stays in
\* the group until it expires, and nobody reads its inbox.
Crash(c) ==
  /\ socket[c].phase \in {"admitted", "joined", "open", "saved", "marked",
                          "sending"}
  /\ Goto(c, "closed") /\ Forget(c)
  /\ UNCHANGED <<RoomVars, group, broadcasts, inbox, shown, signals>>

-----------------------------------------------------------------------------
(* group_send *)

Sending == {c \in Sockets : At(c, "sending")}

\* The members are read, then the clock: the broadcast has its number.
Announce(c, event, members) ==
  /\ broadcasts' = Append(broadcasts,
       [event |-> event, beside |-> {socket[d].number : d \in Sending}])
  /\ socket' = [socket EXCEPT
       ![c] = [phase |-> "sending", number |-> Len(broadcasts) + 1, to |-> members,
               heard |-> {d \in Sockets : Connected(d)}]]

GroupSend(c, event) == Announce(c, event, group)

IsMessage(n) == broadcasts[n].event.type = "chat_message"
HasRoom(c) == Cardinality(inbox[c]) < QueueLimit

Put(c) ==
  LET n == socket[c].number
  IN  /\ inbox' = [d \in Sockets |->
           inbox[d] \cup {m \in {n} : d \in socket[c].to /\ HasRoom(d)}]
      /\ owed' = [d \in Sockets |->
           owed[d] \cup {m \in {n} : IsMessage(n) /\ HasRoom(d)
                                 /\ Connected(d) /\ d \in socket[c].heard}]

\* Mutant of Deliver: the script may run once more for the same call.
DeliverAgain(c) ==
  /\ At(c, "sending") /\ Put(c)
  /\ Goto(c, "open") \/ UNCHANGED socket
  /\ UNCHANGED <<RoomVars, group, broadcasts, taken, shown, signals>>

\* One script puts the event into all inboxes; a full one misses it.
Deliver(c) ==
  /\ At(c, "sending") /\ Put(c)
  /\ Goto(c, "open")
  /\ UNCHANGED <<RoomVars, group, broadcasts, taken, shown, signals>>

\* The next event is taken from Redis while the consumer is still at another.
Fetch(c) ==
  /\ At(c, "joined") \/ Connected(c)
  /\ taken[c] = None
  /\ \E n \in inbox[c] :
       /\ \A m \in inbox[c] : n <= m
       /\ taken' = [taken EXCEPT ![c] = n]
       /\ inbox' = [inbox EXCEPT ![c] = @ \ {n}]
  /\ UNCHANGED <<RoomVars, socket, group, broadcasts, shown, owed, signals>>

-----------------------------------------------------------------------------
(* receive *)

\* The room was checked when the client connected and is not asked again.
SaveMessage(c) ==
  /\ At(c, "open") /\ "chat_message" \in FramesOf[c] /\ Len(messages) < MaxMessages
  /\ messages' =
       Append(messages, [sender |-> UserOf[c], by |-> c, is_read |-> FALSE])
  /\ socket' =
       [socket EXCEPT ![c] = [Idle("saved") EXCEPT !.number = Len(messages) + 1]]
  /\ UNCHANGED <<accepted, room, LayerVars>>

\* Mutant of BroadcastMessage: the sender's client is served at once.
EchoOwn(c) ==
  /\ At(c, "saved")
  /\ Announce(c, [type |-> "chat_message", id |-> socket[c].number], group \ {c})
  /\ shown' = [shown EXCEPT ![c] = Append(@, Len(broadcasts) + 1)]
  /\ UNCHANGED <<RoomVars, group, inbox, taken, owed, signals>>

BroadcastMessage(c) ==
  /\ At(c, "saved")
  /\ GroupSend(c, [type |-> "chat_message", id |-> socket[c].number])
  /\ UNCHANGED <<RoomVars, group, inbox, taken, shown, owed, signals>>

Signal(c, type) ==
  type \in FramesOf[c] /\ signals < MaxSignals /\ signals' = signals + 1

\* Mutant of MarkMessagesRead: without exclude(sender=self.user).
MarkAllRead(c) ==
  /\ At(c, "open") /\ Signal(c, "read_receipt")
  /\ messages' = [i \in DOMAIN messages |-> [messages[i] EXCEPT !.is_read = TRUE]]
  /\ Goto(c, "marked")
  /\ UNCHANGED <<accepted, room, group, QueueVars>>

MarkMessagesRead(c) ==
  /\ At(c, "open") /\ Signal(c, "read_receipt")
  /\ messages' = [i \in DOMAIN messages |->
       [messages[i] EXCEPT !.is_read = @ \/ messages[i].sender # UserOf[c]]]
  /\ Goto(c, "marked")
  /\ UNCHANGED <<accepted, room, group, QueueVars>>

BroadcastReceipt(c) ==
  /\ At(c, "marked")
  /\ GroupSend(c, [type |-> "read_receipt"])
  /\ UNCHANGED <<RoomVars, group, inbox, taken, shown, owed, signals>>

HandleTyping(c) ==
  /\ At(c, "open") /\ Signal(c, "typing")
  /\ GroupSend(c, [type |-> "typing_indicator", user |-> UserOf[c]])
  /\ UNCHANGED <<RoomVars, group, inbox, taken, shown, owed>>

-----------------------------------------------------------------------------
(* Events of the group *)

ShowMessage(c, n) ==
  IF IsMessage(n) THEN shown' = [shown EXCEPT ![c] = Append(@, n)]
  ELSE UNCHANGED shown

\* Mutant of HandleEvent: one's own typing indicator is not let go.
HandleOthers(c) ==
  /\ At(c, "open") /\ taken[c] # None
  /\ broadcasts[taken[c]].event # [type |-> "typing_indicator", user |-> UserOf[c]]
  /\ taken' = [taken EXCEPT ![c] = None]
  /\ ShowMessage(c, taken[c])
  /\ UNCHANGED <<RoomVars, socket, group, broadcasts, inbox, owed, signals>>

HandleEvent(c) ==
  /\ At(c, "open") /\ taken[c] # None
  /\ taken' = [taken EXCEPT ![c] = None]
  /\ ShowMessage(c, taken[c])
  /\ UNCHANGED <<RoomVars, socket, group, broadcasts, inbox, owed, signals>>

-----------------------------------------------------------------------------

\* What a consumer does without being asked again.
Proceed(c) ==
  Join(c) \/ Accept(c) \/ BroadcastMessage(c) \/ BroadcastReceipt(c) \/
  Deliver(c) \/ Fetch(c) \/ HandleEvent(c)

Receive(c) == SaveMessage(c) \/ MarkMessagesRead(c) \/ HandleTyping(c)

ChatNext ==
  \/ AcceptJob \/ SaveAcceptedJob
  \/ \E state \in {"active", "inactive"} : SetActive(state)
  \/ \E u \in Participants : SendMessage(u)
  \/ \E c \in Sockets :
       Connect(c) \/ Receive(c) \/ Proceed(c) \/ Disconnect(c) \/ Crash(c)

ChatSpec == ChatInit /\ [][ChatNext]_chatVars

\* The event loop runs every consumer that has something to do.
FairChatSpec == ChatSpec /\ \A c \in Sockets : WF_chatVars(Proceed(c))

-----------------------------------------------------------------------------

Shown(c) == {shown[c][i] : i \in DOMAIN shown[c]}
Waiting(c) == inbox[c] \cup ({taken[c]} \ {None})

(***************************************************************************)
(* A client that was accepted misses no message: its channel had joined    *)
(* the group before group_send read the members, and what its inbox had    *)
(* room for is shown or waits.  What finds the inbox full is lost; the     *)
(* property does not ask for it.                                           *)
(***************************************************************************)
AcceptedMissNothing ==
  \A c \in Sockets : Connected(c) => owed[c] \subseteq Shown(c) \cup Waiting(c)

Overlapped(m, n) == m \in broadcasts[n].beside \/ n \in broadcasts[m].beside

(***************************************************************************)
(* Two clients are shown two messages in different orders only if one of   *)
(* the two calls of group_send began while the other was under way: its    *)
(* event had its place by the clock and was in no inbox yet, so that a     *)
(* fast consumer took the later one first.  A message whose broadcast had  *)
(* ended comes first everywhere.                                           *)
(***************************************************************************)
DisagreeOnlyOverlapped ==
  \A c, d \in Sockets : \A i, j \in DOMAIN shown[c], k, l \in DOMAIN shown[d] :
    (i < j /\ k < l /\ shown[c][i] = shown[d][l] /\ shown[c][j] = shown[d][k]) =>
      Overlapped(shown[c][i], shown[c][j])

Id(n) == broadcasts[n].event.id

(***************************************************************************)
(* The messages of one connection are shown in the order they were stored, *)
(* each of them once.                                                      *)
(***************************************************************************)
SenderOrder ==
  \A c \in Sockets : \A i, j \in DOMAIN shown[c] :
    (i < j /\ messages[Id(shown[c][i])].by = messages[Id(shown[c][j])].by) =>
      Id(shown[c][i]) < Id(shown[c][j])

(***************************************************************************)
(* What a user has not read stays unread until a connection of somebody    *)
(* other than its sender acts: nobody's receipt marks what they sent.      *)
(***************************************************************************)
ReadByAnother ==
  [][\A i \in DOMAIN messages :
       (~messages[i].is_read /\ messages'[i].is_read) =>
         \E c \in Sockets : socket'[c] # socket[c]
                            /\ UserOf[c] # messages[i].sender]_chatVars

Unshown(c) == {n \in Waiting(c) : IsMessage(n)}

(***************************************************************************)
(* The messages waiting for a connected client are shown, unless it goes:  *)
(* no event of the group blocks those behind it, and no broadcast that is  *)
(* under way holds up its consumer for ever.                               *)
(***************************************************************************)
QueuedAreShown ==
  \A c \in Sockets :
    (Connected(c) /\ Unshown(c) # {}) ~> (Unshown(c) = {} \/ ~Connected(c))
=============================================================================
