----------------------------- MODULE MCChatRoom -----------------------------
(* One connection of each party.  They log in by session. *)
EXTENDS ChatRoom

TwoUsers == [c \in Sockets |-> IF c = "phone" THEN "worker" ELSE "employer"]
Frames == [c \in Sockets |->
  {"chat_message", IF c = "phone" THEN "typing" ELSE "read_receipt"}]
BySession == [c \in Sockets |-> "session"]
=============================================================================
