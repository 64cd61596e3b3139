\* One connection of each party to the room of one job.
SPECIFICATION FairChatSpec
CONSTANTS
  Sockets = {"desk", "phone"}
  UserOf <- TwoUsers
  LoginOf <- BySession
  FramesOf <- Frames
  ReceiverAlive = TRUE
  LayerConfigured = TRUE
  QueueLimit = 2
  MaxMessages = 3
  MaxSignals = 1
INVARIANTS
  AcceptedMissNothing
  DisagreeOnlyOverlapped
  SenderOrder
PROPERTIES
  ReadByAnother
  QueuedAreShown
