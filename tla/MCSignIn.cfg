\* Two requests at a time.
SPECIFICATION SignInSpec
CONSTANTS
  t1 = t1
  t2 = t2
  Threads <- TwoThreads
  RateLimitCount = 2
  Window = 1
  CodeLife = 0
  MaxMessages = 1
  MaxTokens = 3
INVARIANTS
  VerifiedOnRecord
  WalletUnlessFailed
  NewUserOnce
  SessionHasOneToken
SYMMETRY Symmetry
