\* One request at a time, with the limit and the times of the code.
SPECIFICATION FairOtpSpec
CONSTANTS
  t1 = t1
  t2 = t2
  Threads <- OneThread
  RateLimitCount = 3
  Window = 2
  CodeLife = 1
  MaxMessages = 4
INVARIANTS
  CounterCounts
  LimitHolds
  DeletedAreRevoked
PROPERTY LimitLifts
