\* Two requests at a time and the limit of one counter window.
SPECIFICATION OtpSpec
CONSTANTS
  t1 = t1
  t2 = t2
  Threads <- TwoThreads
  RateLimitCount = 2
  Window = 2
  CodeLife = 1
  MaxMessages = 3
INVARIANT LimitHolds
SYMMETRY Symmetry
