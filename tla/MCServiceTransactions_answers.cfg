\* Every call is answered: two transactions, two jobs, one worker.
SPECIFICATION FairUnderWaySpec
CONSTANTS
  e1 = e1
  w1 = w1
  w2 = w2
  j1 = j1
  j2 = j2
  r1 = r1
  t1 = t1
  t2 = t2
  NoUser = NoUser
  Employers <- OneEmployer
  Workers <- OneWorker
  Jobs <- TwoJobs
  Requests <- OneRequest
  Threads <- TwoThreads
  OuterJoinLockable = TRUE
  Prices <- PriceSet
  MinPrice = 100
  Amounts <- AmountSet
  MinDeposit = 100
  MaxDeposit = 205
  PlatformCommissionPercent = 10
PROPERTY EveryCallAnswered
