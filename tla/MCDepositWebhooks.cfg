\* Two requests of any provider and two webhook calls at a time.
SPECIFICATION WebhooksSpec
CONSTANTS
  e1 = e1
  w1 = w1
  r1 = r1
  r2 = r2
  c1 = c1
  c2 = c2
  NoUser = NoUser
  Employers <- OneEmployer
  Workers <- OneWorker
  Jobs = {}
  Requests <- TwoRequests
  Prices = {}
  MinPrice = 100
  Amounts = {100}
  MinDeposit = 100
  MaxDeposit = 200
  PlatformCommissionPercent = 10
  Readable = {"payme"}
  Hooks <- TwoHooks
INVARIANT ToldTheTruth
PROPERTIES
  ImplementsPayment
  SettledUnlessLost
CHECK_DEADLOCK FALSE
