\* Two employers, two workers, three jobs and two payment requests.
SPECIFICATION Spec
CONSTANTS
  e1 = e1
  e2 = e2
  w1 = w1
  w2 = w2
  j1 = j1
  j2 = j2
  j3 = j3
  r1 = r1
  r2 = r2
  NoUser = NoUser
  Employers <- TwoEmployers
  Workers <- TwoWorkers
  Jobs <- ThreeJobs
  Requests <- TwoRequests
  Prices <- PriceSet
  MinPrice = 100
  Amounts <- AmountSet
  MinDeposit = 100
  MaxDeposit = 205
  PlatformCommissionPercent = 10
INVARIANTS
  TypeOK
  EscrowBacked
  LifetimeTotals
  MoneyConserved
  LedgerChain
  SettledOnce
  CreditedOnce
PROPERTY Lifecycle
SYMMETRY Symmetry
CHECK_DEADLOCK FALSE
