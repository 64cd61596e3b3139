\* Two requests at a time, an administrator, one job and three ratings of one party.
SPECIFICATION UserSpec
CONSTANTS
  e1 = e1
  w1 = w1
  j1 = j1
  t1 = t1
  t2 = t2
  Parties <- EmployerAndWorker
  Completed <- OneJob
  EmployerOf <- TheEmployer
  WorkerOf <- TheWorker
  Ratings <- FewRatings
  UuidJobIds = TRUE
  Threads <- TwoThreads
  MaxRatings = 3
INVARIANTS
  UserTypeOK
  RatingWithinGiven
  RatingsCounted
  DriftBounded
PROPERTY RatingsTouchNothingElse
CONSTRAINT OneRowWritten
SYMMETRY Symmetry
