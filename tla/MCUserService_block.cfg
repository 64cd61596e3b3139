\* One request at a time and an administrator.
SPECIFICATION UserSpec
CONSTANTS
  e1 = e1
  w1 = w1
  j1 = j1
  t1 = t1
  t2 = t2
  Parties <- EmployerAndWorker
  Completed <- OneJob
  EmployerOf <- TheEmployer
  WorkerOf <- TheWorker
  Ratings <- FewRatings
  UuidJobIds = TRUE
  Threads <- OneThread
  MaxRatings = 2
PROPERTY BlockSticks
