\* One job, one Celery worker, one retry of a task (the code: two) and one crash.
SPECIFICATION FairTasksSpec
CONSTANTS
  Jobs = {j1}
  Workers = {w1}
  Importable = TRUE
  MaxRetries = 1
  MaxPublished = 3
  MaxCrashes = 1
INVARIANTS
  WrongOnlyBeforeCommit
  DuplicatesExplained
PROPERTY TasksEnd
CHECK_DEADLOCK FALSE
