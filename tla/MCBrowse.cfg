\* Two readers and two editors of the categories; one walk over four jobs.
SPECIFICATION Spec
CONSTANTS
  r1 = r1
  r2 = r2
  e1 = e1
  e2 = e2
  Readers <- TwoReaders
  Editors <- TwoEditors
  CacheLife = 1
  MaxEdits = 3
  Jobs <- FourJobs
  Price <- Prices
  Distance <- Distances
  Filters <- SomeFilters
  PageSize = 2
INVARIANTS
  StaleOnlyOverlapped
  PagesMissOnlyExplained
PROPERTY
  EditShows
