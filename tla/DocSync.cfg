CONSTANTS
  la = la
  lb = lb
  None = None
  Person = Person
  NRows = 2
  Links = {la, lb}
  Videos = {1, 2, 3, 4}
  Budgets <- SyncBudgets
SPECIFICATION FairSpec
INVARIANTS TypeOK NothingTwice
PROPERTIES WritesRespectRow ResultsArrive
CHECK_DEADLOCK FALSE
