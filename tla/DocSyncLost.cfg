CONSTANTS
  la = la
  lb = lb
  None = None
  Person = Person
  NRows = 2
  Links = {la, lb}
  Videos = {1, 2, 3, 4}
  Budgets <- OneSpell
SPECIFICATION FairSpec
PROPERTIES NothingIsLost
CHECK_DEADLOCK FALSE
