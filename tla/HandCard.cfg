CONSTANTS
  p1 = p1  p2 = p2  c1 = c1  c2 = c2  l1 = l1  l2 = l2  m1 = m1  b1 = b1  r1 = r1  r2 = r2
  pidX = pidX  pidY = pidY  d1 = d1  d2 = d2  d3 = d3  n1 = n1  n2 = n2
  None = None
  Processes = {p1, p2}
  Clicks = {c1, c2}
  Lookups = {l1, l2}
  Moves = {m1}
  Repairs = {b1}
  Rows = {r1, r2}
  Pids = {pidX, pidY}
  Documents = {d1, d2, d3}
  Notes = {n1, n2}
  Budgets <- CardBudgets
SPECIFICATION FairSpec
INVARIANTS TypeOK LinkBeforeStatus CopiesAccountedFor MigrationIsEarned
PROPERTIES ActsForRow NotesAreKept AllReturn
CHECK_DEADLOCK FALSE
