SPECIFICATION Spec
CONSTANTS
  Procs = {p1}
  Dirs = {d1, d2}
  Durable = durable
  Roots = {r1, r2}
  MaxStarts = 3
  MaxKills = 1
  WritesFail = FALSE
  None = None
  Empty = Empty
CHECK_DEADLOCK FALSE
INVARIANTS
  MintsOnlyTheFirstRoot
