SPECIFICATION Spec
CONSTANTS
  Procs = {p1, p2}
  Dirs = {d1, d2}
  Durable = durable
  Roots = {r1, r2}
  MaxStarts = 3
  MaxKills = 1
  WritesFail = TRUE
  None = None
  Empty = Empty
SYMMETRY Symmetry
CHECK_DEADLOCK FALSE
INVARIANTS
  TypeOK
  ServesMatchingPair
  OneRootWhenCalm
  OneKillKeepsRoot
