SPECIFICATION Spec
CONSTANTS
  c1 = c1
  c2 = c2
  a1 = a1
  Conns = {c1, c2}
  Reqs = {r1, r2}
  Addrs = {a1}
  AddrOf <- PairAddrOf
  Kinds = {"probe"}
  EnableH2 = TRUE
  HasCaptureDir = TRUE
  DiskMayFail = FALSE
  maxLogs = 1
  MaxFlight = 2
  None = None
INVARIANTS
  NewestFlightIsLongest
