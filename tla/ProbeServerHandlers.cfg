SPECIFICATION Spec
CONSTANTS
  c1 = c1
  c2 = c2
  a1 = a1
  Conns = {c1, c2}
  Reqs = {r1, r2}
  Addrs = {a1}
  AddrOf <- PairAddrOf
  Kinds = {"capture", "clienthello"}
  EnableH2 = TRUE
  HasCaptureDir = TRUE
  DiskMayFail = TRUE
  maxLogs = 1
  MaxFlight = 1
  None = None
SYMMETRY Symmetry
INVARIANTS
  NoOlderHello
  TakenOnce
  CaptureComplete
