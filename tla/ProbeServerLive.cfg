SPECIFICATION FairSpec
CONSTANTS
  c1 = c1
  c2 = c2
  a1 = a1
  Conns = {c1, c2}
  Reqs = {r1}
  Addrs = {a1}
  AddrOf <- PairAddrOf
  Kinds = {"probe", "capture", "clienthello"}
  EnableH2 = TRUE
  HasCaptureDir = TRUE
  DiskMayFail = FALSE
  maxLogs = 1
  MaxFlight = 2
  None = None
PROPERTIES
  HelloReachesDisk
  RequestsFinish
  FlightOutlivesClient
