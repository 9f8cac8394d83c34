SPECIFICATION Spec
CONSTANTS
  ClientDir = "read"
  MaxItems = 6
  MaxAnswer = 1
  MaxUnread = 2
CHECK_DEADLOCK FALSE
INVARIANTS
  TypeOK
  FlightIsClients
  FlightIsComplete
  OneHeaderBlock
PROPERTIES
  FlightOnlyGrows
