SPECIFICATION FairSpec
CONSTANTS
  Conns = {"firefox"}
  ControlFrames <- MCControlFrames
  RequestText <- MCRequestText
  Hold = TRUE
  MaxFailures = 1
CHECK_DEADLOCK FALSE
INVARIANTS
  TypeOK
  ControlFileIsWhole
PROPERTIES
  LateUpdateIsKept
  RequestIsAnswered
