SPECIFICATION FairSpec
CONSTANTS
  x = x
  y = y
  x1 = x1
  x2 = x2
  y1 = y1
  y2 = y2
  y3 = y3
  yAck = yAck
  Initials <- MCInitials
  Dcid <- MCDcid
  Key <- MCKey
  First <- MCFirst
  Final <- MCFinal
  Ext <- MCExt
  Undecryptable = {yAck}
  DiskMayFail = TRUE
CHECK_DEADLOCK FALSE
INVARIANTS
  TypeOK
  FlightsAreSound
  FlightsAreMinimal
PROPERTIES
  HelloIsCaptured
