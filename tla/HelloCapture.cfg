SPECIFICATION FairSpec
CONSTANTS
  MaxRecord = 4
  MaxSent = 8
CHECK_DEADLOCK FALSE
INVARIANTS
  TypeOK
  NothingLost
  StoredIsFirstRecord
PROPERTIES
  RefinesReplayedStream
  HelloReachesTLS
