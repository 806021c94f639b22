SPECIFICATION FairSpec
CONSTANTS
  MaxMsgs = 1
  Quiet = TRUE
INVARIANTS TypeOK NoMissedSignal NoMissedNotification ReasonTellsWhy
PROPERTIES StopEnds PinIsSent
CHECK_DEADLOCK FALSE
