SPECIFICATION FairSpec
CONSTANTS
  MaxMsgs = 0
  Quiet = FALSE
PROPERTY PinPassesLock
CHECK_DEADLOCK FALSE
