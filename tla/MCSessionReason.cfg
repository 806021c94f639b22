SPECIFICATION Spec
CONSTANTS
  MaxMsgs = 1
  Quiet = TRUE
PROPERTY StoppedStays
CHECK_DEADLOCK FALSE
