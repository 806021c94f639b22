CONSTANTS
  SeqMod = 32
  PromotedAdd = TRUE
  QueueSize = 4
  DropStrategy = "begin"
  NoUser = NoUser
  StartSeq = 29
  FrameUnits = 3
  Timeout = 1
  MaxPackets = 7
  Span = 3
SPECIFICATION Spec
INVARIANT RejectsOnlyOldOrDuplicate
CHECK_DEADLOCK FALSE
