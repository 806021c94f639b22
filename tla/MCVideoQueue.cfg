CONSTANTS
  SeqMod = 32
  PromotedAdd = TRUE
  QueueSize = 4
  DropStrategy = "begin"
  NoUser = NoUser
  StartSeq = 29
  FrameUnits = 3
  Timeout = 1
  MaxPackets = 7
  Span = 4
SPECIFICATION FairSpec
INVARIANTS TypeOK WindowFits WaitsIffBuffered OnlyGapsAreBuffered NoLeak SlotsHoldTheirOwn
PROPERTIES ImplementsStream GapOnlyAfterWait EveryPacketLeaves
CHECK_DEADLOCK FALSE
