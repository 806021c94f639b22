CONSTANTS
  SeqMod = 12
  PromotedAdd = FALSE
  QueueSize = 3
  DropStrategy = "end"
  NoUser = NoUser
  Tag = 7
  BangAt = 1
  MaxTries = 2
  PostponeSize = 1
  MaxData = 4
  MaxAV = 2
SPECIFICATION FairSpec
INVARIANTS DataTypeOK AVInArrivalOrder
PROPERTIES CheckedAfterBang ImplementsChannel ConnectionProgresses
CHECK_DEADLOCK FALSE
