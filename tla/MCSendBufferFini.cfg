CONSTANTS
  SeqMod = 16
  PromotedAdd = FALSE
  Senders = {s1, s2}
  BufferSize = 2
  TriesMax = 1
  ResendTimeout = 1
  StartSeq = 14
  MaxPackets = 3
  MaxLag = 1
SPECIFICATION FairSpec
PROPERTY FiniReturns
CHECK_DEADLOCK FALSE
