SPECIFICATION FairSpec
INVARIANTS TypeOK NoMissedSignal EarlyInfoUsed ConnectedAfterHandshake ResultTellsWhy SendersStopFirst
PROPERTIES ReturnsWhenToldTo ConnectingEnds
CHECK_DEADLOCK FALSE
