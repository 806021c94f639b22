SPECIFICATION Spec
INVARIANT CongestionWhileRunning
CHECK_DEADLOCK FALSE
