CONSTANT IOFaults = TRUE
SPECIFICATION FairSpec
INVARIANTS TypeOK NoSplitDecision
PROPERTIES BarrierEnds ImplementsGate
CHECK_DEADLOCK FALSE
