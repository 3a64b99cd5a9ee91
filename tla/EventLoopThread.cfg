CONSTANT Workers = {w1, w2}
SPECIFICATION Spec
INVARIANTS IndInv HandsOutLiveLoops LeavesNoOrphan
PROPERTIES StartReturns JoinReturns
CHECK_DEADLOCK FALSE
