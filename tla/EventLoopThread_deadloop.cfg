CONSTANT Workers = {w1}
SPECIFICATION SafeSpec
INVARIANT QuitUsesLiveLoop
CHECK_DEADLOCK FALSE
