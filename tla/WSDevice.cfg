SPECIFICATION WsSpec
CONSTANT Loads = {l1, l2, l3}
INVARIANTS TwiceOnlyUnresolved StrandedOnlyByUnresolved
PROPERTY AnsweredUnlessWriteFailed
CHECK_DEADLOCK FALSE
