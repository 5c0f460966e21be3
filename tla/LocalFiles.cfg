SPECIFICATION Spec
CONSTANTS
  Ops = {o1, o2}
  MaxFiles = 2
  MaxChunks = 2
INVARIANTS CountsUnanswered AnsweredAfterAllWrites StopCutsOnlyAbandoned
PROPERTY AnsweredUnlessNoPaths
CHECK_DEADLOCK FALSE
