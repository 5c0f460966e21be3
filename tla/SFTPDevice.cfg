SPECIFICATION Spec
CONSTANTS
  MaxUrl = 6
  MaxSecret = 5
  MaxLoaded = 2
  MaxSize = 3
INVARIANTS ParsersMatchGrammar DeliversWholeFile
PROPERTIES LoadAnsweredOnce AnsweredUnlessThrown
CHECK_DEADLOCK FALSE
