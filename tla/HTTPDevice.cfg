SPECIFICATION HttpSpec
CONSTANT MaxEndpoints = 3
INVARIANTS OnlyCurrentDeadlineArmed
PROPERTIES AnsweredOnce AnsweredUnlessUnguarded
CHECK_DEADLOCK FALSE
