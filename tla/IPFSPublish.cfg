SPECIFICATION Spec
CONSTANTS
  Saves = {s1, s2}
  Files = {a, b}
  Leftover = Leftover
  Nobody = Nobody
  MaxClock = 1
INVARIANTS PublishesWhatItWrote NothingLeftOnDisk
PROPERTIES SaveAnsweredOnce AnsweredUnlessLost
CHECK_DEADLOCK FALSE
