SPECIFICATION LibrarySpec
CONSTANTS
  MaxFiles = 2
  MaxSize = 1
  Threads = {t1, t2}
INVARIANTS AnsweredAfterAllUploads CleanedUpOnceOpen LibraryAccounted
PROPERTIES SaveAnsweredOnce SavesComplete
CHECK_DEADLOCK FALSE
