SPECIFICATION Spec
CONSTANTS
  Loads = {l1, l2}
  Contexts = {c1, c2}
  NoContext = NoContext
INVARIANTS OneCompletion LostOnlyToRival 
 
CHECK_DEADLOCK FALSE
