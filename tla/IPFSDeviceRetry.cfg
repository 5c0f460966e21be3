SPECIFICATION Spec
CONSTANTS
  Loads = {l1, l2}
  Contexts = {c1}
  NoContext = NoContext
INVARIANT CompletionAlwaysDelivered
CHECK_DEADLOCK FALSE
