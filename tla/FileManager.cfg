SPECIFICATION Spec
CONSTANTS
  Ops = {o1, o2, o3}
  Contexts = {c1, c2}
  Prefixes = {"file"}
  NoSave = NoSave
  NoRequest = NoRequest
INVARIANTS CountExact FinalCallOnce
PROPERTIES StopStrandsNothing LastOneStops OperationsComplete
CHECK_DEADLOCK FALSE
