SPECIFICATION Spec
CONSTANTS
  Callers = {t1, t2}
  Readers = {r1}
  Bitswaps = {b1, b2}
  Dhts = {d1}
  Null = Null
  Free = Free
INVARIANTS AgreeAtRest ReadsAreCurrent
PROPERTIES CallsAreAtomic OnlyOwnerClears
