SPECIFICATION Spec
CONSTANTS
  Key = {k1, k2}
  Entry = {e1, e2}
  Buffer = {b1, b2, b3}
  FirstCapacity = 1
  NULL = NULL
  MaxInserts = 4
INVARIANTS
  TypeOK
  NoUseAfterFree
  NoLeak
PROPERTY ImplementsStore
CHECK_DEADLOCK FALSE
