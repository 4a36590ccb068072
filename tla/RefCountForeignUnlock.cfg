\* A weak load that overflows and then finds the object deallocating.
SPECIFICATION Spec
CONSTANTS
  t1 = t1
  t2 = t2
  Threads = {t1, t2}
  NoThread = NoThread
  RC_HALF = 2
  SIDE_PINNED = 8
  MaxRefs = 5
  Ops <- WeakOps
INVARIANTS
  NoForeignUnlock
SYMMETRY Symmetry
CHECK_DEADLOCK FALSE
