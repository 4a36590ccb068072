\* changeIsa while extra_rc is 0 and the side table has counts.
SPECIFICATION Spec
CONSTANTS
  t1 = t1
  t2 = t2
  Threads = {t1, t2}
  NoThread = NoThread
  RC_HALF = 2
  SIDE_PINNED = 8
  MaxRefs = 5
  Ops <- StrongOps
INVARIANTS
  NeverPinned
SYMMETRY Symmetry
CHECK_DEADLOCK FALSE
