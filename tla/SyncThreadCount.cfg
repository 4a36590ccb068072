\* A thread exits an object it has not entered.
SPECIFICATION Spec
CONSTANTS
  t1 = t1
  t2 = t2
  t3 = t3
  NoThread = NoThread
  Threads = {t1, t2}
  Objects = {1, 2, 3}
  MaxNesting = 2
  MaxHeld = 3
  MayMisuse = TRUE
  MaxThreadCount = 2
SYMMETRY Symmetry
INVARIANT ThreadCountExact
