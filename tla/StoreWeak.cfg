\* Two threads, two objects and their classes, two variables; four calls in all.
SPECIFICATION FairSpec
CONSTANTS
  t1 = t1 t2 = t2
  a = a b = b
  l1 = l1 l2 = l2
  C = C D = D
  Threads = {t1, t2}
  Objects = {a, b}
  Locations = {l1, l2}
  Classes = {C, D}
  nil = nil
  Dead = Dead
  NoThread = NoThread
  SideTables <- Tables3
  ClassOf <- Isa
  MaxCalls = 4
  MaxDepth = 2
INVARIANTS
  PairsExact
  NoInitializeUnderLock
PROPERTIES
  ImplementsWeakReferences
  StoresReturn
CHECK_DEADLOCK FALSE
