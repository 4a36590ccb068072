\* Sync: three objects; locks nested three deep, and exits of objects a thread has not
\* entered. That no thread waits for ever for one is checked as deadlock.
SPECIFICATION PartSpec
CONSTANTS
  NoThread = NoThread
  Threads = {t1, t2}
  Objects = {1, 2, 3}
  MaxNesting = 2
  MaxHeld = 3
  MayMisuse = TRUE
  MaxThreadCount = 1
  Keys = {kx, ky}
  Values = {o1, o2}
  SystemKeys = {ky}
  MaxPool = 1
  nil = nil Dead = Dead
  w1 = w1 w2 = w2 w3 = w3 l1 = l1 l2 = l2 l3 = l3
  im1 = im1 im2 = im2 im3 = im3
  A = A B = B C = C D = D E = E
  K1 = K1 K2 = K2 K3 = K3
  UnmapsPending = FALSE
  Parts = {"sync", "weak", "load", "associated"}
SYMMETRY Symmetry
INVARIANTS
  MutualExclusion
  BlocksSound
  TableSound
  EachInTurn
  OnlyMapped
  ReferencesExact
  AssociationsEndWithObject
PROPERTIES
  ImplementsWeakReferences
