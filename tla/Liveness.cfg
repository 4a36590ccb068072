\* RefCount: overflow, borrow, weak stores and weak loads.
SPECIFICATION PartSpec
CONSTANTS
  t1 = t1
  t2 = t2
  Threads = {t1, t2}
  NoThread = NoThread
  RC_HALF = 2
  SIDE_PINNED = 8
  MaxRefs = 4
  NoClass = NoClass OBObject = OBObject OFObject = OFObject
  OWAddressEntry = OWAddressEntry OWController = OWController
  Classes = {OBObject, OFObject, OWAddressEntry, OWController}
  superclass <- Hierarchy
  Messages <- MessagesBelow
INVARIANTS
  HierarchySound
PROPERTIES
  CallsEndAndObjectsGo
  InitializeOnceSuperFirst
  ProceedsWhenSafe
  MessagesReturn
\* clients may give up all references; a hierarchy may be initialized
CHECK_DEADLOCK FALSE
