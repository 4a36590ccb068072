\* RefCount: two threads, every operation; five references overflow extra_rc once.
SPECIFICATION PartSpec
CONSTANTS
  t1 = t1
  t2 = t2
  Threads = {t1, t2}
  NoThread = NoThread
  RC_HALF = 2
  SIDE_PINNED = 8
  MaxRefs = 5
  Ops <- AllOps
  o1 = o1 o2 = o2 POOL_BOUNDARY = POOL_BOUNDARY
  nil = nil Root = Root Sub = Sub i1 = i1 i2 = i2 i3 = i3
  none = none forward_imp = forward_imp
  Classes = {Root, Sub} Superclass <- SuperclassOf Selectors = {1, 4, 8}
  Implementations = {i1, i2, i3} InitialMethods <- Methods Resolves <- ResolverAdds
  Lookups <- LookedUp Programs <- Changed Arrays = {1, 2, 3, 4, 5, 6} emptyBuckets = 0
  INIT_CACHE_SIZE = 2 FULL_UTILIZATION_CACHE_SIZE = 2 MAX_CACHE_SIZE = 4
  garbage_threshold = 3 MaxLookups = 3 MaxChanges = 1
SYMMETRY PartSymmetry
INVARIANTS
  TypeOK
  CountsConserved
  FreedClean
  PagesSound
  NoStaleImplementation
  MemorySound
  ForwardedOnlyUnresolved
PROPERTIES
  ImplementsPoolStack
  ImplementsLifetime
\* clients may give up all references, lookups are bounded, a thread ends
CHECK_DEADLOCK FALSE
