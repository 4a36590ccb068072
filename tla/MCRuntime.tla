----------------------------- MODULE MCRuntime ------------------------------
(***************************************************************************)
(* Three parts of libobjc that share no state: reference counts,           *)
(* autorelease pools and method caches. Every behaviour is one of a single *)
(* part: part says of which, and the others stay as they were at the start.*)
(***************************************************************************)
EXTENDS MCRefCount, MethodCache

CONSTANTS
  o1, o2, POOL_BOUNDARY,                                   \* AutoreleasePool
  Root, Sub, i1, i2, i3                                    \* MethodCache

VARIABLES
  part,
  env, pages, hot, placeholder, tokens, calls, exited, owed   \* AutoreleasePool

poolVars == <<env, pages, hot, placeholder, tokens, calls, exited, owed>>

\* pages of three entries, pools in pools in -deallocs
Pool == INSTANCE AutoreleasePool WITH
  Objects <- {o1, o2}, COUNT <- 3, maxCount <- 1, Window <- 2,
  MaxPools <- 3, MaxContents <- 5, MaxDepth <- 2

ASSUME Pool!PoolAssumption

\* a class, with a method for selector 4, and its subclass, whose resolver adds one for 1;
\* 8 is only ever forwarded, and collides with 4 in caches of two buckets and of four
SuperclassOf == Root :> nil @@ Sub :> Root
Methods == Root :> [s \in Selectors |-> IF s = 4 THEN i1 ELSE none]
             @@ Sub :> [s \in Selectors |-> none]
ResolverAdds == Root :> [s \in Selectors |-> none]
                  @@ Sub :> [s \in Selectors |-> IF s = 1 THEN i3 ELSE none]
LookedUp == {<<Root, 1>>, <<Sub, 1>>, <<Sub, 4>>, <<Sub, 8>>}
Changed == {<<Root, 4, i2>>, <<Root, 8, i2>>}

PartInit ==
  /\ part \in {"refcount", "pool", "caches"}
  /\ Init /\ Pool!Init /\ CacheInit
  /\ part = "refcount" \/ isa.nonpointer
  /\ part = "pool" \/ \A option \in DOMAIN env : ~env[option]
  /\ part = "caches" \/ restartable

PartNext ==
  /\ UNCHANGED part
  /\ \/ part = "refcount" /\ UNCHANGED <<poolVars, cacheVars>> /\ Next
     \/ part = "pool" /\ Pool!Next /\ UNCHANGED <<vars, cacheVars>>
     \/ part = "caches" /\ UNCHANGED <<vars, poolVars>> /\ CacheNext

PartSymmetry == Symmetry \cup Permutations({o1, o2})

PartSpec == PartInit /\ [][PartNext]_<<part, vars, poolVars, cacheVars>>

-----------------------------------------------------------------------------
\* Autorelease pools: the pages, and the tokens that point into them (see
\* AutoreleasePool).
PagesSound == part = "pool" => Pool!PagesSound
\* Autorelease pools: the pages are a stack of bags of objects (see AutoreleasePool).
ImplementsPoolStack ==
  Pool!Stack!Init /\ [][part = "pool" => Pool!Stack!Next]_(Pool!Stack!vars)
=============================================================================
