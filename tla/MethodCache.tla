---------------------------- MODULE MethodCache ----------------------------
(***************************************************************************)
(* Method caches (objc-cache.mm) and the lookup that fills them            *)
(* (lookUpImpOrForward). cache_getImp reads a class's cache without a lock,*)
(* one machine word for buckets and mask and one bucket at a time, while   *)
(* threads that hold runtimeLock insert, replace the buckets of a full     *)
(* cache, empty the caches that a change of method makes wrong, and free   *)
(* the buckets that have been replaced once no reader can be in them.      *)
(* The configuration is arm64 LP64 (buckets and mask in one word, no end   *)
(* marker, probes going down); classes are realized and initialized, and   *)
(* there are no preoptimized caches. objc_msgSend is not in the tree: the  *)
(* calls are lookUpImpOrForwardTryCache's, which reads caches the same way.*)
(***************************************************************************)
EXTENDS Integers, FiniteSets, FiniteSetsExt, Process

CONSTANTS
  Classes, Superclass, nil,   \* Superclass[c], nil for a root class
  Selectors,                  \* numbers: cache_hash is taken of them
  Implementations, none, forward_imp,
  InitialMethods,             \* [class -> [selector -> implementation or none]]
  Resolves,                   \* what +resolveInstanceMethod: of a class adds
  Lookups, Programs,          \* what programs look up, what they add or replace
  Arrays, emptyBuckets,       \* addresses of buckets malloc gives; the shared one
  INIT_CACHE_SIZE, FULL_UTILIZATION_CACHE_SIZE, MAX_CACHE_SIZE,
  garbage_threshold,          \* in buckets
  MaxLookups, MaxChanges      \* bounds: lookups begun, methods changed by programs

\* An address of buckets, when there is one; markers are none of what they stand for;
\* no class is above itself.
ASSUME MethodCacheAssumption ==
  /\ NoThread \notin Threads
  /\ nil \notin Classes /\ Superclass \in [Classes -> Classes \cup {nil}]
  /\ \A A \in SUBSET Classes : A # {} => \E c \in A : Superclass[c] \notin A
  /\ Selectors \subseteq Nat /\ none \notin Selectors
  /\ none \notin Implementations /\ forward_imp \notin Implementations
  /\ none # forward_imp
  /\ InitialMethods \in [Classes -> [Selectors -> Implementations \cup {none}]]
  /\ Resolves \in [Classes -> [Selectors -> Implementations \cup {none}]]
  /\ Lookups \subseteq Classes \X Selectors
  /\ Programs \subseteq Classes \X Selectors \X Implementations
  /\ emptyBuckets \notin Arrays
  /\ INIT_CACHE_SIZE \in Nat \ {0} /\ FULL_UTILIZATION_CACHE_SIZE \in Nat
  /\ MAX_CACHE_SIZE \in Nat \ {0}
  /\ MaxLookups \in Nat /\ MaxChanges \in Nat

VARIABLES
  methods,      \* the methods of each class itself
  cache,        \* each class's [buckets, mask, occupied]
  memory,       \* what each array of buckets holds; nothing when not allocated
  garbage,      \* how often each array is in garbage_refs, to be freed
  runtimeLock,  \* the thread that holds it
  call,         \* each thread's call under way
  restartable,  \* shouldUseRestartableRanges
  begun, changes, \* counts towards the bounds
  settled,      \* history: methods as of the last completed change
  possible      \* history: what a lookup may answer, by the changes completed in it

heap == <<cache, memory, garbage>>
rest == <<restartable, begun, changes, settled, possible>>
cacheVars == <<methods, heap, runtimeLock, call, rest>>

NoBucket == [sel |-> none, imp |-> none]

\* A call is at one of: idle; load, probe (in CacheLookup); slow, resolve, fill,
\* insert (in lookUpImpOrForward); flush (in flushCaches); collect, dispose (in
\* collectNolock, for what "then" says); done. "tries" counts the cache lookups
\* that still follow a resolver.
Idle == [at |-> "idle", cls |-> nil, sel |-> none, imp |-> none,
         buckets |-> emptyBuckets, mask |-> 0, i |-> 0, wrapped |-> FALSE,
         resolver |-> FALSE, tries |-> 0,
         flush |-> {}, then |-> "idle"]

At(t, label) == call[t].at = label
GoOn(t, c) == call' = [call EXCEPT ![t] = c]

-----------------------------------------------------------------------------
(* Classes and their methods                                               *)

\* what each class has of its own, or else the nearest class above it that has any
UpFrom(own) ==
  LET Find[c \in Classes] == [s \in Selectors |->
        IF own[c][s] # none THEN own[c][s]
        ELSE IF Superclass[c] = nil THEN forward_imp
        ELSE Find[Superclass[c]][s]]
  IN  Find

\* the implementation that a class's own methods or else its superclass's give
Inherited(table) == UpFrom(table)

\* a class and its subclasses, as foreach_realized_class_and_subclass visits them
Subtree(c) ==
  {d \in Classes : \A A \in SUBSET Classes :
     c \in A /\ (\A e \in Classes : Superclass[e] \in A => e \in A) => d \in A}

-----------------------------------------------------------------------------
(* One cache                                                               *)

capacity(c) == IF cache[c].mask = 0 THEN 0 ELSE cache[c].mask + 1

cache_hash(s, mask) == s % (mask + 1)

cache_fill_ratio(n) == (n * 7) \div 8

\* cache_getImp by the holder of runtimeLock
Cached(c, s) ==
  LET b == memory[cache[c].buckets]
      found == {i \in DOMAIN b : b[i].sel = s}
  IN  IF found = {} THEN none ELSE b[CHOOSE i \in found : TRUE].imp

isConstantEmptyCache(c) == cache[c].occupied = 0 /\ cache[c].buckets = emptyBuckets

Fits(c) ==
  LET n == cache[c].occupied + 1 IN
  \/ n <= cache_fill_ratio(capacity(c))
  \/ capacity(c) <= FULL_UTILIZATION_CACHE_SIZE /\ n <= capacity(c)

Grown(n) ==
  LET m == IF n = 0 THEN INIT_CACHE_SIZE ELSE 2 * n IN
  IF m > MAX_CACHE_SIZE THEN MAX_CACHE_SIZE ELSE m

\* malloc reuses what was freed as soon as it can: the lowest free address
Unallocated == {p \in Arrays : DOMAIN memory[p] = {}}
Lowest == {p \in Unallocated : \A q \in Unallocated : p <= q}

setBucketsAndMask(c, p, mask) ==
  cache' = [cache EXCEPT ![c] = [buckets |-> p, mask |-> mask, occupied |-> 0]]

\* memory that the garbage takes, an array of p's size added
Garbage(p) ==
  MapThenSumSet(LAMBDA q : IF garbage[q] > 0 \/ q = p THEN Cardinality(DOMAIN memory[q]) ELSE 0,
                Arrays)

\* buckets become garbage, which is collected when there is enough of it
collect_free(t, p, k) ==
  /\ garbage' = [garbage EXCEPT ![p] = @ + 1]
  /\ GoOn(t, [k EXCEPT !.at = IF Garbage(p) < garbage_threshold THEN k.then ELSE "collect"])

-----------------------------------------------------------------------------
(* Readers: _lookUpImpTryCache, CacheLookup                                *)

BeginLookup(t, c, s) ==
  /\ At(t, "idle") /\ begun < MaxLookups
  /\ begun' = begun + 1
  /\ GoOn(t, [Idle EXCEPT !.at = "load", !.cls = c, !.sel = s, !.resolver = TRUE])
  /\ possible' = [possible EXCEPT ![t] = {Inherited(settled)[c][s]}]
  /\ UNCHANGED <<methods, heap, runtimeLock, restartable, changes, settled>>

\* buckets and mask come in one word
Load(t) ==
  LET k == call[t]
      word == cache[k.cls]
  IN
  /\ At(t, "load")
  /\ GoOn(t, [k EXCEPT !.at = "probe", !.buckets = word.buckets, !.mask = word.mask,
                       !.i = cache_hash(k.sel, word.mask), !.wrapped = FALSE])
  /\ UNCHANGED <<methods, heap, runtimeLock, rest>>

\* a miss goes to lookUpImpOrForward
Miss(k) == [k EXCEPT !.at = "slow", !.buckets = emptyBuckets, !.mask = 0, !.i = 0,
                     !.wrapped = FALSE]

\* an answer ends the call, or the first of two tries that follow a resolver
Answer(k, imp) ==
  IF k.tries = 2
    THEN [Miss(k) EXCEPT !.at = "load", !.tries = 1, !.imp = none]
    ELSE [Miss(k) EXCEPT !.at = "done", !.tries = 0, !.imp = imp]

\* down to the first bucket, then from the last one down to where it began
Next_Probe(k) ==
  LET first == cache_hash(k.sel, k.mask) IN
  IF ~k.wrapped
    THEN IF k.i > 0 THEN [k EXCEPT !.i = @ - 1]
                    ELSE [k EXCEPT !.i = k.mask, !.wrapped = TRUE]
    ELSE IF k.i > first + 1 THEN [k EXCEPT !.i = @ - 1] ELSE Miss(k)

Probe(t) ==
  LET k == call[t]
      b == memory[k.buckets][k.i]
  IN
  /\ At(t, "probe")
  /\ GoOn(t, IF b.sel = k.sel THEN Answer(k, b.imp)
             ELSE IF b = NoBucket THEN Miss(k)
             ELSE Next_Probe(k))
  /\ UNCHANGED <<methods, heap, runtimeLock, rest>>

Return(t) ==
  /\ At(t, "done")
  /\ GoOn(t, Idle)
  /\ possible' = [possible EXCEPT ![t] = {}]
  /\ UNCHANGED <<methods, heap, runtimeLock, restartable, begun, changes, settled>>

-----------------------------------------------------------------------------
(* lookUpImpOrForward                                                      *)

\* a class's own methods, then its superclass's cache, then its superclass
Search ==
  UpFrom([c \in Classes |-> [s \in Selectors |->
            IF methods[c][s] # none \/ Superclass[c] = nil THEN methods[c][s]
            ELSE Cached(Superclass[c], s)]])

\* a slip: a forward:: entry of the superclass is taken for an answer
AsksResolver_UnlessCached(k, imp) ==
  /\ imp = forward_imp /\ k.resolver
  /\ Superclass[k.cls] = nil \/ Cached(Superclass[k.cls], k.sel) # forward_imp

AsksResolver(k, imp) == imp = forward_imp /\ k.resolver

\* the lock is taken; it is dropped again for the method resolver, once
LookUp(t) ==
  LET k == call[t]
      imp == Search[k.cls][k.sel]
  IN
  /\ At(t, "slow") /\ runtimeLock = NoThread
  /\ IF AsksResolver(k, imp)
       THEN /\ GoOn(t, [k EXCEPT !.at = "resolve", !.resolver = FALSE])
            /\ UNCHANGED runtimeLock
       ELSE /\ GoOn(t, [k EXCEPT !.at = "fill", !.imp = imp])
            /\ runtimeLock' = t
  /\ UNCHANGED <<methods, heap, rest>>

\* cache_t::insert makes room
MakeRoom(t) ==
  LET k == call[t]
      c == k.cls
      n == IF isConstantEmptyCache(c) /\ capacity(c) # 0 THEN capacity(c) ELSE Grown(capacity(c))
  IN
  /\ At(t, "fill")
  /\ IF ~isConstantEmptyCache(c) /\ Fits(c)
       THEN /\ GoOn(t, [k EXCEPT !.at = "insert"])
            /\ UNCHANGED heap
       ELSE \E p \in Lowest :
              /\ memory' = [memory EXCEPT ![p] = [i \in 0 .. n - 1 |-> NoBucket]]
              /\ setBucketsAndMask(c, p, n - 1)
              /\ IF isConstantEmptyCache(c)
                   THEN GoOn(t, [k EXCEPT !.at = "insert"]) /\ UNCHANGED garbage
                   ELSE collect_free(t, cache[c].buckets, [k EXCEPT !.then = "insert"])
  /\ UNCHANGED <<methods, runtimeLock, rest>>

\* the slots of a cache from the hashed one down and round, by distance
Distance(s, mask, i) == (cache_hash(s, mask) + mask + 1 - i) % (mask + 1)

Usable(c, s) == {i \in 0 .. cache[c].mask : memory[cache[c].buckets][i].sel \in {none, s}}

\* then takes the first slot that is free, or has the selector
Insert(t) ==
  LET k == call[t]
      p == cache[k.cls].buckets
      i == CHOOSE i \in Usable(k.cls, k.sel) : \A j \in Usable(k.cls, k.sel) :
             Distance(k.sel, cache[k.cls].mask, i) <= Distance(k.sel, cache[k.cls].mask, j)
  IN
  /\ At(t, "insert") /\ Usable(k.cls, k.sel) # {}   \* or bad_cache
  /\ IF memory[p][i].sel = none
       THEN /\ memory' = [memory EXCEPT ![p][i] = [sel |-> k.sel, imp |-> k.imp]]
            /\ cache' = [cache EXCEPT ![k.cls].occupied = @ + 1]
       ELSE UNCHANGED <<memory, cache>>
  /\ runtimeLock' = NoThread
  /\ GoOn(t, Answer([k EXCEPT !.then = "idle"], k.imp))
  /\ UNCHANGED <<methods, garbage, rest>>

-----------------------------------------------------------------------------
(* Changes of methods: addMethod, _method_setImplementation, flushCaches   *)

\* a slip: a class that gains a method empties its own cache only
ToFlush_OwnCache(c, s) ==
  IF methods[c][s] = none THEN {c}
  ELSE {d \in Subtree(c) : Cached(d, s) = methods[c][s]}

\* a method that is replaced leaves caches that do not hold it alone
ToFlush(c, s) ==
  IF methods[c][s] = none THEN Subtree(c)
  ELSE {d \in Subtree(c) : Cached(d, s) = methods[c][s]}

Change(t, c, s, imp, k) ==
  /\ runtimeLock = NoThread
  /\ runtimeLock' = t
  /\ methods' = [methods EXCEPT ![c][s] = imp]
  /\ GoOn(t, [k EXCEPT !.at = "flush", !.flush = ToFlush(c, s)])

\* class_addMethod of a new method, class_replaceMethod of an old one
ChangeMethod(t, c, s, imp) ==
  /\ At(t, "idle") /\ changes < MaxChanges /\ methods[c][s] # imp
  /\ changes' = changes + 1
  /\ Change(t, c, s, imp, Idle)
  /\ UNCHANGED <<heap, restartable, begun, settled, possible>>

\* +resolveInstanceMethod: adds a method, or has none to add; then two tries
Resolve(t) ==
  LET k == call[t]
      imp == Resolves[k.cls][k.sel]
  IN
  /\ At(t, "resolve")
  /\ IF imp # none /\ methods[k.cls][k.sel] = none
       THEN Change(t, k.cls, k.sel, imp, [k EXCEPT !.tries = 2])
       ELSE /\ GoOn(t, [k EXCEPT !.at = "load", !.tries = 2])
            /\ UNCHANGED <<methods, runtimeLock>>
  /\ UNCHANGED <<heap, rest>>

\* eraseNolock of one cache, superclasses first; it keeps its capacity
Flush(t, c) ==
  LET k == [call[t] EXCEPT !.flush = @ \ {c}] IN
  /\ At(t, "flush") /\ c \in call[t].flush /\ Superclass[c] \notin call[t].flush
  /\ IF cache[c].occupied > 0
       THEN /\ setBucketsAndMask(c, emptyBuckets, cache[c].mask)
            /\ collect_free(t, cache[c].buckets, [k EXCEPT !.then = "flush"])
       ELSE GoOn(t, k) /\ UNCHANGED <<cache, garbage>>
  /\ UNCHANGED <<methods, memory, runtimeLock, rest>>

\* the change is complete; what is being looked up may be found changed
Settle(t) ==
  LET k == call[t] IN
  /\ At(t, "flush") /\ k.flush = {}
  /\ runtimeLock' = NoThread
  /\ settled' = methods
  /\ possible' = [u \in Threads |-> IF possible[u] = {} THEN {}
                    ELSE possible[u] \cup {Inherited(methods)[call[u].cls][call[u].sel]}]
  /\ GoOn(t, IF k.tries = 2 THEN [k EXCEPT !.at = "load", !.then = "idle"] ELSE Idle)
  /\ UNCHANGED <<methods, heap, restartable, begun, changes>>

-----------------------------------------------------------------------------
(* Garbage: collectNolock                                                  *)

\* a slip: the range ends where the lookup wraps round
InCritical_BeforeWrap == {t \in Threads : At(t, "probe") /\ ~call[t].wrapped}

\* threads whose program counter is in a cache lookup
InCritical == {t \in Threads : At(t, "probe")}

\* Readers that restart are sent to their slow path. Without restartable ranges,
\* nothing is freed while one is in a lookup.
Collect(t) ==
  LET k == call[t] IN
  /\ At(t, "collect")
  /\ IF restartable
       THEN call' = [u \in Threads |->
                       IF u = t THEN [k EXCEPT !.at = "dispose"]
                       ELSE IF u \in InCritical THEN Miss(call[u]) ELSE call[u]]
       ELSE GoOn(t, [k EXCEPT !.at = IF InCritical = {} THEN "dispose" ELSE k.then])
  /\ UNCHANGED <<methods, heap, runtimeLock, rest>>

Dispose(t) ==
  LET k == call[t] IN
  /\ At(t, "dispose")
  /\ memory' = [p \in DOMAIN memory |-> IF garbage[p] > 0 THEN << >> ELSE memory[p]]
  /\ garbage' = [p \in DOMAIN garbage |-> 0]
  /\ GoOn(t, [k EXCEPT !.at = k.then])
  /\ UNCHANGED <<methods, cache, runtimeLock, rest>>

-----------------------------------------------------------------------------
(* Behaviours                                                              *)

CacheInit ==
  /\ methods = InitialMethods /\ settled = InitialMethods
  /\ cache = [c \in Classes |-> [buckets |-> emptyBuckets, mask |-> 0, occupied |-> 0]]
  /\ memory = [p \in Arrays \cup {emptyBuckets} |->
                 IF p = emptyBuckets THEN [i \in 0 .. MAX_CACHE_SIZE - 1 |-> NoBucket] ELSE << >>]
  /\ garbage = [p \in Arrays \cup {emptyBuckets} |-> 0]
  /\ runtimeLock = NoThread
  /\ call = [t \in Threads |-> Idle]
  /\ restartable \in BOOLEAN
  /\ begun = 0 /\ changes = 0
  /\ possible = [t \in Threads |-> {}]

Step(t) ==
  \/ Load(t) \/ Probe(t) \/ LookUp(t) \/ Resolve(t) \/ MakeRoom(t) \/ Insert(t)
  \/ \E c \in Classes : Flush(t, c)
  \/ Settle(t) \/ Collect(t) \/ Dispose(t) \/ Return(t)

CacheNext == \E t \in Threads :
  \/ \E m \in Lookups : BeginLookup(t, m[1], m[2])
  \/ \E p \in Programs : ChangeMethod(t, p[1], p[2], p[3])
  \/ Step(t)

CacheSpec == CacheInit /\ [][CacheNext]_cacheVars

-----------------------------------------------------------------------------
(* Correctness                                                             *)

\* A lookup is answered with an implementation its class had for the selector,
\* itself or by inheritance, at some moment between its call and its answer:
\* never one that a completed change had already replaced, whatever was read
\* from a cache that another thread was emptying or growing.
NoStaleImplementation ==
  \A t \in Threads : At(t, "done") => call[t].imp \in possible[t]

\* Whatever a reader is about to look at is a bucket of an allocated array: mask
\* and buckets belong together, and nothing is freed under a reader.
ReadsAllocated ==
  \A t \in Threads : At(t, "probe") => call[t].i \in DOMAIN memory[call[t].buckets]

\* Garbage is allocated, is in no class's cache any more, and is there once; the
\* shared empty buckets never are. Otherwise free() would be wrong.
GarbageSound ==
  \A p \in DOMAIN garbage : garbage[p] > 0 =>
    /\ garbage[p] = 1 /\ p # emptyBuckets /\ DOMAIN memory[p] # {}
    /\ \A c \in Classes : cache[c].buckets # p

Reachable(c, i) ==
  LET b == memory[cache[c].buckets] IN
  \A j \in DOMAIN b : Distance(b[i].sel, cache[c].mask, j) < Distance(b[i].sel, cache[c].mask, i)
                        => b[j] # NoBucket

\* Buckets are where readers and insert look for them, once per selector, and as
\* many as occupied says; nothing is ever written to the shared empty buckets, no
\* array serves two classes, and insert finds a slot and never ends in bad_cache.
CachesSound ==
  /\ \A i \in DOMAIN memory[emptyBuckets] : memory[emptyBuckets][i] = NoBucket
  /\ \A c, d \in Classes : c # d /\ cache[c].buckets = cache[d].buckets =>
       cache[c].buckets = emptyBuckets
  /\ \A c \in Classes :
       LET b == memory[cache[c].buckets]
           full == {i \in DOMAIN b : b[i] # NoBucket}
       IN /\ cache[c].occupied = Cardinality(full)
          /\ \A i, j \in full : b[i].sel = b[j].sel => i = j
          /\ \A i \in full : Reachable(c, i)
  /\ \A t \in Threads : At(t, "insert") => Usable(call[t].cls, call[t].sel) # {}

\* A lookup ends in forwarding only if the class's own resolver has no method to add:
\* a forward entry, its own or its superclass's, never hides one it would add.
ForwardedOnlyUnresolved ==
  \A t \in Threads :
    At(t, "done") /\ call[t].imp = forward_imp => Resolves[call[t].cls][call[t].sel] = none

\* The memory of the caches, in three parts: no reader leaves an allocated array
\* (CacheLookup), what is freed is garbage once (collectNolock), and each cache is a
\* table that readers and insert can search (insert).
MemorySound == ReadsAllocated /\ GarbageSound /\ CachesSound
=============================================================================
