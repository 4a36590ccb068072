-------------------------------- MODULE Sync --------------------------------
(***************************************************************************)
(* @synchronized (objc-sync.mm): a recursive lock for any object, found by *)
(* id2data in the thread's own cache, or on a list of SyncData blocks that *)
(* are never freed but reused for other objects once no thread uses them.  *)
(* One of the striped lists is modelled; the lists share nothing.          *)
(*                                                                         *)
(* objc_sync_enter is id2data(ACQUIRE), then the lock of the block's mutex;*)
(* objc_sync_exit is id2data(RELEASE), then its unlock. They are not in    *)
(* the source tree and are modelled from id2data, their only other half.   *)
(***************************************************************************)
EXTENDS Naturals, Sequences, FiniteSets, Process

CONSTANTS
  Objects,      \* numbers: the order programs take nested locks in
  MaxNesting,   \* bound: how often a thread enters one object
  MaxHeld,      \* bound: objects a thread holds at a time
  MayMisuse,    \* whether a thread may exit an object it has not entered
  MaxThreadCount \* bound: no such exit while a block's threadCount is this

ASSUME SyncAssumption ==
  /\ IsFiniteSet(Threads) /\ NoThread \notin Threads
  /\ Objects \subseteq Nat
  /\ MaxNesting \in Nat /\ MaxHeld \in Nat /\ MaxThreadCount \in Nat
  /\ MayMisuse \in BOOLEAN

VARIABLES
  data,      \* the SyncData blocks, in the order they were allocated
  listLock,  \* the thread that holds the list's spinlock
  mutex,     \* owner and depth of each block's recursive mutex
  fast,      \* each thread's fast cache: an item, or none
  cache,     \* each thread's SyncCache: a sequence of items
  call,      \* each thread's enter or exit under way
  inside     \* history: how often each thread is inside each object

vars == <<data, listLock, mutex, fast, cache, call, inside>>

SyncData == [object : Objects, threadCount : Nat]
SyncCacheItem == [data : Nat, lockCount : Nat]
None == [data |-> 0, lockCount |-> 0]
Free == [owner |-> NoThread, depth |-> 0]

Idle == [why |-> "none", obj |-> 0, at |-> "idle", p |-> 0, unused |-> 0]

Call == [why : {"none", "ACQUIRE", "RELEASE"}, obj : Objects \cup {0},
         at : {"idle", "list", "walk", "found", "lock", "unlock"},
         p : Nat, unused : Nat]

Goto(t, c) == call' = [call EXCEPT ![t] = c]
At(t, label) == call[t].at = label
Held(t) == {o \in Objects : inside[t][o] > 0}

-----------------------------------------------------------------------------
(* The per-thread caches                                                   *)

InFast(t, o) == fast[t] # None /\ data[fast[t].data].object = o
InCache(t, o) == {i \in DOMAIN cache[t] : data[cache[t][i].data].object = o}
Cached(t, o) == InFast(t, o) \/ InCache(t, o) # {}

\* the item for an object, the fast cache first
Item(t, o) == IF InFast(t, o) THEN fast[t]
              ELSE cache[t][CHOOSE i \in InCache(t, o) : TRUE]

\* the last item takes the place of the one removed
Removed(items, i) ==
  [j \in 1 .. Len(items) - 1 |-> IF j = i THEN items[Len(items)] ELSE items[j]]

\* the item for o gets a new lockCount; without one, it is removed
SetLockCount(t, o, n) ==
  IF InFast(t, o)
    THEN /\ fast' = [fast EXCEPT ![t] = IF n = 0 THEN None ELSE [@ EXCEPT !.lockCount = n]]
         /\ UNCHANGED cache
    ELSE LET i == CHOOSE i \in InCache(t, o) : TRUE IN
         /\ cache' = [cache EXCEPT ![t] =
                        IF n = 0 THEN Removed(@, i) ELSE [@ EXCEPT ![i].lockCount = n]]
         /\ UNCHANGED fast

\* a block just found goes to the fast cache if that is free
Save(t, p) ==
  LET item == [data |-> p, lockCount |-> 1] IN
  IF fast[t] = None
    THEN fast' = [fast EXCEPT ![t] = item] /\ UNCHANGED cache
    ELSE cache' = [cache EXCEPT ![t] = Append(@, item)] /\ UNCHANGED fast

-----------------------------------------------------------------------------
(* objc_sync_enter                                                         *)

\* programs take the locks they nest in one order
Orderly(t, o) ==
  \/ o \in Held(t)
  \/ Cardinality(Held(t)) < MaxHeld /\ \A held \in Held(t) : held < o

Enter(t, o) ==
  /\ At(t, "idle") /\ Orderly(t, o) /\ inside[t][o] < MaxNesting
  /\ IF Cached(t, o)
       THEN /\ SetLockCount(t, o, Item(t, o).lockCount + 1)
            /\ Goto(t, [Idle EXCEPT !.why = "ACQUIRE", !.obj = o, !.at = "lock",
                                    !.p = Item(t, o).data])
       ELSE /\ Goto(t, [Idle EXCEPT !.why = "ACQUIRE", !.obj = o, !.at = "list"])
            /\ UNCHANGED <<fast, cache>>
  /\ UNCHANGED <<data, listLock, mutex, inside>>

\* the mutex is recursive
LockMutex(t) ==
  LET p == call[t].p IN
  /\ At(t, "lock") /\ mutex[p].owner \in {NoThread, t}
  /\ mutex' = [mutex EXCEPT ![p] = [owner |-> t, depth |-> @.depth + 1]]
  /\ inside' = [inside EXCEPT ![t][call[t].obj] = @ + 1]
  /\ Goto(t, Idle)
  /\ UNCHANGED <<data, listLock, fast, cache>>

-----------------------------------------------------------------------------
(* objc_sync_exit                                                          *)

GivenUp(n) == n = 0

\* the thread's use of the block ends before its mutex is unlocked
Exit(t, o) ==
  /\ At(t, "idle") /\ o \in Held(t) /\ Cached(t, o)
  /\ LET item == Item(t, o)
         n == item.lockCount - 1
     IN /\ SetLockCount(t, o, n)
        /\ data' = IF GivenUp(n) THEN [data EXCEPT ![item.data].threadCount = @ - 1] ELSE data
        /\ Goto(t, [Idle EXCEPT !.why = "RELEASE", !.obj = o, !.at = "unlock", !.p = item.data])
  /\ inside' = [inside EXCEPT ![t][o] = @ - 1]
  /\ UNCHANGED <<listLock, mutex>>

\* the exit of an object the thread has not entered looks on the list
ExitNotEntered(t, o) ==
  /\ MayMisuse \/ o \in Held(t)
  /\ \A p \in DOMAIN data : data[p].threadCount < MaxThreadCount
  /\ At(t, "idle") /\ ~Cached(t, o)
  /\ Goto(t, [Idle EXCEPT !.why = "RELEASE", !.obj = o, !.at = "list"])
  /\ UNCHANGED <<data, listLock, mutex, fast, cache, inside>>

UnlockMutex(t) ==
  LET p == call[t].p IN
  /\ At(t, "unlock")
  /\ mutex' = [mutex EXCEPT ![p] = IF @.owner # t THEN @
                                   ELSE IF @.depth = 1 THEN Free
                                   ELSE [owner |-> t, depth |-> @.depth - 1]]
  /\ Goto(t, Idle)
  /\ UNCHANGED <<data, listLock, fast, cache, inside>>

-----------------------------------------------------------------------------
(* The list, newest block first                                            *)

\* a slip: the spinlock is not waited for
LockList_NoWait(t) ==
  /\ At(t, "list")
  /\ listLock' = t
  /\ Goto(t, [call[t] EXCEPT !.at = "walk", !.p = Len(data)])
  /\ UNCHANGED <<data, mutex, fast, cache, inside>>

LockList(t) ==
  /\ At(t, "list") /\ listLock = NoThread
  /\ listLock' = t
  /\ Goto(t, [call[t] EXCEPT !.at = "walk", !.p = Len(data)])
  /\ UNCHANGED <<data, mutex, fast, cache, inside>>

\* a slip: a block in use is taken for unused when its mutex is free
Unused_NotLocked(p) == mutex[p].owner = NoThread

Unused(p) == data[p].threadCount = 0

\* one block: it is the object's, or unused, or neither; other threads give up
\* blocks while the list is walked
Walk(t) ==
  LET p == call[t].p IN
  /\ At(t, "walk") /\ p > 0
  /\ IF data[p].object = call[t].obj
       THEN /\ data' = [data EXCEPT ![p].threadCount = @ + 1]
            /\ Goto(t, [call[t] EXCEPT !.at = "found"])
       ELSE /\ Goto(t, [call[t] EXCEPT !.p = p - 1,
                          !.unused = IF @ = 0 /\ Unused(p) THEN p ELSE @])
            /\ UNCHANGED data
  /\ UNCHANGED <<listLock, mutex, fast, cache, inside>>

\* the object has no block: an unused one is its own from now on, or a new one
Claim(t) ==
  LET p == IF call[t].unused # 0 THEN call[t].unused ELSE Len(data) + 1
      block == [object |-> call[t].obj, threadCount |-> 1]
  IN /\ At(t, "walk") /\ call[t].p = 0 /\ call[t].why = "ACQUIRE"
     /\ data' = [q \in DOMAIN data \cup {p} |-> IF q = p THEN block ELSE data[q]]
     /\ mutex' = [q \in DOMAIN mutex \cup {p} |-> IF q \in DOMAIN mutex THEN mutex[q] ELSE Free]
     /\ Goto(t, [call[t] EXCEPT !.at = "found", !.p = p])
     /\ UNCHANGED <<listLock, fast, cache, inside>>

\* RELEASE and no block: not held by anyone
ReleaseNotFound(t) ==
  /\ At(t, "walk") /\ call[t].p = 0 /\ call[t].why = "RELEASE"
  /\ listLock' = NoThread
  /\ Goto(t, Idle)
  /\ UNCHANGED <<data, mutex, fast, cache, inside>>

\* ACQUIRE goes on to the mutex
AcquireFound(t) ==
  /\ At(t, "found") /\ call[t].why = "ACQUIRE"
  /\ listLock' = NoThread
  /\ Save(t, call[t].p)
  /\ Goto(t, [call[t] EXCEPT !.at = "lock", !.unused = 0])
  /\ UNCHANGED <<data, mutex, inside>>

\* RELEASE returns nil: "Probably some thread is incorrectly exiting while the
\* object is held by another thread"
ReleaseFound(t) ==
  /\ At(t, "found") /\ call[t].why = "RELEASE"
  /\ listLock' = NoThread
  /\ Goto(t, Idle)
  /\ UNCHANGED <<data, mutex, fast, cache, inside>>

-----------------------------------------------------------------------------
Init ==
  /\ data = <<>> /\ mutex = <<>>
  /\ listLock = NoThread
  /\ fast = [t \in Threads |-> None]
  /\ cache = [t \in Threads |-> <<>>]
  /\ call = [t \in Threads |-> Idle]
  /\ inside = [t \in Threads |-> [o \in Objects |-> 0]]

Next ==
  \E t \in Threads :
    \/ \E o \in Objects : Enter(t, o) \/ Exit(t, o) \/ ExitNotEntered(t, o)
    \/ LockMutex(t) \/ UnlockMutex(t)
    \/ LockList(t) \/ Walk(t) \/ Claim(t)
    \/ AcquireFound(t) \/ ReleaseFound(t) \/ ReleaseNotFound(t)

Spec == Init /\ [][Next]_vars

-----------------------------------------------------------------------------
(* Correctness                                                             *)

\* No two threads are inside the same object: two threads that look for the same
\* object at once get the same block, and a block is not given to another object
\* while a thread uses it.
MutualExclusion ==
  \A o \in Objects : Cardinality({t \in Threads : o \in Held(t)}) <= 1

\* An object has one block at most, and keeps it while a thread uses it: "Spinlock
\* prevents multiple threads from creating multiple locks for the same new object"
\* (objc-sync.mm:197).
OneBlockPerObject ==
  \A p, q \in DOMAIN data : data[p].object = data[q].object => p = q

Items(t) == ({fast[t]} \ {None}) \cup {cache[t][i] : i \in DOMAIN cache[t]}

\* the threads that have a block in a cache, or are about to
Users(p) ==
  {t \in Threads : \/ \E item \in Items(t) : item.data = p
                   \/ At(t, "found") /\ call[t].p = p /\ call[t].why = "ACQUIRE"}

\* threadCount never misses a thread that uses the block, whoever gives it up while
\* the list is walked: a count too low hands a block in use to another object.
UsersCounted ==
  \A p \in DOMAIN data : data[p].threadCount >= Cardinality(Users(p))

\* threadCount is the "number of THREADS using this block" (objc-sync.mm:36), not
\* of locks: one too high never lets the block be reused.
ThreadCountExact ==
  \A p \in DOMAIN data : data[p].threadCount = Cardinality(Users(p))

\* A thread has one item for each object it is inside, in the fast cache or in the
\* other, which counts its entries; the block is the object's and in use. The
\* _objc_fatal of id2data ("cache is buggy") are out of reach.
CachesAgree ==
  \A t \in Threads : \A o \in Objects :
    LET mine == {item \in Items(t) : data[item.data].object = o}
        entering == IF At(t, "lock") /\ call[t].obj = o THEN 1 ELSE 0
    IN /\ Cardinality(mine) = (IF inside[t][o] + entering > 0 THEN 1 ELSE 0)
       /\ \A item \in mine : /\ item.lockCount = inside[t][o] + entering
                             /\ data[item.data].threadCount > 0

\* The blocks and the caches in front of them, in three parts: one block for an object,
\* no user that is not counted, and each thread's items in step with the blocks
\* (id2data).
BlocksSound == OneBlockPerObject /\ UsersCounted /\ CachesAgree
=============================================================================
