---------------------------- MODULE SyncProofs ------------------------------
(***************************************************************************)
(* @synchronized, for any threads, objects and nesting: threads inside one *)
(* object exclude each other, and the blocks agree with the caches in      *)
(* front of them.                                                          *)
(*                                                                         *)
(* A block is given up on one thread while another walks the list, so that *)
(* threadCount alone says nothing: the invariant says that a block has no  *)
(* more users than it counts, that what a walk remembers as unused has no  *)
(* user and can get none before the walk is over, and that the mutex is    *)
(* held as often as its one holder is inside the object plus the unlock    *)
(* that is still to come, in a block that may be another object's by then. *)
(***************************************************************************)
EXTENDS Sync, SequenceTheorems, FiniteSetTheorems, TLAPS

\* the blocks a thread has in its caches
Data(t) == {item.data : item \in Items(t)}

Entering(t, o) == IF At(t, "lock") /\ call[t].obj = o THEN 1 ELSE 0

\* how often a thread has locked the mutex of a block
Holds(t, p) == (IF p \in Data(t) THEN inside[t][data[p].object] ELSE 0)
                 + (IF At(t, "unlock") /\ call[t].p = p THEN 1 ELSE 0)

TypeOK ==
  /\ data \in Seq(SyncData)
  /\ listLock \in Threads \cup {NoThread}
  /\ mutex \in [DOMAIN data -> [owner : Threads \cup {NoThread}, depth : Nat]]
  /\ fast \in [Threads -> SyncCacheItem]
  /\ cache \in [Threads -> Seq(SyncCacheItem)]
  /\ call \in [Threads -> Call]
  /\ inside \in [Threads -> [Objects -> Nat]]

\* the items of a thread are for different blocks
ItemsDiffer(t) ==
  /\ \A item \in Items(t) : item.data \in DOMAIN data /\ item.lockCount > 0
  /\ \A i, j \in DOMAIN cache[t] : cache[t][i].data = cache[t][j].data => i = j
  /\ \A i \in DOMAIN cache[t] : cache[t][i].data # fast[t].data

\* ... and count what the thread has entered and not yet exited
ItemsCount(t) ==
  \A o \in Objects :
    /\ \A item \in Items(t) :
         data[item.data].object = o => item.lockCount = inside[t][o] + Entering(t, o)
    /\ inside[t][o] + Entering(t, o) > 0
         => \E item \in Items(t) : data[item.data].object = o

\* what a thread knows at each point of a call
CallShape(t) ==
  LET c == call[t] IN
  /\ c.at # "idle" => c.obj \in Objects /\ c.why \in {"ACQUIRE", "RELEASE"}
  /\ c.at \in {"walk", "found"} => listLock = t
  /\ c.at \in {"list", "walk", "found"} => \A item \in Items(t) : data[item.data].object # c.obj
  /\ c.at = "list" => c.unused = 0
  /\ c.at = "walk" => /\ c.p <= Len(data)
                      /\ \A q \in DOMAIN data : q > c.p => data[q].object # c.obj
                      /\ c.unused # 0 => c.unused \in DOMAIN data /\ Users(c.unused) = {}
  /\ c.at \in {"found", "lock"} => c.p \in DOMAIN data /\ data[c.p].object = c.obj
  /\ c.at = "lock" => c.p \in Data(t)
  /\ c.at = "unlock" => c.p \in DOMAIN data

\* a mutex is owned by the one thread that has locked it
MutexOwned ==
  \A p \in DOMAIN data :
    /\ mutex[p].owner = NoThread => mutex[p].depth = 0
    /\ \A t \in Threads : /\ mutex[p].owner = t <=> Holds(t, p) > 0
                          /\ mutex[p].owner = t => mutex[p].depth = Holds(t, p)

IInv ==
  /\ TypeOK /\ OneBlockPerObject /\ UsersCounted /\ MutexOwned
  /\ \A t \in Threads : ItemsDiffer(t) /\ ItemsCount(t) /\ CallShape(t)

-----------------------------------------------------------------------------
(* The per-thread caches.                                                  *)

LEMMA CacheTypes ==
  ASSUME TypeOK, NEW t \in Threads
  PROVE  /\ fast[t] \in SyncCacheItem /\ cache[t] \in Seq(SyncCacheItem)
         /\ DOMAIN cache[t] = 1 .. Len(cache[t]) /\ Len(cache[t]) \in Nat
         /\ Items(t) \subseteq SyncCacheItem
         /\ call[t] \in Call /\ inside[t] \in [Objects -> Nat]
<1>1. fast[t] \in SyncCacheItem /\ cache[t] \in Seq(SyncCacheItem)
  BY DEF TypeOK
<1>2. DOMAIN cache[t] = 1 .. Len(cache[t]) /\ Len(cache[t]) \in Nat
      /\ \A i \in DOMAIN cache[t] : cache[t][i] \in SyncCacheItem
  BY <1>1
<1>3. Items(t) \subseteq SyncCacheItem
  BY <1>1, <1>2 DEF Items
<1> QED BY <1>1, <1>2, <1>3 DEF TypeOK

LEMMA DataTypes ==
  ASSUME TypeOK
  PROVE  /\ DOMAIN data = 1 .. Len(data) /\ Len(data) \in Nat
         /\ \A p \in DOMAIN data : data[p] \in SyncData /\ mutex[p].depth \in Nat
         /\ 0 \notin DOMAIN data
BY DEF TypeOK

\* Where the item for an object is, and that there is no other.
LEMMA FindItem ==
  ASSUME TypeOK, NEW t \in Threads, ItemsDiffer(t), OneBlockPerObject,
         NEW o \in Objects, Cached(t, o)
  PROVE  /\ Item(t, o) \in Items(t) /\ data[Item(t, o).data].object = o
         /\ \A item \in Items(t) : data[item.data].object = o => item.data = Item(t, o).data
         /\ ~InFast(t, o) => /\ (CHOOSE i \in InCache(t, o) : TRUE) \in InCache(t, o)
                             /\ Item(t, o) = cache[t][CHOOSE i \in InCache(t, o) : TRUE]
<1>1. CASE InFast(t, o)
  <2>1. Item(t, o) = fast[t] /\ fast[t] # None /\ data[fast[t].data].object = o
    BY <1>1 DEF Item, InFast
  <2>2. fast[t] \in Items(t)
    BY <2>1 DEF Items
  <2> QED BY <1>1, <2>1, <2>2 DEF ItemsDiffer, OneBlockPerObject
<1>2. CASE ~InFast(t, o)
  <2> DEFINE i == CHOOSE j \in InCache(t, o) : TRUE
  <2>1. i \in InCache(t, o)
    BY <1>2 DEF Cached
  <2>2. Item(t, o) = cache[t][i] /\ data[cache[t][i].data].object = o /\ i \in DOMAIN cache[t]
    BY <1>2, <2>1 DEF Item, InCache
  <2>3. cache[t][i] \in Items(t)
    BY <2>2 DEF Items
  <2> QED BY <2>1, <2>2, <2>3 DEF ItemsDiffer, OneBlockPerObject
<1> QED BY <1>1, <1>2

LEMMA RemovedItems ==
  ASSUME NEW S, NEW s \in Seq(S), NEW i \in DOMAIN s,
         \A j, k \in DOMAIN s : s[j] = s[k] => j = k
  PROVE  /\ Removed(s, i) \in Seq(S)
         /\ DOMAIN Removed(s, i) = 1 .. Len(s) - 1
         /\ \A j \in 1 .. Len(s) - 1 :
              Removed(s, i)[j] = IF j = i THEN s[Len(s)] ELSE s[j]
         /\ {Removed(s, i)[j] : j \in 1 .. Len(s) - 1} = {s[j] : j \in DOMAIN s} \ {s[i]}
<1> DEFINE n == Len(s)  r == Removed(s, i)
<1>1. n \in Nat /\ DOMAIN s = 1 .. n /\ n >= 1 /\ n - 1 \in Nat
  OBVIOUS
<1>2. r = [j \in 1 .. n - 1 |-> IF j = i THEN s[n] ELSE s[j]]
  BY DEF Removed
<1> HIDE DEF n, r
<1>3. \A j \in 1 .. n - 1 : r[j] = IF j = i THEN s[n] ELSE s[j]
  BY <1>2
<1>4. r \in [1 .. n - 1 -> S]
  <2>1. \A j \in 1 .. n : s[j] \in S
    BY <1>1
  <2> QED BY <1>1, <1>2, <2>1
<1>5. r \in Seq(S)
  BY <1>1, <1>4, SeqDef
<1>6. ASSUME NEW x
      PROVE  x \in {r[j] : j \in 1 .. n - 1} <=> x \in {s[j] : j \in 1 .. n} \ {s[i]}
  <2>1. ASSUME NEW j \in 1 .. n - 1, r[j] = x
        PROVE  x # s[i] /\ \E k \in 1 .. n : s[k] = x
    <3>1. CASE j = i
      <4>1. x = s[n] /\ n # i /\ n \in 1 .. n
        BY <1>1, <1>3, <2>1, <3>1
      <4> QED BY <1>1, <4>1
    <3>2. CASE j # i
      <4>1. x = s[j] /\ j \in 1 .. n
        BY <1>1, <1>3, <2>1, <3>2
      <4> QED BY <1>1, <3>2, <4>1
    <3> QED BY <3>1, <3>2
  <2>2. ASSUME x # s[i], NEW k \in 1 .. n, s[k] = x
        PROVE  \E j \in 1 .. n - 1 : r[j] = x
    <3>1. CASE k = n
      <4>1. i \in 1 .. n - 1 /\ r[i] = x
        BY <1>1, <1>3, <2>2, <3>1
      <4> QED BY <4>1
    <3>2. CASE k # n
      <4>1. k \in 1 .. n - 1 /\ r[k] = x
        BY <1>1, <1>3, <2>2, <3>2
      <4> QED BY <4>1
    <3> QED BY <3>1, <3>2
  <2> QED BY <2>1, <2>2
<1> QED BY <1>1, <1>2, <1>3, <1>5, <1>6 DEF n, r

\* What SetLockCount and Save do to the items of a thread.
ItemsBecome(t, items) ==
  /\ fast' \in [Threads -> SyncCacheItem] /\ cache' \in [Threads -> Seq(SyncCacheItem)]
  /\ \A u \in Threads \ {t} : fast'[u] = fast[u] /\ cache'[u] = cache[u]
  /\ Items(t)' = items
  /\ \A i, j \in DOMAIN cache'[t] : cache'[t][i].data = cache'[t][j].data => i = j
  /\ \A i \in DOMAIN cache'[t] : cache'[t][i].data # fast'[t].data

LEMMA SetItems ==
  ASSUME TypeOK, NEW t \in Threads, ItemsDiffer(t), OneBlockPerObject,
         NEW o \in Objects, Cached(t, o), NEW n \in Nat, SetLockCount(t, o, n)
  PROVE  ItemsBecome(t, {x \in Items(t) : x.data # Item(t, o).data}
                          \cup (IF n = 0 THEN {}
                                ELSE {[data |-> Item(t, o).data, lockCount |-> n]}))
<1> DEFINE f == fast[t]
           c == cache[t]
           p == Item(t, o).data
           new == [data |-> p, lockCount |-> n]
<1>1. /\ f \in SyncCacheItem /\ c \in Seq(SyncCacheItem)
      /\ DOMAIN c = 1 .. Len(c) /\ Len(c) \in Nat
      /\ \A i \in DOMAIN c : c[i] \in SyncCacheItem
  BY CacheTypes DEF TypeOK
<1>2. /\ Item(t, o) \in Items(t) /\ p \in DOMAIN data /\ p # 0
      /\ new \in SyncCacheItem /\ new # None
      /\ \A i, j \in DOMAIN c : c[i].data = c[j].data => i = j
      /\ \A i \in DOMAIN c : c[i].data # f.data /\ c[i].data # 0
  <2>1. Item(t, o) \in Items(t)
    BY FindItem
  <2>2. p \in DOMAIN data /\ p \in Nat /\ p # 0
    BY <2>1, DataTypes DEF ItemsDiffer
  <2>3. new \in SyncCacheItem /\ new # None
    BY <2>2 DEF SyncCacheItem, None
  <2>4. \A i \in DOMAIN c : c[i].data \in DOMAIN data
    BY DEF Items, ItemsDiffer
  <2> QED BY <2>1, <2>2, <2>3, <2>4, DataTypes DEF ItemsDiffer
<1>3. CASE InFast(t, o)
  <2>1. f = Item(t, o) /\ f # None
    BY <1>3 DEF Item, InFast
  <2>2. /\ fast' = [fast EXCEPT ![t] = IF n = 0 THEN None ELSE [@ EXCEPT !.lockCount = n]]
        /\ cache' = cache
    BY <1>3 DEF SetLockCount
  <2>3. fast'[t] = IF n = 0 THEN None ELSE new
    <3>1. fast'[t] = IF n = 0 THEN None ELSE [f EXCEPT !.lockCount = n]
      BY <2>2 DEF TypeOK
    <3>2. [f EXCEPT !.lockCount = n] = [data |-> f.data, lockCount |-> n]
      BY <1>1 DEF SyncCacheItem
    <3> QED BY <2>1, <3>1, <3>2
  <2>4. fast' \in [Threads -> SyncCacheItem] /\ \A u \in Threads \ {t} : fast'[u] = fast[u]
    BY <1>2, <2>2, <2>3 DEF TypeOK, SyncCacheItem, None
  <2>5. Items(t)' = {x \in Items(t) : x.data # p} \cup (IF n = 0 THEN {} ELSE {new})
    <3>1. {x \in Items(t) : x.data # p} = {c[i] : i \in DOMAIN c}
      BY <1>2, <2>1 DEF Items
    <3>2. Items(t)' = ({fast'[t]} \ {None}) \cup {c[i] : i \in DOMAIN c}
      BY <2>2 DEF Items
    <3>3. {fast'[t]} \ {None} = IF n = 0 THEN {} ELSE {new}
      BY <1>2, <2>3
    <3> QED BY <3>1, <3>2, <3>3
  <2>6. \A i \in DOMAIN c : c[i].data # fast'[t].data
    BY <1>2, <2>1, <2>3 DEF None
  <2> QED BY <1>2, <2>2, <2>4, <2>5, <2>6 DEF ItemsBecome, TypeOK
<1>4. CASE ~InFast(t, o)
  <2> DEFINE i == CHOOSE j \in InCache(t, o) : TRUE
  <2>1. i \in DOMAIN c /\ Item(t, o) = c[i]
    BY <1>4, FindItem DEF InCache
  <2>2. /\ cache' = [cache EXCEPT ![t] = IF n = 0 THEN Removed(@, i)
                                         ELSE [@ EXCEPT ![i].lockCount = n]]
        /\ fast' = fast
    BY <1>4 DEF SetLockCount
  <2> HIDE DEF i
  <2>3. /\ \A u \in Threads \ {t} : cache'[u] = cache[u]
        /\ cache'[t] = IF n = 0 THEN Removed(c, i) ELSE [c EXCEPT ![i].lockCount = n]
    BY <2>2 DEF TypeOK
  <2>4. f.data # p
    BY <1>2, <2>1
  <2>5. /\ cache'[t] \in Seq(SyncCacheItem)
        /\ {cache'[t][j] : j \in DOMAIN cache'[t]}
             = ({c[j] : j \in DOMAIN c} \ {c[i]}) \cup (IF n = 0 THEN {} ELSE {new})
        /\ \A j, k \in DOMAIN cache'[t] : cache'[t][j].data = cache'[t][k].data => j = k
    <3>1. CASE n = 0
      <4>1. \A j, k \in DOMAIN c : c[j] = c[k] => j = k
        BY <1>2
      <4> DEFINE r == Removed(c, i)
      <4>2. /\ r \in Seq(SyncCacheItem) /\ DOMAIN r = 1 .. Len(c) - 1
            /\ \A j \in 1 .. Len(c) - 1 : r[j] = IF j = i THEN c[Len(c)] ELSE c[j]
            /\ {r[j] : j \in 1 .. Len(c) - 1} = {c[j] : j \in DOMAIN c} \ {c[i]}
        <5>1. c \in Seq(SyncCacheItem) /\ i \in DOMAIN c
          BY <1>1, <2>1
        <5> HIDE DEF c
        <5>2. r \in Seq(SyncCacheItem) /\ DOMAIN r = 1 .. Len(c) - 1
          BY <4>1, <5>1, RemovedItems
        <5>3. \A j \in 1 .. Len(c) - 1 : r[j] = IF j = i THEN c[Len(c)] ELSE c[j]
          BY <4>1, <5>1, RemovedItems
        <5>4. {r[j] : j \in 1 .. Len(c) - 1} = {c[j] : j \in DOMAIN c} \ {c[i]}
          BY <4>1, <5>1, RemovedItems, SMTT(60)
        <5> QED BY <5>2, <5>3, <5>4
      <4>3. cache'[t] = r
        BY <2>3, <3>1
      <4> HIDE DEF r
      <4>4. ASSUME NEW j \in 1 .. Len(c) - 1, NEW k \in 1 .. Len(c) - 1, r[j].data = r[k].data
            PROVE  j = k
        <5>1. Len(c) \in DOMAIN c /\ j \in DOMAIN c /\ k \in DOMAIN c
              /\ j # Len(c) /\ k # Len(c)
          BY <1>1
        <5> QED BY <1>2, <4>2, <4>4, <5>1
      <4>5. {cache'[t][j] : j \in DOMAIN cache'[t]} = {c[j] : j \in DOMAIN c} \ {c[i]}
        BY <4>2, <4>3
      <4>6. (IF n = 0 THEN {} ELSE {new}) = {}
        BY <3>1
      <4> QED BY <4>2, <4>3, <4>4, <4>5, <4>6
    <3>2. CASE n # 0
      <4>1. [c[i] EXCEPT !.lockCount = n] = new
        BY <1>1, <2>1 DEF SyncCacheItem
      <4>2. cache'[t] = [c EXCEPT ![i] = new]
        BY <1>1, <2>1, <2>3, <3>2, <4>1
      <4>3. /\ cache'[t] \in Seq(SyncCacheItem) /\ DOMAIN cache'[t] = DOMAIN c
            /\ cache'[t][i] = new /\ \A j \in DOMAIN c : j # i => cache'[t][j] = c[j]
        BY <1>1, <1>2, <2>1, <4>2
      <4>4. \A j \in DOMAIN c : cache'[t][j].data = c[j].data
        BY <2>1, <4>3
      <4>5. \A j \in DOMAIN c : c[j] = c[i] => j = i
        BY <1>2, <2>1
      <4> QED BY <1>2, <2>1, <3>2, <4>3, <4>4, <4>5
    <3> QED BY <3>1, <3>2
  <2>6. {x \in Items(t) : x.data # p}
          = ({f} \ {None}) \cup ({c[j] : j \in DOMAIN c} \ {c[i]})
    BY <1>2, <2>1, <2>4 DEF Items
  <2>7. Items(t)' = ({f} \ {None}) \cup {cache'[t][j] : j \in DOMAIN cache'[t]}
    BY <2>2 DEF Items
  <2>9. Items(t)' = {x \in Items(t) : x.data # p} \cup (IF n = 0 THEN {} ELSE {new})
    BY <2>5, <2>6, <2>7
  <2>10. \A j \in DOMAIN cache'[t] : cache'[t][j].data # fast'[t].data
    BY <1>2, <2>1, <2>2, <2>4, <2>5
  <2>11. cache' \in [Threads -> Seq(SyncCacheItem)]
    BY <2>2, <2>3, <2>5 DEF TypeOK
  <2> QED BY <2>2, <2>3, <2>5, <2>9, <2>10, <2>11 DEF ItemsBecome, TypeOK
<1> QED BY <1>3, <1>4

LEMMA SaveItems ==
  ASSUME TypeOK, NEW t \in Threads, ItemsDiffer(t), NEW p \in DOMAIN data,
         p \notin Data(t), Save(t, p)
  PROVE  ItemsBecome(t, Items(t) \cup {[data |-> p, lockCount |-> 1]})
<1> DEFINE f == fast[t]
           c == cache[t]
           new == [data |-> p, lockCount |-> 1]
<1>1. /\ f \in SyncCacheItem /\ c \in Seq(SyncCacheItem)
      /\ DOMAIN c = 1 .. Len(c) /\ Len(c) \in Nat
      /\ p \in Nat /\ p # 0 /\ new \in SyncCacheItem /\ new # None
  BY CacheTypes, DataTypes, SMTT(20) DEF TypeOK, SyncCacheItem, None
<1>2. /\ \A i, j \in DOMAIN c : c[i].data = c[j].data => i = j
      /\ \A i \in DOMAIN c : c[i].data # f.data /\ c[i].data # p
      /\ f # None => f.data # p
  BY DEF ItemsDiffer, Data, Items
<1>3. CASE f = None
  <2>1. fast' = [fast EXCEPT ![t] = new] /\ cache' = cache
    BY <1>3 DEF Save
  <2>2. fast'[t] = new /\ \A u \in Threads \ {t} : fast'[u] = fast[u]
    BY <2>1 DEF TypeOK
  <2>3. Items(t)' = Items(t) \cup {new}
    BY <1>1, <1>3, <2>1, <2>2 DEF Items
  <2>4. fast' \in [Threads -> SyncCacheItem]
    BY <1>1, <2>1 DEF TypeOK
  <2> QED BY <1>2, <2>1, <2>2, <2>3, <2>4 DEF ItemsBecome, TypeOK
<1>4. CASE f # None
  <2>1. cache' = [cache EXCEPT ![t] = Append(c, new)] /\ fast' = fast
    BY <1>4 DEF Save
  <2>2. cache'[t] = Append(c, new) /\ \A u \in Threads \ {t} : cache'[u] = cache[u]
    BY <2>1 DEF TypeOK
  <2>3. /\ Append(c, new) \in Seq(SyncCacheItem)
        /\ DOMAIN Append(c, new) = 1 .. Len(c) + 1
        /\ Append(c, new)[Len(c) + 1] = new
        /\ \A i \in 1 .. Len(c) : Append(c, new)[i] = c[i]
    BY <1>1, AppendProperties
  <2>4. {cache'[t][i] : i \in DOMAIN cache'[t]} = {c[i] : i \in DOMAIN c} \cup {new}
    <3>1. 1 .. Len(c) + 1 = (DOMAIN c) \cup {Len(c) + 1}
      BY <1>1
    <3> QED BY <1>1, <2>2, <2>3, <3>1
  <2>5. Items(t)' = Items(t) \cup {new}
    BY <2>1, <2>4 DEF Items
  <2>6. \A i, j \in DOMAIN cache'[t] : cache'[t][i].data = cache'[t][j].data => i = j
    BY <1>1, <1>2, <2>2, <2>3
  <2>7. \A i \in DOMAIN cache'[t] : cache'[t][i].data # fast'[t].data
    BY <1>1, <1>2, <1>4, <2>1, <2>2, <2>3
  <2>8. cache' \in [Threads -> Seq(SyncCacheItem)]
    BY <2>1, <2>3 DEF TypeOK
  <2> QED BY <2>1, <2>2, <2>5, <2>6, <2>7, <2>8 DEF ItemsBecome, TypeOK
<1> QED BY <1>3, <1>4

-----------------------------------------------------------------------------
(* A step of one thread, but for Claim, in terms of what the invariant     *)
(* says.                                                                   *)

UserOf(t, p) ==
  p \in Data(t) \/ (At(t, "found") /\ call[t].p = p /\ call[t].why = "ACQUIRE")

Others(t) ==
  \A u \in Threads \ {t} :
    /\ fast'[u] = fast[u] /\ cache'[u] = cache[u]
    /\ call'[u] = call[u] /\ inside'[u] = inside[u]
    /\ listLock = u => listLock' = u

SameObjects ==
  /\ DOMAIN data' = DOMAIN data /\ Len(data') = Len(data)
  /\ \A p \in DOMAIN data : data'[p].object = data[p].object

\* a thread becomes a user only with the list locked, and is counted
CountedStep(t, p) ==
  /\ UserOf(t, p)' => UserOf(t, p) \/ listLock = t
  /\ data'[p].threadCount + (IF UserOf(t, p) THEN 1 ELSE 0)
       >= data[p].threadCount + (IF UserOf(t, p)' THEN 1 ELSE 0)

MutexStep(t, p) ==
  \/ mutex'[p] = mutex[p] /\ Holds(t, p)' = Holds(t, p)
  \/ /\ mutex[p].owner \in {NoThread, t} /\ Holds(t, p)' = Holds(t, p) + 1
     /\ mutex'[p].owner = t /\ mutex'[p].depth = mutex[p].depth + 1
  \/ /\ mutex[p].owner = t /\ Holds(t, p)' = Holds(t, p) - 1
     /\ mutex'[p].owner = IF mutex[p].depth = 1 THEN NoThread ELSE t
     /\ mutex'[p].depth = mutex[p].depth - 1

StepOf(t) ==
  /\ TypeOK' /\ Others(t) /\ SameObjects
  /\ ItemsDiffer(t)' /\ ItemsCount(t)' /\ CallShape(t)'
  /\ \A p \in DOMAIN data : CountedStep(t, p) /\ MutexStep(t, p)

LEMMA UsersAre == \A p : Users(p) = {t \in Threads : UserOf(t, p)}
BY DEF Users, UserOf, Data

LEMMA HoldsNat ==
  ASSUME TypeOK, NEW t \in Threads, NEW p \in DOMAIN data
  PROVE  Holds(t, p) \in Nat
<1>1. inside[t][data[p].object] \in Nat
  BY CacheTypes, DataTypes DEF SyncData
<1> QED BY <1>1 DEF Holds

LEMMA CardinalityStep ==
  ASSUME IsFiniteSet(Threads),
         NEW S \in SUBSET Threads, NEW T \in SUBSET Threads, NEW t \in Threads,
         \A u \in Threads \ {t} : u \in T <=> u \in S
  PROVE  /\ Cardinality(S) \in Nat /\ Cardinality(T) \in Nat
         /\ Cardinality(T) = Cardinality(S) + (IF t \in T THEN 1 ELSE 0)
                                            - (IF t \in S THEN 1 ELSE 0)
<1>1. IsFiniteSet(S) /\ IsFiniteSet(T)
  BY FS_Subset
<1>2. Cardinality(S) \in Nat /\ Cardinality(T) \in Nat
  BY <1>1, FS_CardinalityType
<1>3. CASE t \in T <=> t \in S
  <2>1. T = S
    BY <1>3
  <2> QED BY <1>2, <2>1
<1>4. CASE t \in T /\ t \notin S
  <2>1. T = S \cup {t}
    BY <1>4
  <2> QED BY <1>1, <1>2, <1>4, <2>1, FS_AddElement
<1>5. CASE t \notin T /\ t \in S
  <2>1. S = T \cup {t}
    BY <1>5
  <2> QED BY <1>1, <1>2, <1>5, <2>1, FS_AddElement
<1> QED BY <1>3, <1>4, <1>5

LEMMA OthersKeep ==
  ASSUME IInv, NEW t \in Threads, StepOf(t), NEW u \in Threads \ {t}
  PROVE  /\ ItemsDiffer(u)' /\ ItemsCount(u)' /\ CallShape(u)'
         /\ \A p \in DOMAIN data : Holds(u, p)' = Holds(u, p) /\ (UserOf(u, p)' <=> UserOf(u, p))
<1>1. /\ fast'[u] = fast[u] /\ cache'[u] = cache[u]
      /\ call'[u] = call[u] /\ inside'[u] = inside[u]
      /\ listLock = u => listLock' = u
  BY DEF StepOf, Others
<1>2. /\ DOMAIN data' = DOMAIN data /\ Len(data') = Len(data)
      /\ \A p \in DOMAIN data : data'[p].object = data[p].object
  BY DEF StepOf, SameObjects
<1>3. Items(u)' = Items(u) /\ Data(u)' = Data(u)
  BY <1>1 DEF Items, Data
<1>4. \A item \in Items(u) : item.data \in DOMAIN data /\ item.lockCount > 0
  BY DEF IInv, ItemsDiffer
<1>5. ItemsDiffer(u)'
  BY <1>1, <1>2, <1>3 DEF IInv, ItemsDiffer
<1>6. ItemsCount(u)'
  BY <1>1, <1>2, <1>3, <1>4 DEF IInv, ItemsCount, Entering, At
<1>7. \A p \in DOMAIN data : Holds(u, p)' = Holds(u, p) /\ (UserOf(u, p)' <=> UserOf(u, p))
  BY <1>1, <1>2, <1>3 DEF Holds, UserOf, At
<1>8. ASSUME call[u].at = "walk", call[u].unused # 0
      PROVE  Users(call[u].unused)' = {}
  <2> DEFINE q == call[u].unused
  <2>1. q \in DOMAIN data /\ listLock = u /\ Users(q) = {}
    BY <1>8 DEF IInv, CallShape
  <2>2. ~UserOf(t, q)'
    <3>1. ~UserOf(t, q) /\ listLock # t
      BY <2>1, UsersAre
    <3>2. CountedStep(t, q)
      BY <2>1 DEF StepOf
    <3> QED BY <3>1, <3>2 DEF CountedStep
  <2>3. ASSUME NEW v \in Threads \ {t}
        PROVE  ~UserOf(v, q)'
    <3>1. /\ fast'[v] = fast[v] /\ cache'[v] = cache[v] /\ call'[v] = call[v]
      BY DEF StepOf, Others
    <3>2. UserOf(v, q)' <=> UserOf(v, q)
      BY <1>1, <3>1 DEF UserOf, At, Data, Items
    <3> QED BY <2>1, <3>2, UsersAre
  <2>4. \A v \in Threads : ~UserOf(v, q)'
    BY <2>2, <2>3
  <2> QED BY <1>1, <2>4 DEF Users, UserOf, Data
<1>9. CallShape(u)'
  BY <1>1, <1>2, <1>3, <1>4, <1>8 DEF IInv, CallShape
<1> QED BY <1>5, <1>6, <1>7, <1>9

LEMMA StepKeeps ==
  ASSUME IInv, NEW t \in Threads, StepOf(t)
  PROVE  IInv'
<1>1. /\ DOMAIN data' = DOMAIN data
      /\ \A p \in DOMAIN data : data'[p].object = data[p].object
      /\ TypeOK /\ TypeOK'
  BY DEF StepOf, SameObjects, IInv
<1>2. OneBlockPerObject'
  BY <1>1 DEF OneBlockPerObject, IInv
<1>3. UsersCounted'
  <2> SUFFICES ASSUME NEW p \in DOMAIN data
               PROVE  data'[p].threadCount >= Cardinality(Users(p)')
    BY <1>1 DEF UsersCounted
  <2>1. Users(p) \in SUBSET Threads /\ Users(p)' \in SUBSET Threads
    BY DEF Users
  <2>2. t \in Users(p) <=> UserOf(t, p)
    BY UsersAre
  <2>3. \A u \in Threads : u \in Users(p)' <=> UserOf(u, p)'
    BY DEF Users, UserOf, Data
  <2>4. \A u \in Threads \ {t} : u \in Users(p)' <=> u \in Users(p)
    BY <2>3, UsersAre, OthersKeep
  <2>5. /\ Cardinality(Users(p)) \in Nat /\ Cardinality(Users(p)') \in Nat
        /\ Cardinality(Users(p)') = Cardinality(Users(p))
             + (IF UserOf(t, p)' THEN 1 ELSE 0) - (IF UserOf(t, p) THEN 1 ELSE 0)
    BY <2>1, <2>2, <2>3, <2>4, CardinalityStep, SyncAssumption
  <2>6. data[p].threadCount >= Cardinality(Users(p))
    BY DEF IInv, UsersCounted
  <2>7. data[p].threadCount \in Nat /\ data'[p].threadCount \in Nat
    <3>1. data[p] \in SyncData /\ data'[p] \in SyncData
      BY <1>1 DEF TypeOK
    <3> QED BY <3>1 DEF SyncData
  <2> QED BY <2>5, <2>6, <2>7 DEF StepOf, CountedStep
<1>4. MutexOwned'
  <2> SUFFICES ASSUME NEW p \in DOMAIN data
               PROVE  /\ mutex'[p].owner = NoThread => mutex'[p].depth = 0
                      /\ \A u \in Threads :
                           /\ mutex'[p].owner = u <=> Holds(u, p)' > 0
                           /\ mutex'[p].owner = u => mutex'[p].depth = Holds(u, p)'
    BY <1>1 DEF MutexOwned
  <2>1. \A u \in Threads : Holds(u, p) \in Nat
    BY <1>1, HoldsNat
  <2>2. \A u \in Threads \ {t} : Holds(u, p)' = Holds(u, p)
    BY OthersKeep
  <2>3. /\ mutex[p].owner = NoThread => mutex[p].depth = 0
        /\ \A u \in Threads : /\ mutex[p].owner = u <=> Holds(u, p) > 0
                              /\ mutex[p].owner = u => mutex[p].depth = Holds(u, p)
        /\ mutex[p].depth \in Nat /\ mutex[p].owner \in Threads \cup {NoThread}
    BY DEF IInv, MutexOwned, TypeOK
  <2>4. NoThread \notin Threads
    BY SyncAssumption
  <2>5. MutexStep(t, p)
    BY DEF StepOf
  <2> QED BY <2>1, <2>2, <2>3, <2>4, <2>5 DEF MutexStep
<1>5. \A u \in Threads : ItemsDiffer(u)' /\ ItemsCount(u)' /\ CallShape(u)'
  BY OthersKeep DEF StepOf
<1> QED BY <1>1, <1>2, <1>3, <1>4, <1>5 DEF IInv

-----------------------------------------------------------------------------
(* Each step but Claim is one of the steps described above; Claim, which   *)
(* alone gives a block to an object, is last.                              *)

LEMMA UncachedItems ==
  ASSUME NEW t \in Threads, NEW o
  PROVE  ~Cached(t, o) <=> \A item \in Items(t) : data[item.data].object # o
BY DEF Cached, InFast, InCache, Items

LEMMA LockListStep ==
  ASSUME IInv, NEW t \in Threads, LockList(t)
  PROVE  StepOf(t)
<1> USE DEF IInv
<1>0. /\ call[t] \in Call /\ inside[t] \in [Objects -> Nat] /\ NoThread \notin Threads
      /\ DOMAIN data = 1 .. Len(data) /\ Len(data) \in Nat /\ 0 \notin DOMAIN data
  BY CacheTypes, DataTypes, SyncAssumption
<1>1. /\ call[t].at = "list" /\ data' = data /\ mutex' = mutex /\ inside' = inside
      /\ listLock = NoThread /\ listLock' = t
      /\ call'[t] = [call[t] EXCEPT !.at = "walk", !.p = Len(data)]
  BY <1>0 DEF LockList, At, Goto, TypeOK, Call
<1>2. TypeOK'
  BY <1>0, <1>1 DEF LockList, Goto, TypeOK, Call, Idle
<1>3. Others(t) /\ SameObjects
  BY <1>0, <1>1 DEF LockList, Goto, Others, SameObjects, TypeOK, CallShape
<1>4. Items(t)' = Items(t) /\ Data(t)' = Data(t) /\ fast' = fast /\ cache' = cache
  BY DEF LockList, Items, Data
<1>5. ItemsDiffer(t)'
  BY <1>1, <1>4 DEF ItemsDiffer
<1>6. ItemsCount(t)'
  BY <1>0, <1>1, <1>4 DEF LockList, ItemsCount, Entering, At, Idle
<1>7. CallShape(t)'
  BY <1>0, <1>1, <1>4 DEF CallShape, At, Idle
<1>8. ASSUME NEW p \in DOMAIN data PROVE CountedStep(t, p)
  <2>1. UserOf(t, p)' => UserOf(t, p)
    BY <1>1, <1>4 DEF UserOf, At, Idle
  <2>2. data'[p].threadCount = data[p].threadCount /\ data[p].threadCount \in Nat
    BY <1>1, <1>8, DataTypes DEF SyncData
  <2> QED BY <2>1, <2>2 DEF CountedStep
<1>9. ASSUME NEW p \in DOMAIN data PROVE MutexStep(t, p)
  BY <1>0, <1>1, <1>4, <1>9 DEF LockList, MutexStep, Holds, At, Idle
<1> QED BY <1>2, <1>3, <1>5, <1>6, <1>7, <1>8, <1>9 DEF StepOf

LEMMA ReleaseNotFoundStep ==
  ASSUME IInv, NEW t \in Threads, ReleaseNotFound(t)
  PROVE  StepOf(t)
<1> USE DEF IInv
<1>0. /\ call[t] \in Call /\ inside[t] \in [Objects -> Nat] /\ NoThread \notin Threads
      /\ DOMAIN data = 1 .. Len(data) /\ Len(data) \in Nat /\ 0 \notin DOMAIN data
  BY CacheTypes, DataTypes, SyncAssumption
<1>1. /\ call[t].at = "walk" /\ data' = data /\ mutex' = mutex /\ inside' = inside
      /\ listLock' = NoThread /\ call'[t] = Idle
  BY <1>0 DEF ReleaseNotFound, At, Goto, TypeOK, Call
<1>2. TypeOK'
  BY <1>0, <1>1 DEF ReleaseNotFound, Goto, TypeOK, Call, Idle
<1>3. Others(t) /\ SameObjects
  BY <1>0, <1>1 DEF ReleaseNotFound, Goto, Others, SameObjects, TypeOK, CallShape
<1>4. Items(t)' = Items(t) /\ Data(t)' = Data(t) /\ fast' = fast /\ cache' = cache
  BY DEF ReleaseNotFound, Items, Data
<1>5. ItemsDiffer(t)'
  BY <1>1, <1>4 DEF ItemsDiffer
<1>6. ItemsCount(t)'
  BY <1>0, <1>1, <1>4 DEF ReleaseNotFound, ItemsCount, Entering, At, Idle
<1>7. CallShape(t)'
  BY <1>0, <1>1, <1>4 DEF CallShape, At, Idle
<1>8. ASSUME NEW p \in DOMAIN data PROVE CountedStep(t, p)
  <2>1. UserOf(t, p)' => UserOf(t, p)
    BY <1>1, <1>4 DEF UserOf, At, Idle
  <2>2. data'[p].threadCount = data[p].threadCount /\ data[p].threadCount \in Nat
    BY <1>1, <1>8, DataTypes DEF SyncData
  <2> QED BY <2>1, <2>2 DEF CountedStep
<1>9. ASSUME NEW p \in DOMAIN data PROVE MutexStep(t, p)
  BY <1>0, <1>1, <1>4, <1>9 DEF ReleaseNotFound, MutexStep, Holds, At, Idle
<1> QED BY <1>2, <1>3, <1>5, <1>6, <1>7, <1>8, <1>9 DEF StepOf

LEMMA ReleaseFoundStep ==
  ASSUME IInv, NEW t \in Threads, ReleaseFound(t)
  PROVE  StepOf(t)
<1> USE DEF IInv
<1>0. /\ call[t] \in Call /\ inside[t] \in [Objects -> Nat] /\ NoThread \notin Threads
      /\ DOMAIN data = 1 .. Len(data) /\ Len(data) \in Nat /\ 0 \notin DOMAIN data
  BY CacheTypes, DataTypes, SyncAssumption
<1>1. /\ call[t].at = "found" /\ call[t].why = "RELEASE"
      /\ data' = data /\ mutex' = mutex /\ inside' = inside
      /\ listLock' = NoThread /\ call'[t] = Idle
  BY <1>0 DEF ReleaseFound, At, Goto, TypeOK, Call
<1>2. TypeOK'
  BY <1>0, <1>1 DEF ReleaseFound, Goto, TypeOK, Call, Idle
<1>3. Others(t) /\ SameObjects
  BY <1>0, <1>1 DEF ReleaseFound, Goto, Others, SameObjects, TypeOK, CallShape
<1>4. Items(t)' = Items(t) /\ Data(t)' = Data(t) /\ fast' = fast /\ cache' = cache
  BY DEF ReleaseFound, Items, Data
<1>5. ItemsDiffer(t)'
  BY <1>1, <1>4 DEF ItemsDiffer
<1>6. ItemsCount(t)'
  BY <1>0, <1>1, <1>4 DEF ReleaseFound, ItemsCount, Entering, At, Idle
<1>7. CallShape(t)'
  BY <1>0, <1>1, <1>4 DEF CallShape, At, Idle
<1>8. ASSUME NEW p \in DOMAIN data PROVE CountedStep(t, p)
  <2>1. UserOf(t, p)' => UserOf(t, p)
    BY <1>1, <1>4 DEF UserOf, At, Idle
  <2>2. data'[p].threadCount = data[p].threadCount /\ data[p].threadCount \in Nat
    BY <1>1, <1>8, DataTypes DEF SyncData
  <2> QED BY <2>1, <2>2 DEF CountedStep
<1>9. ASSUME NEW p \in DOMAIN data PROVE MutexStep(t, p)
  BY <1>0, <1>1, <1>4, <1>9 DEF ReleaseFound, MutexStep, Holds, At, Idle
<1> QED BY <1>2, <1>3, <1>5, <1>6, <1>7, <1>8, <1>9 DEF StepOf

LEMMA ExitNotEnteredStep ==
  ASSUME IInv, NEW t \in Threads, NEW o \in Objects, ExitNotEntered(t, o)
  PROVE  StepOf(t)
<1> USE DEF IInv
<1>0. /\ call[t] \in Call /\ inside[t] \in [Objects -> Nat] /\ NoThread \notin Threads
      /\ DOMAIN data = 1 .. Len(data) /\ Len(data) \in Nat /\ 0 \notin DOMAIN data
  BY CacheTypes, DataTypes, SyncAssumption
<1>1. /\ data' = data /\ mutex' = mutex /\ inside' = inside /\ listLock' = listLock
      /\ call[t].at = "idle" /\ ~Cached(t, o)
      /\ call'[t] = [Idle EXCEPT !.why = "RELEASE", !.obj = o, !.at = "list"]
  BY <1>0 DEF ExitNotEntered, At, Goto, TypeOK, Call
<1>2. TypeOK'
  BY <1>0, <1>1 DEF ExitNotEntered, Goto, TypeOK, Call, Idle
<1>3. Others(t) /\ SameObjects
  BY <1>0, <1>1 DEF ExitNotEntered, Goto, Others, SameObjects, TypeOK, CallShape
<1>4. Items(t)' = Items(t) /\ Data(t)' = Data(t) /\ fast' = fast /\ cache' = cache
  BY DEF ExitNotEntered, Items, Data
<1>5. ItemsDiffer(t)'
  BY <1>1, <1>4 DEF ItemsDiffer
<1>6. ItemsCount(t)'
  BY <1>0, <1>1, <1>4 DEF ExitNotEntered, ItemsCount, Entering, At, Idle
<1>7. CallShape(t)'
  BY <1>0, <1>1, <1>4, UncachedItems DEF CallShape, At, Idle
<1>8. ASSUME NEW p \in DOMAIN data PROVE CountedStep(t, p)
  <2>1. UserOf(t, p)' => UserOf(t, p)
    BY <1>1, <1>4 DEF UserOf, At, Idle
  <2>2. data'[p].threadCount = data[p].threadCount /\ data[p].threadCount \in Nat
    BY <1>1, <1>8, DataTypes DEF SyncData
  <2> QED BY <2>1, <2>2 DEF CountedStep
<1>9. ASSUME NEW p \in DOMAIN data PROVE MutexStep(t, p)
  BY <1>0, <1>1, <1>4, <1>9 DEF ExitNotEntered, MutexStep, Holds, At, Idle
<1> QED BY <1>2, <1>3, <1>5, <1>6, <1>7, <1>8, <1>9 DEF StepOf

LEMMA LockMutexStep ==
  ASSUME IInv, NEW t \in Threads, LockMutex(t)
  PROVE  StepOf(t)
<1> USE DEF IInv
<1>0. /\ call[t] \in Call /\ inside[t] \in [Objects -> Nat] /\ NoThread \notin Threads
      /\ DOMAIN data = 1 .. Len(data) /\ Len(data) \in Nat /\ 0 \notin DOMAIN data
  BY CacheTypes, DataTypes, SyncAssumption
<1>1. /\ data' = data /\ listLock' = listLock /\ call'[t] = Idle
      /\ call[t].at = "lock" /\ call[t].p \in Data(t) /\ call[t].p \in DOMAIN data
      /\ call[t].obj \in Objects /\ data[call[t].p].object = call[t].obj
      /\ mutex[call[t].p].owner \in {NoThread, t}
      /\ mutex' = [mutex EXCEPT ![call[t].p] = [owner |-> t, depth |-> @.depth + 1]]
      /\ inside'[t] = [inside[t] EXCEPT ![call[t].obj] = @ + 1]
  BY <1>0 DEF LockMutex, At, Goto, CallShape, TypeOK, Call
<1>2. TypeOK'
  <2>1. mutex[call[t].p].depth + 1 \in Nat /\ inside[t][call[t].obj] + 1 \in Nat
    BY <1>0, <1>1, DataTypes
  <2>2. mutex' \in [DOMAIN data -> [owner : Threads \cup {NoThread}, depth : Nat]]
    BY <1>1, <2>1 DEF TypeOK
  <2>3. inside' \in [Threads -> [Objects -> Nat]]
    BY <1>0, <1>1, <2>1 DEF LockMutex, TypeOK
  <2> QED BY <1>0, <1>1, <2>2, <2>3 DEF LockMutex, Goto, TypeOK, Call, Idle
<1>3. Others(t) /\ SameObjects
  BY <1>0, <1>1 DEF LockMutex, Goto, Others, SameObjects, TypeOK, CallShape
<1>4. Items(t)' = Items(t) /\ Data(t)' = Data(t) /\ fast' = fast /\ cache' = cache
  BY DEF LockMutex, Items, Data
<1>5. ItemsDiffer(t)'
  BY <1>1, <1>4 DEF ItemsDiffer
<1>6. ItemsCount(t)'
  BY <1>0, <1>1, <1>4 DEF LockMutex, ItemsCount, Entering, At, Idle
<1>7. CallShape(t)'
  BY <1>0, <1>1, <1>4 DEF CallShape, At, Idle
<1>8. ASSUME NEW p \in DOMAIN data PROVE CountedStep(t, p)
  <2>1. UserOf(t, p)' => UserOf(t, p)
    BY <1>1, <1>4 DEF UserOf, At, Idle
  <2>2. data'[p].threadCount = data[p].threadCount /\ data[p].threadCount \in Nat
    BY <1>1, <1>8, DataTypes DEF SyncData
  <2> QED BY <2>1, <2>2 DEF CountedStep
<1>9. ASSUME NEW p \in DOMAIN data PROVE MutexStep(t, p)
  <2>1. CASE p = call[t].p
    <3>1. Holds(t, p) = inside[t][call[t].obj] /\ Holds(t, p)' = inside'[t][call[t].obj]
      BY <1>0, <1>1, <1>4, <2>1 DEF Holds, At, Idle
    <3>2. inside'[t][call[t].obj] = inside[t][call[t].obj] + 1
      BY <1>0, <1>1
    <3>3. mutex'[p] = [owner |-> t, depth |-> mutex[p].depth + 1]
      BY <1>1, <2>1 DEF TypeOK
    <3> QED BY <1>1, <2>1, <3>1, <3>2, <3>3 DEF MutexStep
  <2>2. CASE p # call[t].p
    <3>1. mutex'[p] = mutex[p] /\ data[p].object # call[t].obj
      BY <1>1, <2>2 DEF TypeOK, OneBlockPerObject
    <3>2. inside'[t][data[p].object] = inside[t][data[p].object]
      BY <1>0, <1>1, <3>1, DataTypes DEF SyncData
    <3> QED BY <1>1, <1>4, <3>1, <3>2 DEF MutexStep, Holds, At, Idle
  <2> QED BY <2>1, <2>2
<1> QED BY <1>2, <1>3, <1>5, <1>6, <1>7, <1>8, <1>9 DEF StepOf

LEMMA UnlockMutexStep ==
  ASSUME IInv, NEW t \in Threads, UnlockMutex(t)
  PROVE  StepOf(t)
<1> USE DEF IInv
<1>0. /\ call[t] \in Call /\ inside[t] \in [Objects -> Nat] /\ NoThread \notin Threads
      /\ DOMAIN data = 1 .. Len(data) /\ Len(data) \in Nat /\ 0 \notin DOMAIN data
  BY CacheTypes, DataTypes, SyncAssumption
<1>1. /\ data' = data /\ listLock' = listLock /\ call'[t] = Idle /\ inside' = inside
      /\ call[t].at = "unlock" /\ call[t].p \in DOMAIN data
      /\ mutex' = [mutex EXCEPT ![call[t].p] = IF @.owner # t THEN @
                                   ELSE IF @.depth = 1 THEN Free
                                   ELSE [owner |-> t, depth |-> @.depth - 1]]
  BY <1>0 DEF UnlockMutex, At, Goto, CallShape, TypeOK, Call
<1>own. mutex[call[t].p].owner = t /\ mutex[call[t].p].depth = Holds(t, call[t].p)
       /\ Holds(t, call[t].p) \in Nat /\ Holds(t, call[t].p) >= 1
  <2>1. Holds(t, call[t].p) >= 1
    BY <1>0, <1>1, DataTypes DEF Holds, At, SyncData
  <2> QED BY <1>1, <2>1, HoldsNat DEF MutexOwned
<1>val. mutex'[call[t].p] = IF mutex[call[t].p].depth = 1 THEN Free
                            ELSE [owner |-> t, depth |-> mutex[call[t].p].depth - 1]
  <2> DEFINE q == call[t].p
             m == mutex[q]
             next == IF m.owner # t THEN m
                     ELSE IF m.depth = 1 THEN Free ELSE [owner |-> t, depth |-> m.depth - 1]
  <2>1. mutex' = [mutex EXCEPT ![q] = next] /\ q \in DOMAIN mutex
    BY <1>1 DEF TypeOK
  <2>2. m.owner = t
    BY <1>own
  <2>3. next = IF m.depth = 1 THEN Free ELSE [owner |-> t, depth |-> m.depth - 1]
    BY <2>2
  <2> HIDE DEF next
  <2>4. mutex'[q] = next
    BY <2>1
  <2> QED BY <2>3, <2>4
<1>new. /\ mutex'[call[t].p].owner = IF mutex[call[t].p].depth = 1 THEN NoThread ELSE t
        /\ mutex'[call[t].p].depth = mutex[call[t].p].depth - 1
        /\ \A p \in DOMAIN data \ {call[t].p} : mutex'[p] = mutex[p]
  <2>1. mutex[call[t].p] \in [owner : Threads \cup {NoThread}, depth : Nat]
    BY <1>1 DEF TypeOK
  <2>3. \A p \in DOMAIN data \ {call[t].p} : mutex'[p] = mutex[p]
    BY <1>1 DEF TypeOK
  <2> QED BY <1>own, <1>val, <2>1, <2>3 DEF Free
<1>2. TypeOK'
  <2>1. mutex' \in [DOMAIN data -> [owner : Threads \cup {NoThread}, depth : Nat]]
    <3>1. mutex'[call[t].p] \in [owner : Threads \cup {NoThread}, depth : Nat]
      <4>1. mutex[call[t].p] \in [owner : Threads \cup {NoThread}, depth : Nat]
            /\ mutex[call[t].p].depth \in Nat /\ mutex[call[t].p].depth >= 1
        BY <1>1, <1>own DEF TypeOK
      <4>2. Free \in [owner : Threads \cup {NoThread}, depth : Nat]
        BY DEF Free
      <4> QED BY <1>val, <4>1, <4>2
    <3> QED BY <1>1, <3>1 DEF TypeOK
  <2> QED BY <1>0, <1>1, <2>1 DEF UnlockMutex, Goto, TypeOK, Call, Idle
<1>3. Others(t) /\ SameObjects
  BY <1>0, <1>1 DEF UnlockMutex, Goto, Others, SameObjects, TypeOK, CallShape
<1>4. Items(t)' = Items(t) /\ Data(t)' = Data(t) /\ fast' = fast /\ cache' = cache
  BY DEF UnlockMutex, Items, Data
<1>5. ItemsDiffer(t)'
  BY <1>1, <1>4 DEF ItemsDiffer
<1>6. ItemsCount(t)'
  BY <1>0, <1>1, <1>4 DEF UnlockMutex, ItemsCount, Entering, At, Idle
<1>7. CallShape(t)'
  BY <1>0, <1>1, <1>4 DEF CallShape, At, Idle
<1>8. ASSUME NEW p \in DOMAIN data PROVE CountedStep(t, p)
  <2>1. UserOf(t, p)' => UserOf(t, p)
    BY <1>1, <1>4 DEF UserOf, At, Idle
  <2>2. data'[p].threadCount = data[p].threadCount /\ data[p].threadCount \in Nat
    BY <1>1, <1>8, DataTypes DEF SyncData
  <2> QED BY <2>1, <2>2 DEF CountedStep
<1>9. ASSUME NEW p \in DOMAIN data PROVE MutexStep(t, p)
  <2>1. CASE p = call[t].p
    <3>1. Holds(t, p)' = Holds(t, p) - 1
      BY <1>0, <1>1, <1>4, <2>1, DataTypes DEF Holds, At, Idle, SyncData
    <3> QED BY <1>own, <1>new, <2>1, <3>1 DEF MutexStep
  <2>2. CASE p # call[t].p
    <3>1. Holds(t, p)' = Holds(t, p)
      BY <1>1, <1>4, <2>2 DEF Holds, At, Idle
    <3> QED BY <1>new, <2>2, <3>1 DEF MutexStep
  <2> QED BY <2>1, <2>2
<1> QED BY <1>2, <1>3, <1>5, <1>6, <1>7, <1>8, <1>9 DEF StepOf

LEMMA WalkStep ==
  ASSUME IInv, NEW t \in Threads, Walk(t)
  PROVE  StepOf(t)
<1> USE DEF IInv
<1> DEFINE p == call[t].p
<1>0. /\ call[t] \in Call /\ NoThread \notin Threads
      /\ DOMAIN data = 1 .. Len(data) /\ Len(data) \in Nat /\ 0 \notin DOMAIN data
  BY CacheTypes, DataTypes, SyncAssumption
<1>1. /\ call[t].at = "walk" /\ listLock = t /\ p \in DOMAIN data
      /\ listLock' = listLock /\ mutex' = mutex /\ inside' = inside
      /\ fast' = fast /\ cache' = cache
  BY <1>0 DEF Walk, At, CallShape, Call
<1>2. Items(t)' = Items(t) /\ Data(t)' = Data(t)
  BY <1>1 DEF Items, Data
<1>3. \A q \in DOMAIN data : data[q] \in SyncData /\ data[q].threadCount \in Nat
  BY DataTypes DEF SyncData
<1>4. CASE data[p].object = call[t].obj
  <2>1. /\ data' = [data EXCEPT ![p].threadCount = @ + 1]
        /\ call' = [call EXCEPT ![t] = [call[t] EXCEPT !.at = "found"]]
    BY <1>4 DEF Walk, Goto
  <2>2. data' = [data EXCEPT ![p] = [object |-> data[p].object,
                                     threadCount |-> data[p].threadCount + 1]]
    <3>1. [data[p] EXCEPT !.threadCount = data[p].threadCount + 1]
            = [object |-> data[p].object, threadCount |-> data[p].threadCount + 1]
      BY <1>1, <1>3 DEF SyncData
    <3>2. data' = [data EXCEPT ![p] = [data[p] EXCEPT !.threadCount = data[p].threadCount + 1]]
      BY <2>1
    <3> QED BY <3>1, <3>2
  <2>3. /\ data' \in Seq(SyncData) /\ DOMAIN data' = DOMAIN data /\ Len(data') = Len(data)
        /\ data'[p].threadCount = data[p].threadCount + 1
        /\ data'[p].object = data[p].object
        /\ \A q \in DOMAIN data : q # p => data'[q] = data[q]
    <3>1. [object |-> data[p].object, threadCount |-> data[p].threadCount + 1] \in SyncData
      BY <1>1, <1>3 DEF SyncData
    <3> QED BY <1>0, <1>1, <2>2, <3>1 DEF TypeOK
  <2>4. call'[t] = [call[t] EXCEPT !.at = "found"]
    BY <2>1 DEF TypeOK
  <2>5. TypeOK'
    BY <1>0, <1>1, <2>1, <2>3, <2>4 DEF TypeOK, Call
  <2>6. Others(t) /\ SameObjects
    BY <1>0, <1>1, <2>1, <2>3 DEF Others, SameObjects, TypeOK
  <2>7. ItemsDiffer(t)'
    BY <1>1, <1>2, <2>3 DEF ItemsDiffer
  <2>8. ItemsCount(t)'
    <3>1. \A item \in Items(t) : data'[item.data].object = data[item.data].object
      BY <2>3 DEF ItemsDiffer
    <3>2. \A o : Entering(t, o)' = 0 /\ Entering(t, o) = 0
      BY <1>0, <1>1, <2>4 DEF Entering, At, Call
    <3> QED BY <1>1, <1>2, <3>1, <3>2 DEF ItemsCount
  <2>9. CallShape(t)'
    <3>1. \A item \in Items(t) : data'[item.data].object = data[item.data].object
      BY <2>3 DEF ItemsDiffer
    <3> QED BY <1>0, <1>1, <1>2, <1>4, <2>3, <2>4, <3>1 DEF CallShape, Call
  <2>10. ASSUME NEW q \in DOMAIN data PROVE CountedStep(t, q) /\ MutexStep(t, q)
    <3>1. Holds(t, q)' = Holds(t, q)
      BY <1>0, <1>1, <1>2, <2>3, <2>4 DEF Holds, At, Call
    <3>2. q # p => (UserOf(t, q)' <=> UserOf(t, q))
      BY <1>0, <1>1, <1>2, <2>4 DEF UserOf, At, Call
    <3>3. data'[q].threadCount = IF q = p THEN data[q].threadCount + 1 ELSE data[q].threadCount
      BY <2>3
    <3> QED BY <1>1, <1>3, <3>1, <3>2, <3>3 DEF CountedStep, MutexStep
  <2> QED BY <2>5, <2>6, <2>7, <2>8, <2>9, <2>10 DEF StepOf
<1>5. CASE data[p].object # call[t].obj
  <2> DEFINE unused == IF call[t].unused = 0 /\ Unused(p) THEN p ELSE call[t].unused
  <2>1. data' = data
        /\ call' = [call EXCEPT ![t] = [call[t] EXCEPT !.p = p - 1, !.unused = unused]]
    BY <1>5 DEF Walk, Goto
  <2>2. call'[t] = [call[t] EXCEPT !.p = p - 1, !.unused = unused]
    BY <2>1 DEF TypeOK
  <2>3. unused # 0 => unused \in DOMAIN data /\ Users(unused) = {}
    <3>1. CASE call[t].unused = 0 /\ Unused(p)
      <4>1. Users(p) \subseteq Threads /\ IsFiniteSet(Users(p))
        BY FS_Subset, SyncAssumption DEF Users
      <4>2. 0 >= Cardinality(Users(p))
        BY <1>1, <3>1 DEF Unused, UsersCounted
      <4>3. Users(p) = {}
        BY <4>1, <4>2, FS_EmptySet, FS_CardinalityType
      <4> QED BY <1>1, <3>1, <4>3
    <3>2. CASE ~(call[t].unused = 0 /\ Unused(p))
      BY <1>1, <3>2 DEF CallShape
    <3> QED BY <3>1, <3>2
  <2>4. \A q : Users(q)' = Users(q)
    <3>1. \A u \in Threads : Items(u)' = Items(u)
      BY <1>1 DEF Items
    <3>2. \A u \in Threads \ {t} : call'[u] = call[u]
      BY <2>1 DEF TypeOK
    <3>3. ~At(t, "found") /\ ~At(t, "found")'
      BY <1>0, <1>1, <2>2 DEF At, Call
    <3> QED BY <3>1, <3>2, <3>3 DEF Users, At
  <2>5. p - 1 \in Nat /\ unused \in Nat
    BY <1>0, <1>1, <2>3 DEF Call
  <2> HIDE DEF unused
  <2>6. TypeOK'
    BY <1>0, <1>1, <2>1, <2>2, <2>5 DEF TypeOK, Call
  <2>7. Others(t) /\ SameObjects
    BY <1>0, <1>1, <2>1 DEF Others, SameObjects, TypeOK
  <2>8. ItemsDiffer(t)'
    BY <1>1, <1>2, <2>1 DEF ItemsDiffer
  <2>9. /\ call'[t].at = "walk" /\ call'[t].obj = call[t].obj /\ call'[t].why = call[t].why
        /\ call'[t].p = p - 1 /\ call'[t].unused = unused
    BY <1>0, <1>1, <2>2 DEF Call
  <2>10. ItemsCount(t)'
    BY <1>1, <1>2, <2>1, <2>9 DEF ItemsCount, Entering, At
  <2>11. CallShape(t)'
    <3>1. \A q \in DOMAIN data : q > p - 1 => data[q].object # call[t].obj
      BY <1>0, <1>1, <1>5 DEF CallShape
    <3> QED BY <1>0, <1>1, <1>2, <2>1, <2>3, <2>4, <2>9, <3>1 DEF CallShape
  <2>12. ASSUME NEW q \in DOMAIN data PROVE CountedStep(t, q) /\ MutexStep(t, q)
    <3>1. Holds(t, q)' = Holds(t, q)
      BY <1>1, <1>2, <2>1, <2>9 DEF Holds, At
    <3>2. UserOf(t, q)' <=> UserOf(t, q)
      BY <1>1, <1>2, <2>9 DEF UserOf, At
    <3> QED BY <1>1, <1>3, <2>1, <3>1, <3>2 DEF CountedStep, MutexStep
  <2> QED BY <2>6, <2>7, <2>8, <2>10, <2>11, <2>12 DEF StepOf
<1> QED BY <1>4, <1>5

LEMMA AcquireFoundStep ==
  ASSUME IInv, NEW t \in Threads, AcquireFound(t)
  PROVE  StepOf(t)
<1> USE DEF IInv
<1> DEFINE p == call[t].p
           o == call[t].obj
           new == [data |-> p, lockCount |-> 1]
<1>0. /\ call[t] \in Call /\ inside[t] \in [Objects -> Nat] /\ NoThread \notin Threads
      /\ DOMAIN data = 1 .. Len(data) /\ Len(data) \in Nat /\ 0 \notin DOMAIN data
  BY CacheTypes, DataTypes, SyncAssumption
<1>1. /\ call[t].at = "found" /\ call[t].why = "ACQUIRE" /\ listLock = t
      /\ o \in Objects /\ p \in DOMAIN data /\ data[p].object = o
      /\ \A item \in Items(t) : data[item.data].object # o
      /\ Save(t, p) /\ listLock' = NoThread
      /\ data' = data /\ mutex' = mutex /\ inside' = inside
      /\ call' = [call EXCEPT ![t] = [call[t] EXCEPT !.at = "lock", !.unused = 0]]
  BY DEF AcquireFound, At, CallShape, Goto
<1>2. p \notin Data(t)
  BY <1>1 DEF Data
<1>3. ItemsBecome(t, Items(t) \cup {new})
  BY <1>1, <1>2, SaveItems
<1>4. Items(t)' = Items(t) \cup {new} /\ Data(t)' = Data(t) \cup {p}
      /\ new.data = p /\ new.lockCount = 1
  <2>1. Items(t)' = Items(t) \cup {new} /\ new.data = p
    BY <1>3 DEF ItemsBecome
  <2>2. Data(t)' = {item.data : item \in Items(t)'}
    BY DEF Data
  <2> HIDE DEF new
  <2>3. Data(t)' = Data(t) \cup {p}
    BY <2>1, <2>2 DEF Data
  <2> QED BY <2>1, <2>3 DEF new
<1>5. call'[t] = [call[t] EXCEPT !.at = "lock", !.unused = 0]
  BY <1>1 DEF TypeOK
<1>6. /\ call'[t].at = "lock" /\ call'[t].obj = o /\ call'[t].p = p
      /\ call'[t].why = "ACQUIRE" /\ call'[t] \in Call
  <2>1. call'[t] = [why |-> call[t].why, obj |-> o, at |-> "lock", p |-> p, unused |-> 0]
    BY <1>0, <1>5 DEF Call
  <2>2. call[t].why = "ACQUIRE" /\ p \in Nat /\ o \in Objects
    BY <1>0, <1>1 DEF Call
  <2> HIDE DEF o, p
  <2>3. call'[t] \in Call
    BY ONLY <2>1, <2>2 DEF Call
  <2> QED BY ONLY <2>1, <2>2, <2>3
<1>7. TypeOK'
  BY <1>1, <1>3, <1>6 DEF TypeOK, ItemsBecome
<1>8. Others(t) /\ SameObjects
  BY <1>0, <1>1, <1>3 DEF Others, SameObjects, TypeOK, ItemsBecome
<1>9. ItemsDiffer(t)'
  BY <1>1, <1>3, <1>4 DEF ItemsDiffer, ItemsBecome
<1>10. inside[t][o] = 0
  BY <1>0, <1>1 DEF ItemsCount, Entering, At
<1>11. ItemsCount(t)'
  <2>1. ASSUME NEW q \in Objects
        PROVE  /\ \A item \in Items(t)' : data[item.data].object = q
                    => item.lockCount = inside[t][q] + Entering(t, q)'
               /\ inside[t][q] + Entering(t, q)' > 0
                    => \E item \in Items(t)' : data[item.data].object = q
    <3>1. Entering(t, q) = 0 /\ Entering(t, q)' = IF q = o THEN 1 ELSE 0
      BY <1>1, <1>6 DEF Entering, At
    <3>2. CASE q = o
      <4>1. \A item \in Items(t)' : data[item.data].object = o => item = new
        BY <1>1, <1>4
      <4>2. new \in Items(t)' /\ data[new.data].object = o
        BY <1>1, <1>4
      <4>3. inside[t][q] = 0 /\ Entering(t, q)' = 1
        BY <1>10, <3>1, <3>2
      <4>4. \A item \in Items(t)' : data[item.data].object = q
              => item.lockCount = inside[t][q] + Entering(t, q)'
        BY <1>4, <3>2, <4>1, <4>3
      <4>5. \E item \in Items(t)' : data[item.data].object = q
        BY <3>2, <4>2
      <4> QED BY <4>4, <4>5
    <3>3. CASE q # o
      BY <1>0, <1>1, <1>4, <3>1, <3>3 DEF ItemsCount
    <3> QED BY <3>2, <3>3
  <2> QED BY <1>1, <2>1 DEF ItemsCount
<1>12. CallShape(t)'
  BY <1>1, <1>4, <1>6 DEF CallShape
<1>13. ASSUME NEW q \in DOMAIN data PROVE CountedStep(t, q) /\ MutexStep(t, q)
  <2>1. UserOf(t, q)' <=> UserOf(t, q)
    BY <1>1, <1>4, <1>6 DEF UserOf, At
  <2>2. Holds(t, q)' = Holds(t, q)
    BY <1>0, <1>1, <1>2, <1>4, <1>6, <1>10 DEF Holds, At
  <2>3. data[q].threadCount \in Nat
    BY DataTypes DEF SyncData
  <2> QED BY <1>1, <2>1, <2>2, <2>3 DEF CountedStep, MutexStep
<1> QED BY <1>7, <1>8, <1>9, <1>11, <1>12, <1>13 DEF StepOf

\* What Enter and Exit do to the item for an object.
LEMMA ItemBecomes ==
  ASSUME IInv, NEW t \in Threads, NEW o \in Objects, NEW n \in Nat,
         call[t].at = "idle", Cached(t, o), SetLockCount(t, o, n)
  PROVE  LET p == Item(t, o).data
             new == [data |-> p, lockCount |-> n]
         IN /\ p \in DOMAIN data /\ data[p].object = o /\ p \in Data(t)
            /\ Item(t, o).lockCount = inside[t][o] /\ inside[t][o] > 0
            /\ ItemsBecome(t, Items(t)')
            /\ \A x \in Items(t)' : \/ x \in Items(t) /\ x.data # p /\ data[x.data].object # o
                                    \/ n # 0 /\ x = new
            /\ \A x \in Items(t) : data[x.data].object # o => x \in Items(t)'
            /\ n # 0 => new \in Items(t)'
            /\ Data(t)' = IF n = 0 THEN Data(t) \ {p} ELSE Data(t)
<1> USE DEF IInv
<1> DEFINE p == Item(t, o).data
           new == [data |-> p, lockCount |-> n]
<1>1. /\ Item(t, o) \in Items(t) /\ data[p].object = o
      /\ \A x \in Items(t) : data[x.data].object = o => x.data = p
  BY FindItem
<1>2. p \in DOMAIN data /\ p \in Data(t) /\ Item(t, o).lockCount > 0
  BY <1>1 DEF ItemsDiffer, Data
<1>3. Item(t, o).lockCount = inside[t][o]
  <2>1. Entering(t, o) = 0
    BY DEF Entering, At
  <2>2. inside[t][o] \in Nat
    BY DEF TypeOK
  <2> QED BY <1>1, <2>1, <2>2 DEF ItemsCount
<1>4. ItemsBecome(t, {x \in Items(t) : x.data # p} \cup (IF n = 0 THEN {} ELSE {new}))
  BY SetItems
<1>5. Items(t)' = {x \in Items(t) : x.data # p} \cup (IF n = 0 THEN {} ELSE {new})
  BY <1>4 DEF ItemsBecome
<1>6. ItemsBecome(t, Items(t)')
  BY <1>4, <1>5
<1>7. new.data = p /\ Data(t)' = {x.data : x \in Items(t)'}
  BY DEF Data
<1> HIDE DEF p, new
<1>8. /\ \A x \in Items(t)' : \/ x \in Items(t) /\ x.data # p /\ data[x.data].object # o
                              \/ n # 0 /\ x = new
      /\ \A x \in Items(t) : data[x.data].object # o => x \in Items(t)'
      /\ n # 0 => new \in Items(t)'
  <2>1. \A x \in Items(t) : x.data = p <=> data[x.data].object = o
    BY <1>1
  <2>2. CASE n = 0
    BY <1>5, <2>1, <2>2
  <2>3. CASE n # 0
    BY <1>5, <2>1, <2>3
  <2> QED BY <2>2, <2>3
<1>9. Data(t)' = IF n = 0 THEN Data(t) \ {p} ELSE Data(t)
  <2>1. CASE n = 0
    <3>1. Items(t)' = {x \in Items(t) : x.data # p}
      BY <1>5, <2>1
    <3> QED BY <1>7, <2>1, <3>1 DEF Data
  <2>2. CASE n # 0
    <3>1. Items(t)' = {x \in Items(t) : x.data # p} \cup {new}
      BY <1>5, <2>2
    <3>2. \A q : q \in Data(t) => q \in Data(t)'
      BY <1>7, <3>1 DEF Data
    <3>3. \A q : q \in Data(t)' => q \in Data(t)
      BY <1>2, <1>7, <3>1 DEF Data
    <3> QED BY <2>2, <3>2, <3>3
  <2> QED BY <2>1, <2>2
<1> QED BY <1>1, <1>2, <1>3, <1>6, <1>8, <1>9 DEF p, new

LEMMA EnterStep ==
  ASSUME IInv, NEW t \in Threads, NEW o \in Objects, Enter(t, o)
  PROVE  StepOf(t)
<1> USE DEF IInv
<1>0. /\ call[t] \in Call /\ inside[t] \in [Objects -> Nat] /\ NoThread \notin Threads
      /\ DOMAIN data = 1 .. Len(data) /\ Len(data) \in Nat /\ 0 \notin DOMAIN data
      /\ \A q \in DOMAIN data : data[q].threadCount \in Nat
  BY CacheTypes, DataTypes, SyncAssumption DEF SyncData
<1>1. /\ call[t].at = "idle" /\ data' = data /\ mutex' = mutex /\ inside' = inside
      /\ listLock' = listLock
  BY DEF Enter, At
<1>2. CASE Cached(t, o)
  <2> DEFINE p == Item(t, o).data
             n == Item(t, o).lockCount + 1
             new == [data |-> p, lockCount |-> n]
             c == [why |-> "ACQUIRE", obj |-> o, at |-> "lock", p |-> p, unused |-> 0]
  <2>1. SetLockCount(t, o, n) /\ call' = [call EXCEPT ![t] = c]
    BY <1>2 DEF Enter, Goto, Idle
  <2>2. n \in Nat /\ n # 0 /\ p \in Nat
    <3>1. Item(t, o) \in SyncCacheItem
      BY <1>2, FindItem, CacheTypes
    <3> QED BY <3>1 DEF SyncCacheItem
  <2>3. /\ p \in DOMAIN data /\ data[p].object = o /\ p \in Data(t)
        /\ Item(t, o).lockCount = inside[t][o] /\ inside[t][o] > 0
        /\ ItemsBecome(t, Items(t)')
        /\ \A x \in Items(t)' : \/ x \in Items(t) /\ x.data # p /\ data[x.data].object # o
                                \/ n # 0 /\ x = new
        /\ \A x \in Items(t) : data[x.data].object # o => x \in Items(t)'
        /\ n # 0 => new \in Items(t)'
        /\ Data(t)' = IF n = 0 THEN Data(t) \ {p} ELSE Data(t)
    BY <1>1, <1>2, <2>1, <2>2, ItemBecomes
  <2>4. new.data = p /\ new.lockCount = n /\ n = inside[t][o] + 1
    BY <2>3
  <2>5. c.at = "lock" /\ c.obj = o /\ c.p = p /\ c.why = "ACQUIRE" /\ c.unused = 0 /\ c \in Call
    BY <2>2 DEF Call
  <2> HIDE DEF p, n, new, c
  <2>6. call'[t] = c /\ \A u \in Threads \ {t} : call'[u] = call[u]
    BY <2>1 DEF TypeOK
  <2>7. TypeOK'
    BY <1>1, <2>1, <2>3, <2>5 DEF TypeOK, ItemsBecome
  <2>8. Others(t) /\ SameObjects
    BY <1>1, <2>3, <2>6 DEF Others, SameObjects, ItemsBecome
  <2>9. ItemsDiffer(t)'
    <3>1. \A x \in Items(t)' : x.data \in DOMAIN data /\ x.lockCount > 0
      BY <2>2, <2>3, <2>4 DEF ItemsDiffer
    <3> QED BY <1>1, <2>3, <3>1 DEF ItemsDiffer, ItemsBecome
  <2>10. ItemsCount(t)'
    <3>1. ASSUME NEW q \in Objects
          PROVE  /\ \A x \in Items(t)' : data[x.data].object = q
                      => x.lockCount = inside[t][q] + Entering(t, q)'
                 /\ inside[t][q] + Entering(t, q)' > 0
                      => \E x \in Items(t)' : data[x.data].object = q
      <4>1. Entering(t, q) = 0 /\ Entering(t, q)' = IF q = o THEN 1 ELSE 0
        BY <1>1, <2>5, <2>6 DEF Entering, At
      <4>2. CASE q = o
        <5>1. \A x \in Items(t)' : data[x.data].object = o => x = new
          BY <2>3
        <5>2. \E x \in Items(t)' : data[x.data].object = q
          BY <2>2, <2>3, <2>4, <4>2
        <5>3. \A x \in Items(t)' : data[x.data].object = q
                => x.lockCount = inside[t][q] + Entering(t, q)'
          BY <2>4, <4>1, <4>2, <5>1
        <5> QED BY <5>2, <5>3
      <4>3. CASE q # o
        <5>1. \A x \in Items(t)' : data[x.data].object = q => x \in Items(t)
          BY <2>3, <2>4, <4>3
        <5>2. \A x \in Items(t)' : data[x.data].object = q
                => x.lockCount = inside[t][q] + Entering(t, q)'
          BY <4>1, <4>3, <5>1 DEF ItemsCount
        <5>3. inside[t][q] + Entering(t, q)' > 0
                => \E x \in Items(t)' : data[x.data].object = q
          BY <2>3, <4>1, <4>3 DEF ItemsCount
        <5> QED BY <5>2, <5>3
      <4> QED BY <4>2, <4>3
    <3> QED BY <1>1, <3>1 DEF ItemsCount
  <2>11. CallShape(t)'
    BY <1>1, <2>2, <2>3, <2>5, <2>6 DEF CallShape
  <2>12. ASSUME NEW q \in DOMAIN data PROVE CountedStep(t, q) /\ MutexStep(t, q)
    <3>1. Data(t)' = Data(t)
      BY <2>2, <2>3
    <3>2. UserOf(t, q)' <=> UserOf(t, q)
      BY <1>1, <2>5, <2>6, <3>1 DEF UserOf, At
    <3>3. Holds(t, q)' = Holds(t, q)
      BY <1>1, <2>5, <2>6, <3>1 DEF Holds, At
    <3> QED BY <1>0, <1>1, <3>2, <3>3 DEF CountedStep, MutexStep
  <2> QED BY <2>7, <2>8, <2>9, <2>10, <2>11, <2>12 DEF StepOf
<1>3. CASE ~Cached(t, o)
  <2> DEFINE c == [why |-> "ACQUIRE", obj |-> o, at |-> "list", p |-> 0, unused |-> 0]
  <2>1. fast' = fast /\ cache' = cache /\ call' = [call EXCEPT ![t] = c]
    BY <1>3 DEF Enter, Goto, Idle
  <2>2. c.at = "list" /\ c.obj = o /\ c.why = "ACQUIRE" /\ c.unused = 0 /\ c \in Call
    BY DEF Call
  <2> HIDE DEF c
  <2>3. call'[t] = c /\ \A u \in Threads \ {t} : call'[u] = call[u]
    BY <2>1 DEF TypeOK
  <2>4. Items(t)' = Items(t) /\ Data(t)' = Data(t)
    BY <2>1 DEF Items, Data
  <2>5. TypeOK'
    BY <1>1, <2>1, <2>2 DEF TypeOK
  <2>6. Others(t) /\ SameObjects
    BY <1>1, <2>1, <2>3 DEF Others, SameObjects
  <2>7. ItemsDiffer(t)'
    BY <1>1, <2>1, <2>4 DEF ItemsDiffer
  <2>8. ItemsCount(t)'
    BY <1>1, <2>2, <2>3, <2>4 DEF ItemsCount, Entering, At
  <2>9. CallShape(t)'
    BY <1>1, <1>3, <2>2, <2>3, <2>4, UncachedItems DEF CallShape
  <2>10. ASSUME NEW q \in DOMAIN data PROVE CountedStep(t, q) /\ MutexStep(t, q)
    <3>1. UserOf(t, q)' <=> UserOf(t, q)
      BY <1>1, <2>2, <2>3, <2>4 DEF UserOf, At
    <3>2. Holds(t, q)' = Holds(t, q)
      BY <1>1, <2>2, <2>3, <2>4 DEF Holds, At
    <3> QED BY <1>0, <1>1, <3>1, <3>2 DEF CountedStep, MutexStep
  <2> QED BY <2>5, <2>6, <2>7, <2>8, <2>9, <2>10 DEF StepOf
<1> QED BY <1>2, <1>3

LEMMA ExitCall ==
  ASSUME NEW o, NEW p
  PROVE  [Idle EXCEPT !.why = "RELEASE", !.obj = o, !.at = "unlock", !.p = p]
           = [why |-> "RELEASE", obj |-> o, at |-> "unlock", p |-> p, unused |-> 0]
<1> DEFINE a == [why |-> "RELEASE", obj |-> 0, at |-> "idle", p |-> 0, unused |-> 0]
           b == [why |-> "RELEASE", obj |-> o, at |-> "idle", p |-> 0, unused |-> 0]
           c == [why |-> "RELEASE", obj |-> o, at |-> "unlock", p |-> 0, unused |-> 0]
           d == [why |-> "RELEASE", obj |-> o, at |-> "unlock", p |-> p, unused |-> 0]
<1>1. [Idle EXCEPT !.why = "RELEASE"] = a
  BY DEF Idle
<1>2. [a EXCEPT !.obj = o] = b
  OBVIOUS
<1>3. [b EXCEPT !.at = "unlock"] = c
  OBVIOUS
<1>4. [c EXCEPT !.p = p] = d
  OBVIOUS
<1> HIDE DEF a, b, c, d
<1>5. [Idle EXCEPT !.why = "RELEASE", !.obj = o, !.at = "unlock", !.p = p] = d
  BY <1>1, <1>2, <1>3, <1>4
<1> QED BY <1>5 DEF d

LEMMA ExitStep ==
  ASSUME IInv, NEW t \in Threads, NEW o \in Objects, Exit(t, o)
  PROVE  StepOf(t)
<1> USE DEF IInv
<1> DEFINE p == Item(t, o).data
           n == Item(t, o).lockCount - 1
           new == [data |-> p, lockCount |-> n]
           c == [why |-> "RELEASE", obj |-> o, at |-> "unlock", p |-> p, unused |-> 0]
<1>0. /\ call[t] \in Call /\ inside[t] \in [Objects -> Nat] /\ NoThread \notin Threads
      /\ DOMAIN data = 1 .. Len(data) /\ Len(data) \in Nat /\ 0 \notin DOMAIN data
      /\ \A q \in DOMAIN data : data[q] \in SyncData /\ data[q].threadCount \in Nat
  BY CacheTypes, DataTypes, SyncAssumption DEF SyncData
<1>1. /\ call[t].at = "idle" /\ Cached(t, o) /\ o \in Held(t)
      /\ mutex' = mutex /\ listLock' = listLock
      /\ inside' = [inside EXCEPT ![t][o] = inside[t][o] - 1]
      /\ SetLockCount(t, o, n) /\ call' = [call EXCEPT ![t] = c]
      /\ data' = IF n = 0 THEN [data EXCEPT ![p].threadCount = @ - 1] ELSE data
  <2>1. /\ At(t, "idle") /\ o \in Held(t) /\ Cached(t, o)
        /\ inside' = [inside EXCEPT ![t][o] = @ - 1]
        /\ UNCHANGED <<listLock, mutex>>
    BY DEF Exit
  <2>2. SetLockCount(t, o, n)
    BY DEF Exit
  <2>3. Goto(t, [Idle EXCEPT !.why = "RELEASE", !.obj = o, !.at = "unlock", !.p = p])
    BY DEF Exit
  <2>4. data' = IF GivenUp(n) THEN [data EXCEPT ![p].threadCount = @ - 1] ELSE data
    BY DEF Exit
  <2>5. call' = [call EXCEPT ![t] = c]
    <3>1. [Idle EXCEPT !.why = "RELEASE", !.obj = o, !.at = "unlock", !.p = p] = c
      BY ExitCall
    <3> HIDE DEF c
    <3> QED BY <2>3, <3>1 DEF Goto
  <2>6. inside' = [inside EXCEPT ![t][o] = inside[t][o] - 1]
    BY <2>1
  <2>7. n = 0 <=> GivenUp(n)
    BY DEF GivenUp
  <2> QED BY <2>1, <2>2, <2>4, <2>5, <2>6, <2>7 DEF At
<1>2. n \in Nat /\ p \in Nat
  <2>1. Item(t, o) \in Items(t) /\ Item(t, o) \in SyncCacheItem
    BY <1>1, FindItem, CacheTypes
  <2> QED BY <2>1 DEF SyncCacheItem, ItemsDiffer
<1>3. /\ p \in DOMAIN data /\ data[p].object = o /\ p \in Data(t)
      /\ Item(t, o).lockCount = inside[t][o] /\ inside[t][o] > 0
      /\ ItemsBecome(t, Items(t)')
      /\ \A x \in Items(t)' : \/ x \in Items(t) /\ x.data # p /\ data[x.data].object # o
                              \/ n # 0 /\ x = new
      /\ \A x \in Items(t) : data[x.data].object # o => x \in Items(t)'
      /\ n # 0 => new \in Items(t)'
      /\ Data(t)' = IF n = 0 THEN Data(t) \ {p} ELSE Data(t)
  <2>1. call[t].at = "idle" /\ Cached(t, o) /\ SetLockCount(t, o, n) /\ n \in Nat
    BY <1>1, <1>2
  <2> HIDE DEF n
  <2> QED BY <2>1, ItemBecomes
<1>4. new.data = p /\ new.lockCount = n /\ n = inside[t][o] - 1 /\ inside[t][o] \in Nat
  BY <1>0, <1>3
<1>5. c.at = "unlock" /\ c.obj = o /\ c.p = p /\ c.why = "RELEASE" /\ c.unused = 0 /\ c \in Call
  BY <1>2 DEF Call
<1> HIDE DEF p, n, new, c
<1>6. call'[t] = c /\ \A u \in Threads \ {t} : call'[u] = call[u]
  BY <1>1 DEF TypeOK
<1>7. /\ inside' \in [Threads -> [Objects -> Nat]]
      /\ inside'[t][o] = n /\ \A q \in Objects : q # o => inside'[t][q] = inside[t][q]
      /\ \A u \in Threads \ {t} : inside'[u] = inside[u]
  <2>1. inside'[t] = [inside[t] EXCEPT ![o] = n]
    BY <1>1, <1>4 DEF TypeOK
  <2>2. inside' = [inside EXCEPT ![t] = [inside[t] EXCEPT ![o] = n]]
    BY <1>1, <1>4 DEF TypeOK
  <2>3. [inside[t] EXCEPT ![o] = n] \in [Objects -> Nat]
    BY <1>0, <1>2
  <2> QED BY <1>0, <2>1, <2>2, <2>3 DEF TypeOK
<1>8. data[p].threadCount > 0
  <2>1. Users(p) \subseteq Threads /\ t \in Users(p)
    BY <1>3, UsersAre DEF UserOf
  <2>2. Cardinality(Users(p)) \in Nat /\ Cardinality(Users(p)) # 0
    BY <2>1, FS_Subset, FS_EmptySet, FS_CardinalityType, SyncAssumption
  <2> QED BY <1>0, <1>3, <2>2 DEF UsersCounted
<1>9. /\ data' \in Seq(SyncData) /\ DOMAIN data' = DOMAIN data /\ Len(data') = Len(data)
      /\ \A q \in DOMAIN data : data'[q].object = data[q].object
      /\ \A q \in DOMAIN data :
           data'[q].threadCount = IF n = 0 /\ q = p THEN data[q].threadCount - 1
                                                    ELSE data[q].threadCount
  <2>1. CASE n = 0
    <3> DEFINE b == [object |-> data[p].object, threadCount |-> data[p].threadCount - 1]
    <3>1. b \in SyncData
      BY <1>0, <1>3, <1>8 DEF SyncData
    <3>2. [data[p] EXCEPT !.threadCount = data[p].threadCount - 1] = b
      BY <1>0, <1>3 DEF SyncData
    <3>3. data' = [data EXCEPT ![p] = [data[p] EXCEPT !.threadCount = data[p].threadCount - 1]]
      BY <1>1, <2>1
    <3>4. data' = [data EXCEPT ![p] = b]
      BY <3>2, <3>3
    <3>5. b.object = data[p].object /\ b.threadCount = data[p].threadCount - 1
      OBVIOUS
    <3> HIDE DEF b
    <3>6. /\ data' \in Seq(SyncData) /\ DOMAIN data' = DOMAIN data /\ Len(data') = Len(data)
          /\ data'[p] = b /\ \A q \in DOMAIN data : q # p => data'[q] = data[q]
      BY <1>0, <1>3, <3>1, <3>4 DEF TypeOK
    <3> QED BY <2>1, <3>5, <3>6
  <2>2. CASE n # 0
    BY <1>1, <2>2 DEF TypeOK
  <2> QED BY <2>1, <2>2
<1>10. TypeOK'
  BY <1>1, <1>3, <1>5, <1>7, <1>9 DEF TypeOK, ItemsBecome
<1>11. Others(t) /\ SameObjects
  BY <1>1, <1>3, <1>6, <1>7, <1>9 DEF Others, SameObjects, ItemsBecome
<1>12. \A x \in Items(t)' : x.data \in DOMAIN data /\ x.lockCount > 0
  BY <1>2, <1>3, <1>4 DEF ItemsDiffer
<1>13. ItemsDiffer(t)'
  BY <1>3, <1>9, <1>12 DEF ItemsDiffer, ItemsBecome
<1>14. ItemsCount(t)'
  <2>1. ASSUME NEW q \in Objects
        PROVE  /\ \A x \in Items(t)' : data[x.data].object = q
                    => x.lockCount = inside'[t][q] + Entering(t, q)'
               /\ inside'[t][q] + Entering(t, q)' > 0
                    => \E x \in Items(t)' : data[x.data].object = q
    <3>1. Entering(t, q) = 0 /\ Entering(t, q)' = 0
      BY <1>1, <1>5, <1>6 DEF Entering, At
    <3>2. CASE q = o
      <4>1. \A x \in Items(t)' : data[x.data].object = o => x = new
        BY <1>3
      <4>2. inside'[t][q] = n
        BY <1>7, <3>2
      <4>3. n > 0 => \E x \in Items(t)' : data[x.data].object = q
        BY <1>3, <1>4, <3>2
      <4>4. \A x \in Items(t)' : data[x.data].object = q
              => x.lockCount = inside'[t][q] + Entering(t, q)'
        BY <1>2, <1>4, <3>1, <3>2, <4>1, <4>2
      <4> QED BY <1>2, <3>1, <4>2, <4>3, <4>4
    <3>3. CASE q # o
      <4>1. \A x \in Items(t)' : data[x.data].object = q => x \in Items(t)
        BY <1>3, <1>4, <3>3
      <4>2. inside'[t][q] = inside[t][q]
        BY <1>7, <3>3
      <4>3. \A x \in Items(t)' : data[x.data].object = q
              => x.lockCount = inside'[t][q] + Entering(t, q)'
        BY <3>1, <4>1, <4>2 DEF ItemsCount
      <4>4. inside'[t][q] + Entering(t, q)' > 0
              => \E x \in Items(t)' : data[x.data].object = q
        BY <1>3, <3>1, <3>3, <4>2 DEF ItemsCount
      <4> QED BY <4>3, <4>4
    <3> QED BY <3>2, <3>3
  <2> QED BY <1>9, <1>12, <2>1 DEF ItemsCount
<1>15. CallShape(t)'
  BY <1>3, <1>5, <1>6, <1>9 DEF CallShape
<1>16. ASSUME NEW q \in DOMAIN data PROVE CountedStep(t, q)
  <2>1. UserOf(t, q)' <=> q \in Data(t)'
    BY <1>5, <1>6 DEF UserOf, At
  <2>2. UserOf(t, q) <=> q \in Data(t)
    BY <1>1 DEF UserOf, At
  <2> QED BY <1>0, <1>3, <1>9, <2>1, <2>2 DEF CountedStep
<1>17. ASSUME NEW q \in DOMAIN data PROVE Holds(t, q)' = Holds(t, q)
  <2>1. Holds(t, q) = IF q \in Data(t) THEN inside[t][data[q].object] ELSE 0
    <3>1. data[q].object \in Objects
      BY <1>0 DEF SyncData
    <3> QED BY <1>0, <1>1, <3>1 DEF Holds, At
  <2>2. Holds(t, q)' = (IF q \in Data(t)' THEN inside'[t][data[q].object] ELSE 0)
                         + (IF q = p THEN 1 ELSE 0)
    BY <1>5, <1>6, <1>9 DEF Holds, At
  <2>3. CASE q = p
    <3>1. inside'[t][data[q].object] = n /\ inside[t][data[q].object] = n + 1
      BY <1>2, <1>3, <1>4, <1>7, <2>3
    <3> QED BY <1>2, <1>3, <2>1, <2>2, <2>3, <3>1
  <2>4. CASE q # p
    <3>1. data[q].object # o /\ data[q].object \in Objects
      BY <1>0, <1>3, <2>4 DEF SyncData, OneBlockPerObject
    <3>2. inside'[t][data[q].object] = inside[t][data[q].object] /\ inside[t][data[q].object] \in Nat
      BY <1>0, <1>7, <3>1
    <3>3. q \in Data(t)' <=> q \in Data(t)
      BY <1>3, <2>4
    <3> QED BY <2>1, <2>2, <2>4, <3>2, <3>3
  <2> QED BY <2>3, <2>4
<1>18. \A q \in DOMAIN data : CountedStep(t, q) /\ MutexStep(t, q)
  BY <1>1, <1>16, <1>17 DEF MutexStep
<1> QED BY <1>10, <1>11, <1>13, <1>14, <1>15, <1>18 DEF StepOf

LEMMA ClaimKeeps ==
  ASSUME IInv, NEW t \in Threads, Claim(t)
  PROVE  IInv'
<1> USE DEF IInv
<1> DEFINE p == IF call[t].unused # 0 THEN call[t].unused ELSE Len(data) + 1
           o == call[t].obj
           block == [object |-> o, threadCount |-> 1]
<1>0. /\ call[t] \in Call /\ NoThread \notin Threads /\ IsFiniteSet(Threads)
      /\ DOMAIN data = 1 .. Len(data) /\ Len(data) \in Nat /\ 0 \notin DOMAIN data
      /\ \A q \in DOMAIN data : data[q] \in SyncData
  BY CacheTypes, DataTypes, SyncAssumption
<1>1. /\ call[t].at = "walk" /\ call[t].why = "ACQUIRE" /\ call[t].p = 0 /\ listLock = t
      /\ o \in Objects
      /\ \A q \in DOMAIN data : data[q].object # o
      /\ call[t].unused # 0 => call[t].unused \in DOMAIN data /\ Users(call[t].unused) = {}
  <2>1. /\ call[t].at = "walk" /\ call[t].why = "ACQUIRE" /\ call[t].p = 0
    BY DEF Claim, At
  <2>2. CallShape(t)
    OBVIOUS
  <2>3. \A q \in DOMAIN data : q > 0
    BY <1>0
  <2> QED BY <2>1, <2>2, <2>3 DEF CallShape
<1>2. /\ data' = [q \in DOMAIN data \cup {p} |-> IF q = p THEN block ELSE data[q]]
      /\ mutex' = [q \in DOMAIN mutex \cup {p} |-> IF q \in DOMAIN mutex THEN mutex[q] ELSE Free]
      /\ call' = [call EXCEPT ![t] = [call[t] EXCEPT !.at = "found", !.p = p]]
      /\ listLock' = listLock /\ fast' = fast /\ cache' = cache /\ inside' = inside
  BY DEF Claim, Goto
<1>3. /\ p \in DOMAIN data => Users(p) = {}
      /\ DOMAIN data \cup {p} = 1 .. (IF p \in DOMAIN data THEN Len(data) ELSE Len(data) + 1)
      /\ p \in Nat
  <2>1. CASE call[t].unused # 0
    BY <1>0, <1>1, <2>1
  <2>2. CASE call[t].unused = 0
    BY <1>0, <2>2
  <2> QED BY <2>1, <2>2
<1>4. /\ call'[t].at = "found" /\ call'[t].why = "ACQUIRE" /\ call'[t].p = p /\ call'[t].obj = o
      /\ call' \in [Threads -> Call] /\ \A u \in Threads \ {t} : call'[u] = call[u]
  <2>1. call'[t] = [call[t] EXCEPT !.at = "found", !.p = p]
    BY <1>2 DEF TypeOK
  <2> HIDE DEF p
  <2>2. [call[t] EXCEPT !.at = "found", !.p = p] \in Call
    BY <1>0, <1>3 DEF Call
  <2> QED BY <1>0, <1>1, <1>2, <2>1, <2>2 DEF TypeOK, Call
<1>5. block.object = o /\ block.threadCount = 1 /\ block \in SyncData
  BY <1>1 DEF SyncData
<1> HIDE DEF p, o, block
<1>6. /\ DOMAIN data' = DOMAIN data \cup {p} /\ data'[p] = block
      /\ \A q \in DOMAIN data : q # p => data'[q] = data[q]
      /\ data' \in Seq(SyncData) /\ Len(data') \in Nat /\ DOMAIN data' = 1 .. Len(data')
  <2> DEFINE n == IF p \in DOMAIN data THEN Len(data) ELSE Len(data) + 1
  <2>1. DOMAIN data' = DOMAIN data \cup {p} /\ data'[p] = block
        /\ \A q \in DOMAIN data : q # p => data'[q] = data[q]
    BY <1>2
  <2>2. n \in Nat /\ DOMAIN data' = 1 .. n
    BY <1>0, <1>3, <2>1
  <2> HIDE DEF n
  <2>3. data' \in [1 .. n -> SyncData]
    BY <1>0, <1>2, <1>5, <2>1, <2>2
  <2>4. data' \in Seq(SyncData)
    BY <2>2, <2>3, SeqDef
  <2> QED BY <2>1, <2>4
<1>7. /\ mutex' \in [DOMAIN data' -> [owner : Threads \cup {NoThread}, depth : Nat]]
      /\ \A q \in DOMAIN data : mutex'[q] = mutex[q]
      /\ p \notin DOMAIN data => mutex'[p].owner = NoThread /\ mutex'[p].depth = 0
  <2>1. DOMAIN mutex = DOMAIN data
    BY DEF TypeOK
  <2>2. Free \in [owner : Threads \cup {NoThread}, depth : Nat]
    BY DEF Free
  <2> QED BY <1>2, <1>6, <2>1, <2>2 DEF TypeOK, Free
<1>8. TypeOK'
  BY <1>2, <1>4, <1>6, <1>7 DEF TypeOK
<1>9. \A u \in Threads : Items(u)' = Items(u) /\ Data(u)' = Data(u)
  <2>1. \A u \in Threads : Items(u)' = Items(u)
    BY <1>2 DEF Items
  <2> QED BY <2>1 DEF Data
<1>10. \A u \in Threads : p \notin Data(u)
  <2>1. CASE p \in DOMAIN data
    BY <1>3, <2>1, UsersAre DEF UserOf
  <2>2. CASE p \notin DOMAIN data
    BY <2>2 DEF Data, ItemsDiffer
  <2> QED BY <2>1, <2>2
<1>11. \A u \in Threads : \A x \in Items(u) :
         x.data \in DOMAIN data /\ x.data # p /\ data'[x.data] = data[x.data]
  BY <1>6, <1>10 DEF Data, ItemsDiffer
<1>12. \A u \in Threads \ {t} : call[u].at \notin {"walk", "found"}
  BY <1>1 DEF CallShape
<1>13. OneBlockPerObject'
  BY <1>1, <1>5, <1>6 DEF OneBlockPerObject
<1>14. \A u \in Threads : \A q : UserOf(u, q)' <=> UserOf(u, q) \/ (u = t /\ q = p)
  <2>1. \A q : UserOf(t, q)' <=> UserOf(t, q) \/ q = p
    BY <1>1, <1>4, <1>9 DEF UserOf, At
  <2>2. \A u \in Threads \ {t} : \A q : UserOf(u, q)' <=> UserOf(u, q)
    BY <1>4, <1>9 DEF UserOf, At
  <2> QED BY <2>1, <2>2
<1>15. UsersCounted'
  <2> SUFFICES ASSUME NEW q \in DOMAIN data'
               PROVE  data'[q].threadCount >= Cardinality(Users(q)')
    BY DEF UsersCounted
  <2>1. Users(q)' = {u \in Threads : UserOf(u, q)'}
    BY DEF Users, UserOf, Data
  <2>2. CASE q = p
    <3>1. \A u \in Threads : ~UserOf(u, p)
      <4>1. CASE p \in DOMAIN data
        BY <1>3, <4>1, UsersAre
      <4>2. CASE p \notin DOMAIN data
        BY <1>10, <4>2 DEF UserOf, CallShape, At
      <4> QED BY <4>1, <4>2
    <3>2. Users(q)' = {t}
      BY <1>14, <2>1, <2>2, <3>1
    <3>3. Cardinality({t}) = 1
      BY FS_Singleton
    <3> QED BY <1>5, <1>6, <2>2, <3>2, <3>3
  <2>3. CASE q # p
    <3>1. Users(q)' = Users(q)
      BY <1>14, <2>1, <2>3, UsersAre
    <3> QED BY <1>6, <2>3, <3>1 DEF UsersCounted
  <2> QED BY <2>2, <2>3
<1>16. \A u \in Threads : \A q \in DOMAIN data' :
         Holds(u, q)' = IF q \in DOMAIN data THEN Holds(u, q) ELSE 0
  <2> SUFFICES ASSUME NEW u \in Threads, NEW q \in DOMAIN data'
               PROVE  Holds(u, q)' = IF q \in DOMAIN data THEN Holds(u, q) ELSE 0
    OBVIOUS
  <2>1. (At(u, "unlock") /\ call[u].p = q)' <=> At(u, "unlock") /\ call[u].p = q
    <3>1. CASE u = t
      BY <1>1, <1>4, <3>1 DEF At
    <3>2. CASE u # t
      BY <1>4, <3>2 DEF At
    <3> QED BY <3>1, <3>2
  <2>2. CASE q = p
    <3>1. q \notin Data(u) /\ q \notin Data(u)'
      BY <1>9, <1>10, <2>2
    <3>2. q \notin DOMAIN data => ~(At(u, "unlock") /\ call[u].p = q)
      BY DEF CallShape, At
    <3> QED BY <2>1, <3>1, <3>2 DEF Holds
  <2>3. CASE q # p
    <3>1. q \in DOMAIN data /\ data'[q] = data[q]
      BY <1>6, <2>3
    <3> QED BY <1>2, <1>9, <2>1, <3>1 DEF Holds
  <2> QED BY <2>2, <2>3
<1>17. MutexOwned'
  <2> SUFFICES ASSUME NEW q \in DOMAIN data'
               PROVE  /\ mutex'[q].owner = NoThread => mutex'[q].depth = 0
                      /\ \A u \in Threads :
                           /\ mutex'[q].owner = u <=> Holds(u, q)' > 0
                           /\ mutex'[q].owner = u => mutex'[q].depth = Holds(u, q)'
    BY DEF MutexOwned
  <2>1. CASE q \in DOMAIN data
    BY <1>7, <1>16, <2>1 DEF MutexOwned
  <2>2. CASE q \notin DOMAIN data
    BY <1>0, <1>6, <1>7, <1>16, <2>2
  <2> QED BY <2>1, <2>2
<1>18. ASSUME NEW u \in Threads
       PROVE  ItemsDiffer(u)' /\ ItemsCount(u)' /\ CallShape(u)'
  <2>1. ItemsDiffer(u)'
    BY <1>2, <1>6, <1>9, <1>11 DEF ItemsDiffer
  <2>2. \A q : Entering(u, q)' = Entering(u, q)
    BY <1>1, <1>4 DEF Entering, At
  <2>3. ItemsCount(u)'
    <3>1. \A x \in Items(u) : data'[x.data].object = data[x.data].object
      BY <1>11
    <3>2. Items(u)' = Items(u) /\ inside' = inside
      BY <1>2, <1>9
    <3>3. ItemsCount(u)
      OBVIOUS
    <3> HIDE DEF IInv
    <3> QED BY <2>2, <3>1, <3>2, <3>3 DEF ItemsCount
  <2>4. CASE u = t
    <3>1. \A x \in Items(t)' : data'[x.data].object # o
      BY <1>1, <1>9, <1>11
    <3>2. p \in DOMAIN data' /\ data'[p].object = o
      BY <1>5, <1>6
    <3>3. listLock' = t
      BY <1>1, <1>2
    <3> HIDE DEF IInv
    <3>4. CallShape(t)'
      BY <1>1, <1>4, <3>1, <3>2, <3>3 DEF CallShape
    <3> QED BY <2>1, <2>3, <2>4, <3>4
  <2>5. CASE u # t
    <3>1. \A q : q \in Data(u) => q \in DOMAIN data /\ data'[q] = data[q]
      BY <1>11 DEF Data
    <3>2. call'[u] = call[u] /\ call[u].at \notin {"walk", "found"}
      BY <1>4, <1>12, <2>5
    <3>3. CallShape(u)
      OBVIOUS
    <3>4. DOMAIN data \subseteq DOMAIN data'
      BY <1>6
    <3>5. CallShape(u)'
      BY <1>9, <1>11, <3>1, <3>2, <3>3, <3>4 DEF CallShape
    <3> QED BY <2>1, <2>3, <3>5
  <2> QED BY <2>1, <2>3, <2>4, <2>5
<1> QED BY <1>8, <1>13, <1>15, <1>17, <1>18

-----------------------------------------------------------------------------
(* The theorems.                                                           *)

LEMMA NextKeeps ==
  ASSUME IInv, [Next]_vars
  PROVE  IInv'
<1>1. ASSUME NEW t \in Threads, NEW o \in Objects, Enter(t, o) PROVE IInv'
  BY <1>1, EnterStep, StepKeeps
<1>2. ASSUME NEW t \in Threads, NEW o \in Objects, Exit(t, o) PROVE IInv'
  BY <1>2, ExitStep, StepKeeps
<1>3. ASSUME NEW t \in Threads, NEW o \in Objects, ExitNotEntered(t, o) PROVE IInv'
  BY <1>3, ExitNotEnteredStep, StepKeeps
<1>4. ASSUME NEW t \in Threads, LockMutex(t) PROVE IInv'
  BY <1>4, LockMutexStep, StepKeeps
<1>5. ASSUME NEW t \in Threads, UnlockMutex(t) PROVE IInv'
  BY <1>5, UnlockMutexStep, StepKeeps
<1>6. ASSUME NEW t \in Threads, LockList(t) PROVE IInv'
  BY <1>6, LockListStep, StepKeeps
<1>7. ASSUME NEW t \in Threads, Walk(t) PROVE IInv'
  BY <1>7, WalkStep, StepKeeps
<1>8. ASSUME NEW t \in Threads, Claim(t) PROVE IInv'
  BY <1>8, ClaimKeeps
<1>9. ASSUME NEW t \in Threads, AcquireFound(t) PROVE IInv'
  BY <1>9, AcquireFoundStep, StepKeeps
<1>10. ASSUME NEW t \in Threads, ReleaseFound(t) PROVE IInv'
  BY <1>10, ReleaseFoundStep, StepKeeps
<1>11. ASSUME NEW t \in Threads, ReleaseNotFound(t) PROVE IInv'
  BY <1>11, ReleaseNotFoundStep, StepKeeps
<1>12. CASE UNCHANGED vars
  <2>1. /\ data' = data /\ listLock' = listLock /\ mutex' = mutex /\ fast' = fast
        /\ cache' = cache /\ call' = call /\ inside' = inside
    BY <1>12 DEF vars
  <2>2. \A t : Items(t)' = Items(t)
    BY <2>1 DEF Items
  <2>3. \A p : Users(p)' = Users(p)
    BY <2>1, <2>2 DEF Users, At
  <2>4. TypeOK' /\ OneBlockPerObject' /\ UsersCounted'
    BY <2>1, <2>3 DEF IInv, TypeOK, OneBlockPerObject, UsersCounted
  <2>5. \A t, p : Holds(t, p)' = Holds(t, p)
    BY <2>1, <2>2 DEF Holds, Data, At
  <2>6. MutexOwned'
    BY <2>1, <2>5 DEF IInv, MutexOwned
  <2>7. ASSUME NEW t \in Threads PROVE ItemsDiffer(t)' /\ ItemsCount(t)' /\ CallShape(t)'
    <3>1. ItemsDiffer(t) /\ ItemsCount(t) /\ CallShape(t)
      BY DEF IInv
    <3>2. ItemsDiffer(t)'
      BY <2>1, <2>2, <3>1 DEF ItemsDiffer
    <3>3. ItemsCount(t)'
      BY <2>1, <2>2, <3>1 DEF ItemsCount, Entering, At
    <3>4. CallShape(t)'
      BY <2>1, <2>2, <2>3, <3>1 DEF CallShape, Data
    <3> QED BY <3>2, <3>3, <3>4
  <2> QED BY <2>4, <2>6, <2>7 DEF IInv
<1> QED BY <1>1, <1>2, <1>3, <1>4, <1>5, <1>6, <1>7, <1>8, <1>9, <1>10, <1>11, <1>12 DEF Next

LEMMA InitInvariant ==
  ASSUME Init
  PROVE  IInv
<1> USE DEF Init
<1>1. DOMAIN data = {} /\ Len(data) = 0
  OBVIOUS
<1>2. \A t \in Threads : Items(t) = {} /\ cache[t] = <<>> /\ fast[t] = None
                         /\ call[t] = Idle /\ \A o \in Objects : inside[t][o] = 0
  BY DEF Items
<1>3. TypeOK
  <2>1. Idle \in Call /\ None \in SyncCacheItem
    BY DEF Idle, Call, None, SyncCacheItem
  <2>2. mutex \in [DOMAIN data -> [owner : Threads \cup {NoThread}, depth : Nat]]
    BY <1>1
  <2> QED BY <2>1, <2>2 DEF TypeOK
<1>4. OneBlockPerObject /\ UsersCounted /\ MutexOwned
  BY <1>1 DEF OneBlockPerObject, UsersCounted, MutexOwned
<1>5. ASSUME NEW t \in Threads PROVE ItemsDiffer(t) /\ ItemsCount(t) /\ CallShape(t)
  <2>1. call[t].at = "idle" /\ DOMAIN cache[t] = {}
    BY <1>2 DEF Idle
  <2> QED BY <1>2, <2>1 DEF ItemsDiffer, ItemsCount, CallShape, Entering, At
<1> QED BY <1>3, <1>4, <1>5 DEF IInv

\* The blocks, the threads' caches in front of them and the mutexes in them stay in step
\* through every interleaving of id2data's calls (objc-sync.mm).
THEOREM Invariance == Spec => []IInv
<1> QED BY InitInvariant, NextKeeps, PTL DEF Spec

LEMMA AtMostOne ==
  ASSUME NEW S, \A x, y \in S : x = y
  PROVE  IsFiniteSet(S) /\ Cardinality(S) = IF S = {} THEN 0 ELSE 1
<1>1. CASE S = {}
  BY <1>1, FS_EmptySet
<1>2. CASE S # {}
  <2>1. PICK x : S = {x}
    BY <1>2
  <2> QED BY <2>1, FS_Singleton
<1> QED BY <1>1, <1>2

\* objc_sync_enter keeps two threads from being inside the same object: both have the
\* object's one block in their caches, and its mutex has one owner.
THEOREM Exclusion == Spec => []MutualExclusion
<1>1. ASSUME IInv PROVE MutualExclusion
  <2> SUFFICES ASSUME NEW o \in Objects
               PROVE  Cardinality({t \in Threads : o \in Held(t)}) <= 1
    BY DEF MutualExclusion
  <2>1. ASSUME NEW t \in Threads, o \in Held(t)
        PROVE  \E p \in DOMAIN data : data[p].object = o /\ mutex[p].owner = t
    <3>1. inside[t][o] \in Nat /\ inside[t][o] > 0 /\ Entering(t, o) \in Nat
      BY <1>1, <2>1 DEF Held, IInv, TypeOK, Entering
    <3>2. PICK x \in Items(t) : data[x.data].object = o
      BY <1>1, <3>1 DEF IInv, ItemsCount
    <3>3. x.data \in DOMAIN data /\ x.data \in Data(t)
      BY <1>1, <3>2 DEF IInv, ItemsDiffer, Data
    <3>4. Holds(t, x.data) > 0
      BY <3>1, <3>2, <3>3 DEF Holds
    <3>5. mutex[x.data].owner = t
      BY <1>1, <3>3, <3>4 DEF IInv, MutexOwned
    <3> QED BY <3>2, <3>3, <3>5
  <2>2. \A t, u \in {v \in Threads : o \in Held(v)} : t = u
    BY <1>1, <2>1 DEF IInv, OneBlockPerObject
  <2> QED BY <2>2, AtMostOne
<1>2. IInv => MutualExclusion
  BY <1>1
<1> QED BY Invariance, <1>2, PTL

\* An object has one block, its threadCount misses no thread that uses it, and each
\* thread's items agree with the blocks and with what the thread is inside of: the
\* assertions of id2data ("id2data is buggy", "cache is buggy") hold.
THEOREM Blocks == Spec => []BlocksSound
<1>1. ASSUME IInv PROVE CachesAgree
  <2> SUFFICES ASSUME NEW t \in Threads, NEW o \in Objects
               PROVE  LET mine == {item \in Items(t) : data[item.data].object = o}
                      IN /\ Cardinality(mine) = (IF inside[t][o] + Entering(t, o) > 0 THEN 1 ELSE 0)
                         /\ \A item \in mine : /\ item.lockCount = inside[t][o] + Entering(t, o)
                                               /\ data[item.data].threadCount > 0
    BY DEF CachesAgree, Entering
  <2> DEFINE mine == {item \in Items(t) : data[item.data].object = o}
  <2>1. /\ ItemsDiffer(t) /\ ItemsCount(t) /\ TypeOK /\ OneBlockPerObject /\ UsersCounted
        /\ inside[t][o] \in Nat /\ Entering(t, o) \in Nat
        /\ Items(t) \subseteq SyncCacheItem
    BY <1>1, CacheTypes DEF IInv, Entering
  <2>2. \A x, y \in mine : x = y
    <3>1. ASSUME NEW x \in Items(t), NEW y \in Items(t), x.data = y.data PROVE x = y
      BY <2>1, <3>1 DEF ItemsDiffer, Items
    <3> QED BY <2>1, <3>1 DEF ItemsDiffer, OneBlockPerObject
  <2>3. mine # {} <=> inside[t][o] + Entering(t, o) > 0
    BY <2>1 DEF ItemsCount, ItemsDiffer
  <2>4. ASSUME NEW x \in mine
        PROVE  x.lockCount = inside[t][o] + Entering(t, o) /\ data[x.data].threadCount > 0
    <3>1. x.data \in DOMAIN data /\ t \in Users(x.data)
      BY <2>1, UsersAre DEF ItemsDiffer, Data, UserOf
    <3>2. Users(x.data) \subseteq Threads
      BY DEF Users
    <3>3. Cardinality(Users(x.data)) \in Nat /\ Cardinality(Users(x.data)) # 0
      BY <1>1, <3>1, <3>2, FS_Subset, FS_EmptySet, FS_CardinalityType, SyncAssumption
    <3>4. data[x.data].threadCount \in Nat
      BY <2>1, <3>1, DataTypes DEF SyncData
    <3> QED BY <2>1, <3>1, <3>3, <3>4 DEF ItemsCount, UsersCounted
  <2> HIDE DEF mine
  <2>5. Cardinality(mine) = (IF inside[t][o] + Entering(t, o) > 0 THEN 1 ELSE 0)
    BY <2>2, <2>3, AtMostOne
  <2> QED BY <2>4, <2>5 DEF mine
<1>2. IInv => BlocksSound
  BY <1>1 DEF IInv, BlocksSound
<1> QED BY Invariance, <1>2, PTL
=============================================================================
