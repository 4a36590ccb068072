---------------------------- MODULE KeymgrProofs ----------------------------
(* Theorems about Keymgr, for any number of threads, keys and images.      *)
EXTENDS Keymgr, SequenceTheorems, FiniteSetTheorems, WellFoundedInduction, TLAPS

-----------------------------------------------------------------------------
(* Sequences of anything.                                                  *)

IsSeq(s) == \E S : s \in Seq(S)

LEMMA Appended ==
  ASSUME NEW s, IsSeq(s), NEW e
  PROVE  /\ IsSeq(Append(s, e))
         /\ Len(s) \in Nat /\ DOMAIN s = 1 .. Len(s)
         /\ Len(Append(s, e)) = Len(s) + 1
         /\ DOMAIN Append(s, e) = 1 .. Len(s) + 1
         /\ \A i \in 1 .. Len(s) : Append(s, e)[i] = s[i]
         /\ Append(s, e)[Len(s) + 1] = e
<1>1. PICK S : s \in Seq(S)
  BY DEF IsSeq
<1>2. s \in Seq(S \cup {e}) /\ e \in S \cup {e}
  BY <1>1
<1>3. Append(s, e) \in Seq(S \cup {e})
  BY <1>2
<1> QED
  BY <1>1, <1>2, <1>3 DEF IsSeq

LEMMA Replaced ==
  ASSUME NEW s, IsSeq(s), NEW j, NEW e
  PROVE  /\ IsSeq([s EXCEPT ![j] = e])
         /\ Len(s) \in Nat /\ DOMAIN s = 1 .. Len(s)
         /\ Len([s EXCEPT ![j] = e]) = Len(s)
         /\ \A i \in 1 .. Len(s) : [s EXCEPT ![j] = e][i] = IF i = j THEN e ELSE s[i]
<1>1. PICK S : s \in Seq(S)
  BY DEF IsSeq
<1>2. s \in Seq(S \cup {e}) /\ e \in S \cup {e}
  BY <1>1
<1>3. [s EXCEPT ![j] = e] \in Seq(S \cup {e}) /\ Len([s EXCEPT ![j] = e]) = Len(s)
  <2>1. CASE j \in 1 .. Len(s)
    BY <1>2, <2>1, ExceptSeq
  <2>2. CASE j \notin 1 .. Len(s)
    BY <1>2, <2>2, [s EXCEPT ![j] = e] = s
  <2> QED
    BY <2>1, <2>2
<1> QED
  BY <1>1, <1>2, <1>3 DEF IsSeq

-----------------------------------------------------------------------------
(* One node for a key.                                                     *)

NodeFields == {"handle", "recursive", "refcount", "ptr", "owner", "depth"}
CallFields == {"pc", "call", "key", "start", "searchEnd", "node", "delta", "count",
               "image", "value"}

\* the oldest n nodes have been searched for key k
Unseen(k, n) == n \in 0 .. Len(nodes) /\ \A i \in 1 .. n : nodes[i].handle # k

Shape ==
  /\ IsSeq(nodes) /\ \A i \in 1 .. Len(nodes) : DOMAIN nodes[i] = NodeFields
  /\ DOMAIN th = Threads /\ \A t \in Threads : DOMAIN th[t] = CallFields

Calls == Hooks \cup {"lock", "unlock", "lockmode", "set"}

\* what a call in get_or_create_key_element knows of the list
Knows(t) ==
  /\ At(t, "search") \/ At(t, "prepend") => th[t].call \in Calls
  /\ At(t, "search") => Unseen(th[t].key, th[t].searchEnd)
  /\ At(t, "prepend") => Unseen(th[t].key, th[t].start)

SearchInv == Shape /\ OneNodePerKey /\ \A t \in Threads : Knows(t)

LEMMA SearchInit == Init => SearchInv
<1> SUFFICES ASSUME Init PROVE SearchInv
  OBVIOUS
<1>1. IsSeq(nodes) /\ Len(nodes) = 0
  BY DEF Init, IsSeq
<1>2. \A t \in Threads : th[t] = Idle
  BY DEF Init
<1>3. DOMAIN Idle = CallFields /\ Idle.pc = "idle"
  BY DEF Idle, CallFields
<1>4. DOMAIN nodes = {}
  BY DEF Init
<1> QED
  BY <1>1, <1>2, <1>3, <1>4 DEF Init, SearchInv, Shape, Knows, At, OneNodePerKey

\* the nodes stay where they are, for their keys
NodesKept ==
  /\ IsSeq(nodes') /\ Len(nodes') = Len(nodes)
  /\ \A i \in 1 .. Len(nodes) : nodes'[i].handle = nodes[i].handle /\ DOMAIN nodes'[i] = NodeFields

\* thread t takes a step after which it has searched nothing, or what it had
\* searched
Forgets(t) ==
  /\ DOMAIN th' = Threads /\ \A u \in Threads \ {t} : th'[u] = th[u]
  /\ DOMAIN th'[t] = CallFields
  /\ th'[t].pc # "prepend" /\ (th'[t].pc = "search" => th'[t].searchEnd = 0 /\ th'[t].call \in Calls)

LEMMA ListKept ==
  ASSUME SearchInv, NEW t \in Threads, NodesKept, Forgets(t)
  PROVE  SearchInv'
<1>1. Len(nodes) \in Nat /\ DOMAIN nodes = 1 .. Len(nodes) /\ DOMAIN nodes' = 1 .. Len(nodes)
  BY Replaced DEF SearchInv, Shape, NodesKept
<1>2. Shape'
  BY DEF SearchInv, Shape, NodesKept, Forgets
<1>3. OneNodePerKey'
  BY <1>1 DEF SearchInv, OneNodePerKey, NodesKept
<1>4. ASSUME NEW u \in Threads PROVE Knows(u)'
  BY <1>1 DEF SearchInv, Knows, At, Unseen, NodesKept, Forgets
<1> QED
  BY <1>2, <1>3, <1>4 DEF SearchInv

LEMMA NodesUnchanged ==
  ASSUME SearchInv, UNCHANGED nodes
  PROVE  NodesKept
BY DEF SearchInv, Shape, NodesKept

LEMMA NodeSet ==
  ASSUME SearchInv, NEW t \in Threads, NEW n, SetNode(t, n),
         th[t].node \in 1 .. Len(nodes) => DOMAIN n = NodeFields /\ n.handle = Mine(t).handle
  PROVE  NodesKept
<1>1. PICK j : j = th[t].node
  OBVIOUS
<1>2. nodes' = [nodes EXCEPT ![j] = n]
  BY <1>1 DEF SetNode
<1>3. j \in 1 .. Len(nodes) => DOMAIN n = NodeFields /\ n.handle = nodes[j].handle
  BY <1>1 DEF Mine
<1>4. IsSeq(nodes) /\ \A i \in 1 .. Len(nodes) : DOMAIN nodes[i] = NodeFields
  BY DEF SearchInv, Shape
<1>5. /\ IsSeq(nodes') /\ Len(nodes') = Len(nodes)
      /\ \A i \in 1 .. Len(nodes) : nodes'[i] = IF i = j THEN n ELSE nodes[i]
  BY <1>2, <1>4, Replaced
<1> QED
  BY <1>3, <1>4, <1>5 DEF NodesKept

LEMMA CallForgets ==
  ASSUME SearchInv, NEW t \in Threads, NEW call \in Calls, NEW k, NEW m, Calling(t, call, k, m)
  PROVE  Forgets(t)
BY DEF SearchInv, Shape, Calling, Idle, CallFields, Forgets

LEMMA ReturnForgets ==
  ASSUME SearchInv, NEW t \in Threads, Return(t)
  PROVE  Forgets(t)
BY DEF SearchInv, Shape, Return, Idle, CallFields, Forgets

LEMMA GotNodeForgets ==
  ASSUME SearchInv, NEW t \in Threads, NEW i, GotNode(t, i), th[t].call \in Calls
  PROVE  Forgets(t)
<1>1. FirstStep(th[t].call) \in {"mutex", "assign", "lockmode", "load"}
  BY DEF FirstStep, Hooks, Calls
<1> QED
  BY <1>1 DEF SearchInv, Shape, GotNode, CallFields, Forgets

LEMMA SearchKept ==
  ASSUME SearchInv, NEW t \in Threads, Search(t)
  PROVE  SearchInv'
<1> DEFINE f == th[t]
<1>1. f.pc = "search" /\ f.call \in Calls /\ Unseen(f.key, f.searchEnd) /\ UNCHANGED nodes
  BY DEF SearchInv, Search, At, Knows
<1>2. NodesKept
  BY <1>1, NodesUnchanged
<1>3. CASE Matching(t) # {}
  BY <1>1, <1>2, <1>3, GotNodeForgets, ListKept DEF Search
<1>4. CASE Matching(t) = {} /\ f.call = "unlock"
  BY <1>2, <1>4, ReturnForgets, ListKept DEF Search
<1>5. CASE Matching(t) = {} /\ f.call # "unlock"
  <2>1. th' = [th EXCEPT ![t].start = Len(nodes), ![t].pc = "prepend"]
    BY <1>5 DEF Search
  <2>2. /\ DOMAIN th' = Threads /\ \A u \in Threads \ {t} : th'[u] = th[u]
        /\ DOMAIN th'[t] = CallFields
        /\ th'[t].pc = "prepend" /\ th'[t].start = Len(nodes)
        /\ th'[t].key = f.key /\ th'[t].call = f.call
    BY <2>1 DEF SearchInv, Shape, CallFields
  <2>3. Len(nodes) \in Nat
    BY Replaced DEF SearchInv, Shape
  <2>4. Unseen(f.key, Len(nodes))
    BY <1>1, <1>5, <2>3 DEF Unseen, Matching, Searched
  <2>5. Knows(t)'
    BY <1>1, <2>2, <2>4 DEF Knows, At, Unseen
  <2>6. ASSUME NEW u \in Threads \ {t} PROVE Knows(u)'
    BY <1>1, <2>2 DEF SearchInv, Knows, At, Unseen
  <2>7. Shape' /\ OneNodePerKey'
    BY <1>1, <2>2 DEF SearchInv, Shape, OneNodePerKey
  <2> QED
    BY <2>5, <2>6, <2>7 DEF SearchInv
<1> QED
  BY <1>3, <1>4, <1>5

LEMMA PrependKept ==
  ASSUME SearchInv, NEW t \in Threads, Prepend(t)
  PROVE  SearchInv'
<1> DEFINE f == th[t]
<1>1. f.pc = "prepend" /\ f.call \in Calls /\ Unseen(f.key, f.start)
  BY DEF SearchInv, Prepend, TryPrepend, At, Knows
<1>2. CASE Len(nodes) = f.start
  <2>1. nodes' = Append(nodes, Node(f.key)) /\ GotNode(t, Len(nodes) + 1)
    BY <1>2 DEF Prepend, TryPrepend
  <2>2. Forgets(t)
    BY <1>1, <2>1, GotNodeForgets
  <2>3. /\ IsSeq(nodes') /\ Len(nodes) \in Nat /\ Len(nodes') = Len(nodes) + 1
        /\ DOMAIN nodes = 1 .. Len(nodes) /\ DOMAIN nodes' = 1 .. Len(nodes) + 1
        /\ \A i \in 1 .. Len(nodes) : nodes'[i] = nodes[i]
        /\ nodes'[Len(nodes) + 1] = Node(f.key)
    BY <2>1, Appended DEF SearchInv, Shape
  <2>4. Node(f.key).handle = f.key /\ DOMAIN Node(f.key) = NodeFields
    BY DEF Node, NodeFields
  <2>5. Shape'
    BY <2>2, <2>3, <2>4 DEF SearchInv, Shape, Forgets
  <2>6. \A i \in 1 .. Len(nodes) : nodes[i].handle # f.key
    BY <1>1, <1>2 DEF Unseen
  <2>7. OneNodePerKey'
    BY <2>3, <2>4, <2>6 DEF SearchInv, OneNodePerKey
  <2>8. ASSUME NEW u \in Threads PROVE Knows(u)'
    BY <2>2, <2>3 DEF SearchInv, Knows, At, Unseen, Forgets
  <2> QED
    BY <2>5, <2>7, <2>8 DEF SearchInv
<1>3. CASE Len(nodes) # f.start
  <2>1. UNCHANGED nodes /\ th' = [th EXCEPT ![t].searchEnd = f.start, ![t].pc = "search"]
    BY <1>3 DEF Prepend, TryPrepend
  <2>2. /\ DOMAIN th' = Threads /\ \A u \in Threads \ {t} : th'[u] = th[u]
        /\ DOMAIN th'[t] = CallFields
        /\ th'[t].pc = "search" /\ th'[t].searchEnd = f.start
        /\ th'[t].key = f.key /\ th'[t].call = f.call
    BY <2>1 DEF SearchInv, Shape, CallFields
  <2>3. Knows(t)'
    BY <1>1, <2>1, <2>2 DEF Knows, At, Unseen
  <2>4. ASSUME NEW u \in Threads \ {t} PROVE Knows(u)'
    BY <2>1, <2>2 DEF SearchInv, Knows, At, Unseen
  <2>5. Shape' /\ OneNodePerKey'
    BY <2>1, <2>2 DEF SearchInv, Shape, OneNodePerKey
  <2> QED
    BY <2>3, <2>4, <2>5 DEF SearchInv
<1> QED
  BY <1>2, <1>3

LEMMA MutexKept ==
  ASSUME SearchInv, NEW t \in Threads, Mutex(t)
  PROVE  SearchInv'
<1> DEFINE n == Mine(t)
<1>1. CASE /\ SetNode(t, [n EXCEPT !.owner = t, !.depth = @ + 1])
           /\ th' = [th EXCEPT ![t].delta = 1, ![t].pc = "load"]
  <2>1. NodesKept
    BY <1>1, NodeSet DEF SearchInv, Shape, NodeFields, Mine
  <2>2. Forgets(t)
    BY <1>1 DEF SearchInv, Shape, CallFields, Forgets
  <2> QED
    BY <2>1, <2>2, ListKept
<1>2. CASE Return(t) /\ UNCHANGED nodes
  BY <1>2, NodesUnchanged, ReturnForgets, ListKept
<1> QED
  BY <1>1, <1>2 DEF Mutex

LEMMA LoadKept ==
  ASSUME SearchInv, NEW t \in Threads, Load(t)
  PROVE  SearchInv'
<1>1. Forgets(t)
  BY DEF SearchInv, Shape, Load, CallFields, Forgets
<1> QED
  BY <1>1, NodesUnchanged, ListKept DEF Load

LEMMA StoreKept ==
  ASSUME SearchInv, NEW t \in Threads, Store(t)
  PROVE  SearchInv'
<1> DEFINE f == th[t]
<1>1. NodesKept
  <2>0. PICK c : c = (f.count + f.delta) % 65536
    OBVIOUS
  <2>1. SetNode(t, [Mine(t) EXCEPT !.refcount = c])
    BY <2>0 DEF Store
  <2>2. PICK n : n = [Mine(t) EXCEPT !.refcount = c]
    OBVIOUS
  <2>3. th[t].node \in 1 .. Len(nodes) => DOMAIN n = NodeFields /\ n.handle = Mine(t).handle
    BY <2>2 DEF SearchInv, Shape, NodeFields, Mine
  <2> QED
    BY <2>1, <2>2, <2>3, NodeSet
<1>2. CASE th' = [th EXCEPT ![t].pc = "release"]
  <2>1. Forgets(t)
    BY <1>2 DEF SearchInv, Shape, CallFields, Forgets
  <2> QED
    BY <1>1, <2>1, ListKept
<1>3. CASE th' = [th EXCEPT ![t].pc = "search", ![t].searchEnd = 0, ![t].call = "set",
                            ![t].value = HookValue(t)]
  <2>1. Forgets(t)
    BY <1>3 DEF SearchInv, Shape, CallFields, Forgets, Calls
  <2> QED
    BY <1>1, <2>1, ListKept
<1>4. CASE Return(t)
  BY <1>1, <1>4, ReturnForgets, ListKept
<1> QED
  BY <1>2, <1>3, <1>4 DEF Store

LEMMA AssignKept ==
  ASSUME SearchInv, NEW t \in Threads, Assign(t)
  PROVE  SearchInv'
<1>1. NodesKept
  BY NodeSet DEF Assign, SearchInv, Shape, NodeFields, Mine
<1>2. Forgets(t)
  BY DEF Assign, SearchInv, Shape, CallFields, Forgets
<1> QED
  BY <1>1, <1>2, ListKept

LEMMA ReleaseKept ==
  ASSUME SearchInv, NEW t \in Threads, Release(t)
  PROVE  SearchInv'
<1> DEFINE n == Mine(t)
<1>1. CASE n.owner = t
  <2>1. NodesKept
    BY <1>1, NodeSet DEF Release, SearchInv, Shape, NodeFields, Mine
  <2> QED
    BY <1>1, <2>1, ReturnForgets, ListKept DEF Release
<1>2. CASE n.owner # t
  <2>1. UNCHANGED nodes /\ th' = [th EXCEPT ![t].delta = 1, ![t].pc = "load"]
    BY <1>2 DEF Release
  <2>2. Forgets(t)
    BY <2>1 DEF SearchInv, Shape, CallFields, Forgets
  <2> QED
    BY <2>1, <2>2, NodesUnchanged, ListKept
<1> QED
  BY <1>1, <1>2

LEMMA LockmodeKept ==
  ASSUME SearchInv, NEW t \in Threads, Lockmode(t)
  PROVE  SearchInv'
<1> DEFINE recursive == IF Mine(t).owner = NoThread THEN ~Mine(t).recursive ELSE Mine(t).recursive
<1>1. SetNode(t, [Mine(t) EXCEPT !.recursive = recursive])
  BY DEF Lockmode, SetNode, Mine, SearchInv, Shape, NodeFields
<1>2. NodesKept
  BY <1>1, NodeSet DEF SearchInv, Shape, NodeFields, Mine
<1> QED
  BY <1>2, ReturnForgets, ListKept DEF Lockmode

LEMMA ExamineKept ==
  ASSUME SearchInv, NEW t \in Threads, Examine(t)
  PROVE  SearchInv'
<1>1. PICK i \in NodesOf(LIVE_IMAGE_LIST), d \in Destructors :
        \E j \in DOMAIN nodes[i].ptr : nodes' = [nodes EXCEPT ![i].ptr[j].destructor = d]
  BY DEF Examine
<1>2. PICK p : nodes' = [nodes EXCEPT ![i] = [nodes[i] EXCEPT !.ptr = p]]
  BY <1>1
<1>3. NodesKept
  <2>1. IsSeq(nodes)
    BY DEF SearchInv, Shape
  <2>2. PICK e : e = [nodes[i] EXCEPT !.ptr = p]
    OBVIOUS
  <2>3. nodes' = [nodes EXCEPT ![i] = e]
    BY <1>2, <2>2
  <2>4. /\ IsSeq(nodes') /\ Len(nodes') = Len(nodes)
        /\ \A k \in 1 .. Len(nodes) : nodes'[k] = IF k = i THEN e ELSE nodes[k]
    BY <2>1, <2>3, Replaced
  <2> QED
    BY <2>2, <2>4 DEF SearchInv, Shape, NodesKept, NodeFields
<1>4. UNCHANGED th
  BY DEF Examine
<1>5. Len(nodes) \in Nat /\ DOMAIN nodes = 1 .. Len(nodes) /\ DOMAIN nodes' = 1 .. Len(nodes)
  BY <1>3, Replaced DEF SearchInv, Shape, NodesKept
<1>6. Shape' /\ OneNodePerKey'
  BY <1>3, <1>4, <1>5 DEF SearchInv, Shape, NodesKept, OneNodePerKey
<1>7. ASSUME NEW u \in Threads PROVE Knows(u)'
  BY <1>3, <1>4, <1>5 DEF SearchInv, NodesKept, Knows, At, Unseen
<1> QED
  BY <1>6, <1>7 DEF SearchInv

LEMMA SearchNext == SearchInv /\ [Next]_vars => SearchInv'
<1> SUFFICES ASSUME SearchInv, [Next]_vars PROVE SearchInv'
  OBVIOUS
<1>1. CASE UNCHANGED vars
  BY <1>1 DEF SearchInv, Shape, OneNodePerKey, Knows, At, Unseen, vars
<1>2. ASSUME NEW t \in Threads, NEW call \in Calls, NEW k, NEW m, Calling(t, call, k, m),
             UNCHANGED nodes
      PROVE  SearchInv'
  BY <1>2, NodesUnchanged, CallForgets, ListKept
<1>3. ASSUME NEW t \in Threads, NEW k \in Keys, Lock(t, k) \/ Unlock(t, k) \/ SetLockmode(t, k)
      PROVE  SearchInv'
  BY <1>2, <1>3 DEF Lock, Unlock, SetLockmode, Calls
<1>4. ASSUME NEW t \in Threads, NEW m \in Images, NEW call \in Hooks, Hook(t, call, m)
      PROVE  SearchInv'
  BY <1>2, <1>4 DEF Hook, Calls
<1> QED
  BY <1>1, <1>3, <1>4, ExamineKept, SearchKept, PrependKept, MutexKept, LoadKept, StoreKept,
     AssignKept, ReleaseKept, LockmodeKept DEF Next

(***************************************************************************)
(* However many threads look for a new key at once, whatever each has      *)
(* found searched when its compare-and-swap fails, the list has one        *)
(* element for a key (get_or_create_key_element). Nothing is assumed of    *)
(* who unlocks what.                                                       *)
(***************************************************************************)
THEOREM OneNode == Spec => []OneNodePerKey
<1>1. SearchInv => OneNodePerKey
  BY DEF SearchInv
<1> QED
  BY <1>1, SearchInit, SearchNext, PTL DEF Spec

-----------------------------------------------------------------------------
(* The count of locks.                                                     *)

InList == {"mutex", "lockmode", "assign", "load", "store", "release"}
Owning == {"assign", "load", "store", "release"}

MayLock(t, k) ==
  \A i \in 1 .. Len(nodes) :
    nodes[i].handle = k /\ nodes[i].owner = t => nodes[i].depth < MaxDepth

\* t has the mutex and has not counted it up, or has counted it down
Ahead(t, i) ==
  th[t].node = i /\ (At(t, "release") \/ (th[t].pc \in {"load", "store"} /\ th[t].delta = 1))

CountOK(i) ==
  LET n == nodes[i] IN
  \/ n.owner = NoThread /\ n.depth = 0 /\ n.refcount = 0
  \/ /\ n.owner \in Threads /\ n.depth \in 1 .. MaxDepth
     /\ n.refcount = IF Ahead(n.owner, i) THEN n.depth - 1 ELSE n.depth

\* a call that has found its node; one that changes its value or its count; one of
\* a thread that has the lock; one that is going to take it
CallOK(t) ==
  LET f == th[t] IN
  /\ f.pc \in InList => f.node \in 1 .. Len(nodes) /\ nodes[f.node].handle = f.key
  /\ f.pc \in Owning => nodes[f.node].owner = t
  /\ f.pc \in {"load", "store"} => f.delta \in {-1, 1}
  /\ f.pc = "assign" => f.delta = -1
  /\ f.pc = "store" => f.count = nodes[f.node].refcount
  /\ f.pc \in {"search", "prepend"} /\ f.call \in {"unlock", "set"} =>
       \E i \in 1 .. Len(nodes) : nodes[i].handle = f.key /\ nodes[i].owner = t
  /\ f.pc \in {"search", "prepend"} /\ f.call \in Hooks \cup {"lock"} => MayLock(t, f.key)
  /\ f.pc = "mutex" => MayLock(t, f.key)

LockInv == (\A i \in 1 .. Len(nodes) : CountOK(i)) /\ \A t \in Threads : CallOK(t)

\* thread t takes a step: other threads stay where they are, and so does what they have
Moves(t) ==
  /\ \A u \in Threads \ {t} : th'[u] = th[u]
  /\ Len(nodes) \in Nat /\ Len(nodes') \in Nat /\ Len(nodes) <= Len(nodes')
  /\ \A i \in 1 .. Len(nodes) : nodes'[i].handle = nodes[i].handle
  /\ \A i \in 1 .. Len(nodes') :
       \/ /\ i <= Len(nodes) /\ nodes'[i].owner = nodes[i].owner
          /\ nodes'[i].depth = nodes[i].depth /\ nodes'[i].refcount = nodes[i].refcount
       \/ /\ i <= Len(nodes) => nodes[i].owner \in {t, NoThread}
          /\ nodes'[i].owner \in {t, NoThread}

LEMMA OthersKept ==
  ASSUME LockInv, NEW t \in Threads, Moves(t), CallOK(t)',
         \A i \in 1 .. Len(nodes') : nodes'[i].owner \in {t, NoThread} => CountOK(i)'
  PROVE  LockInv'
<1>1. ASSUME NEW u \in Threads \ {t}, NEW i \in 1 .. Len(nodes'),
             nodes'[i].owner = u \/ (i <= Len(nodes) /\ nodes[i].owner = u)
      PROVE  /\ i \in 1 .. Len(nodes) /\ nodes[i].owner = u /\ nodes'[i].owner = u
             /\ nodes'[i].depth = nodes[i].depth /\ nodes'[i].refcount = nodes[i].refcount
             /\ nodes'[i].handle = nodes[i].handle
  <2>1. u \notin {t, NoThread}
    BY KeymgrAssumption
  <2>2. /\ i <= Len(nodes) /\ nodes'[i].owner = nodes[i].owner
        /\ nodes'[i].depth = nodes[i].depth /\ nodes'[i].refcount = nodes[i].refcount
    BY <1>1, <2>1 DEF Moves
  <2>3. i \in 1 .. Len(nodes)
    BY <2>2 DEF Moves
  <2> QED
    BY <1>1, <2>2, <2>3 DEF Moves
<1>2. ASSUME NEW u \in Threads \ {t} PROVE CallOK(u)'
  <2>1. PICK f : f = th[u] /\ f = th'[u]
    BY DEF Moves
  <2>2. \A i \in 1 .. Len(nodes) : i \in 1 .. Len(nodes') /\ nodes'[i].handle = nodes[i].handle
    BY DEF Moves
  <2>3. CallOK(u)
    BY DEF LockInv
  <2>4. MayLock(u, f.key) => MayLock(u, f.key)'
    BY <1>1 DEF MayLock
  <2>5. f.pc \in Owning => f.node \in 1 .. Len(nodes) /\ nodes[f.node].owner = u
    BY <2>1, <2>3 DEF CallOK, Owning, InList
  <2>6. f.pc \in Owning => nodes'[f.node].owner = u /\ nodes'[f.node].refcount = nodes[f.node].refcount
    BY <1>1, <2>2, <2>5
  <2>7. (\E i \in 1 .. Len(nodes) : nodes[i].handle = f.key /\ nodes[i].owner = u)
          => \E i \in 1 .. Len(nodes') : nodes'[i].handle = f.key /\ nodes'[i].owner = u
    BY <1>1, <2>2
  <2> QED
    BY <2>1, <2>2, <2>3, <2>4, <2>6, <2>7 DEF CallOK, Owning, InList
<1>3. ASSUME NEW i \in 1 .. Len(nodes'), nodes'[i].owner \notin {t, NoThread}
      PROVE  CountOK(i)'
  <2>1. PICK u : u = nodes'[i].owner
    OBVIOUS
  <2>2. i \in 1 .. Len(nodes) /\ nodes[i].owner = u
    BY <1>3, <2>1 DEF Moves
  <2>3. CountOK(i) /\ u \in Threads \ {t}
    BY <1>3, <2>1, <2>2 DEF LockInv, CountOK
  <2>4. /\ nodes'[i].depth = nodes[i].depth /\ nodes'[i].refcount = nodes[i].refcount
    BY <1>1, <2>2, <2>3
  <2>5. Ahead(u, i)' = Ahead(u, i)
    BY <2>3 DEF Moves, Ahead, At
  <2> QED
    BY <1>3, <2>1, <2>2, <2>3, <2>4, <2>5 DEF CountOK
<1> QED
  BY <1>2, <1>3 DEF LockInv

LEMMA LockInit == ASSUME Init PROVE LockInv
<1>1. Len(nodes) = 0 /\ \A t \in Threads : th[t].pc = "idle"
  BY DEF Init, Idle
<1> QED
  BY <1>1 DEF LockInv, CallOK, InList, Owning

LEMMA CountKept ==
  ASSUME NEW t \in Threads, NEW i, CountOK(i),
         nodes'[i].owner = nodes[i].owner, nodes'[i].depth = nodes[i].depth,
         nodes'[i].refcount = nodes[i].refcount, nodes'[i].owner \in {t, NoThread},
         Ahead(t, i) <=> Ahead(t, i)'
  PROVE  CountOK(i)'
<1>1. CASE nodes[i].owner = NoThread
  BY <1>1, KeymgrAssumption DEF CountOK
<1>2. CASE nodes[i].owner = t
  BY <1>2, KeymgrAssumption DEF CountOK
<1> QED
  BY <1>1, <1>2

LEMMA SameNodesMove ==
  ASSUME SearchInv, NEW t \in Threads, UNCHANGED nodes, \A u \in Threads \ {t} : th'[u] = th[u]
  PROVE  Moves(t)
<1>1. Len(nodes) \in Nat
  BY Replaced DEF SearchInv, Shape
<1> QED
  BY <1>1 DEF Moves

LEMMA MyNodeMoves ==
  ASSUME SearchInv, NEW t \in Threads, \A u \in Threads \ {t} : th'[u] = th[u],
         NEW n, SetNode(t, n), th[t].node \in 1 .. Len(nodes), n.handle = Mine(t).handle,
         \/ Mine(t).owner \in {t, NoThread} /\ n.owner \in {t, NoThread}
         \/ n.owner = Mine(t).owner /\ n.depth = Mine(t).depth /\ n.refcount = Mine(t).refcount
  PROVE  /\ Moves(t) /\ Len(nodes') = Len(nodes)
         /\ \A i \in 1 .. Len(nodes) : nodes'[i] = IF i = th[t].node THEN n ELSE nodes[i]
<1>1. PICK j : j = th[t].node
  OBVIOUS
<1>2. nodes' = [nodes EXCEPT ![j] = n] /\ Mine(t) = nodes[j]
  BY <1>1 DEF SetNode, Mine
<1>3. IsSeq(nodes)
  BY DEF SearchInv, Shape
<1>4. /\ Len(nodes) \in Nat /\ Len(nodes') = Len(nodes)
      /\ \A i \in 1 .. Len(nodes) : nodes'[i] = IF i = j THEN n ELSE nodes[i]
  BY <1>2, <1>3, Replaced
<1>5. n.handle = nodes[j].handle
  BY <1>2
<1>6. \/ nodes[j].owner \in {t, NoThread} /\ n.owner \in {t, NoThread}
      \/ n.owner = nodes[j].owner /\ n.depth = nodes[j].depth /\ n.refcount = nodes[j].refcount
  BY <1>2
<1>7. Moves(t)
  BY <1>4, <1>5, <1>6 DEF Moves
<1> QED
  BY <1>1, <1>4, <1>7

LEMMA CallLocks ==
  ASSUME SearchInv, LockInv, NEW t \in Threads, NEW call \in Calls, NEW k, NEW m,
         Calling(t, call, k, m), UNCHANGED nodes,
         call \in {"unlock", "set"} => Holds(t, k), call \in Hooks \cup {"lock"} => MayLock(t, k)
  PROVE  LockInv'
<1>1. /\ th[t].pc = "idle" /\ \A u \in Threads \ {t} : th'[u] = th[u]
      /\ th'[t].pc = "search" /\ th'[t].call = call /\ th'[t].key = k
  BY DEF SearchInv, Shape, Calling, At, Idle
<1>2. Moves(t)
  BY <1>1, SameNodesMove
<1>3. DOMAIN nodes = 1 .. Len(nodes)
  BY Replaced DEF SearchInv, Shape
<1>4. CallOK(t)'
  BY <1>1, <1>3 DEF CallOK, InList, Owning, MayLock, Holds, NodesOf
<1>5. \A i \in 1 .. Len(nodes) : ~Ahead(t, i) /\ ~Ahead(t, i)'
  BY <1>1 DEF Ahead, At
<1>6. \A i \in 1 .. Len(nodes') : nodes'[i].owner \in {t, NoThread} => CountOK(i)'
  BY <1>5, CountKept DEF LockInv
<1> QED
  BY <1>2, <1>4, <1>6, OthersKept

LEMMA ReturnLocks ==
  ASSUME SearchInv, LockInv, NEW t \in Threads, Return(t), Moves(t),
         \A i \in 1 .. Len(nodes') : nodes'[i].owner \in {t, NoThread} => CountOK(i)'
  PROVE  LockInv'
<1>1. th'[t].pc = "idle"
  BY DEF SearchInv, Shape, Return, Idle
<1>2. CallOK(t)'
  BY <1>1 DEF CallOK, InList, Owning
<1> QED
  BY <1>2, OthersKept

LEMMA MaxOfOne ==
  ASSUME NEW S, NEW i \in S, i \in Int, \A j \in S : j = i
  PROVE  Max(S) = i
<1>1. \A y \in S : i >= y
  OBVIOUS
<1> QED
  BY <1>1 DEF Max

\* the node that a call is given
LEMMA GotNodeFacts ==
  ASSUME SearchInv, NEW t \in Threads, NEW i, GotNode(t, i), th[t].call \in Calls
  PROVE  /\ \A u \in Threads \ {t} : th'[u] = th[u]
         /\ th'[t].node = i /\ th'[t].delta = -1
         /\ th'[t].key = th[t].key /\ th'[t].call = th[t].call
         /\ \/ th[t].call \in Hooks \cup {"lock"} /\ th'[t].pc = "mutex"
            \/ th[t].call = "set" /\ th'[t].pc = "assign"
            \/ th[t].call = "lockmode" /\ th'[t].pc = "lockmode"
            \/ th[t].call = "unlock" /\ th'[t].pc = "load"
<1>1. /\ \A u \in Threads \ {t} : th'[u] = th[u]
      /\ th'[t].node = i /\ th'[t].delta = -1
      /\ th'[t].key = th[t].key /\ th'[t].call = th[t].call
      /\ th'[t].pc = FirstStep(th[t].call)
  BY DEF SearchInv, Shape, CallFields, GotNode
<1>2. \/ th[t].call \in Hooks \cup {"lock"} /\ FirstStep(th[t].call) = "mutex"
      \/ th[t].call = "set" /\ FirstStep(th[t].call) = "assign"
      \/ th[t].call = "lockmode" /\ FirstStep(th[t].call) = "lockmode"
      \/ th[t].call = "unlock" /\ FirstStep(th[t].call) = "load"
  BY DEF FirstStep, Hooks, Calls
<1> QED
  BY <1>1, <1>2

LEMMA SearchLocks ==
  ASSUME SearchInv, LockInv, NEW t \in Threads, Search(t)
  PROVE  LockInv'
<1> PICK f : f = th[t]
  OBVIOUS
<1>1. /\ f.pc = "search" /\ f.call \in Calls /\ Unseen(f.key, f.searchEnd)
      /\ UNCHANGED nodes /\ Len(nodes) \in Nat /\ DOMAIN nodes = 1 .. Len(nodes)
  BY Replaced DEF SearchInv, Shape, Search, At, Knows
<1>2. \A i \in 1 .. Len(nodes) : ~Ahead(t, i)
  BY <1>1 DEF Ahead, At
<1>3. ASSUME \A i \in 1 .. Len(nodes) : ~Ahead(t, i)'
      PROVE  \A i \in 1 .. Len(nodes') : nodes'[i].owner \in {t, NoThread} => CountOK(i)'
  BY <1>1, <1>2, <1>3, CountKept DEF LockInv
<1>4. CallOK(t)
  BY DEF LockInv
<1>5. CASE Matching(t) # {}
  <2>1. PICK i : i \in Matching(t)
    BY <1>5
  <2>2. i \in 1 .. Len(nodes) /\ nodes[i].handle = f.key
    BY <1>1, <2>1 DEF Matching, Searched, Unseen
  <2>3. \A j \in 1 .. Len(nodes) : nodes[j].handle = f.key => j = i
    BY <1>1, <2>2 DEF SearchInv, OneNodePerKey
  <2>4. \A j \in Matching(t) : j = i
    BY <1>1, <2>3 DEF Matching, Searched, Unseen
  <2>5. Max(Matching(t)) = i
    <3>1. i \in Int
      BY <1>1, <2>2
    <3>2. PICK S : S = Matching(t)
      OBVIOUS
    <3>3. Max(S) = i
      BY <2>1, <2>4, <3>1, <3>2, MaxOfOne
    <3> QED
      BY <3>2, <3>3
  <2>6. GotNode(t, i)
    BY <1>5, <2>5 DEF Search
  <2>7. /\ \A u \in Threads \ {t} : th'[u] = th[u]
        /\ th'[t].node = i /\ th'[t].delta = -1 /\ th'[t].key = f.key
        /\ \/ f.call \in Hooks \cup {"lock"} /\ th'[t].pc = "mutex"
           \/ f.call = "set" /\ th'[t].pc = "assign"
           \/ f.call = "lockmode" /\ th'[t].pc = "lockmode"
           \/ f.call = "unlock" /\ th'[t].pc = "load"
    BY <1>1, <2>6, GotNodeFacts
  <2>8. f.call \in {"unlock", "set"} => nodes[i].owner = t
    BY <1>1, <1>4, <2>3 DEF CallOK
  <2>9. f.call \in Hooks \cup {"lock"} => MayLock(t, f.key) /\ MayLock(t, f.key)'
    BY <1>1, <1>4 DEF CallOK, MayLock
  <2>10. CallOK(t)'
    BY <1>1, <2>2, <2>7, <2>8, <2>9 DEF CallOK, InList, Owning
  <2>11. \A j \in 1 .. Len(nodes) : ~Ahead(t, j)'
    BY <2>7 DEF Ahead, At
  <2> QED
    BY <1>1, <1>3, <2>7, <2>10, <2>11, SameNodesMove, OthersKept
<1>6. CASE Matching(t) = {} /\ f.call = "unlock"
  <2>1. Return(t)
    BY <1>6 DEF Search
  <2>2. th'[t].pc = "idle" /\ \A u \in Threads \ {t} : th'[u] = th[u]
    BY <2>1 DEF SearchInv, Shape, Return, Idle
  <2>3. \A j \in 1 .. Len(nodes) : ~Ahead(t, j)'
    BY <2>2 DEF Ahead, At
  <2> QED
    BY <1>1, <1>3, <2>1, <2>2, <2>3, SameNodesMove, ReturnLocks
<1>7. CASE Matching(t) = {} /\ f.call # "unlock"
  <2>1. th' = [th EXCEPT ![t].start = Len(nodes), ![t].pc = "prepend"]
    BY <1>7 DEF Search
  <2>2. /\ \A u \in Threads \ {t} : th'[u] = th[u]
        /\ th'[t].pc = "prepend" /\ th'[t].key = f.key /\ th'[t].call = f.call
    BY <2>1 DEF SearchInv, Shape, CallFields
  <2>3. CallOK(t)'
    BY <1>1, <1>4, <2>2 DEF CallOK, InList, Owning, MayLock
  <2>4. \A j \in 1 .. Len(nodes) : ~Ahead(t, j)'
    BY <2>2 DEF Ahead, At
  <2> QED
    BY <1>1, <1>3, <2>2, <2>3, <2>4, SameNodesMove, OthersKept
<1> QED
  BY <1>5, <1>6, <1>7

LEMMA PrependLocks ==
  ASSUME SearchInv, LockInv, NEW t \in Threads, Prepend(t)
  PROVE  LockInv'
<1> PICK f : f = th[t]
  OBVIOUS
<1>1. /\ f.pc = "prepend" /\ f.call \in Calls /\ Unseen(f.key, f.start)
      /\ Len(nodes) \in Nat
  BY Replaced DEF SearchInv, Shape, Prepend, TryPrepend, At, Knows
<1>2. CallOK(t)
  BY DEF LockInv
<1>3. \A i \in 1 .. Len(nodes) : ~Ahead(t, i)
  BY <1>1 DEF Ahead, At
<1>4. CASE Len(nodes) = f.start
  <2>1. nodes' = Append(nodes, Node(f.key)) /\ GotNode(t, Len(nodes) + 1)
    BY <1>4 DEF Prepend, TryPrepend
  <2>2. /\ Len(nodes') = Len(nodes) + 1 /\ \A i \in 1 .. Len(nodes) : nodes'[i] = nodes[i]
        /\ nodes'[Len(nodes) + 1] = Node(f.key)
    BY <2>1, Appended DEF SearchInv, Shape
  <2>3. \A i \in 1 .. Len(nodes) : nodes[i].handle # f.key
    BY <1>1, <1>4 DEF Unseen
  <2>4. f.call \in Hooks \cup {"lock", "lockmode"}
    BY <1>1, <1>2, <2>3 DEF CallOK, Calls
  <2>5. /\ \A u \in Threads \ {t} : th'[u] = th[u]
        /\ th'[t].node = Len(nodes) + 1 /\ th'[t].delta = -1 /\ th'[t].key = f.key
        /\ th'[t].pc \in {"mutex", "lockmode"}
    BY <1>1, <2>1, <2>4, GotNodeFacts DEF Hooks
  <2>6. Node(f.key).handle = f.key /\ Node(f.key).owner = NoThread
        /\ Node(f.key).depth = 0 /\ Node(f.key).refcount = 0
    BY DEF Node
  <2>7. Moves(t)
    BY <1>1, <2>2, <2>5, <2>6 DEF Moves
  <2>8. MayLock(t, f.key)'
    <3>1. ASSUME NEW i \in 1 .. Len(nodes'), nodes'[i].handle = f.key PROVE nodes'[i].owner # t
      <4>1. i = Len(nodes) + 1
        BY <1>1, <2>2, <2>3, <3>1
      <4> QED
        BY <2>2, <2>6, <4>1, KeymgrAssumption
    <3> QED
      BY <3>1 DEF MayLock
  <2>9. CallOK(t)'
    BY <1>1, <2>2, <2>5, <2>6, <2>8 DEF CallOK, InList, Owning
  <2>10. \A i \in 1 .. Len(nodes) : ~Ahead(t, i)'
    BY <2>5 DEF Ahead, At
  <2>11. ASSUME NEW i \in 1 .. Len(nodes'), nodes'[i].owner \in {t, NoThread} PROVE CountOK(i)'
    <3>1. CASE i = Len(nodes) + 1
      BY <2>2, <2>6, <3>1 DEF CountOK
    <3>2. CASE i # Len(nodes) + 1
      <4>1. i \in 1 .. Len(nodes)
        BY <1>1, <2>2, <3>2
      <4> QED
        BY <1>3, <2>2, <2>10, <2>11, <4>1, CountKept DEF LockInv
    <3> QED
      BY <3>1, <3>2
  <2> QED
    BY <2>7, <2>9, <2>11, OthersKept
<1>5. CASE Len(nodes) # f.start
  <2>1. UNCHANGED nodes /\ th' = [th EXCEPT ![t].searchEnd = f.start, ![t].pc = "search"]
    BY <1>5 DEF Prepend, TryPrepend
  <2>2. /\ \A u \in Threads \ {t} : th'[u] = th[u]
        /\ th'[t].pc = "search" /\ th'[t].key = f.key /\ th'[t].call = f.call
    BY <2>1 DEF SearchInv, Shape, CallFields
  <2>3. CallOK(t)'
    BY <1>1, <1>2, <2>1, <2>2 DEF CallOK, InList, Owning, MayLock
  <2>4. \A j \in 1 .. Len(nodes) : ~Ahead(t, j)'
    BY <2>2 DEF Ahead, At
  <2>5. \A i \in 1 .. Len(nodes') : nodes'[i].owner \in {t, NoThread} => CountOK(i)'
    BY <1>3, <2>1, <2>4, CountKept DEF LockInv
  <2> QED
    BY <2>1, <2>2, <2>3, <2>5, SameNodesMove, OthersKept
<1> QED
  BY <1>4, <1>5

LEMMA MutexLocks ==
  ASSUME SearchInv, LockInv, NEW t \in Threads, Mutex(t)
  PROVE  LockInv'
<1> PICK f : f = th[t]
  OBVIOUS
<1> PICK n : n = nodes[f.node]
  OBVIOUS
<1>1. /\ f.pc = "mutex" /\ f.node \in 1 .. Len(nodes) /\ n.handle = f.key /\ DOMAIN n = NodeFields
      /\ CountOK(f.node) /\ MayLock(t, f.key) /\ Mine(t) = n
  BY DEF SearchInv, Shape, LockInv, CallOK, InList, Mutex, At, Mine
<1>2. CASE /\ n.owner = NoThread \/ (n.owner = t /\ n.recursive)
           /\ SetNode(t, [n EXCEPT !.owner = t, !.depth = @ + 1])
           /\ th' = [th EXCEPT ![t].delta = 1, ![t].pc = "load"]
  <2>1. PICK x : x = [n EXCEPT !.owner = t, !.depth = @ + 1]
    OBVIOUS
  <2>2. x.owner = t /\ x.depth = n.depth + 1 /\ x.handle = n.handle /\ x.refcount = n.refcount
    BY <1>1, <2>1 DEF NodeFields
  <2>3. /\ \A u \in Threads \ {t} : th'[u] = th[u]
        /\ th'[t].pc = "load" /\ th'[t].delta = 1
        /\ th'[t].key = f.key /\ th'[t].node = f.node
    BY <1>2 DEF SearchInv, Shape, CallFields
  <2>4. SetNode(t, x)
    BY <1>2, <2>1
  <2>5. /\ Moves(t) /\ Len(nodes') = Len(nodes)
        /\ \A i \in 1 .. Len(nodes) : nodes'[i] = IF i = f.node THEN x ELSE nodes[i]
    <3>1. /\ Mine(t).owner \in {t, NoThread} /\ x.owner \in {t, NoThread}
          /\ x.handle = Mine(t).handle /\ th[t].node \in 1 .. Len(nodes)
      BY <1>1, <1>2, <2>2
    <3> QED
      BY <2>3, <2>4, <3>1, MyNodeMoves
  <2>6. CallOK(t)'
    BY <1>1, <2>2, <2>3, <2>5 DEF CallOK, InList, Owning
  <2>7. ~Ahead(t, f.node)
    BY <1>1 DEF Ahead, At
  <2>8. n.depth \in 0 .. MaxDepth - 1 /\ n.refcount = n.depth
    <3>1. CASE n.owner = NoThread
      <4>1. n.depth = 0 /\ n.refcount = 0
        BY <1>1, <3>1, KeymgrAssumption DEF CountOK
      <4> QED
        BY <4>1, KeymgrAssumption
    <3>2. CASE n.owner = t
      <4>1. n.depth < MaxDepth
        BY <1>1, <3>2 DEF MayLock
      <4> QED
        BY <1>1, <2>7, <3>2, <4>1, KeymgrAssumption DEF CountOK
    <3> QED
      BY <1>2, <3>1, <3>2
  <2>9. Ahead(t, f.node)'
    BY <2>3 DEF Ahead
  <2>10. CountOK(f.node)'
    <3>1. x.depth \in 1 .. MaxDepth /\ x.refcount = x.depth - 1
      BY <2>2, <2>8, KeymgrAssumption
    <3> QED
      BY <1>1, <2>2, <2>5, <2>9, <3>1 DEF CountOK
  <2>11. ASSUME NEW i \in 1 .. Len(nodes'), nodes'[i].owner \in {t, NoThread} PROVE CountOK(i)'
    <3>1. CASE i # f.node
      <4>1. ~Ahead(t, i) /\ ~Ahead(t, i)'
        BY <1>1, <2>3, <3>1 DEF Ahead, At
      <4> QED
        BY <2>5, <2>11, <3>1, <4>1, CountKept DEF LockInv
    <3> QED
      BY <2>10, <3>1
  <2> QED
    BY <2>5, <2>6, <2>11, OthersKept
<1>3. CASE Return(t) /\ UNCHANGED nodes
  <2>1. th'[t].pc = "idle" /\ \A u \in Threads \ {t} : th'[u] = th[u]
    BY <1>3 DEF SearchInv, Shape, Return, Idle
  <2>2. \A i \in 1 .. Len(nodes) : ~Ahead(t, i) /\ ~Ahead(t, i)'
    BY <1>1, <2>1 DEF Ahead, At
  <2>3. \A i \in 1 .. Len(nodes') : nodes'[i].owner \in {t, NoThread} => CountOK(i)'
    BY <1>3, <2>2, CountKept DEF LockInv
  <2> QED
    BY <1>3, <2>1, <2>3, SameNodesMove, ReturnLocks
<1> QED
  BY <1>1, <1>2, <1>3 DEF Mutex

LEMMA LoadLocks ==
  ASSUME SearchInv, LockInv, NEW t \in Threads, Load(t)
  PROVE  LockInv'
<1> PICK f : f = th[t]
  OBVIOUS
<1>1. /\ f.pc = "load" /\ UNCHANGED nodes /\ \A u \in Threads \ {t} : th'[u] = th[u]
      /\ th'[t].pc = "store" /\ th'[t].count = nodes[f.node].refcount
      /\ th'[t].node = f.node /\ th'[t].key = f.key /\ th'[t].delta = f.delta
  BY DEF Load, At, Mine, SearchInv, Shape, CallFields
<1>2. CallOK(t)
  BY DEF LockInv
<1>3. CallOK(t)'
  BY <1>1, <1>2 DEF CallOK, InList, Owning
<1>4. \A i \in 1 .. Len(nodes) : Ahead(t, i) <=> Ahead(t, i)'
  BY <1>1 DEF Ahead, At
<1>5. \A i \in 1 .. Len(nodes') : nodes'[i].owner \in {t, NoThread} => CountOK(i)'
  BY <1>1, <1>4, CountKept DEF LockInv
<1> QED
  BY <1>1, <1>3, <1>5, SameNodesMove, OthersKept

LEMMA AssignLocks ==
  ASSUME SearchInv, LockInv, NEW t \in Threads, Assign(t)
  PROVE  LockInv'
<1> PICK f : f = th[t]
  OBVIOUS
<1> PICK n : n = nodes[f.node]
  OBVIOUS
<1>1. /\ f.pc = "assign" /\ f.node \in 1 .. Len(nodes) /\ n.handle = f.key /\ DOMAIN n = NodeFields
      /\ n.owner = t /\ f.delta = -1 /\ Mine(t) = n
  BY DEF SearchInv, Shape, LockInv, CallOK, InList, Owning, Assign, At, Mine
<1>2. PICK x : x = [n EXCEPT !.ptr = f.value]
  OBVIOUS
<1>3. x.owner = n.owner /\ x.depth = n.depth /\ x.handle = n.handle /\ x.refcount = n.refcount
  BY <1>1, <1>2 DEF NodeFields
<1>4. /\ SetNode(t, x) /\ \A u \in Threads \ {t} : th'[u] = th[u]
      /\ th'[t].pc = "load" /\ th'[t].delta = -1
      /\ th'[t].key = f.key /\ th'[t].node = f.node
  BY <1>1, <1>2 DEF Assign, SearchInv, Shape, CallFields
<1>5. /\ Moves(t) /\ Len(nodes') = Len(nodes)
      /\ \A i \in 1 .. Len(nodes) : nodes'[i] = IF i = f.node THEN x ELSE nodes[i]
  BY <1>1, <1>3, <1>4, MyNodeMoves
<1>6. CallOK(t)'
  BY <1>1, <1>3, <1>4, <1>5 DEF CallOK, InList, Owning
<1>7. \A i \in 1 .. Len(nodes) : ~Ahead(t, i) /\ ~Ahead(t, i)'
  BY <1>1, <1>4 DEF Ahead, At
<1>8. ASSUME NEW i \in 1 .. Len(nodes'), nodes'[i].owner \in {t, NoThread} PROVE CountOK(i)'
  BY <1>3, <1>5, <1>7, <1>8, CountKept DEF LockInv
<1> QED
  BY <1>5, <1>6, <1>8, OthersKept

LEMMA SmallModulo ==
  ASSUME NEW e \in Nat, e < 65536
  PROVE  e % 65536 = e
OBVIOUS

LEMMA StoreLocks ==
  ASSUME SearchInv, LockInv, NEW t \in Threads, Store(t)
  PROVE  LockInv'
<1> PICK f : f = th[t]
  OBVIOUS
<1> PICK n : n = nodes[f.node]
  OBVIOUS
<1>1. /\ f.pc = "store" /\ f.node \in 1 .. Len(nodes) /\ n.handle = f.key /\ DOMAIN n = NodeFields
      /\ n.owner = t /\ f.delta \in {-1, 1} /\ f.count = n.refcount /\ Mine(t) = n
      /\ CountOK(f.node)
  BY DEF SearchInv, Shape, LockInv, CallOK, InList, Owning, Store, At, Mine
<1>2. n.depth \in 1 .. MaxDepth /\ n.refcount = IF f.delta = 1 THEN n.depth - 1 ELSE n.depth
  BY <1>1, KeymgrAssumption DEF CountOK, Ahead, At
<1>3. PICK c : c = (f.count + f.delta) % 65536
  OBVIOUS
<1>4. c = IF f.delta = 1 THEN n.depth ELSE n.depth - 1
  <2>1. PICK e : e = IF f.delta = 1 THEN n.depth ELSE n.depth - 1
    OBVIOUS
  <2>2. n.depth \in Nat \ {0} /\ n.depth < 65536
    BY <1>2, KeymgrAssumption
  <2>3. e \in Nat /\ e < 65536 /\ f.count + f.delta = e
    BY <1>1, <1>2, <2>1, <2>2
  <2>4. e % 65536 = e
    BY <2>3, SmallModulo
  <2> QED
    BY <1>3, <2>1, <2>3, <2>4
<1>5. PICK x : x = [n EXCEPT !.refcount = c]
  OBVIOUS
<1>6. x.owner = t /\ x.depth = n.depth /\ x.handle = n.handle /\ x.refcount = c
  BY <1>1, <1>5 DEF NodeFields
<1>7. SetNode(t, x)
  BY <1>1, <1>3, <1>5 DEF Store
<1>8. \/ /\ f.delta = -1 /\ th' = [th EXCEPT ![t].pc = "release"]
      \/ /\ f.delta = 1 /\ f.call \in Hooks
         /\ th' = [th EXCEPT ![t].pc = "search", ![t].searchEnd = 0, ![t].call = "set",
                             ![t].value = HookValue(t)]
      \/ f.delta = 1 /\ Return(t)
  BY <1>1 DEF Store
<1>9. /\ \A u \in Threads \ {t} : th'[u] = th[u]
      /\ \/ /\ f.delta = -1 /\ th'[t].pc = "release"
            /\ th'[t].node = f.node /\ th'[t].key = f.key
         \/ /\ f.delta = 1 /\ th'[t].pc = "search" /\ th'[t].call = "set" /\ th'[t].key = f.key
         \/ /\ f.delta = 1 /\ th'[t].pc = "idle"
  BY <1>8 DEF SearchInv, Shape, CallFields, Return, Idle
<1>10. /\ Moves(t) /\ Len(nodes') = Len(nodes)
       /\ \A i \in 1 .. Len(nodes) : nodes'[i] = IF i = f.node THEN x ELSE nodes[i]
  <2>1. /\ Mine(t).owner \in {t, NoThread} /\ x.owner \in {t, NoThread}
        /\ x.handle = Mine(t).handle /\ th[t].node \in 1 .. Len(nodes)
    BY <1>1, <1>6
  <2> QED
    BY <1>7, <1>9, <2>1, MyNodeMoves
<1>11. nodes'[f.node] = x /\ f.node \in 1 .. Len(nodes')
  BY <1>1, <1>10
<1>12. CallOK(t)'
  BY <1>1, <1>6, <1>9, <1>11 DEF CallOK, InList, Owning, Hooks
<1>13. CountOK(f.node)'
  <2>1. Ahead(t, f.node)' <=> f.delta = -1
    BY <1>1, <1>9 DEF Ahead, At
  <2>2. x.refcount = IF Ahead(t, f.node)' THEN x.depth - 1 ELSE x.depth
    BY <1>1, <1>4, <1>6, <2>1
  <2> QED
    BY <1>2, <1>6, <1>11, <2>2 DEF CountOK
<1>14. ASSUME NEW i \in 1 .. Len(nodes'), nodes'[i].owner \in {t, NoThread} PROVE CountOK(i)'
  <2>1. CASE i # f.node
    <3>1. ~Ahead(t, i) /\ ~Ahead(t, i)'
      BY <1>1, <1>9, <2>1 DEF Ahead, At
    <3> QED
      BY <1>10, <1>14, <2>1, <3>1, CountKept DEF LockInv
  <2> QED
    BY <1>13, <2>1
<1> QED
  BY <1>10, <1>12, <1>14, OthersKept

LEMMA ReleaseLocks ==
  ASSUME SearchInv, LockInv, NEW t \in Threads, Release(t)
  PROVE  LockInv'
<1> PICK f : f = th[t]
  OBVIOUS
<1> PICK n : n = nodes[f.node]
  OBVIOUS
<1>1. /\ f.pc = "release" /\ f.node \in 1 .. Len(nodes) /\ n.handle = f.key /\ DOMAIN n = NodeFields
      /\ n.owner = t /\ Mine(t) = n /\ CountOK(f.node)
  BY DEF SearchInv, Shape, LockInv, CallOK, InList, Owning, Release, At, Mine
<1>2. n.depth \in 1 .. MaxDepth /\ n.refcount = n.depth - 1
  BY <1>1, KeymgrAssumption DEF CountOK, Ahead, At
<1>3. PICK x : x = [n EXCEPT !.depth = @ - 1, !.owner = IF n.depth = 1 THEN NoThread ELSE t]
  OBVIOUS
<1>4. /\ x.owner = IF n.depth = 1 THEN NoThread ELSE t
      /\ x.depth = n.depth - 1 /\ x.handle = n.handle /\ x.refcount = n.refcount
  BY <1>1, <1>3 DEF NodeFields
<1>5. SetNode(t, x) /\ Return(t)
  BY <1>1, <1>3 DEF Release
<1>6. th'[t].pc = "idle" /\ \A u \in Threads \ {t} : th'[u] = th[u]
  BY <1>5 DEF SearchInv, Shape, Return, Idle
<1>7. /\ Moves(t) /\ Len(nodes') = Len(nodes)
      /\ \A i \in 1 .. Len(nodes) : nodes'[i] = IF i = f.node THEN x ELSE nodes[i]
  <2>1. /\ Mine(t).owner \in {t, NoThread} /\ x.owner \in {t, NoThread}
        /\ x.handle = Mine(t).handle /\ th[t].node \in 1 .. Len(nodes)
    BY <1>1, <1>4
  <2> QED
    BY <1>5, <1>6, <2>1, MyNodeMoves
<1>8. CountOK(f.node)'
  <2>1. ~Ahead(t, f.node)'
    BY <1>6 DEF Ahead, At
  <2>2. nodes'[f.node] = x
    BY <1>1, <1>7
  <2>3. CASE n.depth = 1
    BY <1>2, <1>4, <2>2, <2>3 DEF CountOK
  <2>4. CASE n.depth # 1
    <3>1. x.owner = t /\ x.depth \in 1 .. MaxDepth /\ x.refcount = x.depth
      BY <1>2, <1>4, <2>4, KeymgrAssumption
    <3> QED
      BY <2>1, <2>2, <3>1 DEF CountOK
  <2> QED
    BY <2>3, <2>4
<1>9. ASSUME NEW i \in 1 .. Len(nodes'), nodes'[i].owner \in {t, NoThread} PROVE CountOK(i)'
  <2>1. CASE i # f.node
    <3>1. ~Ahead(t, i) /\ ~Ahead(t, i)'
      BY <1>1, <1>6, <2>1 DEF Ahead, At
    <3> QED
      BY <1>7, <1>9, <2>1, <3>1, CountKept DEF LockInv
  <2> QED
    BY <1>8, <2>1
<1> QED
  BY <1>5, <1>7, <1>9, ReturnLocks

LEMMA LockmodeLocks ==
  ASSUME SearchInv, LockInv, NEW t \in Threads, Lockmode(t)
  PROVE  LockInv'
<1> PICK f : f = th[t]
  OBVIOUS
<1> PICK n : n = nodes[f.node]
  OBVIOUS
<1>1. /\ f.pc = "lockmode" /\ f.node \in 1 .. Len(nodes) /\ n.handle = f.key
      /\ DOMAIN n = NodeFields /\ Mine(t) = n
  BY DEF SearchInv, Shape, LockInv, CallOK, InList, Lockmode, At, Mine
<1>2. PICK r : r = IF n.owner = NoThread THEN ~n.recursive ELSE n.recursive
  OBVIOUS
<1>3. PICK x : x = [n EXCEPT !.recursive = r]
  OBVIOUS
<1>4. x.owner = n.owner /\ x.depth = n.depth /\ x.handle = n.handle /\ x.refcount = n.refcount
  BY <1>1, <1>3 DEF NodeFields
<1>5. SetNode(t, x) /\ Return(t)
  BY <1>1, <1>2, <1>3 DEF Lockmode, SetNode, Mine
<1>6. th'[t].pc = "idle" /\ \A u \in Threads \ {t} : th'[u] = th[u]
  BY <1>5 DEF SearchInv, Shape, Return, Idle
<1>7. /\ Moves(t) /\ Len(nodes') = Len(nodes)
      /\ \A i \in 1 .. Len(nodes) : nodes'[i] = IF i = f.node THEN x ELSE nodes[i]
  <2>1. /\ x.owner = Mine(t).owner /\ x.depth = Mine(t).depth /\ x.refcount = Mine(t).refcount
        /\ x.handle = Mine(t).handle /\ th[t].node \in 1 .. Len(nodes)
    BY <1>1, <1>4
  <2> QED
    BY <1>5, <1>6, <2>1, MyNodeMoves
<1>8. \A i \in 1 .. Len(nodes) : ~Ahead(t, i) /\ ~Ahead(t, i)'
  BY <1>1, <1>6 DEF Ahead, At
<1>9. ASSUME NEW i \in 1 .. Len(nodes'), nodes'[i].owner \in {t, NoThread} PROVE CountOK(i)'
  BY <1>4, <1>7, <1>8, <1>9, CountKept DEF LockInv
<1> QED
  BY <1>5, <1>7, <1>9, ReturnLocks

LEMMA ExamineLocks ==
  ASSUME SearchInv, LockInv, NEW t \in Threads, Examine(t)
  PROVE  LockInv'
<1>1. PICK i \in NodesOf(LIVE_IMAGE_LIST), d \in Destructors :
        \E j \in DOMAIN nodes[i].ptr : nodes' = [nodes EXCEPT ![i].ptr[j].destructor = d]
  BY DEF Examine
<1>2. PICK p : nodes' = [nodes EXCEPT ![i] = [nodes[i] EXCEPT !.ptr = p]]
  BY <1>1
<1>3. PICK x : x = [nodes[i] EXCEPT !.ptr = p]
  OBVIOUS
<1>4. nodes' = [nodes EXCEPT ![i] = x] /\ IsSeq(nodes)
  BY <1>2, <1>3 DEF SearchInv, Shape
<1>5. /\ Len(nodes) \in Nat /\ Len(nodes') = Len(nodes)
      /\ \A k \in 1 .. Len(nodes) : nodes'[k] = IF k = i THEN x ELSE nodes[k]
  BY <1>4, Replaced
<1>6. i \in 1 .. Len(nodes) => x.owner = nodes[i].owner /\ x.depth = nodes[i].depth
                               /\ x.handle = nodes[i].handle /\ x.refcount = nodes[i].refcount
  BY <1>3 DEF SearchInv, Shape, NodeFields
<1>7. \A k \in 1 .. Len(nodes) :
        /\ nodes'[k].owner = nodes[k].owner /\ nodes'[k].depth = nodes[k].depth
        /\ nodes'[k].handle = nodes[k].handle /\ nodes'[k].refcount = nodes[k].refcount
  BY <1>5, <1>6
<1>8. UNCHANGED th
  BY DEF Examine
<1>9. Moves(t)
  BY <1>5, <1>7, <1>8 DEF Moves
<1>10. CallOK(t)'
  <2>1. CallOK(t)
    BY DEF LockInv
  <2>2. \A k : MayLock(t, k) => MayLock(t, k)'
    BY <1>5, <1>7 DEF MayLock
  <2> QED
    BY <1>5, <1>7, <1>8, <2>1, <2>2 DEF CallOK, InList, Owning
<1>11. ASSUME NEW k \in 1 .. Len(nodes'), nodes'[k].owner \in {t, NoThread} PROVE CountOK(k)'
  BY <1>5, <1>7, <1>8, <1>11, CountKept DEF LockInv, Ahead, At
<1> QED
  BY <1>9, <1>10, <1>11, OthersKept

LEMMA LockNext ==
  ASSUME StrangerKeys = {}, SearchInv, LockInv, [Next]_vars
  PROVE  LockInv'
<1>1. CASE UNCHANGED vars
  BY <1>1 DEF LockInv, CountOK, Ahead, CallOK, MayLock, At, vars
<1>2. DOMAIN nodes = 1 .. Len(nodes)
  BY Replaced DEF SearchInv, Shape
<1>3. ASSUME NEW t \in Threads, NEW k \in Keys, Lock(t, k) PROVE LockInv'
  <2>1. MayLock(t, k)
    BY <1>2, <1>3 DEF Lock, MayLock, NodesOf
  <2> QED
    BY <1>3, <2>1, CallLocks DEF Lock, Calls
<1>4. ASSUME NEW t \in Threads, NEW k \in Keys, Unlock(t, k) PROVE LockInv'
  BY <1>4, CallLocks DEF Unlock, Calls, Hooks
<1>5. ASSUME NEW t \in Threads, NEW k \in Keys, SetLockmode(t, k) PROVE LockInv'
  BY <1>5, CallLocks DEF SetLockmode, Calls, Hooks
<1>6. ASSUME NEW t \in Threads, NEW m \in Images, NEW call \in Hooks, Hook(t, call, m) PROVE LockInv'
  <2>1. MayLock(t, LIVE_IMAGE_LIST)
    BY <1>2, <1>6 DEF Hook, MayLock, Holds, NodesOf
  <2> QED
    BY <1>6, <2>1, CallLocks DEF Hook, Calls, Hooks
<1> QED
  BY <1>1, <1>3, <1>4, <1>5, <1>6, ExamineLocks, SearchLocks, PrependLocks, MutexLocks, LoadLocks,
     StoreLocks, AssignLocks, ReleaseLocks, LockmodeLocks DEF Next

LEMMA CountsFollow ==
  ASSUME SearchInv, LockInv PROVE CountsLocks
<1> SUFFICES ASSUME NEW i \in DOMAIN nodes, NEW t \in Threads, nodes[i].owner = t, At(t, "idle")
             PROVE  nodes[i].refcount = nodes[i].depth
  BY DEF CountsLocks
<1>1. CountOK(i)
  BY Replaced DEF LockInv, SearchInv, Shape
<1>2. ~Ahead(t, i)
  BY DEF Ahead, At
<1> QED
  BY <1>1, <1>2, KeymgrAssumption DEF CountOK

(***************************************************************************)
(* A key stands for one node, and the count that                           *)
(* _keymgr_get_lock_count_processwide_ptr returns to the thread that has   *)
(* the lock is the number of its locks, though refcount++ and refcount--   *)
(* are not atomic: as long as a key is unlocked only by the thread that    *)
(* locked it, and locked less than 65536 times.                            *)
(***************************************************************************)
THEOREM Nodes ==
  ASSUME StrangerKeys = {}
  PROVE  Spec => []NodesSound
<1>1. Init => SearchInv /\ LockInv
  BY SearchInit, LockInit
<1>2. SearchInv /\ LockInv /\ [Next]_vars => (SearchInv /\ LockInv)'
  BY SearchNext, LockNext
<1>3. SearchInv /\ LockInv => NodesSound
  BY CountsFollow DEF SearchInv, NodesSound
<1> QED
  BY <1>1, <1>2, <1>3, PTL DEF Spec

-----------------------------------------------------------------------------
(* The walk over the list of images.                                       *)

\* Every set of naturals has a least element: what stands for induction.
LEMMA LeastOf ==
  ASSUME NEW T \in SUBSET Nat, T # {}
  PROVE  \E n \in T : \A k \in T : n <= k
<1> DEFINE R == OpToRel(<, Nat)
<1>1. IsWellFoundedOn(R, Nat)
  BY NatLessThanWellFounded
<1>2. \A x, y \in Nat : x < y => <<x, y>> \in R
  BY DEF OpToRel
<1> HIDE DEF R
<1>3. PICK n \in T : \A k \in T : ~(<<k, n>> \in R)
  BY <1>1, WFMin
<1>4. \A k \in T : ~(k < n)
  BY <1>2, <1>3
<1>5. \A k \in T : k \in Nat /\ n \in Nat
  OBVIOUS
<1> QED
  BY <1>4, <1>5

\* what the walk makes of an entry
Left(e, d) == IF e.destructor = d THEN [e EXCEPT !.destructor = NoDestructor] ELSE e

\* the walk so far, as a function on 0 .. n
Walked(f, list, m, d, n) ==
  f = [i \in 0 .. n |-> IF i = 0 THEN <<>>
                        ELSE IF list[i].mh = m THEN f[i - 1]
                        ELSE Append(f[i - 1], Left(list[i], d))]

\* However long the list is, there is such a function.
LEMMA WalkedSome ==
  ASSUME NEW list, NEW m, NEW d, NEW n \in Nat
  PROVE  \E f : Walked(f, list, m, d, n)
<1> DEFINE T == {k \in Nat : ~ \E f : Walked(f, list, m, d, k)}
<1>1. SUFFICES ASSUME T # {} PROVE FALSE
  OBVIOUS
<1>2. PICK k \in T : \A j \in T : k <= j
  <2> HIDE DEF T
  <2>1. T \in SUBSET Nat
    BY DEF T
  <2> QED
    BY <1>1, <2>1, LeastOf
<1>3. k # 0
  <2>1. [i \in 0 .. 0 |-> <<>>] = [i \in 0 .. 0 |-> IF i = 0 THEN <<>>
                        ELSE IF list[i].mh = m THEN [j \in 0 .. 0 |-> <<>>][i - 1]
                        ELSE Append([j \in 0 .. 0 |-> <<>>][i - 1], Left(list[i], d))]
    OBVIOUS
  <2>2. Walked([i \in 0 .. 0 |-> <<>>], list, m, d, 0)
    BY <2>1 DEF Walked
  <2> QED
    BY <1>2, <2>2
<1>4. k \in Nat /\ k - 1 \in Nat /\ ~ \E f : Walked(f, list, m, d, k)
  BY <1>2, <1>3
<1>5. PICK f : Walked(f, list, m, d, k - 1)
  BY <1>2, <1>4
<1> DEFINE g == [i \in 0 .. k |-> IF i = k
                                  THEN IF list[k].mh = m THEN f[k - 1]
                                       ELSE Append(f[k - 1], Left(list[k], d))
                                  ELSE f[i]]
<1>6. ASSUME NEW i \in 0 .. k
      PROVE  g[i] = IF i = 0 THEN <<>>
                    ELSE IF list[i].mh = m THEN g[i - 1]
                    ELSE Append(g[i - 1], Left(list[i], d))
  <2>1. CASE i = k
    <3>1. g[i - 1] = f[i - 1]
      BY <1>3, <1>4, <2>1
    <3> QED
      BY <1>3, <2>1, <3>1
  <2>2. CASE i # k
    <3>1. i \in 0 .. k - 1 /\ (i # 0 => i - 1 \in 0 .. k - 1)
      BY <1>4, <2>2
    <3>2. f[i] = IF i = 0 THEN <<>>
                 ELSE IF list[i].mh = m THEN f[i - 1]
                 ELSE Append(f[i - 1], Left(list[i], d))
      BY <1>5, <3>1 DEF Walked
    <3>3. g[i] = f[i] /\ (i # 0 => g[i - 1] = f[i - 1])
      BY <1>4, <2>2, <3>1
    <3> QED
      BY <3>2, <3>3
  <2> QED
    BY <2>1, <2>2
<1>7. g = [i \in 0 .. k |-> g[i]]
  OBVIOUS
<1> HIDE DEF g
<1>8. Walked(g, list, m, d, k)
  BY <1>6, <1>7 DEF Walked
<1> QED
  BY <1>4, <1>8

LEMMA WalkDef ==
  ASSUME NEW list, NEW m, NEW d, Len(list) \in Nat
  PROVE  \E f : Walked(f, list, m, d, Len(list)) /\ Walk(list, m, d) = f[Len(list)]
<1> DEFINE f == CHOOSE g : Walked(g, list, m, d, Len(list))
<1>1. Walked(f, list, m, d, Len(list))
  BY WalkedSome
<1>2. Walk(list, m, d) = f[Len(list)]
  BY DEF Walk, Walked, Left
<1> HIDE DEF f
<1> QED
  BY <1>1, <1>2

EntryFields == {"mh", "destructor"}

\* a list of images, each once
Entries(s) ==
  /\ IsSeq(s) /\ \A j \in 1 .. Len(s) : DOMAIN s[j] = EntryFields
  /\ \A i, j \in 1 .. Len(s) : s[i].mh = s[j].mh => i = j

\* w is the list's first n entries without those of m
Without1(w, list, m, d, n) ==
  /\ Entries(w)
  /\ \A j \in 1 .. Len(w) : \E l \in 1 .. n : list[l].mh # m /\ w[j] = Left(list[l], d)
  /\ \A l \in 1 .. n : list[l].mh # m => \E j \in 1 .. Len(w) : w[j] = Left(list[l], d)

LEMMA LeftFacts ==
  ASSUME NEW e, NEW d, DOMAIN e = EntryFields
  PROVE  /\ DOMAIN Left(e, d) = EntryFields /\ Left(e, d).mh = e.mh
         /\ Left(e, d).destructor = IF e.destructor = d THEN NoDestructor ELSE e.destructor
BY DEF Left, EntryFields

\* One entry more.
LEMMA WithoutStep ==
  ASSUME NEW list, Entries(list), NEW m, NEW d, NEW n \in 1 .. Len(list),
         NEW v, Without1(v, list, m, d, n - 1),
         NEW w, w = IF list[n].mh = m THEN v ELSE Append(v, Left(list[n], d))
  PROVE  Without1(w, list, m, d, n)
<1>1. Len(list) \in Nat /\ n \in Nat /\ \A l \in 1 .. n : l \in 1 .. n - 1 \/ l = n
  BY Replaced DEF Entries
<1>2. IsSeq(v) /\ Len(v) \in Nat
  BY Replaced DEF Without1, Entries
<1>3. CASE list[n].mh = m
  BY <1>1, <1>3 DEF Without1
<1>4. CASE list[n].mh # m
  <2>1. PICK x : x = Left(list[n], d)
    OBVIOUS
  <2>2. w = Append(v, x)
    BY <1>4, <2>1
  <2>3. /\ IsSeq(w) /\ Len(w) = Len(v) + 1
        /\ \A j \in 1 .. Len(v) : w[j] = v[j]
        /\ w[Len(v) + 1] = x
    BY <1>2, <2>2, Appended
  <2>4. DOMAIN x = EntryFields /\ x.mh = list[n].mh
    BY <2>1, LeftFacts DEF Entries
  <2>5. \A j \in 1 .. Len(w) : j \in 1 .. Len(v) \/ j = Len(v) + 1
    BY <1>2, <2>3
  <2>6. \A j \in 1 .. Len(w) : DOMAIN w[j] = EntryFields
    BY <2>3, <2>4, <2>5 DEF Without1, Entries
  <2>7. \A j \in 1 .. Len(v) : w[j].mh # x.mh
    <3> SUFFICES ASSUME NEW j \in 1 .. Len(v) PROVE v[j].mh # list[n].mh
      BY <2>3, <2>4
    <3>1. PICK l \in 1 .. n - 1 : v[j] = Left(list[l], d)
      BY DEF Without1
    <3>2. l \in 1 .. Len(list) /\ l # n
      BY <1>1
    <3>3. v[j].mh = list[l].mh
      BY <3>1, <3>2, LeftFacts DEF Entries
    <3> QED
      BY <3>2, <3>3 DEF Entries
  <2>8. \A i, j \in 1 .. Len(w) : w[i].mh = w[j].mh => i = j
    <3>1. \A i, j \in 1 .. Len(v) : w[i].mh = w[j].mh => i = j
      BY <2>3 DEF Without1, Entries
    <3> QED
      BY <2>3, <2>5, <2>7, <3>1
  <2>9. \A j \in 1 .. Len(w) : \E l \in 1 .. n : list[l].mh # m /\ w[j] = Left(list[l], d)
    BY <1>1, <1>4, <2>1, <2>3, <2>5 DEF Without1
  <2>10. ASSUME NEW l \in 1 .. n, list[l].mh # m
         PROVE  \E j \in 1 .. Len(w) : w[j] = Left(list[l], d)
    <3>1. CASE l = n
      <4>1. Len(v) + 1 \in 1 .. Len(w)
        BY <1>2, <2>3
      <4> QED
        BY <2>1, <2>3, <3>1, <4>1
    <3>2. CASE l # n
      <4>1. PICK j \in 1 .. Len(v) : v[j] = Left(list[l], d)
        BY <1>1, <2>10, <3>2 DEF Without1
      <4>2. j \in 1 .. Len(w)
        BY <1>2, <2>3
      <4> QED
        BY <2>3, <4>1, <4>2
    <3> QED
      BY <3>1, <3>2
  <2> QED
    BY <2>3, <2>6, <2>8, <2>9, <2>10 DEF Without1, Entries
<1> QED
  BY <1>3, <1>4

\* The walk leaves every entry but those of the image.
LEMMA WalkLeaves ==
  ASSUME NEW list, Entries(list), NEW m, NEW d
  PROVE  Without1(Walk(list, m, d), list, m, d, Len(list))
<1>1. Len(list) \in Nat
  BY Replaced DEF Entries
<1>2. PICK f : Walked(f, list, m, d, Len(list)) /\ Walk(list, m, d) = f[Len(list)]
  BY <1>1, WalkDef
<1> DEFINE T == {k \in 0 .. Len(list) : ~Without1(f[k], list, m, d, k)}
<1>3. SUFFICES ASSUME T # {} PROVE FALSE
  <2>1. Len(list) \in 0 .. Len(list)
    BY <1>1
  <2> QED
    BY <1>2, <1>3, <2>1
<1>4. PICK k \in T : \A j \in T : k <= j
  <2>1. T \in SUBSET Nat
    BY <1>1
  <2> HIDE DEF T
  <2> QED
    BY <1>3, <2>1, LeastOf
<1>5. k \in 0 .. Len(list) /\ ~Without1(f[k], list, m, d, k)
  OBVIOUS
<1>6. f[k] = IF k = 0 THEN <<>>
             ELSE IF list[k].mh = m THEN f[k - 1]
             ELSE Append(f[k - 1], Left(list[k], d))
  BY <1>2, <1>5 DEF Walked
<1>7. CASE k = 0
  <2>1. f[k] = <<>> /\ Len(<<>>) = 0 /\ IsSeq(<<>>)
    BY <1>6, <1>7 DEF IsSeq
  <2> QED
    BY <1>5, <1>7, <2>1 DEF Without1, Entries
<1>8. CASE k # 0
  <2>1. k \in 1 .. Len(list) /\ k - 1 \in 0 .. Len(list) /\ ~(k <= k - 1)
    BY <1>1, <1>5, <1>8
  <2>2. Without1(f[k - 1], list, m, d, k - 1)
    BY <1>4, <2>1
  <2>3. PICK v, w : v = f[k - 1] /\ w = f[k]
    OBVIOUS
  <2>4. w = IF list[k].mh = m THEN v ELSE Append(v, Left(list[k], d))
    BY <1>6, <1>8, <2>3
  <2>5. Without1(w, list, m, d, k)
    BY <2>1, <2>2, <2>3, <2>4, WithoutStep
  <2> QED
    BY <1>5, <2>3, <2>5
<1> QED
  BY <1>7, <1>8

-----------------------------------------------------------------------------
(* Lists of the images of a set.                                           *)

Lists(s, S) ==
  /\ Entries(s) /\ \A j \in 1 .. Len(s) : s[j].mh \in S
  /\ \A m \in S : \E j \in 1 .. Len(s) : s[j].mh = m

\* the destructors lie in images of the set
InImages(s, S) ==
  \A j \in 1 .. Len(s) : \/ s[j].destructor = NoDestructor
                         \/ s[j].destructor \in Destructors /\ ImageOf[s[j].destructor] \in S

\* "most of the time the destructors come from one or two objects": one from each
OneDestructor == \A d, e \in Destructors : ImageOf[d] = ImageOf[e] => d = e

LEMMA NoImages == Lists(<<>>, {}) /\ InImages(<<>>, {})
<1>1. IsSeq(<<>>) /\ Len(<<>>) = 0
  BY DEF IsSeq
<1> QED
  BY <1>1 DEF Lists, InImages, Entries

\* What the remove hook makes of the list.
LEMMA RemovedFrom ==
  ASSUME OneDestructor, NEW s, NEW S, Lists(s, S), NEW D, InImages(s, D), NEW m
  PROVE  Lists(Without(s, m), S \ {m}) /\ InImages(Without(s, m), D \ {m})
<1> DEFINE inM == {j \in DOMAIN s : s[j].destructor # NoDestructor /\ ImageOf[s[j].destructor] = m}
<1>1. Entries(s) /\ Len(s) \in Nat /\ DOMAIN s = 1 .. Len(s)
  BY Replaced DEF Lists, Entries
<1>2. PICK d : /\ Without(s, m) = Walk(s, m, d)
               /\ d = IF inM = {} THEN NoDestructor ELSE s[Min(inM)].destructor
  BY DEF Without
<1>3. \A j \in inM : s[j].destructor = d
  <2> SUFFICES ASSUME NEW j \in inM PROVE s[j].destructor = d
    OBVIOUS
  <2>1. inM \in SUBSET Nat /\ inM # {}
    BY <1>1
  <2>2. Min(inM) \in inM
    <3> HIDE DEF inM
    <3>1. PICK i \in inM : \A k \in inM : i <= k
      BY <2>1, LeastOf
    <3> QED
      BY <3>1 DEF Min
  <2>3. \A i \in inM : s[i].destructor \in Destructors /\ ImageOf[s[i].destructor] = m
    BY <1>1 DEF InImages
  <2>4. d = s[Min(inM)].destructor
    BY <1>2
  <2> HIDE DEF inM
  <2> QED
    BY <2>2, <2>3, <2>4 DEF OneDestructor
<1> PICK w : w = Without(s, m)
  OBVIOUS
<1>4. Without1(w, s, m, d, Len(s))
  BY <1>1, <1>2, WalkLeaves
<1>5. ASSUME NEW j \in 1 .. Len(w)
      PROVE  /\ w[j].mh \in S \ {m}
             /\ \/ w[j].destructor = NoDestructor
                \/ w[j].destructor \in Destructors /\ ImageOf[w[j].destructor] \in D \ {m}
  <2>1. PICK l \in 1 .. Len(s) : s[l].mh # m /\ w[j] = Left(s[l], d)
    BY <1>4 DEF Without1
  <2>2. /\ w[j].mh = s[l].mh
        /\ w[j].destructor = IF s[l].destructor = d THEN NoDestructor ELSE s[l].destructor
    BY <1>1, <2>1, LeftFacts DEF Entries
  <2>3. s[l].destructor = d \/ l \notin inM
    BY <1>3
  <2> QED
    BY <1>1, <2>1, <2>2, <2>3 DEF Lists, InImages
<1>6. ASSUME NEW x \in S \ {m} PROVE \E j \in 1 .. Len(w) : w[j].mh = x
  <2>1. PICK l \in 1 .. Len(s) : s[l].mh = x
    BY DEF Lists
  <2>2. PICK j \in 1 .. Len(w) : w[j] = Left(s[l], d)
    BY <1>4, <2>1 DEF Without1
  <2> QED
    BY <1>1, <2>1, <2>2, LeftFacts DEF Entries
<1> HIDE DEF inM
<1> QED
  BY <1>4, <1>5, <1>6 DEF Lists, InImages, Without1

\* What the add hook makes of it.
LEMMA AddedTo ==
  ASSUME NEW s, NEW S, Lists(s, S), NEW D, InImages(s, D), NEW m, m \notin S
  PROVE  LET w == <<[mh |-> m, destructor |-> NoDestructor]>> \o s
         IN  Lists(w, S \cup {m}) /\ InImages(w, D)
<1> PICK e : e = [mh |-> m, destructor |-> NoDestructor]
  OBVIOUS
<1> PICK w : w = <<e>> \o s
  OBVIOUS
<1>1. DOMAIN e = EntryFields /\ e.mh = m /\ e.destructor = NoDestructor
  BY DEF EntryFields
<1>2. PICK A : s \in Seq(A)
  BY DEF Lists, Entries, IsSeq
<1>3. s \in Seq(A \cup {e}) /\ <<e>> \in Seq(A \cup {e}) /\ Len(<<e>>) = 1 /\ <<e>>[1] = e
  BY <1>2
<1>4. /\ w \in Seq(A \cup {e}) /\ Len(s) \in Nat /\ Len(w) = Len(s) + 1
      /\ w[1] = e /\ \A j \in 1 .. Len(s) : w[j + 1] = s[j]
  BY <1>3
<1>5. \A j \in 1 .. Len(w) : j = 1 \/ (j - 1 \in 1 .. Len(s) /\ w[j] = s[j - 1])
  <2> SUFFICES ASSUME NEW j \in 1 .. Len(w), j # 1
               PROVE  j - 1 \in 1 .. Len(s) /\ w[j] = s[j - 1]
    OBVIOUS
  <2>1. j - 1 \in 1 .. Len(s) /\ (j - 1) + 1 = j
    BY <1>4
  <2> QED
    BY <1>4, <2>1
<1>6. \A j \in 1 .. Len(s) : s[j].mh # m
  BY DEF Lists
<1>7. Entries(w)
  <2>1. IsSeq(w)
    BY <1>4 DEF IsSeq
  <2>2. ASSUME NEW j \in 1 .. Len(w) PROVE DOMAIN w[j] = EntryFields
    <3>1. CASE j = 1
      BY <1>1, <1>4, <3>1
    <3>2. CASE j # 1
      <4>1. j - 1 \in 1 .. Len(s) /\ w[j] = s[j - 1]
        BY <1>5, <3>2
      <4>2. \A i \in 1 .. Len(s) : DOMAIN s[i] = EntryFields
        BY DEF Lists, Entries
      <4> QED
        BY <4>1, <4>2
    <3> QED
      BY <3>1, <3>2
  <2>3. ASSUME NEW i \in 1 .. Len(w), NEW j \in 1 .. Len(w), w[i].mh = w[j].mh PROVE i = j
    <3>1. CASE i = 1 \/ j = 1
      BY <1>1, <1>4, <1>5, <1>6, <2>3, <3>1
    <3>2. CASE i # 1 /\ j # 1
      <4>1. /\ i - 1 \in 1 .. Len(s) /\ w[i] = s[i - 1]
            /\ j - 1 \in 1 .. Len(s) /\ w[j] = s[j - 1]
        BY <1>5, <3>2
      <4>2. \A k, l \in 1 .. Len(s) : s[k].mh = s[l].mh => k = l
        BY DEF Lists, Entries
      <4>3. i - 1 = j - 1
        BY <2>3, <4>1, <4>2
      <4> QED
        BY <4>3
    <3> QED
      BY <3>1, <3>2
  <2> QED
    BY <2>1, <2>2, <2>3 DEF Entries
<1>8. \A j \in 1 .. Len(w) : w[j].mh \in S \cup {m}
  BY <1>1, <1>4, <1>5 DEF Lists
<1>9. ASSUME NEW x \in S \cup {m} PROVE \E j \in 1 .. Len(w) : w[j].mh = x
  <2>1. CASE x = m
    <3>1. 1 \in 1 .. Len(w)
      BY <1>4
    <3> QED
      BY <1>1, <1>4, <2>1, <3>1
  <2>2. CASE x # m
    <3>1. PICK j \in 1 .. Len(s) : s[j].mh = x
      BY <2>2 DEF Lists
    <3>2. j + 1 \in 1 .. Len(w)
      BY <1>4
    <3> QED
      BY <1>4, <3>1, <3>2
  <2> QED
    BY <2>1, <2>2
<1>10. InImages(w, D)
  BY <1>1, <1>4, <1>5 DEF InImages
<1> QED
  BY <1>7, <1>8, <1>9, <1>10 DEF Lists

\* A destructor is left with an entry.
LEMMA ExaminedIn ==
  ASSUME NEW s, NEW S, Lists(s, S), NEW D, InImages(s, D),
         NEW j \in 1 .. Len(s), NEW d \in Destructors, ImageOf[d] \in D,
         NEW e, e = [s[j] EXCEPT !.destructor = d],
         NEW w, IsSeq(w), Len(w) = Len(s), \A i \in 1 .. Len(s) : w[i] = IF i = j THEN e ELSE s[i]
  PROVE  Lists(w, S) /\ InImages(w, D)
<1>1. DOMAIN e = EntryFields /\ e.mh = s[j].mh /\ e.destructor = d
  BY DEF Lists, Entries, EntryFields
<1>2. \A i \in 1 .. Len(s) : w[i].mh = s[i].mh /\ DOMAIN w[i] = EntryFields
  BY <1>1 DEF Lists, Entries
<1>3. Lists(w, S)
  BY <1>2 DEF Lists, Entries
<1>4. InImages(w, D)
  BY <1>1 DEF InImages
<1> QED
  BY <1>3, <1>4

-----------------------------------------------------------------------------
(* The list of images in memory.                                           *)

HasList(t) == \E i \in 1 .. Len(nodes) : nodes[i].handle = LIVE_IMAGE_LIST /\ nodes[i].owner = t

\* the list that a hook will put in place, for image m
Outcome(s, m) ==
  \/ Lists(s, loaded) /\ InImages(s, loaded)
  \/ Lists(s, loaded \ {m}) /\ InImages(s, loaded \ {m})

\* a hook before it has the list, with the list as it found it, and afterwards, with the
\* list it makes, until it has put it in place and let it go
HookOK(t) ==
  LET f == th[t] IN
  IF f.image = NoImage THEN f.call \notin Hooks \cup {"set"} /\ f.pc # "assign"
  ELSE /\ f.image \in loaded /\ f.key = LIVE_IMAGE_LIST
       /\ \/ /\ f.call \in Hooks
             /\ \/ f.pc \in {"search", "prepend", "mutex"} /\ ~HasList(t)
                \/ f.pc \in {"load", "store"} /\ f.delta = 1
             /\ Lists(LiveImages, IF f.call = "add" THEN loaded \ {f.image} ELSE loaded)
          \/ /\ f.call = "set" /\ Outcome(f.value, f.image)
             /\ \/ /\ f.pc \in {"search", "prepend", "assign"}
                   /\ Lists(LiveImages, loaded) \/ Lists(LiveImages, loaded \ {f.image})
                \/ /\ f.pc \in {"load", "store", "release"} /\ f.delta = -1
                   /\ LiveImages = f.value

ImagesInv ==
  /\ loaded \subseteq Images /\ InImages(LiveImages, loaded)
  /\ \A t \in Threads : HookOK(t)
  /\ \A t, u \in Threads : InHook(t) /\ InHook(u) => t = u
  /\ (\A t \in Threads : ~InHook(t)) => Lists(LiveImages, loaded)

\* The list is the value of the one node of its key, if there is one.
LEMMA LiveOf ==
  ASSUME NEW ns, IsSeq(ns), \A i, j \in DOMAIN ns : ns[i].handle = ns[j].handle => i = j,
         NEW N, N = {i \in DOMAIN ns : ns[i].handle = LIVE_IMAGE_LIST}
  PROVE  /\ \A i \in 1 .. Len(ns) : ns[i].handle = LIVE_IMAGE_LIST => N # {} /\ Max(N) = i
         /\ N # {} => \E i \in 1 .. Len(ns) : ns[i].handle = LIVE_IMAGE_LIST
<1>1. DOMAIN ns = 1 .. Len(ns)
  BY Replaced
<1>2. ASSUME NEW i \in 1 .. Len(ns), ns[i].handle = LIVE_IMAGE_LIST
      PROVE  N # {} /\ Max(N) = i
  <2>1. i \in N /\ i \in Int /\ \A j \in N : j = i
    BY <1>1, <1>2
  <2> QED
    BY <2>1, MaxOfOne
<1>3. N # {} => \E i \in 1 .. Len(ns) : ns[i].handle = LIVE_IMAGE_LIST
  BY <1>1
<1> QED
  BY <1>2, <1>3

LEMMA LiveIs ==
  ASSUME SearchInv
  PROVE  /\ \A i \in 1 .. Len(nodes) : nodes[i].handle = LIVE_IMAGE_LIST => LiveImages = nodes[i].ptr
         /\ (\A i \in 1 .. Len(nodes) : nodes[i].handle # LIVE_IMAGE_LIST) => LiveImages = <<>>
<1>1. PICK ns : ns = nodes
  OBVIOUS
<1>2. PICK N : N = {i \in DOMAIN ns : ns[i].handle = LIVE_IMAGE_LIST}
  OBVIOUS
<1>3. IsSeq(ns) /\ \A i, j \in DOMAIN ns : ns[i].handle = ns[j].handle => i = j
  BY <1>1 DEF SearchInv, Shape, OneNodePerKey
<1>4. /\ \A i \in 1 .. Len(ns) : ns[i].handle = LIVE_IMAGE_LIST => N # {} /\ Max(N) = i
      /\ N # {} => \E i \in 1 .. Len(ns) : ns[i].handle = LIVE_IMAGE_LIST
  BY <1>2, <1>3, LiveOf
<1>5. LiveImages = IF N = {} THEN <<>> ELSE ns[Max(N)].ptr
  BY <1>1, <1>2 DEF LiveImages, NodesOf
<1> QED
  BY <1>1, <1>4, <1>5

LEMMA LiveIsNext ==
  ASSUME SearchInv'
  PROVE  /\ \A i \in 1 .. Len(nodes') : nodes'[i].handle = LIVE_IMAGE_LIST => LiveImages' = nodes'[i].ptr
         /\ (\A i \in 1 .. Len(nodes') : nodes'[i].handle # LIVE_IMAGE_LIST) => LiveImages' = <<>>
<1>1. PICK ns : ns = nodes'
  OBVIOUS
<1>2. PICK N : N = {i \in DOMAIN ns : ns[i].handle = LIVE_IMAGE_LIST}
  OBVIOUS
<1>3. IsSeq(ns) /\ \A i, j \in DOMAIN ns : ns[i].handle = ns[j].handle => i = j
  BY <1>1 DEF SearchInv, Shape, OneNodePerKey
<1>4. /\ \A i \in 1 .. Len(ns) : ns[i].handle = LIVE_IMAGE_LIST => N # {} /\ Max(N) = i
      /\ N # {} => \E i \in 1 .. Len(ns) : ns[i].handle = LIVE_IMAGE_LIST
  BY <1>2, <1>3, LiveOf
<1>5. LiveImages' = IF N = {} THEN <<>> ELSE ns[Max(N)].ptr
  BY <1>1, <1>2 DEF LiveImages, NodesOf
<1> QED
  BY <1>1, <1>4, <1>5

\* A thread writes the node of its call.
LEMMA NodeWritten ==
  ASSUME SearchInv, SearchInv', NEW t \in Threads, NEW n, SetNode(t, n),
         th[t].node \in 1 .. Len(nodes), n.handle = Mine(t).handle,
         n.owner \in {t, NoThread} \/ n.owner = Mine(t).owner
  PROVE  /\ \A u \in Threads \ {t} : HasList(u)' => HasList(u)
         /\ n.ptr = Mine(t).ptr => LiveImages' = LiveImages
         /\ n.handle = LIVE_IMAGE_LIST => LiveImages = Mine(t).ptr /\ LiveImages' = n.ptr
<1>1. PICK j : j = th[t].node
  OBVIOUS
<1>2. /\ nodes' = [nodes EXCEPT ![j] = n] /\ j \in 1 .. Len(nodes)
      /\ n.handle = nodes[j].handle /\ (n.owner \in {t, NoThread} \/ n.owner = nodes[j].owner)
      /\ Mine(t) = nodes[j]
  BY <1>1 DEF SetNode, Mine
<1>3. IsSeq(nodes)
  BY DEF SearchInv, Shape
<1>4. /\ Len(nodes') = Len(nodes)
      /\ \A i \in 1 .. Len(nodes) : nodes'[i] = IF i = j THEN n ELSE nodes[i]
  BY <1>2, <1>3, Replaced
<1>5. ASSUME NEW u \in Threads \ {t}, HasList(u)' PROVE HasList(u)
  BY <1>2, <1>4, <1>5, KeymgrAssumption DEF HasList
<1>6. ASSUME n.ptr = nodes[j].ptr PROVE LiveImages' = LiveImages
  <2>1. \A i \in 1 .. Len(nodes) : nodes'[i].handle = nodes[i].handle /\ nodes'[i].ptr = nodes[i].ptr
    BY <1>2, <1>4, <1>6
  <2>2. CASE \E i \in 1 .. Len(nodes) : nodes[i].handle = LIVE_IMAGE_LIST
    BY <1>4, <2>1, <2>2, LiveIs, LiveIsNext
  <2>3. CASE \A i \in 1 .. Len(nodes) : nodes[i].handle # LIVE_IMAGE_LIST
    BY <1>4, <2>1, <2>3, LiveIs, LiveIsNext
  <2> QED
    BY <2>2, <2>3
<1>7. ASSUME n.handle = LIVE_IMAGE_LIST
      PROVE  LiveImages = nodes[j].ptr /\ LiveImages' = n.ptr
  <2>1. nodes[j].handle = LIVE_IMAGE_LIST /\ nodes'[j] = n /\ j \in 1 .. Len(nodes')
    BY <1>2, <1>4, <1>7
  <2>2. LiveImages = nodes[j].ptr
    BY <1>2, <2>1, LiveIs
  <2>3. LiveImages' = nodes'[j].ptr
    BY <1>7, <2>1, LiveIsNext
  <2> QED
    BY <2>1, <2>2, <2>3
<1> QED
  BY <1>2, <1>5, <1>6, <1>7

\* A step of one thread that leaves the list and the images is none of the other threads'.
LEMMA ListStays ==
  ASSUME ImagesInv, NEW t \in Threads, \A u \in Threads \ {t} : th'[u] = th[u],
         UNCHANGED loaded, LiveImages' = LiveImages, th'[t].image = th[t].image,
         \A u \in Threads \ {t} : HasList(u)' => HasList(u), HookOK(t)'
  PROVE  ImagesInv'
<1>1. ASSUME NEW u \in Threads \ {t} PROVE HookOK(u)'
  <2>1. HookOK(u) /\ th'[u] = th[u] /\ (HasList(u)' => HasList(u))
    BY DEF ImagesInv
  <2> QED
    BY <2>1 DEF HookOK, Outcome
<1>2. \A u \in Threads : InHook(u)' <=> InHook(u)
  BY DEF InHook
<1>3. /\ loaded \subseteq Images /\ InImages(LiveImages, loaded)
      /\ \A v, u \in Threads : InHook(v) /\ InHook(u) => v = u
      /\ (\A v \in Threads : ~InHook(v)) => Lists(LiveImages, loaded)
  BY DEF ImagesInv
<1>4. InImages(LiveImages, loaded)' /\ (loaded \subseteq Images)'
  BY <1>3
<1>5. ((\A v \in Threads : ~InHook(v)) => Lists(LiveImages, loaded))'
  BY <1>2, <1>3
<1>6. (\A v, u \in Threads : InHook(v) /\ InHook(u) => v = u)'
  BY <1>2, <1>3
<1> QED
  BY <1>1, <1>4, <1>5, <1>6 DEF ImagesInv

\* a step of a thread that is in no hook
LEMMA NoHookStep ==
  ASSUME ImagesInv, NEW t \in Threads, \A u \in Threads \ {t} : th'[u] = th[u],
         UNCHANGED loaded, LiveImages' = LiveImages, ~InHook(t),
         th'[t].image = NoImage, th'[t].call \notin Hooks \cup {"set"}, th'[t].pc # "assign",
         \A u \in Threads \ {t} : HasList(u)' => HasList(u)
  PROVE  ImagesInv'
<1>1. HookOK(t)'
  BY DEF HookOK
<1>2. th'[t].image = th[t].image
  BY DEF InHook
<1> QED
  BY <1>1, <1>2, ListStays

LEMMA CallImages ==
  ASSUME SearchInv, ImagesInv, NEW t \in Threads, NEW call \in {"lock", "unlock", "lockmode"}, NEW k,
         Calling(t, call, k, NoImage), UNCHANGED <<nodes, loaded>>
  PROVE  ImagesInv'
<1>1. /\ th[t].pc = "idle" /\ \A u \in Threads \ {t} : th'[u] = th[u]
      /\ th'[t].pc = "search" /\ th'[t].call = call /\ th'[t].image = NoImage
  BY DEF SearchInv, Shape, Calling, At, Idle
<1>2. ~InHook(t)
  BY <1>1 DEF ImagesInv, HookOK, InHook
<1>3. LiveImages' = LiveImages /\ \A u \in Threads \ {t} : HasList(u)' => HasList(u)
  BY DEF LiveImages, NodesOf, HasList
<1>4. call \notin Hooks \cup {"set"}
  BY DEF Hooks
<1> QED
  BY <1>1, <1>2, <1>3, <1>4, NoHookStep

\* The image is in memory when dyld calls a hook, and in the list already if it is
\* about to go.
LEMMA HookImages ==
  ASSUME SearchInv, ImagesInv, NEW t \in Threads, NEW call \in Hooks, NEW m \in Images,
         Hook(t, call, m)
  PROVE  ImagesInv'
<1>1. /\ th[t].pc = "idle" /\ \A u \in Threads \ {t} : th'[u] = th[u]
      /\ th'[t].pc = "search" /\ th'[t].call = call /\ th'[t].image = m
      /\ th'[t].key = LIVE_IMAGE_LIST
  BY DEF SearchInv, Shape, Hook, Calling, At, Idle
<1>2. /\ (call = "add") = (m \notin loaded) /\ \A u \in Threads : ~InHook(u)
      /\ loaded' = loaded \cup {m} /\ UNCHANGED nodes
  BY DEF Hook
<1>3. LiveImages' = LiveImages
  BY <1>2 DEF LiveImages, NodesOf
<1>4. Lists(LiveImages, loaded) /\ InImages(LiveImages, loaded) /\ loaded \subseteq Images
  BY <1>2 DEF ImagesInv
<1>5. ~HasList(t)'
  <2>1. DOMAIN nodes = 1 .. Len(nodes)
    BY Replaced DEF SearchInv, Shape
  <2> QED
    BY <1>2, <2>1 DEF Hook, Holds, NodesOf, HasList
<1>6. m # NoImage
  BY KeymgrAssumption
<1>7. Lists(LiveImages', IF call = "add" THEN loaded' \ {m} ELSE loaded')
  <2>1. CASE call = "add"
    <3>1. loaded' \ {m} = loaded
      BY <1>2, <2>1
    <3> QED
      BY <1>3, <1>4, <2>1, <3>1
  <2>2. CASE call # "add"
    <3>1. loaded' = loaded
      BY <1>2, <2>2
    <3> QED
      BY <1>3, <1>4, <2>2, <3>1
  <2> QED
    BY <2>1, <2>2
<1>8. HookOK(t)'
  BY <1>1, <1>2, <1>5, <1>6, <1>7 DEF HookOK
<1>9. \A u \in Threads \ {t} : th'[u].image = NoImage /\ HookOK(u)'
  BY <1>1, <1>2 DEF ImagesInv, InHook, HookOK
<1>10. InImages(LiveImages', loaded')
  BY <1>2, <1>3, <1>4 DEF InImages
<1>11. InHook(t)' /\ \A u \in Threads \ {t} : ~InHook(u)'
  BY <1>1, <1>6, <1>9 DEF InHook
<1>12. (\A v, u \in Threads : InHook(v) /\ InHook(u) => v = u)'
  BY <1>11
<1>13. ((\A v \in Threads : ~InHook(v)) => Lists(LiveImages, loaded))'
  BY <1>11
<1>14. (loaded \subseteq Images)'
  BY <1>2, <1>4
<1> QED
  BY <1>8, <1>9, <1>10, <1>12, <1>13, <1>14 DEF ImagesInv

LEMMA ListEntries == ASSUME ImagesInv PROVE Entries(LiveImages)
<1>1. CASE \E t \in Threads : InHook(t)
  BY <1>1 DEF ImagesInv, HookOK, InHook, Outcome, Lists
<1>2. CASE \A t \in Threads : ~InHook(t)
  BY <1>2 DEF ImagesInv, Lists
<1> QED
  BY <1>1, <1>2

\* An unwinder has the lock, so no hook has put its list in place and not let it go.
LEMMA ExamineImages ==
  ASSUME SearchInv, SearchInv', LockInv, ImagesInv, NEW t \in Threads, Examine(t)
  PROVE  ImagesInv'
<1>1. th[t].pc = "idle" /\ UNCHANGED <<th, loaded>>
  BY DEF Examine, At
<1>2. PICK i \in NodesOf(LIVE_IMAGE_LIST), d \in Destructors :
        /\ nodes[i].owner = t /\ ImageOf[d] \in loaded
        /\ \E j \in DOMAIN nodes[i].ptr : nodes' = [nodes EXCEPT ![i].ptr[j].destructor = d]
  BY DEF Examine
<1>3. PICK j : /\ j \in DOMAIN nodes[i].ptr
               /\ nodes' = [nodes EXCEPT ![i].ptr[j].destructor = d]
  BY <1>2
<1>4. i \in 1 .. Len(nodes) /\ nodes[i].handle = LIVE_IMAGE_LIST
  BY Replaced DEF NodesOf, SearchInv, Shape
<1>5. PICK p : p = nodes[i].ptr
  OBVIOUS
<1>6. PICK e : e = [p[j] EXCEPT !.destructor = d]
  OBVIOUS
<1>7. PICK q : q = [p EXCEPT ![j] = e]
  OBVIOUS
<1>8. PICK x : x = [nodes[i] EXCEPT !.ptr = q]
  OBVIOUS
<1>9. nodes' = [nodes EXCEPT ![i] = x]
  BY <1>3, <1>5, <1>6, <1>7, <1>8
<1>10. /\ Len(nodes') = Len(nodes)
       /\ \A k \in 1 .. Len(nodes) : nodes'[k] = IF k = i THEN x ELSE nodes[k]
  <2>1. IsSeq(nodes)
    BY DEF SearchInv, Shape
  <2> QED
    BY <1>9, <2>1, Replaced
<1>11. x.ptr = q /\ x.handle = nodes[i].handle /\ x.owner = nodes[i].owner
  BY <1>4, <1>8 DEF SearchInv, Shape, NodeFields
<1>12. LiveImages = p /\ LiveImages' = q
  <2>1. nodes'[i] = x /\ i \in 1 .. Len(nodes') /\ x.handle = LIVE_IMAGE_LIST
    BY <1>4, <1>10, <1>11
  <2>2. LiveImages = p
    BY <1>4, <1>5, LiveIs
  <2>3. LiveImages' = q
    BY <1>11, <2>1, LiveIsNext
  <2> QED
    BY <2>2, <2>3
<1>13. Entries(p) /\ InImages(p, loaded)
  BY <1>12, ListEntries DEF ImagesInv
<1>14. IsSeq(p) /\ j \in 1 .. Len(p)
  BY <1>3, <1>5, <1>13, Replaced DEF Entries
<1>15. IsSeq(q) /\ Len(q) = Len(p) /\ \A k \in 1 .. Len(p) : q[k] = IF k = j THEN e ELSE p[k]
  BY <1>7, <1>14, Replaced
<1>16. ASSUME NEW S, Lists(p, S) PROVE Lists(q, S) /\ InImages(q, loaded)
  BY <1>2, <1>6, <1>13, <1>14, <1>15, <1>16, ExaminedIn
<1>17. InImages(q, loaded)
  <2>1. PICK S : S = {p[k].mh : k \in 1 .. Len(p)}
    OBVIOUS
  <2>2. Lists(p, S)
    BY <1>13, <2>1 DEF Lists
  <2> QED
    BY <1>16, <2>2
<1>18. ASSUME NEW u \in Threads PROVE HookOK(u)'
  <2>1. HookOK(u)
    BY DEF ImagesInv
  <2>2. HasList(u)' => HasList(u)
    BY <1>10, <1>11 DEF HasList
  <2>3. PICK f : f = th[u] /\ f = th'[u]
    BY <1>1
  <2>4. ~(f.pc \in {"load", "store", "release"} /\ f.key = LIVE_IMAGE_LIST)
    <3> SUFFICES ASSUME f.pc \in {"load", "store", "release"}, f.key = LIVE_IMAGE_LIST PROVE FALSE
      OBVIOUS
    <3>1. CallOK(u)
      BY DEF LockInv
    <3>2. /\ f.node \in 1 .. Len(nodes) /\ nodes[f.node].handle = LIVE_IMAGE_LIST
          /\ nodes[f.node].owner = u
      BY <2>3, <3>1 DEF CallOK, InList, Owning
    <3>3. f.node = i
      BY <1>4, <3>2, Replaced DEF SearchInv, Shape, OneNodePerKey
    <3>4. u = t
      BY <1>2, <3>2, <3>3
    <3> QED
      BY <1>1, <2>3, <3>4
  <2>5. CASE f.image = NoImage
    BY <2>1, <2>3, <2>5 DEF HookOK
  <2>6. CASE f.image # NoImage /\ f.call \in Hooks
    <3>1. /\ f.image \in loaded /\ f.key = LIVE_IMAGE_LIST
          /\ \/ f.pc \in {"search", "prepend", "mutex"} /\ ~HasList(u)
             \/ f.pc \in {"load", "store"} /\ f.delta = 1
          /\ Lists(p, IF f.call = "add" THEN loaded \ {f.image} ELSE loaded)
      BY <1>12, <2>1, <2>3, <2>6 DEF HookOK, Hooks
    <3>2. Lists(q, IF f.call = "add" THEN loaded \ {f.image} ELSE loaded)
      BY <1>16, <3>1
    <3> QED
      BY <1>1, <1>12, <2>2, <2>3, <2>6, <3>1, <3>2 DEF HookOK
  <2>7. CASE f.image # NoImage /\ f.call \notin Hooks
    <3>1. /\ f.image \in loaded /\ f.key = LIVE_IMAGE_LIST
          /\ f.call = "set" /\ Outcome(f.value, f.image)
          /\ f.pc \in {"search", "prepend", "assign"}
          /\ Lists(p, loaded) \/ Lists(p, loaded \ {f.image})
      BY <1>12, <2>1, <2>3, <2>4, <2>7 DEF HookOK
    <3>2. Lists(q, loaded) \/ Lists(q, loaded \ {f.image})
      BY <1>16, <3>1
    <3>3. Outcome(f.value, f.image)'
      BY <1>1, <2>3, <3>1 DEF Outcome
    <3> QED
      BY <1>1, <1>12, <2>3, <2>7, <3>1, <3>2, <3>3 DEF HookOK
  <2> QED
    BY <2>5, <2>6, <2>7
<1>19. ((\A u \in Threads : ~InHook(u)) => Lists(LiveImages, loaded))'
  <2>1. (\A u \in Threads : ~InHook(u)) => Lists(p, loaded)
    BY <1>12 DEF ImagesInv
  <2>2. Lists(p, loaded) => Lists(q, loaded)
    BY <1>16
  <2> QED
    BY <1>1, <1>12, <2>1, <2>2 DEF InHook
<1>20. (\A v, u \in Threads : InHook(v) /\ InHook(u) => v = u)' /\ (loaded \subseteq Images)'
  BY <1>1 DEF ImagesInv, InHook
<1>21. InImages(LiveImages, loaded)'
  BY <1>1, <1>12, <1>17
<1> QED
  BY <1>18, <1>19, <1>20, <1>21 DEF ImagesInv

\* A call that goes on in get_or_create_key_element, or has got its node.
LEMMA GoesOn ==
  ASSUME SearchInv, ImagesInv, NEW t \in Threads, th[t].pc \in {"search", "prepend"},
         \A u \in Threads \ {t} : th'[u] = th[u], UNCHANGED loaded, LiveImages' = LiveImages,
         \A u \in Threads : HasList(u)' => HasList(u),
         th'[t].call = th[t].call, th'[t].key = th[t].key, th'[t].image = th[t].image,
         th'[t].value = th[t].value,
         \/ th'[t].pc \in {"search", "prepend"}
         \/ th[t].call \in Hooks \cup {"lock"} /\ th'[t].pc = "mutex"
         \/ th[t].call = "set" /\ th'[t].pc = "assign"
         \/ th[t].call = "lockmode" /\ th'[t].pc = "lockmode"
         \/ th[t].call = "unlock" /\ th'[t].pc = "load"
  PROVE  ImagesInv'
<1>1. HookOK(t)
  BY DEF ImagesInv
<1>2. PICK f, g : f = th[t] /\ g = th'[t]
  OBVIOUS
<1>3. /\ g.call = f.call /\ g.key = f.key /\ g.image = f.image /\ g.value = f.value
      /\ f.pc \in {"search", "prepend"} /\ (HasList(t)' => HasList(t))
  BY <1>2
<1>4. CASE f.image = NoImage
  <2>1. f.call \notin Hooks \cup {"set"}
    BY <1>1, <1>2, <1>4 DEF HookOK
  <2>2. g.pc # "assign"
    BY <1>2, <1>3, <2>1
  <2>3. HookOK(t)'
    BY <1>2, <1>3, <1>4, <2>1, <2>2 DEF HookOK
  <2> QED BY <2>3, ListStays
<1>5. CASE f.image # NoImage
  <2>1. /\ f.image \in loaded /\ f.key = LIVE_IMAGE_LIST
        /\ \/ /\ f.call \in Hooks /\ ~HasList(t)
              /\ Lists(LiveImages, IF f.call = "add" THEN loaded \ {f.image} ELSE loaded)
           \/ /\ f.call = "set" /\ Outcome(f.value, f.image)
              /\ Lists(LiveImages, loaded) \/ Lists(LiveImages, loaded \ {f.image})
    BY <1>1, <1>2, <1>3, <1>5 DEF HookOK
  <2>2. CASE f.call \in Hooks
    <3>1. g.pc \in {"search", "prepend", "mutex"}
      BY <1>2, <2>2 DEF Hooks
    <3>2. HookOK(t)'
      BY <1>2, <1>3, <1>5, <2>1, <2>2, <3>1 DEF HookOK, Hooks
    <3> QED BY <3>2, ListStays
  <2>3. CASE f.call \notin Hooks
    <3>1. f.call = "set" /\ g.pc \in {"search", "prepend", "assign"}
      BY <1>2, <2>1, <2>3
    <3>2. Outcome(g.value, g.image)'
      BY <1>3, <2>1, <2>3 DEF Outcome
    <3>3. HookOK(t)'
      BY <1>2, <1>3, <1>5, <2>1, <2>3, <3>1, <3>2 DEF HookOK
    <3> QED BY <3>3, ListStays
  <2> QED BY <2>2, <2>3
<1> QED BY <1>4, <1>5

LEMMA GotNodeKeeps ==
  ASSUME SearchInv, NEW t \in Threads, NEW i, GotNode(t, i), th[t].call \in Calls
  PROVE  th'[t].image = th[t].image /\ th'[t].value = th[t].value
BY DEF SearchInv, Shape, CallFields, GotNode

LEMMA SearchImages ==
  ASSUME SearchInv, ImagesInv, NEW t \in Threads, Search(t)
  PROVE  ImagesInv'
<1>1. /\ th[t].pc = "search" /\ th[t].call \in Calls /\ UNCHANGED <<nodes, loaded>>
  BY DEF SearchInv, Search, At, Knows
<1>2. LiveImages' = LiveImages /\ \A u \in Threads : HasList(u)' => HasList(u)
  BY <1>1 DEF LiveImages, NodesOf, HasList
<1>3. CASE Matching(t) # {}
  <2>1. PICK i : GotNode(t, i)
    BY <1>3 DEF Search
  <2>2. /\ \A u \in Threads \ {t} : th'[u] = th[u]
        /\ th'[t].call = th[t].call /\ th'[t].key = th[t].key
        /\ th'[t].image = th[t].image /\ th'[t].value = th[t].value
        /\ \/ th[t].call \in Hooks \cup {"lock"} /\ th'[t].pc = "mutex"
           \/ th[t].call = "set" /\ th'[t].pc = "assign"
           \/ th[t].call = "lockmode" /\ th'[t].pc = "lockmode"
           \/ th[t].call = "unlock" /\ th'[t].pc = "load"
    BY <1>1, <2>1, GotNodeFacts, GotNodeKeeps
  <2> QED BY <1>1, <1>2, <2>2, GoesOn
<1>4. CASE Matching(t) = {} /\ th[t].call = "unlock"
  <2>1. Return(t)
    BY <1>4 DEF Search
  <2>2. /\ \A u \in Threads \ {t} : th'[u] = th[u]
        /\ th'[t].pc = "idle" /\ th'[t].call = "none" /\ th'[t].image = NoImage
    BY <2>1 DEF SearchInv, Shape, Return, Idle
  <2>3. ~InHook(t)
    BY <1>4 DEF ImagesInv, HookOK, InHook, Hooks
  <2>4. th'[t].call \notin Hooks \cup {"set"} /\ th'[t].pc # "assign"
    BY <2>2 DEF Hooks
  <2> QED BY <1>1, <1>2, <2>2, <2>3, <2>4, NoHookStep
<1>5. CASE Matching(t) = {} /\ th[t].call # "unlock"
  <2>1. th' = [th EXCEPT ![t].start = Len(nodes), ![t].pc = "prepend"]
    BY <1>5 DEF Search
  <2>2. /\ \A u \in Threads \ {t} : th'[u] = th[u]
        /\ th'[t].pc = "prepend" /\ th'[t].key = th[t].key /\ th'[t].call = th[t].call
        /\ th'[t].image = th[t].image /\ th'[t].value = th[t].value
    BY <2>1 DEF SearchInv, Shape, CallFields
  <2> QED BY <1>1, <1>2, <2>2, GoesOn
<1> QED BY <1>3, <1>4, <1>5

LEMMA PrependImages ==
  ASSUME SearchInv, SearchInv', ImagesInv, NEW t \in Threads, Prepend(t)
  PROVE  ImagesInv'
<1>1. /\ th[t].pc = "prepend" /\ th[t].call \in Calls /\ UNCHANGED loaded
  BY DEF SearchInv, Prepend, TryPrepend, At, Knows
<1>2. CASE Len(nodes) = th[t].start
  <2>1. nodes' = Append(nodes, Node(th[t].key)) /\ GotNode(t, Len(nodes) + 1)
    BY <1>2 DEF Prepend, TryPrepend
  <2>2. PICK n : n = Node(th[t].key)
    OBVIOUS
  <2>3. n.owner = NoThread /\ n.ptr = <<>>
    BY <2>2 DEF Node
  <2>4. /\ Len(nodes) \in Nat /\ Len(nodes') = Len(nodes) + 1
        /\ \A i \in 1 .. Len(nodes) : nodes'[i] = nodes[i]
        /\ nodes'[Len(nodes) + 1] = n
    <3>1. IsSeq(nodes)
      BY DEF SearchInv, Shape
    <3> QED BY <2>1, <2>2, <3>1, Appended
  <2>5. \A i \in 1 .. Len(nodes') : i \in 1 .. Len(nodes) \/ i = Len(nodes) + 1
    BY <2>4
  <2>6. ASSUME NEW u \in Threads PROVE HasList(u)' => HasList(u)
    BY <2>3, <2>4, <2>5, KeymgrAssumption DEF HasList
  <2>7. LiveImages' = LiveImages
    <3>1. \A i \in 1 .. Len(nodes) : i \in 1 .. Len(nodes')
      BY <2>4
    <3>2. CASE \E i \in 1 .. Len(nodes) : nodes[i].handle = LIVE_IMAGE_LIST
      BY <2>4, <3>1, <3>2, LiveIs, LiveIsNext
    <3>3. CASE \A i \in 1 .. Len(nodes) : nodes[i].handle # LIVE_IMAGE_LIST
      <4>1. LiveImages = <<>>
        BY <3>3, LiveIs
      <4>2. CASE n.handle = LIVE_IMAGE_LIST
        <5>1. Len(nodes) + 1 \in 1 .. Len(nodes')
          BY <2>4
        <5>2. LiveImages' = n.ptr
          BY <2>4, <4>2, <5>1, LiveIsNext
        <5> QED BY <2>3, <4>1, <5>2
      <4>3. CASE n.handle # LIVE_IMAGE_LIST
        <5>1. \A i \in 1 .. Len(nodes') : nodes'[i].handle # LIVE_IMAGE_LIST
          BY <2>4, <2>5, <3>3, <4>3
        <5> QED BY <4>1, <5>1, LiveIsNext
      <4> QED BY <4>2, <4>3
    <3> QED BY <3>2, <3>3
  <2>8. /\ \A u \in Threads \ {t} : th'[u] = th[u]
        /\ th'[t].call = th[t].call /\ th'[t].key = th[t].key
        /\ th'[t].image = th[t].image /\ th'[t].value = th[t].value
        /\ \/ th[t].call \in Hooks \cup {"lock"} /\ th'[t].pc = "mutex"
           \/ th[t].call = "set" /\ th'[t].pc = "assign"
           \/ th[t].call = "lockmode" /\ th'[t].pc = "lockmode"
           \/ th[t].call = "unlock" /\ th'[t].pc = "load"
    BY <1>1, <2>1, GotNodeFacts, GotNodeKeeps
  <2> QED BY <1>1, <2>6, <2>7, <2>8, GoesOn
<1>3. CASE Len(nodes) # th[t].start
  <2>1. UNCHANGED nodes /\ th' = [th EXCEPT ![t].searchEnd = th[t].start, ![t].pc = "search"]
    BY <1>3 DEF Prepend, TryPrepend
  <2>2. LiveImages' = LiveImages /\ \A u \in Threads : HasList(u)' => HasList(u)
    BY <2>1 DEF LiveImages, NodesOf, HasList
  <2>3. /\ \A u \in Threads \ {t} : th'[u] = th[u]
        /\ th'[t].pc = "search" /\ th'[t].key = th[t].key /\ th'[t].call = th[t].call
        /\ th'[t].image = th[t].image /\ th'[t].value = th[t].value
    BY <2>1 DEF SearchInv, Shape, CallFields
  <2> QED BY <1>1, <2>2, <2>3, GoesOn
<1> QED BY <1>2, <1>3

LEMMA MutexImages ==
  ASSUME SearchInv, SearchInv', LockInv, ImagesInv, NEW t \in Threads, Mutex(t)
  PROVE  ImagesInv'
<1>1. th[t].pc = "mutex" /\ UNCHANGED loaded
  BY DEF Mutex, At
<1>2. th[t].node \in 1 .. Len(nodes) /\ Mine(t).handle = th[t].key
  BY <1>1 DEF LockInv, CallOK, InList, Mine
<1>3. HookOK(t)
  BY DEF ImagesInv
<1>4. InHook(t) => /\ th[t].call \in Hooks /\ th[t].key = LIVE_IMAGE_LIST
                   /\ th[t].image \in loaded /\ Mine(t).owner # t
                   /\ Lists(LiveImages, IF th[t].call = "add" THEN loaded \ {th[t].image} ELSE loaded)
  BY <1>1, <1>2, <1>3 DEF HookOK, InHook, Hooks, HasList, Mine
<1>5. CASE /\ Mine(t).owner = NoThread \/ (Mine(t).owner = t /\ Mine(t).recursive)
           /\ SetNode(t, [Mine(t) EXCEPT !.owner = t, !.depth = @ + 1])
           /\ th' = [th EXCEPT ![t].delta = 1, ![t].pc = "load"]
  <2>1. PICK n : n = [Mine(t) EXCEPT !.owner = t, !.depth = @ + 1]
    OBVIOUS
  <2>2. n.owner = t /\ n.handle = Mine(t).handle /\ n.ptr = Mine(t).ptr
    BY <1>2, <2>1 DEF SearchInv, Shape, NodeFields, Mine
  <2>3. SetNode(t, n)
    BY <1>5, <2>1
  <2>4. LiveImages' = LiveImages /\ \A u \in Threads \ {t} : HasList(u)' => HasList(u)
    BY <1>2, <2>2, <2>3, NodeWritten
  <2>5. /\ \A u \in Threads \ {t} : th'[u] = th[u]
        /\ th'[t].pc = "load" /\ th'[t].delta = 1 /\ th'[t].call = th[t].call
        /\ th'[t].key = th[t].key /\ th'[t].image = th[t].image
    BY <1>5 DEF SearchInv, Shape, CallFields
  <2>6. HookOK(t)'
    <3>1. CASE InHook(t)
      BY <1>1, <1>4, <2>4, <2>5, <3>1 DEF HookOK, InHook
    <3>2. CASE ~InHook(t)
      BY <1>3, <2>5, <3>2 DEF HookOK, InHook
    <3> QED BY <3>1, <3>2
  <2> QED BY <1>1, <2>4, <2>5, <2>6, ListStays
<1>6. CASE Mine(t).owner = t /\ Return(t) /\ UNCHANGED nodes
  <2>1. ~InHook(t)
    BY <1>4, <1>6
  <2>2. /\ \A u \in Threads \ {t} : th'[u] = th[u]
        /\ th'[t].pc = "idle" /\ th'[t].call = "none" /\ th'[t].image = NoImage
    BY <1>6 DEF SearchInv, Shape, Return, Idle
  <2>3. LiveImages' = LiveImages /\ \A u \in Threads : HasList(u)' => HasList(u)
    BY <1>6 DEF LiveImages, NodesOf, HasList
  <2>4. th'[t].call \notin Hooks \cup {"set"} /\ th'[t].pc # "assign"
    BY <2>2 DEF Hooks
  <2> QED BY <1>1, <2>1, <2>2, <2>3, <2>4, NoHookStep
<1> QED BY <1>5, <1>6 DEF Mutex

LEMMA LoadImages ==
  ASSUME SearchInv, ImagesInv, NEW t \in Threads, Load(t)
  PROVE  ImagesInv'
<1>1. /\ th[t].pc = "load" /\ UNCHANGED <<nodes, loaded>>
      /\ th' = [th EXCEPT ![t].count = Mine(t).refcount, ![t].pc = "store"]
  BY DEF Load, At
<1>2. LiveImages' = LiveImages /\ \A u \in Threads : HasList(u)' => HasList(u)
  BY <1>1 DEF LiveImages, NodesOf, HasList
<1>3. /\ \A u \in Threads \ {t} : th'[u] = th[u]
      /\ th'[t].pc = "store" /\ th'[t].delta = th[t].delta /\ th'[t].call = th[t].call
      /\ th'[t].key = th[t].key /\ th'[t].image = th[t].image /\ th'[t].value = th[t].value
  BY <1>1 DEF SearchInv, Shape, CallFields
<1>4. HookOK(t)
  BY DEF ImagesInv
<1>5. PICK f : f = th[t]
  OBVIOUS
<1>6. HookOK(t)'
  <2>1. CASE f.image = NoImage
    <3>1. f.call \notin Hooks \cup {"set"}
      BY <1>4, <1>5, <2>1 DEF HookOK
    <3> QED BY <1>3, <1>5, <2>1, <3>1 DEF HookOK
  <2>2. CASE f.image # NoImage /\ f.call \in Hooks
    <3>1. /\ f.image \in loaded /\ f.key = LIVE_IMAGE_LIST /\ f.delta = 1
          /\ Lists(LiveImages, IF f.call = "add" THEN loaded \ {f.image} ELSE loaded)
      BY <1>1, <1>4, <1>5, <2>2 DEF HookOK, Hooks
    <3>2. /\ th'[t].image # NoImage /\ th'[t].image \in loaded' /\ th'[t].call \in Hooks
          /\ th'[t].key = LIVE_IMAGE_LIST /\ th'[t].pc = "store" /\ th'[t].delta = 1
      BY <1>1, <1>3, <1>5, <2>2, <3>1
    <3>3. /\ th'[t].call = f.call /\ th'[t].image = f.image
          /\ loaded' = loaded /\ LiveImages' = LiveImages
      BY <1>1, <1>2, <1>3, <1>5
    <3> QED BY <3>1, <3>2, <3>3 DEF HookOK
  <2>3. CASE f.image # NoImage /\ f.call \notin Hooks
    <3>1. /\ f.image \in loaded /\ f.key = LIVE_IMAGE_LIST /\ f.call = "set"
          /\ Outcome(f.value, f.image) /\ f.delta = -1 /\ LiveImages = f.value
      BY <1>1, <1>4, <1>5, <2>3 DEF HookOK
    <3>2. Outcome(f.value, f.image)'
      BY <1>1, <3>1 DEF Outcome
    <3> QED BY <1>1, <1>2, <1>3, <1>5, <2>3, <3>1, <3>2 DEF HookOK
  <2> QED BY <2>1, <2>2, <2>3
<1> QED BY <1>1, <1>2, <1>3, <1>6, ListStays

LEMMA StoreImages ==
  ASSUME OneDestructor, SearchInv, SearchInv', LockInv, ImagesInv, NEW t \in Threads, Store(t)
  PROVE  ImagesInv'
<1>1. th[t].pc = "store" /\ UNCHANGED loaded
  BY DEF Store, At
<1>2. th[t].node \in 1 .. Len(nodes) /\ Mine(t).handle = th[t].key
  BY <1>1 DEF LockInv, CallOK, InList, Mine
<1>3. PICK n : /\ n.owner = Mine(t).owner /\ n.handle = Mine(t).handle /\ n.ptr = Mine(t).ptr
             /\ SetNode(t, n)
  <2>1. PICK c : c = (th[t].count + th[t].delta) % 65536
    OBVIOUS
  <2>2. PICK n : n = [Mine(t) EXCEPT !.refcount = c]
    OBVIOUS
  <2>3. n.owner = Mine(t).owner /\ n.handle = Mine(t).handle /\ n.ptr = Mine(t).ptr
    BY <1>2, <2>2 DEF SearchInv, Shape, NodeFields, Mine
  <2>4. SetNode(t, n)
    BY <2>1, <2>2 DEF Store
  <2> QED BY <2>3, <2>4
<1>6. /\ LiveImages' = LiveImages /\ \A u \in Threads \ {t} : HasList(u)' => HasList(u)
      /\ th[t].key = LIVE_IMAGE_LIST => Mine(t).ptr = LiveImages
  BY <1>2, <1>3, NodeWritten
<1>7. PICK f : f = th[t]
  OBVIOUS
<1>8. HookOK(t)
  BY DEF ImagesInv
<1>9. f.image # NoImage =>
        /\ f.image \in loaded /\ f.key = LIVE_IMAGE_LIST
        /\ \/ /\ f.call \in Hooks /\ f.delta = 1
              /\ Lists(LiveImages, IF f.call = "add" THEN loaded \ {f.image} ELSE loaded)
           \/ f.call = "set" /\ Outcome(f.value, f.image) /\ f.delta = -1 /\ LiveImages = f.value
  BY <1>1, <1>7, <1>8 DEF HookOK, Hooks
<1>10. f.image = NoImage => f.call \notin Hooks \cup {"set"}
  BY <1>7, <1>8 DEF HookOK
<1>11. CASE f.delta = -1 /\ th' = [th EXCEPT ![t].pc = "release"]
  <2>1. /\ \A u \in Threads \ {t} : th'[u] = th[u]
        /\ th'[t].pc = "release" /\ th'[t].delta = f.delta /\ th'[t].call = f.call
        /\ th'[t].key = f.key /\ th'[t].image = f.image /\ th'[t].value = f.value
    BY <1>7, <1>11 DEF SearchInv, Shape, CallFields
  <2>2. CASE f.image = NoImage
    <3>1. HookOK(t)'
      BY <1>10, <2>1, <2>2 DEF HookOK
    <3> QED BY <1>1, <1>6, <1>7, <2>1, <3>1, ListStays
  <2>3. CASE f.image # NoImage
    <3>1. /\ f.image \in loaded /\ f.key = LIVE_IMAGE_LIST
          /\ f.call = "set" /\ Outcome(f.value, f.image) /\ LiveImages = f.value
      BY <1>9, <1>11, <2>3
    <3>2. Outcome(f.value, f.image)'
      BY <1>1, <3>1 DEF Outcome
    <3>3. HookOK(t)'
      BY <1>1, <1>6, <1>11, <2>1, <2>3, <3>1, <3>2 DEF HookOK
    <3> QED BY <1>1, <1>6, <1>7, <2>1, <3>3, ListStays
  <2> QED BY <2>2, <2>3
<1>12. CASE /\ f.delta # -1 /\ f.call \in Hooks
            /\ th' = [th EXCEPT ![t].pc = "search", ![t].searchEnd = 0, ![t].call = "set",
                                ![t].value = HookValue(t)]
  <2>1. PICK v : v = HookValue(t)
    OBVIOUS
  <2>2. /\ \A u \in Threads \ {t} : th'[u] = th[u]
        /\ th'[t].pc = "search" /\ th'[t].call = "set" /\ th'[t].value = v
        /\ th'[t].key = f.key /\ th'[t].image = f.image
    BY <1>7, <1>12, <2>1 DEF SearchInv, Shape, CallFields
  <2>3. f.image # NoImage
    BY <1>10, <1>12
  <2>4. "set" \notin Hooks
    BY DEF Hooks
  <2>5. /\ f.image \in loaded /\ f.key = LIVE_IMAGE_LIST
        /\ Lists(LiveImages, IF f.call = "add" THEN loaded \ {f.image} ELSE loaded)
    BY <1>9, <1>12, <2>3, <2>4
  <2>6. InImages(LiveImages, loaded)
    BY DEF ImagesInv
  <2>7. Outcome(v, f.image) /\ (Lists(LiveImages, loaded) \/ Lists(LiveImages, loaded \ {f.image}))
    <3>1. CASE f.call = "add"
      <4>1. v = <<[mh |-> f.image, destructor |-> NoDestructor]>> \o LiveImages
        BY <1>6, <1>7, <2>1, <2>5, <3>1 DEF HookValue
      <4>2. Lists(LiveImages, loaded \ {f.image}) /\ f.image \notin loaded \ {f.image}
        BY <2>5, <3>1
      <4>3. Lists(v, (loaded \ {f.image}) \cup {f.image}) /\ InImages(v, loaded)
        BY <2>6, <4>1, <4>2, AddedTo
      <4>4. (loaded \ {f.image}) \cup {f.image} = loaded
        BY <2>5
      <4> QED BY <4>2, <4>3, <4>4 DEF Outcome
    <3>2. CASE f.call # "add"
      <4>1. v = Without(LiveImages, f.image)
        BY <1>6, <1>7, <2>1, <2>5, <3>2 DEF HookValue
      <4>2. Lists(LiveImages, loaded)
        BY <2>5, <3>2
      <4>3. Lists(v, loaded \ {f.image}) /\ InImages(v, loaded \ {f.image})
        BY <2>6, <4>1, <4>2, RemovedFrom
      <4> QED BY <4>2, <4>3 DEF Outcome
    <3> QED BY <3>1, <3>2
  <2>8. Outcome(v, f.image)'
    BY <1>1, <2>7 DEF Outcome
  <2>9. HookOK(t)'
    BY <1>1, <1>6, <2>2, <2>3, <2>5, <2>7, <2>8 DEF HookOK
  <2> QED BY <1>1, <1>6, <1>7, <2>2, <2>9, ListStays
<1>13. CASE f.delta # -1 /\ f.call \notin Hooks /\ Return(t)
  <2>1. ~InHook(t)
    BY <1>7, <1>9, <1>13 DEF InHook
  <2>2. /\ \A u \in Threads \ {t} : th'[u] = th[u]
        /\ th'[t].pc = "idle" /\ th'[t].call = "none" /\ th'[t].image = NoImage
    BY <1>13 DEF SearchInv, Shape, Return, Idle
  <2>3. th'[t].call \notin Hooks \cup {"set"} /\ th'[t].pc # "assign"
    BY <2>2 DEF Hooks
  <2> QED BY <1>1, <1>6, <2>1, <2>2, <2>3, NoHookStep
<1> QED BY <1>7, <1>11, <1>12, <1>13 DEF Store

\* dyld calls the hooks for one image at a time, so a hook has the other threads in none.
LEMMA AloneInHook ==
  ASSUME ImagesInv, NEW t \in Threads, InHook(t), \A u \in Threads \ {t} : th'[u] = th[u]
  PROVE  \A u \in Threads \ {t} : HookOK(u)' /\ ~InHook(u)'
<1> SUFFICES ASSUME NEW u \in Threads \ {t} PROVE HookOK(u)' /\ ~InHook(u)'
  OBVIOUS
<1>1. HookOK(u) /\ th'[u] = th[u] /\ th[u].image = NoImage
  BY DEF ImagesInv, InHook
<1>2. th[u].call \notin Hooks \cup {"set"} /\ th[u].pc # "assign"
  BY <1>1 DEF HookOK
<1> QED BY <1>1, <1>2 DEF HookOK, InHook

\* Only a hook sets the pointer, and it has the lock.
LEMMA AssignImages ==
  ASSUME SearchInv, SearchInv', LockInv, ImagesInv, NEW t \in Threads, Assign(t)
  PROVE  ImagesInv'
<1>1. th[t].pc = "assign" /\ UNCHANGED loaded
  BY DEF Assign, At
<1>2. /\ th[t].node \in 1 .. Len(nodes) /\ Mine(t).handle = th[t].key /\ th[t].delta = -1
  BY <1>1 DEF LockInv, CallOK, InList, Mine
<1>3. PICK v, m : v = th[t].value /\ m = th[t].image
  OBVIOUS
<1>4. /\ m # NoImage /\ m \in loaded /\ th[t].key = LIVE_IMAGE_LIST
      /\ th[t].call = "set" /\ Outcome(v, m)
  BY <1>1, <1>3 DEF ImagesInv, HookOK
<1>5. PICK n : /\ n.owner = Mine(t).owner /\ n.handle = Mine(t).handle /\ n.ptr = v
               /\ SetNode(t, n)
  <2>1. PICK n : n = [Mine(t) EXCEPT !.ptr = v]
    OBVIOUS
  <2>2. n.owner = Mine(t).owner /\ n.handle = Mine(t).handle /\ n.ptr = v
    BY <1>2, <2>1 DEF SearchInv, Shape, NodeFields, Mine
  <2>3. SetNode(t, n)
    BY <1>3, <2>1 DEF Assign
  <2> QED BY <2>2, <2>3
<1>6. LiveImages' = v
  BY <1>2, <1>4, <1>5, NodeWritten
<1>7. /\ \A u \in Threads \ {t} : th'[u] = th[u]
      /\ th'[t].pc = "load" /\ th'[t].delta = -1 /\ th'[t].call = "set"
      /\ th'[t].key = LIVE_IMAGE_LIST /\ th'[t].image = m /\ th'[t].value = v
  BY <1>2, <1>3, <1>4 DEF Assign, SearchInv, Shape, CallFields
<1>8. Outcome(v, m)'
  BY <1>1, <1>4 DEF Outcome
<1>9. HookOK(t)'
  BY <1>1, <1>4, <1>6, <1>7, <1>8 DEF HookOK
<1>10. InHook(t) /\ InHook(t)'
  BY <1>3, <1>4, <1>7 DEF InHook
<1>11. \A u \in Threads \ {t} : HookOK(u)' /\ ~InHook(u)'
  BY <1>7, <1>10, AloneInHook
<1>12. InImages(v, loaded)
  BY <1>4 DEF Outcome, InImages
<1>13. InImages(LiveImages, loaded)' /\ (loaded \subseteq Images)'
  BY <1>1, <1>6, <1>12 DEF ImagesInv
<1> QED BY <1>9, <1>10, <1>11, <1>13 DEF ImagesInv

\* The hook returns: the image is in the list, or it is gone.
LEMMA ReleaseImages ==
  ASSUME SearchInv, SearchInv', LockInv, ImagesInv, NEW t \in Threads, Release(t)
  PROVE  ImagesInv'
<1>1. th[t].pc = "release"
  BY DEF Release, At
<1>2. /\ th[t].node \in 1 .. Len(nodes) /\ Mine(t).handle = th[t].key /\ Mine(t).owner = t
  BY <1>1 DEF LockInv, CallOK, InList, Owning, Mine
<1>3. PICK n : n = [Mine(t) EXCEPT !.depth = @ - 1,
                                   !.owner = IF Mine(t).depth = 1 THEN NoThread ELSE t]
  OBVIOUS
<1>4. n.owner \in {t, NoThread} /\ n.handle = Mine(t).handle /\ n.ptr = Mine(t).ptr
  BY <1>2, <1>3 DEF SearchInv, Shape, NodeFields, Mine
<1>5. SetNode(t, n) /\ HookReturns(t) /\ Return(t)
  BY <1>2, <1>3 DEF Release
<1>6. LiveImages' = LiveImages /\ \A u \in Threads \ {t} : HasList(u)' => HasList(u)
  BY <1>2, <1>4, <1>5, NodeWritten
<1>7. /\ \A u \in Threads \ {t} : th'[u] = th[u]
      /\ th'[t].pc = "idle" /\ th'[t].call = "none" /\ th'[t].image = NoImage
  BY <1>5 DEF SearchInv, Shape, Return, Idle
<1>8. th'[t].call \notin Hooks \cup {"set"} /\ th'[t].pc # "assign"
  BY <1>7 DEF Hooks
<1>9. CASE ~InHook(t)
  <2>1. UNCHANGED loaded
    BY <1>5, <1>9 DEF HookReturns
  <2> QED BY <1>6, <1>7, <1>8, <1>9, <2>1, NoHookStep
<1>10. CASE InHook(t)
  <2>1. PICK v, m : v = th[t].value /\ m = th[t].image
    OBVIOUS
  <2>2. m \in loaded /\ Outcome(v, m) /\ LiveImages = v
    BY <1>1, <1>10, <2>1 DEF ImagesInv, HookOK, InHook, Hooks
  <2>3. loaded' = IF \A e \in ToSet(v) : e.mh # m THEN loaded \ {m} ELSE loaded
    BY <1>5, <1>10, <2>1 DEF HookReturns
  <2>4. DOMAIN v = 1 .. Len(v)
    BY <2>2, Replaced DEF Outcome, Lists, Entries
  <2>5. ToSet(v) = {v[j] : j \in 1 .. Len(v)}
    BY <2>4 DEF ToSet
  <2>6. Lists(v, loaded') /\ InImages(v, loaded') /\ loaded' \subseteq loaded
    <3>1. CASE Lists(v, loaded) /\ InImages(v, loaded)
      <4>1. PICK j \in 1 .. Len(v) : v[j].mh = m
        BY <2>2, <3>1 DEF Lists
      <4>2. loaded' = loaded
        BY <2>3, <2>5, <4>1
      <4> QED BY <3>1, <4>2
    <3>2. CASE Lists(v, loaded \ {m}) /\ InImages(v, loaded \ {m})
      <4>1. \A j \in 1 .. Len(v) : v[j].mh # m
        BY <3>2 DEF Lists
      <4>2. loaded' = loaded \ {m}
        BY <2>3, <2>5, <4>1
      <4> QED BY <3>2, <4>2
    <3> QED BY <2>2, <3>1, <3>2 DEF Outcome
  <2>7. \A u \in Threads \ {t} : HookOK(u)' /\ ~InHook(u)'
    BY <1>7, <1>10, AloneInHook
  <2>8. HookOK(t)' /\ ~InHook(t)'
    BY <1>7, <1>8 DEF HookOK, InHook
  <2>9. (loaded \subseteq Images)' /\ InImages(LiveImages, loaded)' /\ Lists(LiveImages, loaded)'
    BY <1>6, <2>2, <2>6 DEF ImagesInv
  <2> QED BY <2>7, <2>8, <2>9 DEF ImagesInv
<1> QED BY <1>9, <1>10

LEMMA LockmodeImages ==
  ASSUME SearchInv, SearchInv', LockInv, ImagesInv, NEW t \in Threads, Lockmode(t)
  PROVE  ImagesInv'
<1>1. th[t].pc = "lockmode" /\ UNCHANGED loaded
  BY DEF Lockmode, At
<1>2. th[t].node \in 1 .. Len(nodes) /\ Mine(t).handle = th[t].key
  BY <1>1 DEF LockInv, CallOK, InList, Mine
<1>3. PICK r : r = IF Mine(t).owner = NoThread THEN ~Mine(t).recursive ELSE Mine(t).recursive
  OBVIOUS
<1>4. PICK n : n = [Mine(t) EXCEPT !.recursive = r]
  OBVIOUS
<1>5. n.owner = Mine(t).owner /\ n.handle = Mine(t).handle /\ n.ptr = Mine(t).ptr
  BY <1>2, <1>4 DEF SearchInv, Shape, NodeFields, Mine
<1>6. SetNode(t, n) /\ Return(t)
  BY <1>3, <1>4 DEF Lockmode, SetNode, Mine
<1>7. LiveImages' = LiveImages /\ \A u \in Threads \ {t} : HasList(u)' => HasList(u)
  BY <1>2, <1>5, <1>6, NodeWritten
<1>8. /\ \A u \in Threads \ {t} : th'[u] = th[u]
      /\ th'[t].pc = "idle" /\ th'[t].call = "none" /\ th'[t].image = NoImage
  BY <1>6 DEF SearchInv, Shape, Return, Idle
<1>9. th'[t].call \notin Hooks \cup {"set"} /\ th'[t].pc # "assign"
  BY <1>8 DEF Hooks
<1>10. ~InHook(t)
  BY <1>1 DEF ImagesInv, HookOK, InHook
<1> QED BY <1>1, <1>7, <1>8, <1>9, <1>10, NoHookStep

LEMMA ImagesInit == ASSUME Init PROVE ImagesInv
<1>1. nodes = <<>> /\ loaded = {} /\ \A t \in Threads : th[t] = Idle
  BY DEF Init
<1>2. NodesOf(LIVE_IMAGE_LIST) = {}
  BY <1>1 DEF NodesOf
<1>3. LiveImages = <<>>
  BY <1>2 DEF LiveImages
<1>4. \A t \in Threads : th[t].image = NoImage /\ th[t].call = "none" /\ th[t].pc = "idle"
  BY <1>1 DEF Idle
<1>5. \A t \in Threads : HookOK(t) /\ ~InHook(t)
  BY <1>4 DEF HookOK, InHook, Hooks
<1>6. Lists(LiveImages, loaded) /\ InImages(LiveImages, loaded)
  BY <1>1, <1>3, NoImages
<1> QED BY <1>1, <1>5, <1>6 DEF ImagesInv

LEMMA ImagesNext ==
  ASSUME StrangerKeys = {}, OneDestructor, SearchInv, SearchInv', LockInv, ImagesInv, [Next]_vars
  PROVE  ImagesInv'
<1>1. CASE UNCHANGED vars
  <2>1. UNCHANGED <<nodes, th, loaded>>
    BY <1>1 DEF vars
  <2>2. LiveImages' = LiveImages
    BY <2>1 DEF LiveImages, NodesOf
  <2>3. ASSUME NEW t \in Threads PROVE HookOK(t)' /\ (InHook(t)' <=> InHook(t))
    <3>1. HookOK(t) /\ (HasList(t)' <=> HasList(t))
      BY <2>1 DEF ImagesInv, HasList
    <3>2. InHook(t)' <=> InHook(t)
      BY <2>1 DEF InHook
    <3> QED BY <2>1, <2>2, <3>1, <3>2 DEF HookOK, Outcome
  <2>4. (loaded \subseteq Images)' /\ InImages(LiveImages, loaded)'
    BY <2>1, <2>2 DEF ImagesInv
  <2>5. ((\A t \in Threads : ~InHook(t)) => Lists(LiveImages, loaded))'
    BY <2>1, <2>2, <2>3 DEF ImagesInv
  <2>6. (\A t, u \in Threads : InHook(t) /\ InHook(u) => t = u)'
    BY <2>3 DEF ImagesInv
  <2> QED BY <2>3, <2>4, <2>5, <2>6 DEF ImagesInv
<1>2. CASE Next
  <2> SUFFICES ASSUME NEW t \in Threads,
                      \/ \E k \in Keys : Lock(t, k) \/ Unlock(t, k) \/ SetLockmode(t, k)
                      \/ \E m \in Images, call \in Hooks : Hook(t, call, m)
                      \/ Examine(t) \/ Search(t) \/ Prepend(t) \/ Mutex(t) \/ Load(t) \/ Store(t)
                      \/ Assign(t) \/ Release(t) \/ Lockmode(t)
               PROVE  ImagesInv'
    BY <1>2 DEF Next
  <2>1. ASSUME NEW k \in Keys, Lock(t, k) \/ Unlock(t, k) \/ SetLockmode(t, k) PROVE ImagesInv'
    <3>1. PICK call \in {"lock", "unlock", "lockmode"} :
            Calling(t, call, k, NoImage) /\ UNCHANGED <<nodes, loaded>>
      BY <2>1 DEF Lock, Unlock, SetLockmode
    <3> QED BY <3>1, CallImages
  <2>2. ASSUME NEW m \in Images, NEW call \in Hooks, Hook(t, call, m) PROVE ImagesInv'
    BY <2>2, HookImages
  <2>3. CASE Examine(t)
    BY <2>3, ExamineImages
  <2>4. CASE Search(t)
    BY <2>4, SearchImages
  <2>5. CASE Prepend(t)
    BY <2>5, PrependImages
  <2>6. CASE Mutex(t)
    BY <2>6, MutexImages
  <2>7. CASE Load(t)
    BY <2>7, LoadImages
  <2>8. CASE Store(t)
    BY <2>8, StoreImages
  <2>9. CASE Assign(t)
    BY <2>9, AssignImages
  <2>10. CASE Release(t)
    BY <2>10, ReleaseImages
  <2>11. CASE Lockmode(t)
    BY <2>11, LockmodeImages
  <2> QED BY <2>1, <2>2, <2>3, <2>4, <2>5, <2>6, <2>7, <2>8, <2>9, <2>10, <2>11
<1> QED BY <1>1, <1>2

\* An image that no hook is at work on is in the list as it is in memory.
LEMMA ImagesFollow ==
  ASSUME ImagesInv
  PROVE  ImagesListed
<1> SUFFICES ASSUME NEW m \in Images, \A t \in Threads : th[t].image # m
             PROVE  /\ Cardinality({j \in DOMAIN LiveImages : LiveImages[j].mh = m})
                         = IF m \in loaded THEN 1 ELSE 0
                    /\ m \notin loaded => \A e \in ToSet(LiveImages) :
                                            e.destructor = NoDestructor \/ ImageOf[e.destructor] # m
  BY DEF ImagesListed
<1>1. PICK s : s = LiveImages
  OBVIOUS
<1>2. Entries(s) /\ InImages(s, loaded)
  BY <1>1, ListEntries DEF ImagesInv
<1>3. DOMAIN s = 1 .. Len(s)
  BY <1>2, Replaced DEF Entries
<1>4. PICK S : Lists(s, S) /\ (m \in S <=> m \in loaded)
  <2>1. CASE \A t \in Threads : ~InHook(t)
    BY <1>1, <2>1 DEF ImagesInv
  <2>2. CASE \E t \in Threads : InHook(t)
    <3>1. PICK t \in Threads : InHook(t)
      BY <2>2
    <3>2. PICK x : x = th[t].image
      OBVIOUS
    <3>3. x # m /\ (Lists(s, loaded) \/ Lists(s, loaded \ {x}))
      BY <1>1, <3>1, <3>2 DEF ImagesInv, HookOK, InHook, Outcome
    <3> QED BY <3>3
  <2> QED BY <2>1, <2>2
<1>5. PICK P : P = {j \in DOMAIN s : s[j].mh = m}
  OBVIOUS
<1>6. Cardinality(P) = IF m \in loaded THEN 1 ELSE 0
  <2>1. CASE m \in loaded
    <3>1. PICK j \in 1 .. Len(s) : s[j].mh = m
      BY <1>4, <2>1 DEF Lists
    <3>2. P = {j}
      BY <1>2, <1>3, <1>5, <3>1 DEF Entries
    <3> QED BY <2>1, <3>2, FS_Singleton
  <2>2. CASE m \notin loaded
    <3>1. P = {}
      BY <1>3, <1>4, <1>5, <2>2 DEF Lists
    <3> QED BY <2>2, <3>1, FS_EmptySet
  <2> QED BY <2>1, <2>2
<1>7. ASSUME m \notin loaded, NEW e \in ToSet(s)
      PROVE  e.destructor = NoDestructor \/ ImageOf[e.destructor] # m
  <2>1. PICK j \in 1 .. Len(s) : e = s[j]
    BY <1>3 DEF ToSet
  <2> QED BY <1>2, <1>7, <2>1 DEF InImages
<1> QED BY <1>1, <1>5, <1>6, <1>7

(***************************************************************************)
(* Every image in memory, and no other, is in the list under               *)
(* KEYMGR_GCC3_LIVE_IMAGE_LIST, once, outside its own hooks, and no        *)
(* destructor in the list lies in an image that is gone, whatever the      *)
(* other threads do with the list between the hook's two calls             *)
(* (dwarf2_unwind_dyld_add_image_hook,                                     *)
(* dwarf2_unwind_dyld_remove_image_hook): as long as a key is unlocked     *)
(* only by the thread that locked it, and the destructors that lie in one  *)
(* image are one, the remove hook calling no second.                       *)
(***************************************************************************)
THEOREM ListOfImages ==
  ASSUME StrangerKeys = {}, OneDestructor
  PROVE  Spec => []ImagesListed
<1>1. Init => SearchInv /\ LockInv /\ ImagesInv
  BY SearchInit, LockInit, ImagesInit
<1>2. SearchInv /\ LockInv /\ ImagesInv /\ [Next]_vars => (SearchInv /\ LockInv /\ ImagesInv)'
  BY SearchNext, LockNext, ImagesNext
<1>3. ImagesInv => ImagesListed
  BY ImagesFollow
<1> QED
  BY <1>1, <1>2, <1>3, PTL DEF Spec
=============================================================================
