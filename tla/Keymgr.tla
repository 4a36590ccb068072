------------------------------- MODULE Keymgr -------------------------------
(***************************************************************************)
(* libkeymgr (keymgr.c): process-wide pointers found by key in a list that *)
(* is searched and extended without a lock, each with a mutex and a count  *)
(* of the locks on it; and the hooks that keep the list of loaded images   *)
(* under one of the keys.                                                  *)
(***************************************************************************)
EXTENDS Integers, Sequences, FiniteSets, SequencesExt, Process

CONSTANTS
  Keys,
  LIVE_IMAGE_LIST,   \* the key of the image list
  Images, NoImage,
  Destructors, NoDestructor,
  ImageOf,           \* the image in which a destructor's code is
  StrangerKeys,      \* keys that are unlocked by threads that did not lock them
  MaxDepth           \* bound: recursive locks

VARIABLES
  nodes,    \* in the order they were prepended: the head of the list is last
  th,       \* what each thread is doing
  loaded    \* images in memory

vars == <<nodes, th, loaded>>

\* refcount is an unsigned short
ASSUME KeymgrAssumption ==
  /\ NoThread \notin Threads /\ NoImage \notin Images /\ NoDestructor \notin Destructors
  /\ ImageOf \in [Destructors -> Images]
  /\ MaxDepth \in Nat \ {0} /\ MaxDepth < 65536

Node(k) == [handle |-> k, recursive |-> FALSE, refcount |-> 0, ptr |-> <<>>,
            owner |-> NoThread, depth |-> 0]

Idle == [pc |-> "idle", call |-> "none", key |-> LIVE_IMAGE_LIST, start |-> 0,
         searchEnd |-> 0, node |-> 0, delta |-> 0, count |-> 0, image |-> NoImage,
         value |-> <<>>]

Hooks == {"add", "remove"}
Mine(t) == nodes[th[t].node]
SetNode(t, n) == nodes' = [nodes EXCEPT ![th[t].node] = n]
At(t, pc) == th[t].pc = pc
Return(t) == th' = [th EXCEPT ![t] = Idle]

NodesOf(k) == {i \in DOMAIN nodes : nodes[i].handle = k}
Holds(t, k) == \E i \in NodesOf(k) : nodes[i].owner = t
LiveImages ==
  IF NodesOf(LIVE_IMAGE_LIST) = {} THEN <<>>
  ELSE nodes[Max(NodesOf(LIVE_IMAGE_LIST))].ptr
InHook(t) == th[t].image # NoImage

-----------------------------------------------------------------------------
(* The calls.                                                              *)

Calling(t, call, k, m) ==
  /\ At(t, "idle")
  /\ th' = [th EXCEPT ![t] = [Idle EXCEPT !.pc = "search", !.call = call, !.key = k,
                                          !.image = m]]

\* _keymgr_get_and_lock_processwide_ptr_2; a second lock by the same thread is
\* refused, unless the lock mode allows recursion
Lock(t, k) ==
  /\ \A i \in NodesOf(k) : nodes[i].owner = t => nodes[i].depth < MaxDepth
  /\ Calling(t, "lock", k, NoImage)
  /\ UNCHANGED <<nodes, loaded>>

\* _keymgr_unlock_processwide_ptr, by the thread that has the lock or by another
Unlock(t, k) ==
  /\ Holds(t, k) \/ k \in StrangerKeys
  /\ Calling(t, "unlock", k, NoImage)
  /\ UNCHANGED <<nodes, loaded>>

\* _keymgr_set_lockmode_processwide_ptr: "should not be done while KEY is locked
\* or another thread might be using KEY"
SetLockmode(t, k) ==
  /\ k # LIVE_IMAGE_LIST /\ \A u \in Threads \ {t} : At(u, "idle") \/ th[u].key # k
  /\ Calling(t, "lockmode", k, NoImage)
  /\ UNCHANGED <<nodes, loaded>>

\* dyld calls the hooks for one image at a time
Hook(t, call, m) ==
  /\ (call = "add") = (m \notin loaded)
  /\ \A u \in Threads : ~InHook(u)
  /\ ~Holds(t, LIVE_IMAGE_LIST)
  /\ Calling(t, call, LIVE_IMAGE_LIST, m)
  /\ loaded' = loaded \cup {m}
  /\ UNCHANGED nodes

\* an unwinder that holds the lock has examined an image, and left a destructor
\* that lies in an image in memory
Examine(t) ==
  /\ At(t, "idle")
  /\ \E i \in NodesOf(LIVE_IMAGE_LIST), d \in Destructors :
       /\ nodes[i].owner = t /\ ImageOf[d] \in loaded
       /\ \E j \in DOMAIN nodes[i].ptr :
            /\ nodes[i].ptr[j].destructor = NoDestructor
            /\ nodes' = [nodes EXCEPT ![i].ptr[j].destructor = d]
  /\ UNCHANGED <<th, loaded>>

-----------------------------------------------------------------------------
(* get_or_create_key_element.                                              *)

Searched(t) == th[t].searchEnd + 1 .. Len(nodes)
Matching(t) == {i \in Searched(t) : nodes[i].handle = th[t].key}

FirstStep(call) ==
  CASE call \in Hooks \cup {"lock"} -> "mutex"
    [] call = "set" -> "assign"
    [] call = "lockmode" -> "lockmode"
    [] call = "unlock" -> "load"

GotNode(t, i) ==
  th' = [th EXCEPT ![t].node = i, ![t].delta = -1, ![t].start = 0, ![t].searchEnd = 0,
                   ![t].pc = FirstStep(th[t].call)]

\* one pass over the nodes that were not searched before; get_key_element, which
\* creates nothing, is a single pass
Search(t) ==
  /\ At(t, "search")
  /\ IF Matching(t) # {} THEN GotNode(t, Max(Matching(t)))
     ELSE IF th[t].call = "unlock" THEN Return(t)
     ELSE th' = [th EXCEPT ![t].start = Len(nodes), ![t].pc = "prepend"]
  /\ UNCHANGED <<nodes, loaded>>

\* the compare-and-swap of the head; next is what the search resumes before
TryPrepend(t, next) ==
  /\ At(t, "prepend")
  /\ IF Len(nodes) = th[t].start
     THEN nodes' = Append(nodes, Node(th[t].key)) /\ GotNode(t, Len(nodes) + 1)
     ELSE /\ th' = [th EXCEPT ![t].searchEnd = next, ![t].pc = "search"]
          /\ UNCHANGED nodes
  /\ UNCHANGED loaded

\* a slip: after a failed compare-and-swap, the new nodes count as searched
Prepend_SkipsNew(t) == TryPrepend(t, Len(nodes))

Prepend(t) == TryPrepend(t, th[t].start)

-----------------------------------------------------------------------------
(* The mutex and the count.                                                *)

Mutex(t) ==
  /\ At(t, "mutex")
  /\ LET n == Mine(t) IN
     \/ /\ n.owner = NoThread \/ (n.owner = t /\ n.recursive)
        /\ SetNode(t, [n EXCEPT !.owner = t, !.depth = @ + 1])
        /\ th' = [th EXCEPT ![t].delta = 1, ![t].pc = "load"]
     \/ /\ n.owner = t /\ ~n.recursive          \* EDEADLK
        /\ Return(t)
        /\ UNCHANGED nodes
  /\ UNCHANGED loaded

\* refcount++ and refcount-- are not atomic
Load(t) ==
  /\ At(t, "load")
  /\ th' = [th EXCEPT ![t].count = Mine(t).refcount, ![t].pc = "store"]
  /\ UNCHANGED <<nodes, loaded>>

\* The walk over the list that unlinks m and calls destructor d wherever it finds it,
\* which unregisters it.
Walk(list, m, d) ==
  LET kept[i \in 0 .. Len(list)] ==
        IF i = 0 THEN <<>>
        ELSE IF list[i].mh = m THEN kept[i - 1]
        ELSE Append(kept[i - 1], IF list[i].destructor = d
                                 THEN [list[i] EXCEPT !.destructor = NoDestructor]
                                 ELSE list[i])
  IN  kept[Len(list)]

\* a slip: destructors of other images' entries are left alone
Without_OwnOnly(list, m) == Walk(list, m, NoDestructor)

\* the list without m. The destructor called is the first that lies in m: once
\* was_in_object is set, prev_destructor stays what it is.
Without(list, m) ==
  LET inM == {j \in DOMAIN list : list[j].destructor # NoDestructor /\ ImageOf[list[j].destructor] = m}
  IN  Walk(list, m, IF inM = {} THEN NoDestructor ELSE list[Min(inM)].destructor)

\* what the hook puts in place of the list it got with the lock
HookValue(t) ==
  IF th[t].call = "add"
  THEN <<[mh |-> th[t].image, destructor |-> NoDestructor]>> \o Mine(t).ptr
  ELSE Without(Mine(t).ptr, th[t].image)

Store(t) ==
  /\ At(t, "store")
  /\ SetNode(t, [Mine(t) EXCEPT !.refcount = (th[t].count + th[t].delta) % 65536])
  /\ \/ /\ th[t].delta = -1
        /\ th' = [th EXCEPT ![t].pc = "release"]
     \/ /\ th[t].delta # -1 /\ th[t].call \in Hooks
        /\ th' = [th EXCEPT ![t].pc = "search", ![t].searchEnd = 0, ![t].call = "set",
                            ![t].value = HookValue(t)]
     \/ /\ th[t].delta # -1 /\ th[t].call \notin Hooks
        /\ Return(t)
  /\ UNCHANGED loaded

\* the pointer is set whether or not the thread has the lock
Assign(t) ==
  /\ At(t, "assign") /\ SetNode(t, [Mine(t) EXCEPT !.ptr = th[t].value])
  /\ th' = [th EXCEPT ![t].pc = "load"]
  /\ UNCHANGED loaded

\* the image is unmapped after its hook has returned
HookReturns(t) ==
  loaded' = IF InHook(t) /\ (\A e \in ToSet(th[t].value) : e.mh # th[t].image)
            THEN loaded \ {th[t].image} ELSE loaded

\* pthread_mutex_unlock; EPERM counts the lock again
Release(t) ==
  /\ At(t, "release")
  /\ LET n == Mine(t) IN
     IF n.owner = t
     THEN /\ SetNode(t, [n EXCEPT !.depth = @ - 1, !.owner = IF n.depth = 1 THEN NoThread ELSE t])
          /\ HookReturns(t)
          /\ Return(t)
     ELSE /\ th' = [th EXCEPT ![t].delta = 1, ![t].pc = "load"]
          /\ UNCHANGED <<nodes, loaded>>

\* EBUSY if it is locked
Lockmode(t) ==
  /\ At(t, "lockmode")
  /\ nodes' = [nodes EXCEPT ![th[t].node].recursive = IF Mine(t).owner = NoThread THEN ~@ ELSE @]
  /\ Return(t)
  /\ UNCHANGED loaded

-----------------------------------------------------------------------------
Init ==
  /\ nodes = <<>> /\ loaded = {}
  /\ th = [t \in Threads |-> Idle]

Next ==
  \E t \in Threads :
    \/ \E k \in Keys : Lock(t, k) \/ Unlock(t, k) \/ SetLockmode(t, k)
    \/ \E m \in Images, call \in Hooks : Hook(t, call, m)
    \/ Examine(t) \/ Search(t) \/ Prepend(t) \/ Mutex(t) \/ Load(t) \/ Store(t)
    \/ Assign(t) \/ Release(t) \/ Lockmode(t)

Spec == Init /\ [][Next]_vars

-----------------------------------------------------------------------------
\* "After execution, there should be exactly one element in the list with HANDLE
\* set to KEY", however many threads look for a new key at once
\* (get_or_create_key_element).
OneNodePerKey == \A i, j \in DOMAIN nodes : nodes[i].handle = nodes[j].handle => i = j

\* Every image in memory, and no other, is in the list, once, from the end of its
\* add hook to its remove hook, and no destructor in the list lies in an image
\* that is gone: no update of the list by one thread undoes another's
\* (dwarf2_unwind_dyld_add_image_hook, dwarf2_unwind_dyld_remove_image_hook).
ImagesListed ==
  \A m \in Images : (\A t \in Threads : th[t].image # m) =>
    /\ Cardinality({j \in DOMAIN LiveImages : LiveImages[j].mh = m}) = IF m \in loaded THEN 1 ELSE 0
    /\ m \notin loaded => \A e \in ToSet(LiveImages) :
                             e.destructor = NoDestructor \/ ImageOf[e.destructor] # m

\* "Return the number of locks on KEY. To call this routine safely, you should be
\* holding one of them": to a thread that holds the lock and is in no call, the
\* count is the number of its locks, though it is counted up and down without
\* atomic operations (_keymgr_get_lock_count_processwide_ptr).
CountsLocks ==
  \A i \in DOMAIN nodes, t \in Threads :
    nodes[i].owner = t /\ At(t, "idle") => nodes[i].refcount = nodes[i].depth

\* What a key stands for: one node whoever came first, whose count its owner can rely on
\* (get_or_create_key_element, _keymgr_get_lock_count_processwide_ptr).
NodesSound == OneNodePerKey /\ CountsLocks
=============================================================================
