----------------------------- MODULE PoolStack -----------------------------
(***************************************************************************)
(* What a thread's autorelease pools promise: a stack of bags of objects.  *)
(* An object goes into the innermost pool. Popping a pool releases every   *)
(* object in it, and in the pools pushed after it, once for each time it   *)
(* was autoreleased, and no other. A release may run code that pushes,     *)
(* pops and autoreleases in turn.                                          *)
(***************************************************************************)
EXTENDS Naturals, Sequences

CONSTANT Objects

VARIABLES
  pools,     \* the bags, outermost first; pools[1] is for objects with no pool
  draining   \* the pools being popped, innermost pop first

vars == <<pools, draining>>

Empty == [o \in Objects |-> 0]
top == Len(pools)

Init == pools = <<Empty>> /\ draining = <<>>

Push == pools' = Append(pools, Empty) /\ UNCHANGED draining

Autorelease(o) ==
  /\ pools' = [pools EXCEPT ![top][o] = @ + 1]
  /\ UNCHANGED draining

\* to pop pool 1 is to end the thread
Pop(i) == draining' = <<i>> \o draining /\ UNCHANGED pools

InDrain == draining # <<>> /\ Head(draining) <= top

Release(o) ==
  /\ InDrain /\ pools[top][o] > 0
  /\ pools' = [pools EXCEPT ![top][o] = @ - 1]
  /\ UNCHANGED draining

Drop ==
  /\ InDrain /\ top > 1 /\ pools[top] = Empty
  /\ pools' = SubSeq(pools, 1, top - 1)
  /\ UNCHANGED draining

Drained ==
  /\ draining # <<>>
  /\ top < Head(draining) \/ pools = <<Empty>>
  /\ draining' = Tail(draining)
  /\ UNCHANGED pools

\* a pool never used goes at once
PopUnused ==
  /\ top > 1 /\ pools[top] = Empty
  /\ pools' = SubSeq(pools, 1, top - 1)
  /\ UNCHANGED draining

Next ==
  \/ Push \/ Drop \/ Drained \/ PopUnused
  \/ \E o \in Objects : Autorelease(o) \/ Release(o)
  \/ \E i \in 1 .. top : Pop(i)

Spec == Init /\ [][Next]_vars
=============================================================================
