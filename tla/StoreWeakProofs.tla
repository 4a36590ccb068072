-------------------------- MODULE StoreWeakProofs --------------------------
(***************************************************************************)
(* Theorems about StoreWeak, for any threads, objects, variables, classes  *)
(* and any assignment of objects to side tables.                           *)
(***************************************************************************)
EXTENDS StoreWeak, FiniteSetTheorems, TLAPS

Depth(t) == 1 .. Len(stack[t])

Types ==
  /\ location \in [Locations -> Objects \cup {nil, Dead}]
  /\ registered \subseteq Objects \X Locations
  /\ life \in [Objects -> {"live", "deallocating", "cleared"}]
  /\ lock \in [Tables -> Threads \cup {NoThread}]
  /\ status \in [Classes -> {"none", "initializing", "initialized"}]
  /\ initializer \in [Classes -> Threads \cup {NoThread}]
  /\ stack \in [Threads -> Seq(Frame)]

-----------------------------------------------------------------------------
(* The inductive invariant says of every frame of every stack ...          *)

InitializedFor(t, c) ==
  status[c] = "initialized" \/ (status[c] = "initializing" /\ initializer[c] = t)

\* ... what kind of call it is,
Kind(f) ==
  /\ f.at \in {"dealloc", "clear", "free"} <=> f.loc = nil
  /\ f.loc = nil => f.new \in Objects /\ ~f.haveOld /\ ~f.haveNew
  /\ f.loc # nil => f.haveOld \/ f.haveNew
  /\ f.at \in {"initialize", "body"} => f.new \in Objects
  /\ f.prev => f.new \in Objects

\* ... that it has called, unless it is its thread's innermost call,
Suspended(f) == f.at \in {"body", "dealloc"}

\* ... that it knows whether its variable is alive, and, from the moment it has
\* compared *location with what it read, what the variable holds,
Knows(f) ==
  IF f.loc = nil
  THEN life[f.new] = (IF f.at = "free" THEN "cleared" ELSE "deallocating")
  ELSE /\ f.at # "unlock" => (f.haveOld <=> location[f.loc] # Dead)
       /\ f.at = "update" /\ f.haveOld => location[f.loc] = f.old

\* ... which locks its thread holds for it,
Holds(t, f) ==
  /\ f.at \in {"check", "update", "unlock"} => \A s \in TablesOf(f) : lock[s] = t
  /\ f.at = "lock2" => \E s \in TablesOf(f) : lock[s] = t
  /\ f.at = "clear" => lock[SideTables[f.new]] = t

\* ... and that +initialize was sent, or is being sent by this thread.
Sent(t, f) ==
  f.prev \/ (f.at = "update" /\ f.haveNew /\ f.new # nil)
    => InitializedFor(t, ClassOf[f.new])

FrameOK(t, i) ==
  LET f == stack[t][i] IN
  Kind(f) /\ (i > 1 => Suspended(f)) /\ Knows(f) /\ Holds(t, f) /\ Sent(t, f)

FramesOK == \A t \in Threads : \A i \in Depth(t) : FrameOK(t, i)

\* Of two calls on a variable, neither makes nor destroys it; an object has one
\* -dealloc.
Apart(f, g) ==
  f.loc = g.loc => IF f.loc = nil THEN f.new # g.new
                   ELSE f.haveOld /\ f.haveNew /\ g.haveOld /\ g.haveNew

FramesApart ==
  \A t, u \in Threads : \A i \in Depth(t), j \in Depth(u) :
    t # u \/ i # j => Apart(stack[t][i], stack[u][j])

\* Once an object's references are cleared, no variable holds it.
ClearedUnreferenced ==
  \A o \in Objects : life[o] = "cleared" => \A l \in Locations : location[l] # o

IInv == Types /\ FramesOK /\ FramesApart /\ ClearedUnreferenced /\ PairsExact

-----------------------------------------------------------------------------
(* What an action does to the stacks.                                      *)

LEMMA GotoStack ==
  ASSUME Types, NEW t \in Threads, stack[t] # <<>>, NEW g \in Frame,
         stack' = [stack EXCEPT ![t] = [stack[t] EXCEPT ![1] = g]]
  PROVE  /\ stack' \in [Threads -> Seq(Frame)]
         /\ \A u \in Threads : Depth(u)' = Depth(u)
         /\ 1 \in Depth(t) /\ stack'[t][1] = g
         /\ \A u \in Threads : \A i \in Depth(u) :
              u # t \/ i # 1 => stack'[u][i] = stack[u][i]
<1>1. stack[t] \in Seq(Frame) /\ Len(stack[t]) \in Nat /\ Len(stack[t]) >= 1
  BY DEF Types
<1>2. [stack[t] EXCEPT ![1] = g] \in Seq(Frame)
      /\ Len([stack[t] EXCEPT ![1] = g]) = Len(stack[t])
  BY <1>1
<1>3. stack' \in [Threads -> Seq(Frame)]
  BY <1>2 DEF Types
<1>4. ASSUME NEW u \in Threads PROVE Depth(u)' = Depth(u)
  BY <1>2 DEF Types, Depth
<1> QED BY <1>1, <1>2, <1>3, <1>4 DEF Types, Depth

LEMMA PushStack ==
  ASSUME Types, NEW t \in Threads, NEW g \in Frame, Push(t, g)
  PROVE  /\ stack' \in [Threads -> Seq(Frame)]
         /\ 1 \in Depth(t)' /\ stack'[t][1] = g
         /\ \A u \in Threads : u # t => stack'[u] = stack[u] /\ Depth(u)' = Depth(u)
         /\ \A i \in Depth(t)' : i # 1 => /\ i - 1 \in Depth(t)
                                          /\ stack'[t][i] = stack[t][i - 1]
<1>1. stack[t] \in Seq(Frame) /\ Len(stack[t]) \in Nat
  BY DEF Types
<1> DEFINE s == <<g>> \o stack[t]
<1>2. s \in Seq(Frame) /\ Len(s) = Len(stack[t]) + 1 /\ s[1] = g
      /\ \A i \in 2 .. Len(s) : s[i] = stack[t][i - 1]
  BY <1>1
<1>3. stack' = [stack EXCEPT ![t] = s]
  BY DEF Push
<1> HIDE DEF s
<1> QED BY <1>1, <1>2, <1>3 DEF Types, Depth

LEMMA PopStack ==
  ASSUME Types, NEW t \in Threads, stack[t] # <<>>, Pop(t)
  PROVE  /\ stack' \in [Threads -> Seq(Frame)]
         /\ \A u \in Threads : u # t => stack'[u] = stack[u] /\ Depth(u)' = Depth(u)
         /\ \A i \in Depth(t)' : i + 1 \in Depth(t) /\ stack'[t][i] = stack[t][i + 1]
<1>1. stack[t] \in Seq(Frame) /\ Len(stack[t]) \in Nat /\ Len(stack[t]) >= 1
  BY DEF Types
<1> DEFINE s == Tail(stack[t])
<1>2. s \in Seq(Frame) /\ Len(s) = Len(stack[t]) - 1
      /\ \A i \in 1 .. Len(s) : s[i] = stack[t][i + 1]
  BY <1>1
<1>3. stack' = [stack EXCEPT ![t] = s]
  BY DEF Pop
<1> HIDE DEF s
<1> QED BY <1>1, <1>2, <1>3 DEF Types, Depth

\* The innermost call goes on: its place, the value it read and what it knows of
\* +initialize may change, and memory does not.
Continues(t, g) ==
  /\ stack[t] # <<>>
  /\ stack' = [stack EXCEPT ![t] = [stack[t] EXCEPT ![1] = g]]
  /\ g \in Frame /\ g.loc = Top(t).loc /\ g.new = Top(t).new
  /\ g.haveOld = Top(t).haveOld /\ g.haveNew = Top(t).haveNew

\* Locks and +initialize of other threads: what a frame relies on lasts.
LocksLast(t) == \A s \in Tables, u \in Threads : u # t /\ lock[s] = u => lock'[s] = u
InitializedLasts ==
  \A u \in Threads, c \in Classes : InitializedFor(u, c) => InitializedFor(u, c)'

LEMMA TablesOfFrame ==
  ASSUME Types, NEW f \in Frame
  PROVE  TablesOf(f) \subseteq Tables /\ SideTables[f.new] \in Tables
BY DEF Frame, TablesOf, Tables

LEMMA TypedFrame ==
  ASSUME Types, NEW t \in Threads, NEW i \in Depth(t)
  PROVE  /\ stack[t] # <<>> /\ stack[t][i] \in Frame
         /\ 1 \in Depth(t) /\ stack[t][1] \in Frame /\ Top(t) = stack[t][1]
<1>1. stack[t] \in Seq(Frame) /\ Len(stack[t]) \in Nat /\ Len(stack[t]) >= 1
  BY DEF Types, Depth
<1> QED BY <1>1 DEF Depth, Top

LEMMA TopFrame ==
  ASSUME Types, NEW t \in Threads, stack[t] # <<>>
  PROVE  1 \in Depth(t) /\ Top(t) = stack[t][1] /\ Top(t) \in Frame
<1>1. stack[t] \in Seq(Frame) /\ Len(stack[t]) \in Nat /\ Len(stack[t]) >= 1
  BY DEF Types
<1> QED BY <1>1 DEF Depth, Top

\* A frame that is none of an action's own keeps what it relies on.
LEMMA OtherFrame ==
  ASSUME Types, NEW t \in Threads, NEW u \in Threads, NEW f \in Frame,
         Kind(f), Holds(u, f), Sent(u, f), u # t \/ Suspended(f),
         LocksLast(t), InitializedLasts
  PROVE  /\ (f.at \in {"check", "update", "unlock"} => \A s \in TablesOf(f) : lock'[s] = u)
         /\ (f.at = "lock2" => \E s \in TablesOf(f) : lock'[s] = u)
         /\ (f.at = "clear" => lock'[SideTables[f.new]] = u)
         /\ (f.prev \/ (f.at = "update" /\ f.haveNew /\ f.new # nil)
               => InitializedFor(u, ClassOf[f.new])')
<1>1. TablesOf(f) \subseteq Tables /\ SideTables[f.new] \in Tables
  BY TablesOfFrame
<1>2. f.new \in Objects \cup {nil} /\ f.prev \in BOOLEAN
  BY DEF Frame
<1>3. (f.prev \/ (f.at = "update" /\ f.haveNew /\ f.new # nil)) /\ Kind(f)
        => f.new \in Objects
  BY <1>2 DEF Kind
<1>4. CASE u # t
  BY <1>1, <1>2, <1>3, <1>4, StoreWeakAssumption DEF LocksLast, InitializedLasts, Holds, Sent
<1>5. CASE Suspended(f)
  BY <1>1, <1>2, <1>3, <1>5, StoreWeakAssumption
     DEF LocksLast, InitializedLasts, Holds, Sent, Suspended
<1> QED BY <1>4, <1>5

LEMMA ContinueStack ==
  ASSUME Types, FramesApart, NEW t \in Threads, NEW g, Continues(t, g)
  PROVE  /\ stack' \in [Threads -> Seq(Frame)]
         /\ \A u \in Threads : Depth(u)' = Depth(u)
         /\ stack'[t][1] = g
         /\ \A u \in Threads : \A i \in Depth(u) :
              u # t \/ i # 1 => stack'[u][i] = stack[u][i]
         /\ FramesApart'
<1>1. 1 \in Depth(t) /\ Top(t) = stack[t][1] /\ Top(t) \in Frame
  BY TopFrame DEF Continues
<1>2. /\ stack' \in [Threads -> Seq(Frame)]
      /\ \A u \in Threads : Depth(u)' = Depth(u)
      /\ stack'[t][1] = g
      /\ \A u \in Threads : \A i \in Depth(u) : u # t \/ i # 1 => stack'[u][i] = stack[u][i]
  BY GotoStack DEF Continues
<1>3. \A w \in Threads : \A k \in Depth(w) :
         LET f == stack[w][k]
             h == stack'[w][k]
         IN h.loc = f.loc /\ h.new = f.new /\ h.haveOld = f.haveOld /\ h.haveNew = f.haveNew
  BY <1>1, <1>2 DEF Continues
<1>4. FramesApart'
  <2> SUFFICES ASSUME NEW u \in Threads, NEW v \in Threads,
                      NEW i \in Depth(u), NEW j \in Depth(v), u # v \/ i # j
               PROVE  Apart(stack'[u][i], stack'[v][j])
    BY <1>2 DEF FramesApart, Apart
  <2>1. Apart(stack[u][i], stack[v][j])
    BY DEF FramesApart
  <2> QED BY <1>3, <2>1 DEF Apart
<1> QED BY <1>2, <1>4

\* Every frame but the innermost call's keeps what it relies on, if memory still
\* is what it knows it to be.
LEMMA ContinueFrames ==
  ASSUME IInv, NEW t \in Threads, NEW g, Continues(t, g), LocksLast(t), InitializedLasts,
         Kind(g), Knows(g)', Holds(t, g)', Sent(t, g)',
         \A u \in Threads : \A i \in Depth(u) :
           u # t \/ i # 1 =>
             LET f == stack[u][i] IN
             IF f.loc = nil THEN life'[f.new] = life[f.new]
             ELSE /\ location'[f.loc] = Dead <=> location[f.loc] = Dead
                  /\ f.at = "update" /\ f.haveOld => location'[f.loc] = location[f.loc]
  PROVE  FramesOK'
<1>1. Types /\ FramesOK /\ FramesApart
  BY DEF IInv
<1>2. /\ \A u \in Threads : Depth(u)' = Depth(u)
      /\ stack'[t][1] = g
      /\ \A u \in Threads : \A i \in Depth(u) : u # t \/ i # 1 => stack'[u][i] = stack[u][i]
  BY <1>1, ContinueStack
<1> SUFFICES ASSUME NEW u \in Threads, NEW i \in Depth(u) PROVE FrameOK(u, i)'
  BY <1>2 DEF FramesOK
<1>3. CASE u = t /\ i = 1
  BY <1>2, <1>3 DEF FrameOK, Knows, Holds, Sent
<1>4. CASE u # t \/ i # 1
  <2>1. PICK f \in Frame : f = stack[u][i]
    BY <1>1, TypedFrame
  <2>2. Kind(f) /\ (i > 1 => Suspended(f)) /\ Knows(f) /\ Holds(u, f) /\ Sent(u, f)
    BY <1>1, <2>1 DEF FramesOK, FrameOK
  <2>3. u # t \/ Suspended(f)
    BY <1>4, <2>2 DEF Depth
  <2>4. stack'[u][i] = f
    BY <1>2, <1>4, <2>1
  <2>5. Holds(u, f)' /\ Sent(u, f)'
    BY <1>1, <2>2, <2>3, OtherFrame DEF Holds, Sent
  <2>6. Knows(f)'
    BY <1>4, <2>1, <2>2 DEF Knows
  <2> QED BY <2>2, <2>4, <2>5, <2>6 DEF FrameOK, Knows, Holds, Sent
<1> QED BY <1>3, <1>4

\* The common case: memory does not change.
LEMMA ContinueStep ==
  ASSUME IInv, NEW t \in Threads, NEW g, Continues(t, g),
         UNCHANGED memory, LocksLast(t), InitializedLasts,
         Kind(g), Knows(g), Holds(t, g)', Sent(t, g)'
  PROVE  /\ stack' \in [Threads -> Seq(Frame)]
         /\ FramesOK' /\ FramesApart' /\ ClearedUnreferenced' /\ PairsExact'
<1>1. Types /\ FramesApart /\ ClearedUnreferenced /\ PairsExact
  BY DEF IInv
<1>2. stack' \in [Threads -> Seq(Frame)] /\ FramesApart'
  BY <1>1, ContinueStack
<1>3. location' = location /\ life' = life /\ registered' = registered
  BY DEF memory
<1>4. Knows(g)'
  BY <1>3 DEF Knows
<1>5. FramesOK'
  BY <1>3, <1>4, ContinueFrames
<1>6. ClearedUnreferenced' /\ PairsExact'
  BY <1>1, <1>3 DEF ClearedUnreferenced, PairsExact
<1> QED BY <1>2, <1>5, <1>6

\* Returning from the innermost call.
LEMMA ReturnStep ==
  ASSUME IInv, NEW t \in Threads, stack[t] # <<>>, Pop(t),
         UNCHANGED <<location, registered>>, LocksLast(t), InitializedLasts,
         life' = life \/ (Top(t).loc = nil /\ life' = [life EXCEPT ![Top(t).new] = "live"])
  PROVE  /\ stack' \in [Threads -> Seq(Frame)]
         /\ FramesOK' /\ FramesApart' /\ ClearedUnreferenced' /\ PairsExact'
<1>1. Types /\ FramesOK /\ FramesApart /\ ClearedUnreferenced /\ PairsExact
  BY DEF IInv
<1>2. 1 \in Depth(t) /\ Top(t) = stack[t][1] /\ Top(t) \in Frame
  BY <1>1, TopFrame
<1>3. /\ stack' \in [Threads -> Seq(Frame)]
      /\ \A u \in Threads : u # t => stack'[u] = stack[u] /\ Depth(u)' = Depth(u)
      /\ \A i \in Depth(t)' : i + 1 \in Depth(t) /\ stack'[t][i] = stack[t][i + 1]
  BY <1>1, PopStack
<1> DEFINE Was(u, i) == IF u = t THEN i + 1 ELSE i
<1>4. ASSUME NEW u \in Threads, NEW i \in Depth(u)'
      PROVE  /\ Was(u, i) \in Depth(u) /\ stack'[u][i] = stack[u][Was(u, i)]
             /\ i \in Nat /\ (u # t \/ Was(u, i) # 1)
  BY <1>3 DEF Depth
<1>5. FramesOK'
  <2> SUFFICES ASSUME NEW u \in Threads, NEW i \in Depth(u)' PROVE FrameOK(u, i)'
    BY DEF FramesOK
  <2>1. PICK f \in Frame : f = stack[u][Was(u, i)]
    BY <1>1, <1>4, TypedFrame
  <2>2. stack'[u][i] = f
    BY <1>4, <2>1
  <2>3. Kind(f) /\ (Was(u, i) > 1 => Suspended(f)) /\ Knows(f) /\ Holds(u, f) /\ Sent(u, f)
    BY <1>1, <1>4, <2>1 DEF FramesOK, FrameOK
  <2>4. u # t \/ Suspended(f)
    BY <1>4, <2>3
  <2>5. i > 1 => Suspended(f)
    BY <1>4, <2>3
  <2>6. f.loc = nil /\ Top(t).loc = nil => f.new # Top(t).new
    BY <1>1, <1>2, <1>4, <2>1 DEF FramesApart, Apart
  <2>7. f.loc = nil => f.new \in Objects /\ life'[f.new] = life[f.new]
    BY <1>1, <2>3, <2>6 DEF Kind, Types
  <2>8. Holds(u, f)' /\ Sent(u, f)'
    BY <1>1, <2>3, <2>4, OtherFrame DEF Holds, Sent
  <2> QED BY <2>2, <2>3, <2>5, <2>7, <2>8 DEF FrameOK, Knows, Holds, Sent
<1>6. FramesApart'
  <2> SUFFICES ASSUME NEW u \in Threads, NEW v \in Threads,
                      NEW i \in Depth(u)', NEW j \in Depth(v)', u # v \/ i # j
               PROVE  Apart(stack'[u][i], stack'[v][j])
    BY DEF FramesApart, Apart
  <2>1. u # v \/ Was(u, i) # Was(v, j)
    BY <1>4
  <2> QED BY <1>1, <1>4, <2>1 DEF FramesApart
<1>7. ClearedUnreferenced'
  BY <1>1 DEF ClearedUnreferenced, Types
<1>8. PairsExact'
  BY <1>1 DEF PairsExact
<1> QED BY <1>3, <1>5, <1>6, <1>7, <1>8

Labels == {"retry", "lock1", "lock2", "check", "initialize", "body", "update",
           "unlock", "dealloc", "clear", "free"}

LEMMA GotoContinues ==
  ASSUME Types, NEW t \in Threads, stack[t] # <<>>, NEW label \in Labels, Goto(t, label)
  PROVE  Continues(t, [Top(t) EXCEPT !.at = label])
<1>1. 1 \in Depth(t) /\ Top(t) = stack[t][1] /\ Top(t) \in Frame
  BY TopFrame
<1>2. [Top(t) EXCEPT !.at = label] \in Frame
  BY <1>1 DEF Frame, Labels
<1>3. stack' = [stack EXCEPT ![t] = [stack[t] EXCEPT ![1] = [Top(t) EXCEPT !.at = label]]]
  BY <1>1 DEF Goto
<1> QED BY <1>1, <1>2, <1>3 DEF Continues, Frame

-----------------------------------------------------------------------------
(* Every action preserves the invariant.                                   *)

\* The innermost call and what the invariant says of it.
LEMMA TopOK ==
  ASSUME IInv, NEW t \in Threads, stack[t] # <<>>
  PROVE  /\ 1 \in Depth(t) /\ Top(t) = stack[t][1] /\ Top(t) \in Frame
         /\ Kind(Top(t)) /\ Knows(Top(t)) /\ Holds(t, Top(t)) /\ Sent(t, Top(t))
BY TopFrame DEF IInv, FramesOK, FrameOK

\* GotoContinues and ContinueStep together.
LEMMA GotoStep ==
  ASSUME IInv, NEW t \in Threads, stack[t] # <<>>, NEW label \in Labels, Goto(t, label),
         NEW g, g = [Top(t) EXCEPT !.at = label],
         UNCHANGED memory, LocksLast(t), InitializedLasts,
         Kind(g), Knows(g), Holds(t, g)', Sent(t, g)'
  PROVE  /\ stack' \in [Threads -> Seq(Frame)]
         /\ FramesOK' /\ FramesApart' /\ ClearedUnreferenced' /\ PairsExact'
<1>1. Types
  BY DEF IInv
<1>2. Continues(t, g)
  BY <1>1, GotoContinues
<1> QED BY <1>2, ContinueStep

LEMMA Acquired ==
  ASSUME Types, NEW t \in Threads, NEW s \in Tables, Acquire(t, s)
  PROVE  /\ lock' \in [Tables -> Threads \cup {NoThread}] /\ LocksLast(t)
         /\ lock'[s] = t /\ \A r \in Tables : lock[r] = t => lock'[r] = t
BY StoreWeakAssumption DEF Types, Acquire, LocksLast

LEMMA Released ==
  ASSUME Types, NEW t \in Threads, NEW ss \in SUBSET Tables, Release(t, ss),
         \A s \in ss : lock[s] = t
  PROVE  lock' \in [Tables -> Threads \cup {NoThread}] /\ LocksLast(t)
BY DEF Types, Release, LocksLast

\* A call locks one table or two.
LEMMA OneOrTwoTables ==
  ASSUME NEW f \in Frame, f.haveOld \/ f.haveNew
  PROVE  /\ Min(TablesOf(f)) \in TablesOf(f)
         /\ Cardinality(TablesOf(f)) # 2 => TablesOf(f) = {Min(TablesOf(f))}
         /\ \A r, s \in TablesOf(f) : r # s => TablesOf(f) = {r, s}
<1> DEFINE S == TablesOf(f)
<1>1. PICK m, n : m \in Nat /\ n \in Nat /\ S = {m, n}
  <2>1. SideTables[f.old] \in Nat /\ SideTables[f.new] \in Nat
    BY StoreWeakAssumption DEF Frame
  <2>2. CASE f.haveOld /\ f.haveNew
    BY <2>1, <2>2 DEF TablesOf
  <2>3. CASE f.haveOld /\ ~f.haveNew
    <3>1. S = {SideTables[f.old], SideTables[f.old]}
      BY <2>3 DEF TablesOf
    <3> QED BY <2>1, <3>1
  <2>4. CASE ~f.haveOld /\ f.haveNew
    <3>1. S = {SideTables[f.new], SideTables[f.new]}
      BY <2>4 DEF TablesOf
    <3> QED BY <2>1, <3>1
  <2> QED BY <2>2, <2>3, <2>4
<1>2. \E x \in S : \A y \in S : x <= y
  BY <1>1
<1>3. Min(S) \in S
  BY <1>2 DEF Min
<1>4. m # n => Cardinality(S) = 2
  <2>1. IsFiniteSet({n}) /\ Cardinality({n}) = 1
    BY FS_Singleton
  <2>2. m # n => Cardinality({n} \cup {m}) = 2
    BY <2>1, FS_AddElement
  <2>3. S = {n} \cup {m}
    BY <1>1
  <2> QED BY <2>2, <2>3
<1>5. Cardinality(S) # 2 => S = {Min(S)}
  BY <1>1, <1>3, <1>4
<1>6. \A r, s \in S : r # s => S = {r, s}
  BY <1>1
<1> HIDE DEF S
<1> QED BY <1>3, <1>5, <1>6 DEF S

LEMMA ReadOldStep ==
  ASSUME IInv, NEW t \in Threads, ReadOld(t)
  PROVE  IInv'
<1>1. stack[t] # <<>> /\ Types
  BY DEF ReadOld, At, IInv
<1>2. /\ 1 \in Depth(t) /\ Top(t) = stack[t][1] /\ Top(t) \in Frame
      /\ Kind(Top(t)) /\ Knows(Top(t)) /\ Sent(t, Top(t))
  BY <1>1, TopOK
<1>3. PICK f \in Frame : f = Top(t)
  BY <1>2
<1>4. PICK g : g = [f EXCEPT !.at = "lock1",
                             !.old = IF f.haveOld THEN location[f.loc] ELSE nil]
  OBVIOUS
<1>5. f.at = "retry" /\ f.loc \in Locations
  BY <1>2, <1>3 DEF ReadOld, At, Kind, Frame
<1>6. f.haveOld => location[f.loc] \in Objects \cup {nil}
  BY <1>1, <1>2, <1>3, <1>5, StoreWeakAssumption DEF Knows, Types
<1>7. Continues(t, g)
  <2>1. g \in Frame /\ g.loc = f.loc /\ g.new = f.new
        /\ g.haveOld = f.haveOld /\ g.haveNew = f.haveNew
    BY <1>4, <1>6 DEF Frame
  <2>2. stack' = [stack EXCEPT ![t] = [stack[t] EXCEPT ![1] = g]]
    <3> DEFINE old == IF f.haveOld THEN location[f.loc] ELSE nil
    <3>1. stack' = [stack EXCEPT ![t][1].at = "lock1", ![t][1].old = old]
      BY <1>3 DEF ReadOld
    <3>2. t \in DOMAIN stack /\ 1 \in DOMAIN stack[t] /\ stack[t][1] = f
      BY <1>1, <1>2, <1>3 DEF Types, Depth
    <3>3. g = [f EXCEPT !.at = "lock1", !.old = old]
      BY <1>4
    <3> HIDE DEF old
    <3> QED BY <3>1, <3>2, <3>3, Zenon
  <2> QED BY <1>1, <1>3, <2>1, <2>2 DEF Continues
<1>8. UNCHANGED <<memory, lock, classes>> /\ LocksLast(t) /\ InitializedLasts
  BY DEF ReadOld, LocksLast, InitializedLasts, InitializedFor, classes
<1>9. Kind(g) /\ Knows(g) /\ Holds(t, g)' /\ Sent(t, g)'
  <2>1. /\ g.at = "lock1" /\ g.loc = f.loc /\ g.new = f.new /\ g.prev = f.prev
        /\ g.haveOld = f.haveOld /\ g.haveNew = f.haveNew
    BY <1>4 DEF Frame
  <2>2. Kind(g)
    BY <1>2, <1>3, <1>5, <2>1 DEF Kind
  <2>3. Knows(g)
    BY <1>2, <1>3, <1>5, <2>1, StoreWeakAssumption DEF Knows
  <2>4. Holds(t, g)'
    BY <2>1 DEF Holds
  <2>5. Sent(t, g)'
    BY <1>2, <1>3, <1>8, <2>1, StoreWeakAssumption DEF Sent, InitializedFor, classes
  <2> QED BY <2>2, <2>3, <2>4, <2>5
<1>10. stack' \in [Threads -> Seq(Frame)]
       /\ FramesOK' /\ FramesApart' /\ ClearedUnreferenced' /\ PairsExact'
  BY <1>7, <1>8, <1>9, ContinueStep
<1> QED BY <1>1, <1>8, <1>10 DEF IInv, Types, memory, classes, Tables

LEMMA LockFirstStep ==
  ASSUME IInv, NEW t \in Threads, LockFirst(t)
  PROVE  IInv'
<1>1. stack[t] # <<>> /\ Types
  BY DEF LockFirst, At, IInv
<1>2. PICK f \in Frame : f = Top(t)
  BY <1>1, TopOK
<1>3. Kind(f) /\ Knows(f) /\ Sent(t, f) /\ f.at = "lock1"
  BY <1>1, <1>2, TopOK DEF LockFirst, At
<1>4. f.loc # nil /\ (f.haveOld \/ f.haveNew)
  BY <1>3 DEF Kind
<1> DEFINE s == Min(TablesOf(f))
           label == IF Cardinality(TablesOf(f)) = 2 THEN "lock2" ELSE "check"
<1>5. s \in TablesOf(f) /\ (label = "check" => TablesOf(f) = {s}) /\ s \in Tables
  BY <1>1, <1>4, OneOrTwoTables, TablesOfFrame
<1>6. Acquire(t, s) /\ Goto(t, label) /\ UNCHANGED <<memory, classes, calls>>
      /\ label \in {"lock2", "check"}
  BY <1>2 DEF LockFirst
<1> HIDE DEF s, label
<1>7. lock' \in [Tables -> Threads \cup {NoThread}] /\ LocksLast(t) /\ lock'[s] = t
  BY <1>1, <1>5, <1>6, Acquired
<1>8. InitializedLasts
  BY <1>6 DEF InitializedLasts, InitializedFor, classes
<1>9. PICK g : g = [f EXCEPT !.at = label]
  OBVIOUS
<1>10. /\ g.at = label /\ g.loc = f.loc /\ g.new = f.new /\ g.prev = f.prev
       /\ g.haveOld = f.haveOld /\ g.haveNew = f.haveNew /\ TablesOf(g) = TablesOf(f)
  BY <1>9 DEF Frame, TablesOf
<1>11. Kind(g) /\ Knows(g) /\ Holds(t, g)' /\ Sent(t, g)'
  <2>1. Kind(g) /\ Knows(g)
    BY <1>3, <1>4, <1>6, <1>10 DEF Kind, Knows
  <2>2. Holds(t, g)'
    BY <1>5, <1>6, <1>7, <1>10 DEF Holds, TablesOf
  <2>3. Sent(t, g)'
    BY <1>3, <1>6, <1>10 DEF Sent, InitializedFor, classes
  <2> QED BY <2>1, <2>2, <2>3
<1>12. stack' \in [Threads -> Seq(Frame)]
       /\ FramesOK' /\ FramesApart' /\ ClearedUnreferenced' /\ PairsExact'
  BY <1>1, <1>2, <1>6, <1>7, <1>8, <1>9, <1>11, GotoStep DEF Labels
<1> QED BY <1>1, <1>6, <1>7, <1>12 DEF IInv, Types, memory, classes, Tables

LEMMA LockSecondStep ==
  ASSUME IInv, NEW t \in Threads, LockSecond(t)
  PROVE  IInv'
<1>1. stack[t] # <<>> /\ Types
  BY DEF LockSecond, At, IInv
<1>2. PICK f \in Frame : f = Top(t)
  BY <1>1, TopOK
<1>3. Kind(f) /\ Knows(f) /\ Holds(t, f) /\ Sent(t, f) /\ f.at = "lock2"
  BY <1>1, <1>2, TopOK DEF LockSecond, At
<1>4. f.loc # nil /\ (f.haveOld \/ f.haveNew)
  BY <1>3 DEF Kind
<1>5. PICK s \in TablesOf(f) : lock[s] # t /\ Acquire(t, s)
  BY <1>2 DEF LockSecond
<1>6. PICK r \in TablesOf(f) : lock[r] = t
  BY <1>3 DEF Holds
<1>7. TablesOf(f) = {r, s} /\ r \in Tables /\ s \in Tables
  BY <1>1, <1>4, <1>5, <1>6, OneOrTwoTables, TablesOfFrame
<1>8. Goto(t, "check") /\ UNCHANGED <<memory, classes, calls>>
  BY DEF LockSecond
<1>9. /\ lock' \in [Tables -> Threads \cup {NoThread}] /\ LocksLast(t)
      /\ lock'[s] = t /\ lock'[r] = t
  BY <1>1, <1>5, <1>6, <1>7, Acquired
<1>10. InitializedLasts
  BY <1>8 DEF InitializedLasts, InitializedFor, classes
<1>11. PICK g : g = [f EXCEPT !.at = "check"]
  OBVIOUS
<1>12. /\ g.at = "check" /\ g.loc = f.loc /\ g.new = f.new /\ g.prev = f.prev
       /\ g.haveOld = f.haveOld /\ g.haveNew = f.haveNew /\ TablesOf(g) = TablesOf(f)
  BY <1>11 DEF Frame, TablesOf
<1>13. Kind(g) /\ Knows(g) /\ Holds(t, g)' /\ Sent(t, g)'
  <2>1. Kind(g) /\ Knows(g)
    BY <1>3, <1>4, <1>12 DEF Kind, Knows
  <2>2. Holds(t, g)'
    BY <1>7, <1>9, <1>12 DEF Holds, TablesOf
  <2>3. Sent(t, g)'
    BY <1>3, <1>8, <1>12 DEF Sent, InitializedFor, classes
  <2> QED BY <2>1, <2>2, <2>3
<1>14. stack' \in [Threads -> Seq(Frame)]
       /\ FramesOK' /\ FramesApart' /\ ClearedUnreferenced' /\ PairsExact'
  BY <1>1, <1>2, <1>8, <1>9, <1>10, <1>11, <1>13, GotoStep DEF Labels
<1> QED BY <1>1, <1>8, <1>9, <1>14 DEF IInv, Types, memory, classes, Tables

\* Once the old value is compared with the locks held, the call knows what the
\* variable holds; once status is looked at, that +initialize was sent.
LEMMA CheckStep ==
  ASSUME IInv, NEW t \in Threads, Check(t)
  PROVE  IInv'
<1>1. stack[t] # <<>> /\ Types
  BY DEF Check, At, IInv
<1>2. PICK f \in Frame : f = Top(t)
  BY <1>1, TopOK
<1>3. Kind(f) /\ Knows(f) /\ Holds(t, f) /\ Sent(t, f) /\ f.at = "check"
  BY <1>1, <1>2, TopOK DEF Check, At
<1>4. f.loc # nil /\ (f.haveOld \/ f.haveNew)
  BY <1>3 DEF Kind
<1>5. UNCHANGED <<memory, classes, calls>>
  BY DEF Check
<1>6. InitializedLasts
  BY <1>5 DEF InitializedLasts, InitializedFor, classes
<1>7. PICK label \in {"retry", "initialize", "update"} :
         /\ Goto(t, label)
         /\ label # "update" => Release(t, TablesOf(f))
         /\ label = "update" => UNCHANGED lock /\ ~Changed(f) /\ ~Uninitialized(f)
         /\ label = "initialize" => Uninitialized(f)
  BY <1>2 DEF Check
<1>8. lock' \in [Tables -> Threads \cup {NoThread}] /\ LocksLast(t)
  <2>1. CASE label = "update"
    BY <1>1, <1>7, <2>1 DEF Types, LocksLast
  <2>2. CASE label # "update"
    <3>1. TablesOf(f) \in SUBSET Tables /\ \A s \in TablesOf(f) : lock[s] = t
      BY <1>1, <1>3, TablesOfFrame DEF Holds
    <3> QED BY <1>1, <1>7, <2>2, <3>1, Released
  <2> QED BY <2>1, <2>2
<1>9. PICK g : g = [f EXCEPT !.at = label]
  OBVIOUS
<1>10. /\ g.at = label /\ g.loc = f.loc /\ g.new = f.new /\ g.prev = f.prev
       /\ g.old = f.old
       /\ g.haveOld = f.haveOld /\ g.haveNew = f.haveNew /\ TablesOf(g) = TablesOf(f)
  BY <1>9 DEF Frame, TablesOf
<1>11. Kind(g) /\ Knows(g) /\ Holds(t, g)' /\ Sent(t, g)'
  <2>1. Kind(g)
    BY <1>3, <1>4, <1>7, <1>10 DEF Kind, Uninitialized, Frame
  <2>2. Knows(g)
    BY <1>3, <1>4, <1>7, <1>10 DEF Knows, Changed
  <2>3. Holds(t, g)'
    BY <1>3, <1>7, <1>10 DEF Holds, TablesOf
  <2>4. g.prev \/ (g.at = "update" /\ g.haveNew /\ g.new # nil)
          => InitializedFor(t, ClassOf[f.new])
    BY <1>3, <1>7, <1>10 DEF Sent, Uninitialized, InitializedFor
  <2>5. Sent(t, g)'
    BY <1>5, <1>10, <2>4 DEF Sent, InitializedFor, classes
  <2> QED BY <2>1, <2>2, <2>3, <2>5
<1>12. stack' \in [Threads -> Seq(Frame)]
       /\ FramesOK' /\ FramesApart' /\ ClearedUnreferenced' /\ PairsExact'
  BY <1>1, <1>2, <1>5, <1>6, <1>7, <1>8, <1>9, <1>11, GotoStep DEF Labels
<1> QED BY <1>1, <1>5, <1>8, <1>12 DEF IInv, Types, memory, classes, Tables

LEMMA SendInitializeStep ==
  ASSUME IInv, NEW t \in Threads, SendInitialize(t)
  PROVE  IInv'
<1>1. stack[t] # <<>> /\ Types
  BY DEF SendInitialize, At, IInv
<1>2. PICK f \in Frame : f = Top(t)
  BY <1>1, TopOK
<1>3. Kind(f) /\ Knows(f) /\ Sent(t, f) /\ f.at = "initialize"
  BY <1>1, <1>2, TopOK DEF SendInitialize, At
<1>4. f.loc # nil /\ f.new \in Objects /\ ClassOf[f.new] \in Classes
  BY <1>3, StoreWeakAssumption DEF Kind
<1>5. /\ Goto(t, "body") /\ UNCHANGED <<memory, lock, calls>>
      /\ status[ClassOf[f.new]] = "none"
      /\ status' = [status EXCEPT ![ClassOf[f.new]] = "initializing"]
      /\ initializer' = [initializer EXCEPT ![ClassOf[f.new]] = t]
  BY <1>2 DEF SendInitialize
<1>6. /\ status' \in [Classes -> {"none", "initializing", "initialized"}]
      /\ initializer' \in [Classes -> Threads \cup {NoThread}]
  BY <1>1, <1>4, <1>5 DEF Types
<1>7. LocksLast(t) /\ InitializedLasts
  BY <1>1, <1>4, <1>5 DEF LocksLast, InitializedLasts, InitializedFor, Types
<1>8. PICK g : g = [f EXCEPT !.at = "body"]
  OBVIOUS
<1>9. /\ g.at = "body" /\ g.loc = f.loc /\ g.new = f.new /\ g.prev = f.prev
      /\ g.haveOld = f.haveOld /\ g.haveNew = f.haveNew
  BY <1>8 DEF Frame
<1>10. Kind(g) /\ Knows(g) /\ Holds(t, g)' /\ Sent(t, g)'
  <2>1. Kind(g) /\ Knows(g)
    BY <1>3, <1>4, <1>9 DEF Kind, Knows
  <2>2. Holds(t, g)'
    BY <1>9 DEF Holds
  <2>3. InitializedFor(t, ClassOf[f.new]) => InitializedFor(t, ClassOf[f.new])'
    BY <1>4, <1>7 DEF InitializedLasts
  <2>4. Sent(t, g)'
    BY <1>3, <1>9, <2>3 DEF Sent, InitializedFor
  <2> QED BY <2>1, <2>2, <2>4
<1>11. stack' \in [Threads -> Seq(Frame)]
       /\ FramesOK' /\ FramesApart' /\ ClearedUnreferenced' /\ PairsExact'
  BY <1>1, <1>2, <1>5, <1>7, <1>8, <1>10, GotoStep DEF Labels
<1> QED BY <1>1, <1>5, <1>6, <1>11 DEF IInv, Types, memory, Tables

LEMMA EndInitializeStep ==
  ASSUME IInv, NEW t \in Threads, EndInitialize(t)
  PROVE  IInv'
<1>1. stack[t] # <<>> /\ Types
  BY DEF EndInitialize, At, IInv
<1>2. PICK f \in Frame : f = Top(t)
  BY <1>1, TopOK
<1>3. Kind(f) /\ Knows(f) /\ Sent(t, f) /\ f.at = "body"
  BY <1>1, <1>2, TopOK DEF EndInitialize, At
<1>4. f.loc # nil /\ f.new \in Objects /\ ClassOf[f.new] \in Classes
  BY <1>3, StoreWeakAssumption DEF Kind
<1>5. /\ Goto(t, "initialize") /\ UNCHANGED <<memory, lock, calls>>
      /\ status' = [status EXCEPT ![ClassOf[f.new]] = "initialized"]
      /\ UNCHANGED initializer
  BY <1>2 DEF EndInitialize
<1>6. /\ status' \in [Classes -> {"none", "initializing", "initialized"}]
      /\ initializer' \in [Classes -> Threads \cup {NoThread}]
  BY <1>1, <1>4, <1>5 DEF Types
<1>7. LocksLast(t) /\ InitializedLasts
  BY <1>1, <1>4, <1>5 DEF LocksLast, InitializedLasts, InitializedFor, Types
<1>8. PICK g : g = [f EXCEPT !.at = "initialize"]
  OBVIOUS
<1>9. /\ g.at = "initialize" /\ g.loc = f.loc /\ g.new = f.new /\ g.prev = f.prev
      /\ g.haveOld = f.haveOld /\ g.haveNew = f.haveNew
  BY <1>8 DEF Frame
<1>10. Kind(g) /\ Knows(g) /\ Holds(t, g)' /\ Sent(t, g)'
  <2>1. Kind(g) /\ Knows(g)
    BY <1>3, <1>4, <1>9 DEF Kind, Knows
  <2>2. Holds(t, g)'
    BY <1>9 DEF Holds
  <2>3. InitializedFor(t, ClassOf[f.new]) => InitializedFor(t, ClassOf[f.new])'
    BY <1>4, <1>7 DEF InitializedLasts
  <2>4. Sent(t, g)'
    BY <1>3, <1>9, <2>3 DEF Sent, InitializedFor
  <2> QED BY <2>1, <2>2, <2>4
<1>11. stack' \in [Threads -> Seq(Frame)]
       /\ FramesOK' /\ FramesApart' /\ ClearedUnreferenced' /\ PairsExact'
  BY <1>1, <1>2, <1>5, <1>7, <1>8, <1>10, GotoStep DEF Labels
<1> QED BY <1>1, <1>5, <1>6, <1>11 DEF IInv, Types, memory, Tables

LEMMA InitializeReturnsStep ==
  ASSUME IInv, NEW t \in Threads, InitializeReturns(t)
  PROVE  IInv'
<1>1. stack[t] # <<>> /\ Types
  BY DEF InitializeReturns, At, IInv
<1>2. PICK f \in Frame : f = Top(t)
  BY <1>1, TopOK
<1>3. Kind(f) /\ Knows(f) /\ Top(t) = stack[t][1] /\ 1 \in Depth(t) /\ f.at = "initialize"
  BY <1>1, <1>2, TopOK DEF InitializeReturns, At
<1>4. f.loc # nil /\ f.new \in Objects
  BY <1>3 DEF Kind
<1>5. /\ InitializedFor(t, ClassOf[f.new])
      /\ UNCHANGED <<memory, lock, classes, calls>>
      /\ stack' = [stack EXCEPT ![t][1].at = "retry", ![t][1].prev = TRUE]
  BY <1>2 DEF InitializeReturns, InitializedFor
<1>6. LocksLast(t) /\ InitializedLasts
  BY <1>5 DEF LocksLast, InitializedLasts, InitializedFor, classes
<1>7. PICK g : g = [f EXCEPT !.at = "retry", !.prev = TRUE]
  OBVIOUS
<1>8. /\ g \in Frame /\ g.at = "retry" /\ g.loc = f.loc /\ g.new = f.new
      /\ g.haveOld = f.haveOld /\ g.haveNew = f.haveNew
  BY <1>7 DEF Frame
<1>9. Continues(t, g)
  <2>1. stack' = [stack EXCEPT ![t] = [stack[t] EXCEPT ![1] = g]]
    <3>1. stack' = [stack EXCEPT ![t][1].at = "retry", ![t][1].prev = TRUE]
      BY <1>5
    <3>2. t \in DOMAIN stack /\ 1 \in DOMAIN stack[t] /\ stack[t][1] = f
      BY <1>1, <1>2, <1>3 DEF Types, Depth
    <3> QED BY <1>7, <3>1, <3>2, Zenon
  <2> QED BY <1>1, <1>2, <1>8, <2>1 DEF Continues
<1>10. Kind(g) /\ Knows(g) /\ Holds(t, g)' /\ Sent(t, g)'
  <2>1. Kind(g) /\ Knows(g)
    BY <1>3, <1>4, <1>8 DEF Kind, Knows
  <2>2. Holds(t, g)' /\ Sent(t, g)'
    BY <1>5, <1>8 DEF Holds, Sent, InitializedFor, classes
  <2> QED BY <2>1, <2>2
<1>11. stack' \in [Threads -> Seq(Frame)]
       /\ FramesOK' /\ FramesApart' /\ ClearedUnreferenced' /\ PairsExact'
  BY <1>5, <1>6, <1>9, <1>10, ContinueStep
<1> QED BY <1>1, <1>5, <1>11 DEF IInv, Types, memory, classes, Tables

LEMMA LockClearStep ==
  ASSUME IInv, NEW t \in Threads, LockClear(t)
  PROVE  IInv'
<1>1. stack[t] # <<>> /\ Types
  BY DEF LockClear, At, IInv
<1>2. PICK f \in Frame : f = Top(t)
  BY <1>1, TopOK
<1>3. Kind(f) /\ Knows(f) /\ Sent(t, f) /\ f.at = "dealloc"
  BY <1>1, <1>2, TopOK DEF LockClear, At
<1>4. f.loc = nil /\ SideTables[f.new] \in Tables
  BY <1>1, <1>3, TablesOfFrame DEF Kind
<1>5. Acquire(t, SideTables[f.new]) /\ Goto(t, "clear") /\ UNCHANGED <<memory, classes, calls>>
  BY <1>2 DEF LockClear
<1>6. /\ lock' \in [Tables -> Threads \cup {NoThread}] /\ LocksLast(t)
      /\ lock'[SideTables[f.new]] = t
  BY <1>1, <1>4, <1>5, Acquired
<1>7. InitializedLasts
  BY <1>5 DEF InitializedLasts, InitializedFor, classes
<1>8. PICK g : g = [f EXCEPT !.at = "clear"]
  OBVIOUS
<1>9. /\ g.at = "clear" /\ g.loc = f.loc /\ g.new = f.new /\ g.prev = f.prev
      /\ g.haveOld = f.haveOld /\ g.haveNew = f.haveNew
  BY <1>8 DEF Frame
<1>10. Kind(g) /\ Knows(g) /\ Holds(t, g)' /\ Sent(t, g)'
  <2>1. Kind(g) /\ Knows(g)
    BY <1>3, <1>4, <1>9 DEF Kind, Knows
  <2>2. Holds(t, g)'
    BY <1>6, <1>9 DEF Holds
  <2>3. Sent(t, g)'
    BY <1>3, <1>5, <1>9 DEF Sent, InitializedFor, classes
  <2> QED BY <2>1, <2>2, <2>3
<1>11. stack' \in [Threads -> Seq(Frame)]
       /\ FramesOK' /\ FramesApart' /\ ClearedUnreferenced' /\ PairsExact'
  BY <1>1, <1>2, <1>5, <1>6, <1>7, <1>8, <1>10, GotoStep DEF Labels
<1> QED BY <1>1, <1>5, <1>6, <1>11 DEF IInv, Types, memory, classes, Tables

LEMMA UnlockTwoStep ==
  ASSUME IInv, NEW t \in Threads, UnlockTwo(t)
  PROVE  IInv'
<1>1. stack[t] # <<>> /\ Types
  BY DEF UnlockTwo, At, IInv
<1>2. /\ Release(t, TablesOf(Top(t))) /\ Pop(t) /\ UNCHANGED <<memory, classes, calls>>
      /\ Top(t).at = "unlock"
  BY DEF UnlockTwo, At
<1>3. TablesOf(Top(t)) \in SUBSET Tables /\ \A s \in TablesOf(Top(t)) : lock[s] = t
  BY <1>1, <1>2, TopOK, TablesOfFrame DEF Holds
<1>4. lock' \in [Tables -> Threads \cup {NoThread}] /\ LocksLast(t)
  BY <1>1, <1>2, <1>3, Released
<1>5. InitializedLasts
  BY <1>2 DEF InitializedLasts, InitializedFor, classes
<1>6. stack' \in [Threads -> Seq(Frame)]
      /\ FramesOK' /\ FramesApart' /\ ClearedUnreferenced' /\ PairsExact'
  BY <1>1, <1>2, <1>4, <1>5, ReturnStep DEF memory
<1> QED BY <1>1, <1>2, <1>4, <1>6 DEF IInv, Types, memory, classes, Tables

LEMMA FreeStep ==
  ASSUME IInv, NEW t \in Threads, Free(t)
  PROVE  IInv'
<1>1. stack[t] # <<>> /\ Types
  BY DEF Free, At, IInv
<1>2. /\ life' = [life EXCEPT ![Top(t).new] = "live"] /\ Pop(t)
      /\ UNCHANGED <<location, registered, lock, classes, calls>>
      /\ Top(t).at = "free"
  BY DEF Free, At
<1>3. Top(t).loc = nil /\ Top(t).new \in Objects
  BY <1>1, <1>2, TopOK DEF Kind
<1>4. LocksLast(t) /\ InitializedLasts
  BY <1>2 DEF LocksLast, InitializedLasts, InitializedFor, classes
<1>5. stack' \in [Threads -> Seq(Frame)]
      /\ FramesOK' /\ FramesApart' /\ ClearedUnreferenced' /\ PairsExact'
  BY <1>1, <1>2, <1>3, <1>4, ReturnStep
<1> QED BY <1>1, <1>2, <1>3, <1>5 DEF IInv, Types, classes, Tables

\* A call that has compared *location holds the lock of the table of the object
\* the variable holds: no other call is about to change it.
LEMMA UpdatersExclude ==
  ASSUME IInv, NEW t \in Threads, stack[t] # <<>>, NEW o \in Objects \cup {nil},
         lock[SideTables[o]] = t, ~Suspended(Top(t)),
         NEW u \in Threads, NEW i \in Depth(u), u # t \/ i # 1,
         stack[u][i].loc # nil, stack[u][i].at = "update", stack[u][i].haveOld
  PROVE  location[stack[u][i].loc] # o
<1>1. PICK f \in Frame : f = stack[u][i]
  BY TypedFrame DEF IInv
<1>2. (i > 1 => Suspended(f)) /\ Knows(f) /\ Holds(u, f)
  BY <1>1 DEF IInv, FramesOK, FrameOK
<1>3. location[f.loc] = f.old /\ SideTables[f.old] \in TablesOf(f)
  BY <1>1, <1>2 DEF Knows, TablesOf
<1>4. lock[SideTables[f.old]] = u
  BY <1>1, <1>2, <1>3 DEF Holds
<1>5. ~Suspended(f)
  BY <1>1 DEF Suspended
<1>6. u # t
  BY <1>2, <1>5 DEF Depth
<1> QED BY <1>1, <1>3, <1>4, <1>6

LEMMA UpdateStep ==
  ASSUME IInv, NEW t \in Threads, Update(t)
  PROVE  IInv'
<1>1. stack[t] # <<>> /\ Types /\ FramesApart /\ ClearedUnreferenced /\ PairsExact
  BY DEF Update, At, IInv
<1>2. PICK f \in Frame : f = Top(t)
  BY <1>1, TopOK
<1>3. Kind(f) /\ Knows(f) /\ Holds(t, f) /\ Sent(t, f) /\ f.at = "update"
      /\ f = stack[t][1] /\ 1 \in Depth(t)
  BY <1>1, <1>2, TopOK DEF Update, At
<1>4. f.loc \in Locations /\ f.loc # nil /\ (f.haveOld \/ f.haveNew)
  BY <1>3 DEF Kind, Frame
<1>5. PICK v : v = IF Registers(f) THEN f.new ELSE IF f.haveNew THEN nil ELSE Dead
  OBVIOUS
<1>6. /\ registered' = (registered \ (IF f.haveOld THEN {<<f.old, f.loc>>} ELSE {}))
                       \cup (IF Registers(f) THEN {<<f.new, f.loc>>} ELSE {})
      /\ location' = [location EXCEPT ![f.loc] = v]
      /\ Goto(t, "unlock") /\ UNCHANGED <<life, lock, classes, calls>>
  BY <1>2, <1>5 DEF Update
<1>7. /\ Registers(f) => f.new \in Objects /\ life[f.new] = "live"
      /\ v \in Objects \cup {nil, Dead}
      /\ v \in Objects <=> Registers(f)
      /\ f.haveNew => v # Dead
  BY <1>5, StoreWeakAssumption DEF Registers, Frame
<1>8. /\ location' \in [Locations -> Objects \cup {nil, Dead}]
      /\ location'[f.loc] = v
      /\ \A l \in Locations : l # f.loc => location'[l] = location[l]
  BY <1>1, <1>4, <1>6, <1>7 DEF Types
<1>9. registered' \subseteq Objects \X Locations
  BY <1>1, <1>4, <1>6, <1>7 DEF Types
<1>10. PairsExact'
  <2>1. \A l \in Locations : l # f.loc => \A o : <<o, l>> \in registered' <=> <<o, l>> \in registered
    BY <1>6
  <2>2. f.haveOld => location[f.loc] = f.old
    BY <1>3, <1>4 DEF Knows
  <2>3. ~f.haveOld => location[f.loc] = Dead
    BY <1>3, <1>4 DEF Knows
  <2>4. \A o : <<o, f.loc>> \in registered => o = location[f.loc] /\ o \in Objects
    BY <1>1 DEF PairsExact
  <2>5. \A o : <<o, f.loc>> \in registered' <=> (Registers(f) /\ o = f.new)
    BY <1>6, <2>2, <2>3, <2>4, StoreWeakAssumption
  <2>6. \A l \in Locations, o \in Objects :
           <<o, l>> \in registered' <=> (o = location'[l] /\ location'[l] \in Objects)
    <3> SUFFICES ASSUME NEW l \in Locations, NEW o \in Objects
                 PROVE  <<o, l>> \in registered' <=> (o = location'[l] /\ location'[l] \in Objects)
      OBVIOUS
    <3>1. CASE l = f.loc
      BY <1>5, <1>7, <1>8, <2>5, <3>1
    <3>2. CASE l # f.loc
      BY <1>1, <1>8, <2>1, <3>2 DEF PairsExact
    <3> QED BY <3>1, <3>2
  <2> QED BY <1>9, <2>6 DEF PairsExact
<1>11. ClearedUnreferenced'
  BY <1>1, <1>4, <1>5, <1>6, <1>7, <1>8, StoreWeakAssumption DEF ClearedUnreferenced
<1>12. LocksLast(t) /\ InitializedLasts
  BY <1>6 DEF LocksLast, InitializedLasts, InitializedFor, classes
<1>13. PICK g : g = [f EXCEPT !.at = "unlock"]
  OBVIOUS
<1>14. /\ g.at = "unlock" /\ g.loc = f.loc /\ g.new = f.new /\ g.prev = f.prev
       /\ g.haveOld = f.haveOld /\ g.haveNew = f.haveNew /\ TablesOf(g) = TablesOf(f)
  BY <1>13 DEF Frame, TablesOf
<1>15. Continues(t, g)
  BY <1>1, <1>2, <1>6, <1>13, GotoContinues DEF Labels
<1>16. Kind(g) /\ Knows(g)' /\ Holds(t, g)' /\ Sent(t, g)'
  <2>1. Kind(g) /\ Knows(g)'
    BY <1>3, <1>4, <1>14 DEF Kind, Knows
  <2>2. Holds(t, g)'
    BY <1>3, <1>6, <1>14 DEF Holds, TablesOf
  <2>3. Sent(t, g)'
    BY <1>3, <1>6, <1>14 DEF Sent, InitializedFor, classes
  <2> QED BY <2>1, <2>2, <2>3
<1>17. ASSUME NEW u \in Threads, NEW i \in Depth(u), u # t \/ i # 1
       PROVE  LET h == stack[u][i] IN
              IF h.loc = nil THEN life'[h.new] = life[h.new]
              ELSE /\ location'[h.loc] = Dead <=> location[h.loc] = Dead
                   /\ h.at = "update" /\ h.haveOld => location'[h.loc] = location[h.loc]
  <2>1. PICK h \in Frame : h = stack[u][i]
    BY <1>1, TypedFrame
  <2>2. CASE h.loc = nil
    BY <1>6, <2>1, <2>2
  <2>3. CASE h.loc # nil /\ h.loc # f.loc
    <3>1. location'[h.loc] = location[h.loc]
      BY <1>8, <2>3 DEF Frame
    <3> QED BY <2>1, <2>3, <3>1
  <2>4. CASE h.loc # nil /\ h.loc = f.loc
    <3>1. f.haveOld /\ f.haveNew
      BY <1>1, <1>3, <1>17, <2>1, <2>4 DEF FramesApart, Apart
    <3>2. v # Dead /\ location[f.loc] # Dead /\ location[f.loc] = f.old
      BY <1>3, <1>4, <1>7, <3>1 DEF Knows
    <3>3. lock[SideTables[f.old]] = t /\ f.old \in Objects \cup {nil}
      BY <1>3, <3>1 DEF Holds, TablesOf, Frame
    <3>4. ~(h.at = "update" /\ h.haveOld)
      <4> SUFFICES ASSUME h.at = "update", h.haveOld PROVE FALSE
        OBVIOUS
      <4>1. ~Suspended(Top(t))
        BY <1>2, <1>3 DEF Suspended
      <4>2. location[stack[u][i].loc] # f.old
        BY <1>1, <1>17, <2>1, <2>4, <3>3, <4>1, UpdatersExclude
      <4> QED BY <2>1, <2>4, <3>2, <4>2
    <3> QED BY <1>8, <2>1, <2>4, <3>2, <3>4
  <2> QED BY <2>2, <2>3, <2>4
<1>18. FramesOK'
  BY <1>12, <1>15, <1>16, <1>17, ContinueFrames
<1>19. stack' \in [Threads -> Seq(Frame)] /\ FramesApart'
  BY <1>1, <1>15, ContinueStack
<1> QED BY <1>1, <1>6, <1>8, <1>9, <1>10, <1>11, <1>18, <1>19 DEF IInv, Types, classes, Tables

LEMMA ClearDeallocatingStep ==
  ASSUME IInv, NEW t \in Threads, ClearDeallocating(t)
  PROVE  IInv'
<1>1. stack[t] # <<>> /\ Types /\ FramesApart /\ ClearedUnreferenced /\ PairsExact
  BY DEF ClearDeallocating, At, IInv
<1>2. PICK f \in Frame : f = Top(t)
  BY <1>1, TopOK
<1>3. Kind(f) /\ Knows(f) /\ Holds(t, f) /\ Sent(t, f) /\ f.at = "clear"
      /\ f = stack[t][1] /\ 1 \in Depth(t)
  BY <1>1, <1>2, TopOK DEF ClearDeallocating, At
<1>4. PICK o \in Objects : o = f.new
  BY <1>3 DEF Kind
<1>5. /\ f.loc = nil /\ life[o] = "deallocating"
      /\ SideTables[o] \in Tables /\ lock[SideTables[o]] = t
  BY <1>1, <1>3, <1>4, TablesOfFrame DEF Kind, Knows, Holds
<1>6. /\ location' = [l \in Locations |-> IF <<o, l>> \in registered /\ location[l] = o
                                          THEN nil ELSE location[l]]
      /\ registered' = {r \in registered : r[1] # o}
      /\ life' = [life EXCEPT ![o] = "cleared"]
      /\ Release(t, {SideTables[o]}) /\ Goto(t, "free") /\ UNCHANGED <<classes, calls>>
  BY <1>2, <1>4 DEF ClearDeallocating
<1>7. \A l \in Locations : location'[l] = IF location[l] = o THEN nil ELSE location[l]
  BY <1>1, <1>6 DEF PairsExact
<1>8. /\ location' \in [Locations -> Objects \cup {nil, Dead}]
      /\ registered' \subseteq Objects \X Locations
      /\ life' \in [Objects -> {"live", "deallocating", "cleared"}]
  BY <1>1, <1>6 DEF Types
<1>9. PairsExact'
  <2>1. \A l \in Locations, p \in Objects :
           <<p, l>> \in registered' <=> (p = location'[l] /\ location'[l] \in Objects)
    BY <1>1, <1>6, <1>7, StoreWeakAssumption DEF PairsExact
  <2> QED BY <1>8, <2>1 DEF PairsExact
<1>10. ClearedUnreferenced'
  BY <1>1, <1>6, <1>7, StoreWeakAssumption DEF ClearedUnreferenced, Types
<1>11. lock' \in [Tables -> Threads \cup {NoThread}] /\ LocksLast(t)
  BY <1>1, <1>5, <1>6, Released
<1>12. InitializedLasts
  BY <1>6 DEF InitializedLasts, InitializedFor, classes
<1>13. PICK g : g = [f EXCEPT !.at = "free"]
  OBVIOUS
<1>14. /\ g.at = "free" /\ g.loc = f.loc /\ g.new = f.new /\ g.prev = f.prev
       /\ g.haveOld = f.haveOld /\ g.haveNew = f.haveNew
  BY <1>13 DEF Frame
<1>15. Continues(t, g)
  BY <1>1, <1>2, <1>6, <1>13, GotoContinues DEF Labels
<1>16. Kind(g) /\ Knows(g)' /\ Holds(t, g)' /\ Sent(t, g)'
  <2>1. Kind(g)
    BY <1>3, <1>5, <1>14 DEF Kind
  <2>2. Knows(g)'
    BY <1>1, <1>4, <1>5, <1>6, <1>14 DEF Knows, Types
  <2>3. Holds(t, g)' /\ Sent(t, g)'
    BY <1>3, <1>6, <1>14 DEF Holds, Sent, InitializedFor, classes
  <2> QED BY <2>1, <2>2, <2>3
<1>17. ASSUME NEW u \in Threads, NEW i \in Depth(u), u # t \/ i # 1
       PROVE  LET h == stack[u][i] IN
              IF h.loc = nil THEN life'[h.new] = life[h.new]
              ELSE /\ location'[h.loc] = Dead <=> location[h.loc] = Dead
                   /\ h.at = "update" /\ h.haveOld => location'[h.loc] = location[h.loc]
  <2>1. PICK h \in Frame : h = stack[u][i]
    BY <1>1, TypedFrame
  <2>2. CASE h.loc = nil
    <3>1. h.new # o /\ h.new \in Objects
      BY <1>3, <1>4, <1>5, <1>17, <2>1, <2>2
         DEF IInv, FramesApart, Apart, FramesOK, FrameOK, Kind
    <3> QED BY <1>1, <1>6, <2>1, <2>2, <3>1 DEF Types
  <2>3. CASE h.loc # nil
    <3>1. h.loc \in Locations
      BY <2>3 DEF Frame
    <3>2. ~Suspended(Top(t))
      BY <1>2, <1>3 DEF Suspended
    <3>3. h.at = "update" /\ h.haveOld => location[h.loc] # o
      BY <1>1, <1>5, <1>17, <2>1, <2>3, <3>2, UpdatersExclude
    <3> QED BY <1>7, <2>1, <2>3, <3>1, <3>3, StoreWeakAssumption
  <2> QED BY <2>2, <2>3
<1>18. FramesOK'
  BY <1>11, <1>12, <1>15, <1>16, <1>17, ContinueFrames
<1>19. stack' \in [Threads -> Seq(Frame)] /\ FramesApart'
  BY <1>1, <1>15, ContinueStack
<1> QED BY <1>1, <1>6, <1>8, <1>9, <1>10, <1>11, <1>18, <1>19 DEF IInv, Types, classes, Tables

\* Calling, from no call or from a suspended one.
LEMMA CallStack ==
  ASSUME IInv, NEW t \in Threads, MayCall(t), NEW g \in Frame, Push(t, g),
         UNCHANGED <<location, registered, lock, classes>>,
         \A p \in Objects : p # g.new \/ g.loc # nil => life'[p] = life[p],
         Kind(g), Knows(g)', Holds(t, g), Sent(t, g),
         \A u \in Threads : \A i \in Depth(u) :
           Apart(g, stack[u][i]) /\ Apart(stack[u][i], g)
  PROVE  stack' \in [Threads -> Seq(Frame)] /\ FramesOK' /\ FramesApart'
<1>1. Types /\ FramesOK /\ FramesApart
  BY DEF IInv
<1>2. /\ stack' \in [Threads -> Seq(Frame)]
      /\ 1 \in Depth(t)' /\ stack'[t][1] = g
      /\ \A u \in Threads : u # t => stack'[u] = stack[u] /\ Depth(u)' = Depth(u)
      /\ \A i \in Depth(t)' : i # 1 => /\ i - 1 \in Depth(t)
                                       /\ stack'[t][i] = stack[t][i - 1]
  BY <1>1, PushStack
<1> DEFINE Was(u, i) == IF u = t THEN i - 1 ELSE i
<1>3. ASSUME NEW u \in Threads, NEW i \in Depth(u)', u # t \/ i # 1
      PROVE  /\ Was(u, i) \in Depth(u) /\ stack'[u][i] = stack[u][Was(u, i)]
             /\ i \in Nat
  BY <1>2, <1>3 DEF Depth
<1>4. FramesOK'
  <2> SUFFICES ASSUME NEW u \in Threads, NEW i \in Depth(u)' PROVE FrameOK(u, i)'
    BY DEF FramesOK
  <2>1. CASE u = t /\ i = 1
    BY <1>2, <2>1 DEF FrameOK, Knows, Holds, Sent, InitializedFor, classes
  <2>2. CASE u # t \/ i # 1
    <3>1. PICK f \in Frame : f = stack[u][Was(u, i)]
      BY <1>1, <1>3, <2>2, TypedFrame
    <3>2. stack'[u][i] = f
      BY <1>3, <2>2, <3>1
    <3>3. Kind(f) /\ (Was(u, i) > 1 => Suspended(f)) /\ Knows(f) /\ Holds(u, f) /\ Sent(u, f)
      BY <1>1, <1>3, <2>2, <3>1 DEF FramesOK, FrameOK
    <3>4. i > 1 => Suspended(f)
      <4>1. CASE u = t /\ Was(u, i) = 1
        <5>1. f = Top(t) /\ stack[t] # <<>>
          BY <1>1, <1>3, <2>2, <3>1, <4>1, TypedFrame
        <5> QED BY <5>1 DEF MayCall, At, Suspended
      <4>2. CASE ~(u = t /\ Was(u, i) = 1)
        BY <1>3, <2>2, <3>3, <4>2 DEF Depth
      <4> QED BY <4>1, <4>2
    <3>5. Apart(f, g) /\ Apart(g, f)
      BY <1>3, <2>2, <3>1
    <3>6. f.loc = nil => f.new \in Objects /\ life'[f.new] = life[f.new]
      BY <3>3, <3>5 DEF Kind, Apart
    <3> QED BY <3>2, <3>3, <3>4, <3>6 DEF FrameOK, Knows, Holds, Sent, InitializedFor, classes
  <2> QED BY <2>1, <2>2
<1>5. FramesApart'
  <2> SUFFICES ASSUME NEW u \in Threads, NEW v \in Threads,
                      NEW i \in Depth(u)', NEW j \in Depth(v)', u # v \/ i # j
               PROVE  Apart(stack'[u][i], stack'[v][j])
    BY DEF FramesApart, Apart
  <2>1. CASE u = t /\ i = 1
    <3>1. v # t \/ j # 1
      BY <2>1
    <3>2. Was(v, j) \in Depth(v) /\ stack'[v][j] = stack[v][Was(v, j)] /\ stack'[u][i] = g
      BY <1>2, <1>3, <2>1, <3>1
    <3> HIDE DEF Was
    <3> QED BY <3>2
  <2>2. CASE v = t /\ j = 1
    <3>1. u # t \/ i # 1
      BY <2>2
    <3>2. Was(u, i) \in Depth(u) /\ stack'[u][i] = stack[u][Was(u, i)] /\ stack'[v][j] = g
      BY <1>2, <1>3, <2>2, <3>1
    <3> HIDE DEF Was
    <3> QED BY <3>2
  <2>3. CASE (u # t \/ i # 1) /\ (v # t \/ j # 1)
    <3>1. u # v \/ Was(u, i) # Was(v, j)
      BY <1>3, <2>3
    <3> QED BY <1>1, <1>3, <2>3, <3>1 DEF FramesApart
  <2> QED BY <2>1, <2>2, <2>3
<1> QED BY <1>2, <1>4, <1>5

LEMMA InFrames ==
  ASSUME NEW u \in Threads, NEW i \in Depth(u), stack[u] \in Seq(Frame)
  PROVE  stack[u][i] \in Frames
BY DEF Depth, Frames

LEMMA CallStep ==
  ASSUME IInv, NEW t \in Threads, NEW l \in Locations, NEW o \in Objects \cup {nil},
         NEW ho \in BOOLEAN, NEW hn \in BOOLEAN, Call(t, l, o, ho, hn)
  PROVE  IInv'
<1>1. Types /\ ClearedUnreferenced /\ PairsExact
  BY DEF IInv
<1>2. PICK g : g = [at |-> "retry", loc |-> l, old |-> nil, new |-> o,
                    haveOld |-> ho, haveNew |-> hn, prev |-> FALSE]
  OBVIOUS
<1>3. /\ g \in Frame /\ g.at = "retry" /\ g.loc = l /\ g.new = o /\ l # nil
      /\ g.haveOld = ho /\ g.haveNew = hn /\ g.prev = FALSE
  BY <1>2, StoreWeakAssumption DEF Frame
<1>4. /\ MayCall(t) /\ (ho <=> location[l] # Dead)
      /\ (ho /\ hn) \/ UsedBy(l) = {}
      /\ ho \/ hn
      /\ \A f \in UsedBy(l) : f.haveOld /\ f.haveNew
      /\ Push(t, g) /\ UNCHANGED <<memory, lock, classes>>
  BY <1>2 DEF Call
<1>5. Kind(g) /\ Knows(g)' /\ Holds(t, g) /\ Sent(t, g)
  BY <1>3, <1>4 DEF Kind, Knows, Holds, Sent, memory
<1>6. ASSUME NEW u \in Threads, NEW i \in Depth(u)
      PROVE  Apart(g, stack[u][i]) /\ Apart(stack[u][i], g)
  <2>1. stack[u][i] \in Frames
    BY <1>1, InFrames DEF Types
  <2>2. stack[u][i].loc = l => stack[u][i] \in UsedBy(l)
    BY <2>1 DEF UsedBy
  <2> QED BY <1>3, <1>4, <2>2 DEF Apart
<1>7. stack' \in [Threads -> Seq(Frame)] /\ FramesOK' /\ FramesApart'
  BY <1>3, <1>4, <1>5, <1>6, CallStack DEF memory
<1>8. ClearedUnreferenced' /\ PairsExact'
  BY <1>1, <1>4 DEF ClearedUnreferenced, PairsExact, memory
<1> QED BY <1>1, <1>4, <1>7, <1>8 DEF IInv, Types, memory, classes, Tables

LEMMA BeginDeallocStep ==
  ASSUME IInv, NEW t \in Threads, NEW o \in Objects, BeginDealloc(t, o)
  PROVE  IInv'
<1>1. Types /\ ClearedUnreferenced /\ PairsExact
  BY DEF IInv
<1>2. PICK g : g = [at |-> "dealloc", loc |-> nil, old |-> nil, new |-> o,
                    haveOld |-> FALSE, haveNew |-> FALSE, prev |-> FALSE]
  OBVIOUS
<1>3. /\ g \in Frame /\ g.at = "dealloc" /\ g.loc = nil /\ g.new = o
      /\ g.haveOld = FALSE /\ g.haveNew = FALSE /\ g.prev = FALSE
  BY <1>2 DEF Frame
<1>4. /\ MayCall(t) /\ life[o] = "live" /\ \A f \in Frames : f.new # o
      /\ life' = [life EXCEPT ![o] = "deallocating"]
      /\ Push(t, g) /\ UNCHANGED <<location, registered, lock, classes>>
  BY <1>2 DEF BeginDealloc
<1>5. Kind(g) /\ Knows(g)' /\ Holds(t, g) /\ Sent(t, g)
  BY <1>1, <1>3, <1>4 DEF Kind, Knows, Holds, Sent, Types
<1>6. ASSUME NEW u \in Threads, NEW i \in Depth(u)
      PROVE  Apart(g, stack[u][i]) /\ Apart(stack[u][i], g)
  <2>1. stack[u][i].new # o
    BY <1>1, <1>4, InFrames DEF Types
  <2> QED BY <1>3, <2>1 DEF Apart
<1>7. \A p \in Objects : p # g.new \/ g.loc # nil => life'[p] = life[p]
  BY <1>1, <1>3, <1>4 DEF Types
<1>8. stack' \in [Threads -> Seq(Frame)] /\ FramesOK' /\ FramesApart'
  BY <1>3, <1>4, <1>5, <1>6, <1>7, CallStack
<1>9. ClearedUnreferenced' /\ PairsExact'
  BY <1>1, <1>4 DEF ClearedUnreferenced, PairsExact, Types
<1> QED BY <1>1, <1>4, <1>8, <1>9 DEF IInv, Types, classes, Tables

-----------------------------------------------------------------------------
LEMMA InitOK == Init => IInv
<1> SUFFICES ASSUME Init PROVE IInv
  OBVIOUS
<1>1. stack \in [Threads -> Seq(Frame)] /\ \A t \in Threads : Depth(t) = {}
  BY DEF Init, Depth
<1>2. FramesOK /\ FramesApart
  BY <1>1 DEF FramesOK, FramesApart
<1>3. PairsExact /\ ClearedUnreferenced
  BY StoreWeakAssumption DEF Init, PairsExact, ClearedUnreferenced
<1> QED BY <1>1, <1>2, <1>3 DEF IInv, Types, Init

LEMMA NextOK == IInv /\ [Next]_vars => IInv'
<1> SUFFICES ASSUME IInv, [Next]_vars PROVE IInv'
  OBVIOUS
<1>1. CASE UNCHANGED vars
  <2>1. UNCHANGED <<location, registered, life, lock, status, initializer, stack>>
    BY <1>1 DEF vars
  <2>2. Types' /\ ClearedUnreferenced' /\ PairsExact'
    BY <2>1 DEF IInv, Types, Tables, ClearedUnreferenced, PairsExact
  <2>3. FramesOK'
    BY <2>1 DEF IInv, FramesOK, Depth, FrameOK, Knows, Holds, Sent, InitializedFor
  <2>4. FramesApart'
    BY <2>1 DEF IInv, FramesApart, Depth
  <2> QED BY <2>2, <2>3, <2>4 DEF IInv
<1>2. ASSUME NEW t \in Threads, Step(t) PROVE IInv'
  BY <1>2, ReadOldStep, LockFirstStep, LockSecondStep, CheckStep, SendInitializeStep,
     EndInitializeStep, InitializeReturnsStep, UpdateStep, UnlockTwoStep,
     LockClearStep, ClearDeallocatingStep, FreeStep DEF Step
<1>3. ASSUME NEW t \in Threads, Begin(t) PROVE IInv'
  BY <1>3, CallStep, BeginDeallocStep DEF Begin
<1> QED BY <1>1, <1>2, <1>3 DEF Next

\* The inductive invariant: what each thread knows and holds at each step of
\* storeWeak and of -dealloc.
THEOREM Invariance == Spec => []IInv
<1>1. Init => IInv
  BY InitOK
<1>2. IInv /\ [Next]_vars => IInv'
  BY NextOK
<1> QED BY <1>1, <1>2, PTL DEF Spec

\* However many threads race in storeWeak and -dealloc, a weak variable that holds
\* an object is registered with it, and nothing else is.
THEOREM RegisteredPairs == Spec => []PairsExact
<1>1. IInv => PairsExact
  BY DEF IInv
<1> QED BY <1>1, Invariance, PTL

\* An object whose class has not been sent +initialize never gets as far as
\* weak_register_no_lock, whichever thread sends it.
THEOREM InitializeFirst == Spec => []NoInitializeUnderLock
<1>1. IInv => NoInitializeUnderLock
  <2> SUFFICES ASSUME IInv, NEW t \in Threads,
                      At(t, "update"), Top(t).haveNew, Top(t).new # nil
               PROVE  InitializedFor(t, ClassOf[Top(t).new])
    BY DEF NoInitializeUnderLock, InitializedFor
  <2>1. stack[t] # <<>> /\ Top(t).at = "update"
    BY DEF At
  <2> QED BY <2>1, TopOK DEF Sent
<1> QED BY <1>1, Invariance, PTL

\* Stores and deallocations take effect one at a time, at the update under the
\* locks: what threads see is the abstract weak references.
THEOREM WeakReferencesImplemented == Spec => ImplementsWeakReferences
<1> DEFINE dying == {o \in Objects : life[o] # "live"}
<1>1. Init => References!Init
  BY DEF Init, References!Init
<1>2. ASSUME IInv, [Next]_vars PROVE [References!Next]_(References!vars)
  <2>1. Types /\ ClearedUnreferenced /\ PairsExact
    BY <1>2 DEF IInv
  <2>2. CASE UNCHANGED <<location, life>>
    BY <2>2 DEF References!vars
  <2>3. ASSUME NEW t \in Threads, Update(t) PROVE References!Next
    <3>1. PICK f \in Frame : f = Top(t)
      BY <1>2, <2>3, TopOK DEF Update, At
    <3>2. f.at = "update" /\ Kind(f)
      BY <1>2, <2>3, <3>1, TopOK DEF Update, At
    <3>3. f.loc \in Locations /\ f.new \in Objects \cup {nil}
      BY <3>2 DEF Kind, Frame
    <3>4. /\ location' = [location EXCEPT ![f.loc] = IF Registers(f) THEN f.new
                                                     ELSE IF f.haveNew THEN nil ELSE Dead]
          /\ life' = life
      BY <2>3, <3>1 DEF Update
    <3>5. CASE ~f.haveNew
      BY <3>3, <3>4, <3>5 DEF Registers, References!Next, References!Destroy
    <3>6. CASE f.haveNew
      <4>1. (IF Registers(f) THEN f.new ELSE nil) = IF f.new \in dying THEN nil ELSE f.new
        BY <3>3, <3>6, StoreWeakAssumption DEF Registers
      <4>2. References!Store(f.loc, f.new)
        BY <3>4, <3>6, <4>1 DEF References!Store
      <4> QED BY <3>3, <4>2 DEF References!Next
    <3> QED BY <3>5, <3>6
  <2>4. ASSUME NEW t \in Threads, NEW o \in Objects, BeginDealloc(t, o) PROVE References!Next
    <3>1. References!BeginDealloc(o)
      BY <2>1, <2>4 DEF BeginDealloc, Types, References!BeginDealloc
    <3> QED BY <3>1 DEF References!Next
  <2>5. ASSUME NEW t \in Threads, ClearDeallocating(t) PROVE References!Next
    <3>1. stack[t] # <<>> /\ Top(t).at = "clear"
      BY <2>5 DEF ClearDeallocating, At
    <3>2. PICK o \in Objects : o = Top(t).new
      BY <1>2, <3>1, TopOK DEF Kind
    <3>3. life[o] = "deallocating"
      BY <1>2, <3>1, <3>2, TopOK DEF Kind, Knows
    <3>4. /\ location' = [l \in Locations |-> IF <<o, l>> \in registered /\ location[l] = o
                                              THEN nil ELSE location[l]]
          /\ life' = [life EXCEPT ![o] = "cleared"]
      BY <2>5, <3>2 DEF ClearDeallocating
    <3>5. location' = [l \in Locations |-> IF location[l] = o THEN nil ELSE location[l]]
      BY <2>1, <3>4 DEF PairsExact
    <3>6. References!Clear(o)
      BY <2>1, <3>3, <3>4, <3>5 DEF Types, References!Clear
    <3> QED BY <3>6 DEF References!Next
  <2>6. ASSUME NEW t \in Threads, Free(t) PROVE References!Next
    <3>1. stack[t] # <<>> /\ Top(t).at = "free"
      BY <2>6 DEF Free, At
    <3>2. PICK o \in Objects : o = Top(t).new
      BY <1>2, <3>1, TopOK DEF Kind
    <3>3. life[o] = "cleared"
      BY <1>2, <3>1, <3>2, TopOK DEF Kind, Knows
    <3>4. life' = [life EXCEPT ![o] = "live"] /\ location' = location
      BY <2>6, <3>2 DEF Free
    <3>5. References!Reborn(o)
      BY <2>1, <3>3, <3>4 DEF Types, ClearedUnreferenced, References!Reborn
    <3> QED BY <3>5 DEF References!Next
  <2> DEFINE Refines == [References!Next]_(References!vars)
  <2>7. References!Next => Refines
    OBVIOUS
  <2>8. UNCHANGED memory => Refines
    BY <2>2 DEF memory
  <2> HIDE DEF Refines
  <2>9. ASSUME NEW t \in Threads, Begin(t) PROVE Refines
    <3>1. CASE \E l \in Locations, o \in Objects \cup {nil}, ho, hn \in BOOLEAN : Call(t, l, o, ho, hn)
      BY <2>8, <3>1 DEF Call, memory
    <3>2. CASE \E o \in Objects : BeginDealloc(t, o)
      BY <2>4, <2>7, <3>2
    <3> QED BY <2>9, <3>1, <3>2 DEF Begin
  <2>10. ASSUME NEW t \in Threads, Step(t) PROVE Refines
    <3>1. CASE Update(t) \/ ClearDeallocating(t) \/ Free(t)
      BY <2>3, <2>5, <2>6, <2>7, <3>1
    <3>2. CASE ReadOld(t) \/ LockFirst(t) \/ LockSecond(t) \/ Check(t)
      BY <2>8, <3>2 DEF ReadOld, LockFirst, LockSecond, Check, memory
    <3>3. CASE SendInitialize(t) \/ EndInitialize(t) \/ InitializeReturns(t)
      BY <2>8, <3>3 DEF SendInitialize, EndInitialize, InitializeReturns, memory
    <3>4. CASE UnlockTwo(t) \/ LockClear(t)
      BY <2>8, <3>4 DEF UnlockTwo, LockClear, memory
    <3> QED BY <2>10, <3>1, <3>2, <3>3, <3>4 DEF Step
  <2>11. UNCHANGED vars => Refines
    BY <2>8 DEF vars, memory
  <2>12. Refines
    BY <1>2, <2>9, <2>10, <2>11 DEF Next
  <2> QED BY <2>12 DEF Refines
<1> QED BY <1>1, <1>2, Invariance, PTL DEF Spec, ImplementsWeakReferences, References!Spec
=============================================================================
