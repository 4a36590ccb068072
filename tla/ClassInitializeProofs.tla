------------------------ MODULE ClassInitializeProofs -----------------------
(***************************************************************************)
(* +initialize, for any threads, hierarchy and messages of the +initialize *)
(* methods: no _objc_fatal is reached, the begun and the finished part of  *)
(* the hierarchy stay subtrees, a class is sent +initialize once and after *)
(* its superclass, and no message goes through before its time.            *)
(*                                                                         *)
(* What makes a step safe is known only to the thread that takes it, from  *)
(* a state it read earlier: a call that claims a class has seen its        *)
(* superclass finished or in progress on its own thread, and a class in    *)
(* progress is on one thread's list. The invariant says what each call on  *)
(* a stack knows, and that the calls below the innermost one wait for it.  *)
(***************************************************************************)
EXTENDS ClassInitialize, SequenceTheorems, TLAPS

\* a class that a thread may go on with
Done(t, c) == Initialized(c) \/ c \in initializing[t]

\* the thread has claimed the class and not yet sent it +initialize
Begins(t, c) == stack[t] # <<>> /\ Top(t).at = "begin" /\ Cls(t) = c

TypeOK ==
  /\ status \in [Classes -> Status]
  /\ initializing \in [Threads -> SUBSET Classes]
  /\ pending \subseteq Classes /\ waiters \subseteq Threads
  /\ stack \in [Threads -> Seq(Frame)]
  /\ throwing \in [Threads -> BOOLEAN]
  /\ sent \subseteq Classes

\* the calls of a thread below the innermost one wait for it: for the superclass, or for
\* a class that their +initialize has messaged
CallsNest(t) ==
  \A i \in DOMAIN stack[t] :
    LET f == stack[t][i] IN
    /\ i > 1 => f.at \in {"claim", "body"}
    /\ i > 1 /\ f.at = "claim" => stack[t][i - 1].cls = superclass[f.cls]
    /\ f.at = "body" => f.cls \in initializing[t] /\ f.cls \notin pending

\* what is in progress on a thread has a +initialize on its stack, or has ended it and
\* is pending
BodiesLast(t) ==
  /\ \A i, j \in DOMAIN stack[t] :
       stack[t][i].at = "body" /\ stack[t][j].at = "body" /\ stack[t][i].cls = stack[t][j].cls
         => i = j
  /\ \A c \in initializing[t] \ pending :
       \E i \in DOMAIN stack[t] : stack[t][i].cls = c /\ stack[t][i].at = "body"

\* what the innermost call knows
TopKnows(t) ==
  stack[t] # <<>> =>
    /\ throwing[t] => Top(t).at \in {"claim", "body"}
    /\ Top(t).at = "claim" /\ ~throwing[t] => Done(t, superclass[Cls(t)])
    /\ Top(t).at = "begin" => /\ status[Cls(t)] = "initializing"
                              /\ Cls(t) \notin sent
                              /\ Done(t, superclass[Cls(t)])
                              /\ \A u \in Threads : Cls(t) \notin initializing[u]
                              /\ \A u \in Threads : Begins(u, Cls(t)) => u = t
    /\ Top(t).at = "check" => status[Cls(t)] # "none"
    /\ Top(t).at = "checked" => status[Cls(t)] = "initialized"

\* the classes in progress on a thread
InProgress(t) ==
  \A c \in initializing[t] :
    /\ status[c] = "initializing" /\ Done(t, superclass[c])
    /\ \A u \in Threads : c \in initializing[u] => u = t

\* the part of the hierarchy that is begun, and the part that is finished, start at the root
Subtree ==
  \A c \in Classes : superclass[c] # NoClass =>
    /\ status[c] # "none" => status[superclass[c]] # "none"
    /\ status[c] = "initialized" => status[superclass[c]] = "initialized"

PendingBelow == \A c \in pending : \E t \in Threads : {c, superclass[c]} \subseteq initializing[t]

IInv ==
  /\ TypeOK /\ halted = "no" /\ Subtree /\ PendingBelow
  /\ \A c \in sent : status[c] # "none"
  /\ \A t \in Threads : CallsNest(t) /\ BodiesLast(t) /\ TopKnows(t) /\ InProgress(t)
                        /\ (throwing[t] => stack[t] # <<>>)

-----------------------------------------------------------------------------
(* What a step does to the stack of its thread.                            *)

Same(t) == \A u \in Threads \ {t} : stack'[u] = stack[u]

Became(t, f) ==
  /\ stack' \in [Threads -> Seq(Frame)] /\ Same(t)
  /\ Len(stack'[t]) = Len(stack[t]) /\ stack'[t] # <<>>
  /\ stack'[t][1] = f /\ \A i \in 2 .. Len(stack[t]) : stack'[t][i] = stack[t][i]

Pushed(t, g, f) ==
  /\ stack' \in [Threads -> Seq(Frame)] /\ Same(t)
  /\ Len(stack'[t]) = Len(stack[t]) + 1 /\ stack'[t] # <<>>
  /\ stack'[t][1] = g /\ stack'[t][2] = f
  /\ \A i \in 3 .. Len(stack[t]) + 1 : stack'[t][i] = stack[t][i - 1]

Popped(t) ==
  /\ stack' \in [Threads -> Seq(Frame)] /\ Same(t)
  /\ Len(stack'[t]) = Len(stack[t]) - 1
  /\ \A i \in 1 .. Len(stack[t]) - 1 : stack'[t][i] = stack[t][i + 1]

\* A stack is a sequence of calls, and Top is its first.
LEMMA TopFacts ==
  ASSUME TypeOK, NEW t \in Threads
  PROVE  /\ stack[t] \in Seq(Frame) /\ Len(stack[t]) \in Nat /\ DOMAIN stack[t] = 1 .. Len(stack[t])
         /\ \A i \in 1 .. Len(stack[t]) : /\ stack[t][i] \in Frame /\ stack[t][i].cls \in Classes
                                          /\ stack[t][i].todo \subseteq Classes
         /\ stack[t] = <<>> <=> Len(stack[t]) = 0
         /\ stack[t] # <<>> => /\ Top(t) = stack[t][1] /\ Cls(t) = stack[t][1].cls
                               /\ Top(t) \in Frame /\ Cls(t) \in Classes
<1>1. stack[t] \in Seq(Frame) /\ Len(stack[t]) \in Nat /\ DOMAIN stack[t] = 1 .. Len(stack[t])
  BY DEF TypeOK
<1>2. \A i \in 1 .. Len(stack[t]) : stack[t][i] \in Frame
  BY <1>1
<1>3. \A f \in Frame : f.cls \in Classes /\ f.todo \subseteq Classes
  BY DEF Frame
<1>4. stack[t] = <<>> <=> Len(stack[t]) = 0
  BY <1>1, EmptySeq
<1>5. stack[t] # <<>> => Top(t) = stack[t][1]
  BY <1>1 DEF Top
<1> QED BY <1>1, <1>2, <1>3, <1>4, <1>5 DEF Cls

\* What replaces the innermost call is on top, and the rest follows.
LEMMA Replaced ==
  ASSUME TypeOK, NEW t \in Threads, NEW frames \in Seq(Frame), Replace(t, frames)
  PROVE  /\ stack' \in [Threads -> Seq(Frame)] /\ Same(t)
         /\ stack[t] # <<>> =>
              /\ Len(stack'[t]) = Len(frames) + Len(stack[t]) - 1
              /\ \A i \in 1 .. Len(frames) : stack'[t][i] = frames[i]
              /\ \A i \in 1 .. Len(stack[t]) - 1 : stack'[t][Len(frames) + i] = stack[t][i + 1]
<1> DEFINE s == stack[t]
<1>1. s \in Seq(Frame)
  BY DEF TypeOK
<1>2. stack' = [stack EXCEPT ![t] = frames \o Tail(s)]
  BY DEF Replace
<1>3. stack'[t] = frames \o Tail(s) /\ Same(t)
  BY <1>2 DEF TypeOK, Same
<1>4. CASE s # <<>>
  <2>1. Tail(s) \in Seq(Frame) /\ Len(Tail(s)) = Len(s) - 1
        /\ \A i \in 1 .. Len(s) - 1 : Tail(s)[i] = s[i + 1]
    BY <1>1, <1>4, HeadTailProperties
  <2>2. frames \o Tail(s) \in Seq(Frame) /\ Len(frames \o Tail(s)) = Len(frames) + Len(Tail(s))
    BY <2>1, ConcatProperties
  <2>3. \A i \in 1 .. Len(frames) : (frames \o Tail(s))[i] = frames[i]
    BY <2>1, <2>2, ConcatProperties
  <2>4. \A i \in 1 .. Len(Tail(s)) : (frames \o Tail(s))[Len(frames) + i] = Tail(s)[i]
    BY <2>1, <2>2, ConcatProperties
  <2>5. Len(frames) \in Nat /\ Len(s) \in Nat
    BY <1>1
  <2> QED BY <1>2, <1>3, <2>1, <2>2, <2>3, <2>4, <2>5 DEF TypeOK
<1>5. CASE s = <<>>
  <2>1. Tail(s) \in Seq(Frame)
    BY <1>5
  <2>2. frames \o Tail(s) \in Seq(Frame)
    BY <2>1
  <2> QED BY <1>2, <1>3, <1>5, <2>2 DEF TypeOK
<1> QED BY <1>4, <1>5

\* The innermost call becomes another.
LEMMA ReplacedByOne ==
  ASSUME TypeOK, NEW t \in Threads, stack[t] # <<>>, NEW f \in Frame, Replace(t, <<f>>)
  PROVE  Became(t, f)
<1>1. <<f>> \in Seq(Frame) /\ Len(<<f>>) = 1 /\ <<f>>[1] = f
  OBVIOUS
<1>2. Len(stack[t]) \in Nat /\ Len(stack[t]) >= 1
  BY TopFacts
<1> DEFINE frames == <<f>>
<1> HIDE DEF frames
<1>3. /\ stack' \in [Threads -> Seq(Frame)] /\ Same(t)
      /\ Len(stack'[t]) = 1 + Len(stack[t]) - 1
      /\ \A i \in 1 .. 1 : stack'[t][i] = frames[i]
      /\ \A i \in 1 .. Len(stack[t]) - 1 : stack'[t][1 + i] = stack[t][i + 1]
  BY <1>1, Replaced DEF frames
<1>4. stack'[t][1] = f
  BY <1>1, <1>3 DEF frames
<1>5. \A i \in 2 .. Len(stack[t]) : stack'[t][i] = stack[t][i]
  <2> TAKE i \in 2 .. Len(stack[t])
  <2>1. i - 1 \in 1 .. Len(stack[t]) - 1 /\ 1 + (i - 1) = i /\ (i - 1) + 1 = i
    BY <1>2
  <2> QED BY <1>3, <2>1
<1>6. stack'[t] # <<>>
  BY <1>2, <1>3
<1> QED BY <1>2, <1>3, <1>4, <1>5, <1>6 DEF Became

\* ... becomes another, with a new call on top of it.
LEMMA ReplacedByTwo ==
  ASSUME TypeOK, NEW t \in Threads, stack[t] # <<>>, NEW g \in Frame, NEW f \in Frame,
         Replace(t, <<g>> \o <<f>>)
  PROVE  Pushed(t, g, f)
<1> DEFINE frames == <<g>> \o <<f>>
<1>1. frames \in Seq(Frame) /\ Len(frames) = 2 /\ frames[1] = g /\ frames[2] = f
  OBVIOUS
<1>2. Len(stack[t]) \in Nat /\ Len(stack[t]) >= 1
  BY TopFacts
<1>0. Replace(t, frames)
  OBVIOUS
<1> HIDE DEF frames
<1>3. /\ stack' \in [Threads -> Seq(Frame)] /\ Same(t)
      /\ Len(stack'[t]) = Len(frames) + Len(stack[t]) - 1
      /\ \A i \in 1 .. Len(frames) : stack'[t][i] = frames[i]
      /\ \A i \in 1 .. Len(stack[t]) - 1 : stack'[t][Len(frames) + i] = stack[t][i + 1]
  BY <1>0, <1>1, Replaced
<1>4. stack'[t][1] = g /\ stack'[t][2] = f
  BY <1>1, <1>3
<1>5. \A i \in 3 .. Len(stack[t]) + 1 : stack'[t][i] = stack[t][i - 1]
  <2> TAKE i \in 3 .. Len(stack[t]) + 1
  <2>1. i - 2 \in 1 .. Len(stack[t]) - 1 /\ 2 + (i - 2) = i /\ (i - 2) + 1 = i - 1
    BY <1>2
  <2> QED BY <1>1, <1>3, <2>1
<1>6. Len(stack'[t]) = Len(stack[t]) + 1 /\ stack'[t] # <<>>
  BY <1>1, <1>2, <1>3
<1> QED BY <1>3, <1>4, <1>5, <1>6 DEF Pushed

\* ... is gone.
LEMMA ReplacedByNone ==
  ASSUME TypeOK, NEW t \in Threads, stack[t] # <<>>, Replace(t, <<>>)
  PROVE  Popped(t)
<1>1. <<>> \in Seq(Frame) /\ Len(<<>>) = 0
  OBVIOUS
<1>2. Len(stack[t]) \in Nat /\ Len(stack[t]) >= 1
  BY TopFacts
<1>3. /\ stack' \in [Threads -> Seq(Frame)] /\ Same(t)
      /\ Len(stack'[t]) = 0 + Len(stack[t]) - 1
      /\ \A i \in 1 .. Len(stack[t]) - 1 : stack'[t][0 + i] = stack[t][i + 1]
  BY <1>1, Replaced
<1> QED BY <1>2, <1>3 DEF Popped

\* A call that goes on keeps its class.
LEMMA FrameAt ==
  ASSUME NEW f \in Frame,
         NEW label \in {"super", "claim", "check", "checked", "begin", "body", "wait"}
  PROVE  /\ [f EXCEPT !.at = label] \in Frame
         /\ [f EXCEPT !.at = label].cls = f.cls /\ [f EXCEPT !.at = label].at = label
BY DEF Frame

\* A new call begins with the superclass.
LEMMA NewCall ==
  ASSUME NEW c \in Classes
  PROVE  Call(c) \in Frame /\ Call(c).cls = c /\ Call(c).at = "super"
BY HierarchyAssumption DEF Call, Frame

\* Become is Became, of the same class at the new place.
LEMMA BecomeFacts ==
  ASSUME TypeOK, NEW t \in Threads, stack[t] # <<>>,
         NEW label \in {"super", "claim", "check", "checked", "begin", "body", "wait"},
         Become(t, label)
  PROVE  \E f \in Frame : Became(t, f) /\ f.cls = Cls(t) /\ f.at = label
<1> DEFINE f == [Top(t) EXCEPT !.at = label]
<1>1. f \in Frame /\ f.cls = Cls(t) /\ f.at = label
  BY TopFacts, FrameAt DEF Cls
<1>2. Replace(t, <<f>>)
  BY DEF Become
<1> HIDE DEF f
<1> QED BY <1>1, <1>2, ReplacedByOne

(* A step of thread t leaves every other thread's part of the invariant as it is. *)
LEMMA Others ==
  ASSUME IInv, NEW t \in Threads,
         stack' \in [Threads -> Seq(Frame)], Same(t),
         status' \in [Classes -> Status],
         initializing' \in [Threads -> SUBSET Classes],
         \A u \in Threads \ {t} : initializing'[u] = initializing[u] /\ throwing'[u] = throwing[u],
         \A c \in Classes : /\ status[c] = "initialized" => status'[c] = "initialized"
                            /\ status[c] # "none" => status'[c] # "none",
         \A u \in Threads \ {t}, c \in Classes : Begins(u, c) =>
           /\ status'[c] = "initializing" /\ c \notin sent'
           /\ c \notin initializing'[t] /\ ~Begins(t, c)',
         \A u \in Threads \ {t} : \A c \in initializing[u] :
           /\ c \in pending' <=> c \in pending
           /\ status'[c] = "initializing" /\ c \notin initializing'[t]
  PROVE  \A u \in Threads \ {t} :
           CallsNest(u)' /\ BodiesLast(u)' /\ TopKnows(u)' /\ InProgress(u)'
           /\ (throwing'[u] => stack'[u] # <<>>)
<1> TAKE u \in Threads \ {t}
<1>1. /\ stack'[u] = stack[u] /\ initializing'[u] = initializing[u] /\ throwing'[u] = throwing[u]
      /\ TypeOK /\ CallsNest(u) /\ BodiesLast(u) /\ TopKnows(u) /\ InProgress(u)
      /\ (throwing[u] => stack[u] # <<>>)
  BY DEF Same, IInv
<1>2. superclass \in [Classes -> Classes \cup {NoClass}] /\ NoClass \notin Classes
  BY HierarchyAssumption
<1>3. \A c \in Classes \cup {NoClass} : Done(u, c) => Done(u, c)'
  BY <1>1, <1>2 DEF Done, Initialized
<1>4. \A i \in DOMAIN stack[u] : stack[u][i].cls \in Classes
  BY <1>1, TopFacts
<1>5. initializing[u] \subseteq Classes
  BY <1>1 DEF TypeOK
<1>6. CallsNest(u)'
  BY <1>1, <1>4, <1>5 DEF CallsNest
<1>7. BodiesLast(u)'
  BY <1>1, <1>4, <1>5 DEF BodiesLast
<1>8. InProgress(u)'
  <2> SUFFICES ASSUME NEW c \in initializing[u]
               PROVE  /\ status'[c] = "initializing" /\ Done(u, superclass[c])'
                      /\ \A w \in Threads : c \in initializing'[w] => w = u
    BY <1>1 DEF InProgress
  <2>1. c \in Classes /\ superclass[c] \in Classes \cup {NoClass}
    BY <1>2, <1>5
  <2>2. Done(u, superclass[c]) /\ \A w \in Threads : c \in initializing[w] => w = u
    BY <1>1 DEF InProgress
  <2>3. Done(u, superclass[c])'
    BY <1>3, <2>1, <2>2
  <2>4. \A w \in Threads : c \in initializing'[w] => w = u
    BY <2>2
  <2> QED BY <2>3, <2>4
<1>9. TopKnows(u)'
  <2> SUFFICES ASSUME stack[u] # <<>> PROVE TopKnows(u)'
    BY <1>1 DEF TopKnows
  <2>0. PICK c \in Classes : c = Cls(u)
    BY <1>1, TopFacts
  <2>1. superclass[c] \in Classes \cup {NoClass}
    BY <1>2
  <2>2. Top(u)' = Top(u) /\ Cls(u)' = c /\ stack'[u] # <<>>
    BY <1>1, <2>0 DEF Top, Cls
  <2>3. CASE Top(u).at = "begin"
    <3>1. Begins(u, c)
      BY <2>0, <2>3 DEF Begins
    <3>2. status'[c] = "initializing" /\ c \notin sent' /\ c \notin initializing'[t] /\ ~Begins(t, c)'
      BY <2>1, <3>1
    <3>3. /\ Done(u, superclass[c])
          /\ \A w \in Threads : c \notin initializing[w]
          /\ \A w \in Threads : Begins(w, c) => w = u
          /\ ~throwing[u]
      BY <1>1, <2>0, <2>3 DEF TopKnows
    <3>4. Done(u, superclass[c])'
      BY <1>3, <2>1, <3>3
    <3>5. \A w \in Threads : c \notin initializing'[w]
      BY <3>2, <3>3
    <3>6. \A w \in Threads : Begins(w, c)' => w = u
      <4> SUFFICES ASSUME NEW w \in Threads, Begins(w, c)' PROVE w = u
        OBVIOUS
      <4>1. w # t
        BY <3>2
      <4>2. Begins(w, c)
        BY <4>1 DEF Begins, Top, Cls, Same
      <4> QED BY <3>3, <4>2
    <3>7. \A w \in Threads : Begins(w, Cls(u))' => w = u
      BY <2>2, <3>6 DEF Begins
    <3>8. Done(u, superclass[Cls(u)])'
      BY <2>2, <3>4 DEF Done, Initialized
    <3> QED BY <1>1, <2>2, <2>3, <3>2, <3>3, <3>5, <3>7, <3>8 DEF TopKnows
  <2>4. CASE Top(u).at = "claim"
    <3>1. ~throwing[u] => Done(u, superclass[c])
      BY <1>1, <2>0, <2>4 DEF TopKnows
    <3>2. ~throwing[u] => Done(u, superclass[c])'
      BY <1>3, <2>1, <3>1
    <3>3. ~throwing[u] => Done(u, superclass[Cls(u)])'
      BY <2>2, <3>2 DEF Done, Initialized
    <3> QED BY <1>1, <2>2, <2>4, <3>3 DEF TopKnows
  <2>5. CASE Top(u).at \notin {"begin", "claim"}
    <3>1. /\ throwing[u] => Top(u).at \in {"claim", "body"}
          /\ Top(u).at = "check" => status[c] # "none"
          /\ Top(u).at = "checked" => status[c] = "initialized"
      BY <1>1, <2>0, <2>5 DEF TopKnows
    <3> QED BY <1>1, <2>1, <2>2, <2>5, <3>1 DEF TopKnows
  <2> QED BY <2>3, <2>4, <2>5
<1> QED BY <1>1, <1>6, <1>7, <1>8, <1>9

(* A step that moves only the stack of its thread.                         *)
LEMMA Quiet ==
  ASSUME IInv, NEW t \in Threads,
         stack' \in [Threads -> Seq(Frame)], Same(t),
         UNCHANGED <<status, initializing, pending, sent, halted>>,
         waiters' \subseteq Threads,
         throwing' \in [Threads -> BOOLEAN],
         \A u \in Threads \ {t} : throwing'[u] = throwing[u],
         \A c \in Classes : Begins(t, c)' => Begins(t, c),
         CallsNest(t)', BodiesLast(t)', TopKnows(t)', throwing'[t] => stack'[t] # <<>>
  PROVE  IInv'
<1>1. TypeOK /\ Subtree /\ PendingBelow /\ halted = "no" /\ InProgress(t)
      /\ \A c \in sent : status[c] # "none"
  BY DEF IInv
<1>2. TypeOK'
  BY <1>1 DEF TypeOK
<1>3. Subtree' /\ PendingBelow' /\ halted' = "no" /\ \A c \in sent' : status'[c] # "none"
  BY <1>1 DEF Subtree, PendingBelow
<1>4. InProgress(t)'
  BY <1>1 DEF InProgress, Done, Initialized
<1>5. \A u \in Threads \ {t}, c \in Classes : Begins(u, c) =>
        /\ status[c] = "initializing" /\ c \notin sent
        /\ c \notin initializing[t] /\ ~Begins(t, c)
  <2> TAKE u \in Threads \ {t}, c \in Classes
  <2> HAVE Begins(u, c)
  <2>1. stack[u] # <<>> /\ Top(u).at = "begin" /\ Cls(u) = c /\ TopKnows(u)
    BY DEF Begins, IInv
  <2>2. status[c] = "initializing" /\ c \notin sent /\ c \notin initializing[t]
        /\ (Begins(t, c) => t = u)
    BY <2>1 DEF TopKnows
  <2> QED BY <2>2
<1>6. \A u \in Threads \ {t} : \A c \in initializing[u] :
           status[c] = "initializing" /\ c \notin initializing[t]
  <2> TAKE u \in Threads \ {t}
  <2> TAKE c \in initializing[u]
  <2>1. InProgress(u)
    BY DEF IInv
  <2>2. status[c] = "initializing" /\ (c \in initializing[t] => t = u)
    BY <2>1 DEF InProgress
  <2> QED BY <2>2
<1>7. \A u \in Threads \ {t} :
           CallsNest(u)' /\ BodiesLast(u)' /\ TopKnows(u)' /\ InProgress(u)'
           /\ (throwing'[u] => stack'[u] # <<>>)
  <2>1. /\ status' \in [Classes -> Status] /\ initializing' \in [Threads -> SUBSET Classes]
        /\ \A u \in Threads \ {t} : initializing'[u] = initializing[u] /\ throwing'[u] = throwing[u]
        /\ \A c \in Classes : /\ status[c] = "initialized" => status'[c] = "initialized"
                              /\ status[c] # "none" => status'[c] # "none"
    BY <1>1 DEF TypeOK
  <2>2. \A u \in Threads \ {t}, c \in Classes : Begins(u, c) =>
           /\ status'[c] = "initializing" /\ c \notin sent'
           /\ c \notin initializing'[t] /\ ~Begins(t, c)'
    BY <1>5
  <2>3. \A u \in Threads \ {t} : \A c \in initializing[u] :
           /\ c \in pending' <=> c \in pending
           /\ status'[c] = "initializing" /\ c \notin initializing'[t]
    BY <1>6
  <2> QED BY <2>1, <2>2, <2>3, Others
<1>8. \A u \in Threads : CallsNest(u)' /\ BodiesLast(u)' /\ TopKnows(u)' /\ InProgress(u)'
                         /\ (throwing'[u] => stack'[u] # <<>>)
  BY <1>4, <1>7
<1> QED BY <1>2, <1>3, <1>8 DEF IInv

-----------------------------------------------------------------------------
(* Steps that move only a stack: a call goes on, another call goes on top, *)
(* the innermost call ends.                                                *)

\* The invariant's part about the calls of a thread, by their places.
LEMMA Frames ==
  ASSUME IInv, NEW t \in Threads, stack[t] # <<>>
  PROVE  /\ \A i \in 1 .. Len(stack[t]) :
              /\ i > 1 => stack[t][i].at \in {"claim", "body"}
              /\ i > 1 /\ stack[t][i].at = "claim" =>
                   stack[t][i - 1].cls = superclass[stack[t][i].cls]
              /\ stack[t][i].at = "body" =>
                   stack[t][i].cls \in initializing[t] /\ stack[t][i].cls \notin pending
         /\ Top(t) = stack[t][1] /\ Cls(t) = stack[t][1].cls /\ Cls(t) \in Classes
         /\ Len(stack[t]) \in Nat /\ Len(stack[t]) >= 1
<1>1. TypeOK /\ CallsNest(t)
  BY DEF IInv
<1>2. DOMAIN stack[t] = 1 .. Len(stack[t]) /\ Top(t) = stack[t][1] /\ Cls(t) = stack[t][1].cls
      /\ Cls(t) \in Classes /\ Len(stack[t]) \in Nat /\ Len(stack[t]) # 0
  BY <1>1, TopFacts
<1> QED BY <1>1, <1>2 DEF CallsNest

\* Whatever the innermost call does without beginning or ending +initialize, the
\* others keep their places.
LEMMA TopMoves ==
  ASSUME IInv, NEW t \in Threads, stack[t] # <<>>, NEW f \in Frame,
         Became(t, f), f.cls = Cls(t), f.at = "body" <=> Top(t).at = "body",
         UNCHANGED <<initializing, pending>>
  PROVE  /\ CallsNest(t)' /\ BodiesLast(t)'
         /\ Top(t)' = f /\ Cls(t)' = Cls(t) /\ stack'[t] # <<>>
<1> DEFINE s == stack[t]
           n == Len(stack[t])
           r == stack'[t]
<1>1. /\ r # <<>> /\ Len(r) = n /\ DOMAIN r = 1 .. n
      /\ r[1] = f /\ \A i \in 2 .. n : r[i] = s[i]
  BY DEF Became
<1>2. /\ \A i \in 1 .. n :
           /\ i > 1 => s[i].at \in {"claim", "body"}
           /\ i > 1 /\ s[i].at = "claim" => s[i - 1].cls = superclass[s[i].cls]
           /\ s[i].at = "body" => s[i].cls \in initializing[t] /\ s[i].cls \notin pending
      /\ Top(t) = s[1] /\ Cls(t) = s[1].cls /\ Cls(t) \in Classes /\ n \in Nat /\ n >= 1
  BY Frames
<1>3. TypeOK /\ BodiesLast(t) /\ DOMAIN s = 1 .. n
  BY TopFacts DEF IInv
<1>4. Head(r) = r[1]
  BY <1>1 DEF Became
<1> HIDE DEF s, n, r
<1>5. \A i \in 1 .. n : r[i].cls = s[i].cls /\ (r[i].at = "body" <=> s[i].at = "body")
  BY <1>1, <1>2
<1>6. /\ \A i, j \in 1 .. n :
           s[i].at = "body" /\ s[j].at = "body" /\ s[i].cls = s[j].cls => i = j
      /\ \A c \in initializing[t] \ pending : \E i \in 1 .. n : s[i].cls = c /\ s[i].at = "body"
  BY <1>3 DEF BodiesLast, s
<1>7. BodiesLast(t)'
  <2>1. \A i, j \in 1 .. n :
           r[i].at = "body" /\ r[j].at = "body" /\ r[i].cls = r[j].cls => i = j
    BY <1>5, <1>6
  <2>2. \A c \in initializing[t] \ pending : \E i \in 1 .. n : r[i].cls = c /\ r[i].at = "body"
    BY <1>5, <1>6
  <2> QED BY <1>1, <2>1, <2>2 DEF BodiesLast, r
<1>8. CallsNest(t)'
  <2>1. \A i \in 1 .. n :
          /\ i > 1 => r[i].at \in {"claim", "body"}
          /\ i > 1 /\ r[i].at = "claim" => r[i - 1].cls = superclass[r[i].cls]
          /\ r[i].at = "body" => r[i].cls \in initializing[t] /\ r[i].cls \notin pending
    <3> TAKE i \in 1 .. n
    <3>1. i > 1 => r[i].at = s[i].at /\ i - 1 \in 1 .. n
      BY <1>1, <1>2
    <3> QED BY <1>2, <1>5, <3>1
  <2> QED BY <1>1, <2>1 DEF CallsNest, r
<1>9. Top(t)' = f /\ Cls(t)' = Cls(t) /\ stack'[t] # <<>>
  BY <1>1, <1>4 DEF Top, Cls, r
<1> QED BY <1>7, <1>8, <1>9

\* The innermost call goes on, knowing what its new place asks for.
LEMMA GoesOn ==
  ASSUME IInv, NEW t \in Threads, stack[t] # <<>>, ~throwing[t], NEW f \in Frame,
         Became(t, f), f.cls = Cls(t), f.at = "body" <=> Top(t).at = "body", f.at # "begin",
         f.at = "claim" => Done(t, superclass[Cls(t)]),
         f.at = "check" => status[Cls(t)] # "none",
         f.at = "checked" => status[Cls(t)] = "initialized",
         waiters' \subseteq Threads,
         UNCHANGED <<status, initializing, pending, throwing, sent, halted>>
  PROVE  IInv'
<1>1. stack' \in [Threads -> Seq(Frame)] /\ Same(t)
  BY DEF Became
<1>2. /\ CallsNest(t)' /\ BodiesLast(t)'
      /\ Top(t)' = f /\ Cls(t)' = Cls(t) /\ stack'[t] # <<>>
  BY TopMoves
<1>3. TopKnows(t)'
  <2>1. superclass[Cls(t)'] = superclass[Cls(t)]
    BY <1>2
  <2>2. f.at = "claim" => Done(t, superclass[Cls(t)])'
    BY <1>2 DEF Done, Initialized
  <2> QED BY <1>2, <2>2 DEF TopKnows
<1>4. \A c \in Classes : Begins(t, c)' => Begins(t, c)
  BY <1>2 DEF Begins
<1>5. throwing' \in [Threads -> BOOLEAN] /\ throwing' = throwing
  BY DEF IInv, TypeOK
<1> QED BY <1>1, <1>2, <1>3, <1>4, <1>5, Quiet

\* The innermost call calls for another class.
LEMMA CallOnTop ==
  ASSUME IInv, NEW t \in Threads, stack[t] # <<>>, ~throwing[t], NEW g \in Frame, NEW f \in Frame,
         Pushed(t, g, f), g.at = "super", f.cls = Cls(t),
         f.at \in {"claim", "body"}, f.at = "body" <=> Top(t).at = "body",
         f.at = "claim" => g.cls = superclass[Cls(t)],
         UNCHANGED <<status, initializing, pending, waiters, throwing, sent, halted>>
  PROVE  IInv'
<1> DEFINE s == stack[t]
           n == Len(stack[t])
           r == stack'[t]
<1>1. /\ stack' \in [Threads -> Seq(Frame)] /\ Same(t) /\ r # <<>> /\ Len(r) = n + 1
      /\ DOMAIN r = 1 .. n + 1
      /\ r[1] = g /\ r[2] = f /\ \A i \in 3 .. n + 1 : r[i] = s[i - 1]
  BY DEF Pushed
<1>2. /\ \A i \in 1 .. n :
           /\ i > 1 => s[i].at \in {"claim", "body"}
           /\ i > 1 /\ s[i].at = "claim" => s[i - 1].cls = superclass[s[i].cls]
           /\ s[i].at = "body" => s[i].cls \in initializing[t] /\ s[i].cls \notin pending
      /\ Top(t) = s[1] /\ Cls(t) = s[1].cls /\ Cls(t) \in Classes /\ n \in Nat /\ n >= 1
  BY Frames
<1>3. TypeOK /\ BodiesLast(t) /\ DOMAIN s = 1 .. n
  BY TopFacts DEF IInv
<1> HIDE DEF s, n, r
<1>4. \A i \in 2 .. n + 1 :
        i - 1 \in 1 .. n /\ r[i].cls = s[i - 1].cls /\ (r[i].at = "body" <=> s[i - 1].at = "body")
  BY <1>1, <1>2
<1>5. /\ \A i, j \in 1 .. n :
           s[i].at = "body" /\ s[j].at = "body" /\ s[i].cls = s[j].cls => i = j
      /\ \A c \in initializing[t] \ pending : \E i \in 1 .. n : s[i].cls = c /\ s[i].at = "body"
  BY <1>3 DEF BodiesLast, s
<1>6. BodiesLast(t)'
  <2>1. \A i, j \in 1 .. n + 1 :
           r[i].at = "body" /\ r[j].at = "body" /\ r[i].cls = r[j].cls => i = j
    <3> TAKE i, j \in 1 .. n + 1
    <3> HAVE r[i].at = "body" /\ r[j].at = "body" /\ r[i].cls = r[j].cls
    <3>1. i \in 2 .. n + 1 /\ j \in 2 .. n + 1
      BY <1>1, <1>2
    <3>2. i - 1 \in 1 .. n /\ j - 1 \in 1 .. n
          /\ s[i - 1].at = "body" /\ s[j - 1].at = "body" /\ s[i - 1].cls = s[j - 1].cls
      BY <1>4, <3>1
    <3>3. i - 1 = j - 1
      BY <1>5, <3>2
    <3> QED BY <3>1, <3>3
  <2>2. \A c \in initializing[t] \ pending : \E i \in 1 .. n + 1 : r[i].cls = c /\ r[i].at = "body"
    <3> TAKE c \in initializing[t] \ pending
    <3>1. PICK k \in 1 .. n : s[k].cls = c /\ s[k].at = "body"
      BY <1>5
    <3>2. k + 1 \in 2 .. n + 1 /\ (k + 1) - 1 = k
      BY <1>2
    <3>3. r[k + 1].cls = c /\ r[k + 1].at = "body" /\ k + 1 \in 1 .. n + 1
      BY <1>4, <3>1, <3>2
    <3> QED BY <3>3
  <2> QED BY <1>1, <2>1, <2>2 DEF BodiesLast, r
<1>7. CallsNest(t)'
  <2>1. \A i \in 1 .. n + 1 :
          /\ i > 1 => r[i].at \in {"claim", "body"}
          /\ i > 1 /\ r[i].at = "claim" => r[i - 1].cls = superclass[r[i].cls]
          /\ r[i].at = "body" => r[i].cls \in initializing[t] /\ r[i].cls \notin pending
    <3> TAKE i \in 1 .. n + 1
    <3>1. CASE i = 1
      BY <1>1, <3>1
    <3>2. CASE i = 2
      BY <1>1, <1>2, <3>2
    <3>3. CASE i \in 3 .. n + 1
      <4>1. i - 1 \in 2 .. n /\ i - 1 \in 2 .. n + 1 /\ i - 1 > 1 /\ (i - 1) - 1 = i - 2
        BY <1>2, <3>3
      <4>2. r[i] = s[i - 1] /\ r[i - 1].cls = s[i - 2].cls
        BY <1>1, <1>4, <3>3, <4>1
      <4>3. /\ s[i - 1].at \in {"claim", "body"}
            /\ s[i - 1].at = "claim" => s[i - 2].cls = superclass[s[i - 1].cls]
            /\ s[i - 1].at = "body" =>
                 s[i - 1].cls \in initializing[t] /\ s[i - 1].cls \notin pending
        BY <1>2, <4>1
      <4> QED BY <4>2, <4>3
    <3> QED BY <1>2, <3>1, <3>2, <3>3
  <2> QED BY <1>1, <2>1 DEF CallsNest, r
<1>8. Top(t)' = g /\ stack'[t] # <<>>
  <2>1. Head(r) = r[1]
    BY <1>1 DEF r
  <2> QED BY <1>1, <2>1 DEF Top, r
<1>9. TopKnows(t)'
  BY <1>8 DEF TopKnows
<1>10. \A c \in Classes : Begins(t, c)' => Begins(t, c)
  BY <1>8 DEF Begins
<1>11. throwing' \in [Threads -> BOOLEAN] /\ throwing' = throwing /\ waiters' \subseteq Threads
  BY <1>3 DEF TypeOK
<1> QED BY <1>1, <1>6, <1>7, <1>8, <1>9, <1>10, <1>11, Quiet

(* What is left of the stack when the innermost call ends.                 *)
LEMMA CallEnds ==
  ASSUME IInv, NEW t \in Threads, stack[t] # <<>>, Popped(t)
  PROVE  /\ stack'[t] # <<>> <=> Len(stack[t]) > 1
         /\ DOMAIN stack'[t] = 1 .. Len(stack[t]) - 1
         /\ stack'[t] # <<>> =>
              /\ Top(t)' = stack[t][2] /\ Top(t)'.at \in {"claim", "body"}
              /\ Top(t)'.at = "claim" => superclass[Top(t)'.cls] = Cls(t)
         /\ \A i \in DOMAIN stack'[t] :
              /\ stack'[t][i].at \in {"claim", "body"}
              /\ i > 1 /\ stack'[t][i].at = "claim" =>
                   stack'[t][i - 1].cls = superclass[stack'[t][i].cls]
              /\ stack'[t][i].at = "body" =>
                   stack'[t][i].cls \in initializing[t] /\ stack'[t][i].cls \notin pending
<1> DEFINE s == stack[t]
           n == Len(stack[t])
           r == stack'[t]
<1>1. /\ r \in Seq(Frame) /\ Len(r) = n - 1 /\ DOMAIN r = 1 .. n - 1
      /\ \A i \in 1 .. n - 1 : r[i] = s[i + 1]
  BY DEF Popped
<1>2. /\ \A i \in 1 .. n :
           /\ i > 1 => s[i].at \in {"claim", "body"}
           /\ i > 1 /\ s[i].at = "claim" => s[i - 1].cls = superclass[s[i].cls]
           /\ s[i].at = "body" => s[i].cls \in initializing[t] /\ s[i].cls \notin pending
      /\ Top(t) = s[1] /\ Cls(t) = s[1].cls /\ Cls(t) \in Classes /\ n \in Nat /\ n >= 1
  BY Frames
<1>3. r # <<>> <=> n > 1
  BY <1>1, <1>2, EmptySeq
<1>4. r # <<>> => Head(r) = s[2] /\ Top(t)' = Head(r)
  BY <1>1, <1>2, <1>3 DEF Top
<1> HIDE DEF s, n, r
<1>5. \A i \in 1 .. n - 1 :
        /\ r[i].at \in {"claim", "body"}
        /\ i > 1 /\ r[i].at = "claim" => r[i - 1].cls = superclass[r[i].cls]
        /\ r[i].at = "body" => r[i].cls \in initializing[t] /\ r[i].cls \notin pending
  <2> TAKE i \in 1 .. n - 1
  <2>1. i + 1 \in 1 .. n /\ i + 1 > 1 /\ (i + 1) - 1 = i /\ r[i] = s[i + 1]
    BY <1>1, <1>2
  <2>2. i > 1 => i - 1 \in 1 .. n - 1 /\ (i - 1) + 1 = i
    BY <1>2
  <2>3. i > 1 => r[i - 1] = s[i]
    BY <1>1, <2>2
  <2> QED BY <1>2, <2>1, <2>3
<1>6. r # <<>> => /\ s[2].at \in {"claim", "body"}
                  /\ s[2].at = "claim" => superclass[s[2].cls] = s[1].cls
  <2>1. r # <<>> => 2 \in 1 .. n /\ 2 > 1 /\ 2 - 1 = 1
    BY <1>2, <1>3
  <2> QED BY <1>2, <2>1
<1>7. /\ r # <<>> <=> n > 1
      /\ DOMAIN r = 1 .. n - 1
      /\ r # <<>> => /\ Top(t)' = s[2] /\ Top(t)'.at \in {"claim", "body"}
                     /\ Top(t)'.at = "claim" => superclass[Top(t)'.cls] = Cls(t)
  BY <1>1, <1>2, <1>3, <1>4, <1>6
<1> QED BY <1>1, <1>5, <1>7 DEF s, n, r

\* The innermost call ends without a +initialize: the one below goes on if its class
\* is done, or the exception does.
LEMMA CallReturns ==
  ASSUME IInv, NEW t \in Threads, stack[t] # <<>>, Top(t).at # "body", Popped(t),
         throwing' \in [Threads -> BOOLEAN],
         \A u \in Threads \ {t} : throwing'[u] = throwing[u],
         throwing'[t] => Len(stack[t]) > 1,
         ~throwing'[t] /\ Len(stack[t]) > 1 => Done(t, Cls(t)),
         UNCHANGED <<status, initializing, pending, waiters, sent, halted>>
  PROVE  IInv'
<1> DEFINE s == stack[t]
           n == Len(stack[t])
           r == stack'[t]
<1>1. /\ stack' \in [Threads -> Seq(Frame)] /\ Same(t) /\ \A i \in 1 .. n - 1 : r[i] = s[i + 1]
  BY DEF Popped
<1>2. /\ r # <<>> <=> n > 1
      /\ DOMAIN r = 1 .. n - 1
      /\ r # <<>> => /\ Top(t)' = s[2] /\ Top(t)'.at \in {"claim", "body"}
                     /\ Top(t)'.at = "claim" => superclass[Top(t)'.cls] = Cls(t)
      /\ \A i \in DOMAIN r :
           /\ r[i].at \in {"claim", "body"}
           /\ i > 1 /\ r[i].at = "claim" => r[i - 1].cls = superclass[r[i].cls]
           /\ r[i].at = "body" => r[i].cls \in initializing[t] /\ r[i].cls \notin pending
  BY CallEnds
<1>3. TypeOK /\ BodiesLast(t) /\ DOMAIN s = 1 .. n /\ n \in Nat /\ n >= 1 /\ Top(t) = s[1]
  BY TopFacts, Frames DEF IInv
<1>4. /\ \A i, j \in 1 .. n :
           s[i].at = "body" /\ s[j].at = "body" /\ s[i].cls = s[j].cls => i = j
      /\ \A c \in initializing[t] \ pending : \E i \in 1 .. n : s[i].cls = c /\ s[i].at = "body"
  BY <1>3 DEF BodiesLast
<1> HIDE DEF s, n, r
<1>5. BodiesLast(t)'
  <2>1. \A i, j \in 1 .. n - 1 :
           r[i].at = "body" /\ r[j].at = "body" /\ r[i].cls = r[j].cls => i = j
    <3> TAKE i, j \in 1 .. n - 1
    <3> HAVE r[i].at = "body" /\ r[j].at = "body" /\ r[i].cls = r[j].cls
    <3>1. i + 1 \in 1 .. n /\ j + 1 \in 1 .. n /\ r[i] = s[i + 1] /\ r[j] = s[j + 1]
      BY <1>1, <1>3
    <3>2. i + 1 = j + 1
      BY <1>4, <3>1
    <3> QED BY <1>3, <3>2
  <2>2. \A c \in initializing[t] \ pending : \E i \in 1 .. n - 1 : r[i].cls = c /\ r[i].at = "body"
    <3> TAKE c \in initializing[t] \ pending
    <3>1. PICK k \in 1 .. n : s[k].cls = c /\ s[k].at = "body"
      BY <1>4
    <3>2. k # 1
      BY <1>3, <3>1
    <3>3. k - 1 \in 1 .. n - 1 /\ (k - 1) + 1 = k
      BY <1>3, <3>2
    <3>4. r[k - 1] = s[k]
      BY <1>1, <3>3
    <3> QED BY <3>1, <3>3, <3>4
  <2> QED BY <1>2, <2>1, <2>2 DEF BodiesLast, r
<1>6. CallsNest(t)'
  BY <1>2 DEF CallsNest, r
<1>7. TopKnows(t)'
  <2> SUFFICES ASSUME r # <<>> PROVE TopKnows(t)'
    BY DEF TopKnows, r
  <2>1. Top(t)'.at \in {"claim", "body"} /\ Cls(t)' = Top(t)'.cls
    BY <1>2 DEF Cls
  <2>2. Top(t)'.at = "claim" /\ ~throwing'[t] => Done(t, superclass[Cls(t)])'
    <3> SUFFICES ASSUME Top(t)'.at = "claim", ~throwing'[t] PROVE Done(t, superclass[Cls(t)])'
      OBVIOUS
    <3>1. superclass[Cls(t)'] = Cls(t) /\ Done(t, Cls(t))
      BY <1>2, <2>1 DEF n
    <3> QED BY <3>1 DEF Done, Initialized
  <2> QED BY <2>1, <2>2 DEF TopKnows
<1>8. \A c \in Classes : Begins(t, c)' => Begins(t, c)
  BY <1>2 DEF Begins, r
<1>9. (throwing'[t] => stack'[t] # <<>>) /\ waiters' \subseteq Threads
  BY <1>2, <1>3 DEF r, n, TypeOK
<1> QED BY <1>1, <1>5, <1>6, <1>7, <1>8, <1>9, Quiet

-----------------------------------------------------------------------------
(* The actions that change no class.                                       *)

\* The guard of an action, taken apart.
LEMMA AtFacts ==
  ASSUME NEW t \in Threads, NEW label, At(t, label)
  PROVE  stack[t] # <<>> /\ Top(t).at = label /\ ~throwing[t] /\ halted = "no"
BY DEF At, Running

LEMMA SuperFirstKeeps ==
  ASSUME IInv, NEW t \in Threads, SuperFirst(t)
  PROVE  IInv'
<1>0. TypeOK
  BY DEF IInv
<1>1. stack[t] # <<>> /\ Top(t).at = "super" /\ ~throwing[t]
  BY AtFacts DEF SuperFirst
<1>2. Top(t) \in Frame /\ Cls(t) \in Classes /\ superclass[Cls(t)] \in Classes \cup {NoClass}
  BY <1>0, <1>1, TopFacts, HierarchyAssumption
<1> DEFINE super == superclass[Cls(t)]
           f == [Top(t) EXCEPT !.at = "claim"]
<1>3. f \in Frame /\ f.cls = Cls(t) /\ f.at = "claim"
  BY <1>2, FrameAt DEF Cls
<1>4. UNCHANGED <<status, initializing, pending, waiters, throwing, sent, halted>>
  BY DEF SuperFirst
<1>5. waiters' \subseteq Threads
  BY <1>0, <1>4 DEF TypeOK
<1>6. Replace(t, (IF Initialized(super) THEN <<>> ELSE <<Call(super)>>) \o <<f>>)
  BY DEF SuperFirst
<1> HIDE DEF f
<1>7. CASE Initialized(super)
  <2>1. <<>> \o <<f>> = <<f>>
    OBVIOUS
  <2>2. Replace(t, <<f>>)
    BY <1>6, <1>7, <2>1
  <2>3. Became(t, f)
    BY <1>0, <1>1, <1>3, <2>2, ReplacedByOne
  <2>4. Done(t, superclass[Cls(t)])
    BY <1>7 DEF Done
  <2> QED BY <1>1, <1>3, <1>4, <1>5, <2>3, <2>4, GoesOn
<1>8. CASE ~Initialized(super)
  <2>1. super \in Classes
    BY <1>8 DEF Initialized
  <2>2. Call(super) \in Frame /\ Call(super).cls = super /\ Call(super).at = "super"
    BY <2>1, NewCall
  <2> DEFINE g == Call(super)
  <2>3. g \in Frame /\ g.cls = super /\ g.at = "super" /\ Replace(t, <<g>> \o <<f>>)
    BY <1>6, <1>8, <2>2
  <2> HIDE DEF g
  <2>4. Pushed(t, g, f)
    BY <1>0, <1>1, <1>3, <2>3, ReplacedByTwo
  <2> QED BY <1>1, <1>3, <1>4, <2>3, <2>4, CallOnTop
<1> QED BY <1>7, <1>8

LEMMA BodyMessageKeeps ==
  ASSUME IInv, NEW t \in Threads, NEW c \in Classes, BodyMessage(t, c)
  PROVE  IInv'
<1>0. TypeOK
  BY DEF IInv
<1>1. stack[t] # <<>> /\ Top(t).at = "body" /\ ~throwing[t]
  BY AtFacts DEF BodyMessage
<1>2. Top(t) \in Frame
  BY <1>0, <1>1, TopFacts
<1> DEFINE f == [Top(t) EXCEPT !.todo = @ \ {c}]
           g == Call(c)
<1>3. f \in Frame /\ f.cls = Cls(t) /\ f.at = "body"
  BY <1>1, <1>2 DEF Frame, Cls
<1>4. UNCHANGED <<status, initializing, pending, waiters, throwing, sent, halted>>
  BY DEF BodyMessage
<1>5. waiters' \subseteq Threads
  BY <1>0, <1>4 DEF TypeOK
<1>6. Replace(t, (IF Initialized(c) THEN <<>> ELSE <<g>>) \o <<f>>)
  BY DEF BodyMessage
<1>7. g \in Frame /\ g.at = "super"
  BY NewCall
<1> HIDE DEF f, g
<1>8. CASE Initialized(c)
  <2>1. <<>> \o <<f>> = <<f>>
    OBVIOUS
  <2>2. Replace(t, <<f>>)
    BY <1>6, <1>8, <2>1
  <2>3. Became(t, f)
    BY <1>0, <1>1, <1>3, <2>2, ReplacedByOne
  <2> QED BY <1>1, <1>3, <1>4, <1>5, <2>3, GoesOn
<1>9. CASE ~Initialized(c)
  <2>1. Replace(t, <<g>> \o <<f>>)
    BY <1>6, <1>9
  <2>2. Pushed(t, g, f)
    BY <1>0, <1>1, <1>3, <1>7, <2>1, ReplacedByTwo
  <2> QED BY <1>1, <1>3, <1>4, <1>7, <2>2, CallOnTop
<1> QED BY <1>8, <1>9

LEMMA CheckInitializingKeeps ==
  ASSUME IInv, NEW t \in Threads, CheckInitializing(t)
  PROVE  IInv'
<1>0. TypeOK /\ TopKnows(t)
  BY DEF IInv
<1>1. stack[t] # <<>> /\ Top(t).at = "check" /\ ~throwing[t]
  BY AtFacts DEF CheckInitializing
<1>2. Cls(t) \in Classes /\ status[Cls(t)] # "none" /\ status[Cls(t)] \in Status
  BY <1>0, <1>1, TopFacts DEF TopKnows, TypeOK
<1>3. UNCHANGED <<status, initializing, pending, waiters, throwing, sent, halted>>
  BY DEF CheckInitializing
<1>4. waiters' \subseteq Threads /\ throwing' \in [Threads -> BOOLEAN]
  BY <1>0, <1>3 DEF TypeOK
<1>5. CASE status[Cls(t)] # "initializing"
  <2>1. Become(t, "checked") /\ status[Cls(t)] = "initialized"
    BY <1>2, <1>5 DEF CheckInitializing, Status
  <2>2. PICK f \in Frame : Became(t, f) /\ f.cls = Cls(t) /\ f.at = "checked"
    BY <1>0, <1>1, <2>1, BecomeFacts
  <2> QED BY <1>1, <1>3, <1>4, <2>1, <2>2, GoesOn
<1>6. CASE status[Cls(t)] = "initializing" /\ Cls(t) \in initializing[t]
  <2>1. Replace(t, <<>>)
    BY <1>6 DEF CheckInitializing, Return
  <2>2. Popped(t)
    BY <1>0, <1>1, <2>1, ReplacedByNone
  <2>3. Done(t, Cls(t))
    BY <1>6 DEF Done
  <2> QED BY <1>1, <1>3, <1>4, <2>2, <2>3, CallReturns
<1>7. CASE status[Cls(t)] = "initializing" /\ Cls(t) \notin initializing[t]
  <2>1. Become(t, "wait")
    BY <1>7 DEF CheckInitializing
  <2>2. PICK f \in Frame : Became(t, f) /\ f.cls = Cls(t) /\ f.at = "wait"
    BY <1>0, <1>1, <2>1, BecomeFacts
  <2> QED BY <1>1, <1>3, <1>4, <2>2, GoesOn
<1> QED BY <1>5, <1>6, <1>7

LEMMA CheckInitializedKeeps ==
  ASSUME IInv, NEW t \in Threads, CheckInitialized(t)
  PROVE  IInv'
<1>0. TypeOK /\ TopKnows(t)
  BY DEF IInv
<1>1. stack[t] # <<>> /\ Top(t).at = "checked" /\ ~throwing[t]
  BY AtFacts DEF CheckInitialized
<1>2. Initialized(Cls(t))
  BY <1>0, <1>1 DEF TopKnows, Initialized
<1>3. UNCHANGED <<status, initializing, pending, waiters, throwing, sent, halted>> /\ Replace(t, <<>>)
  BY <1>2 DEF CheckInitialized, Return
<1>4. throwing' \in [Threads -> BOOLEAN]
  BY <1>0, <1>3 DEF TypeOK
<1>5. Popped(t) /\ Done(t, Cls(t))
  BY <1>0, <1>1, <1>2, <1>3, ReplacedByNone DEF Done
<1> QED BY <1>1, <1>3, <1>4, <1>5, CallReturns

LEMMA WaitKeeps ==
  ASSUME IInv, NEW t \in Threads, WaitForInitializeToComplete(t)
  PROVE  IInv'
<1>0. TypeOK
  BY DEF IInv
<1>1. stack[t] # <<>> /\ Top(t).at = "wait" /\ ~throwing[t]
  BY AtFacts DEF WaitForInitializeToComplete
<1>2. UNCHANGED <<status, initializing, pending, throwing, sent, halted>>
  BY DEF WaitForInitializeToComplete
<1>3. throwing' \in [Threads -> BOOLEAN]
  BY <1>0, <1>2 DEF TypeOK
<1>4. CASE Initialized(Cls(t))
  <2>1. Replace(t, <<>>) /\ waiters' = waiters
    BY <1>4 DEF WaitForInitializeToComplete, Return
  <2>2. Popped(t) /\ Done(t, Cls(t))
    BY <1>0, <1>1, <1>4, <2>1, ReplacedByNone DEF Done
  <2> QED BY <1>1, <1>2, <1>3, <2>1, <2>2, CallReturns
<1>5. CASE ~Initialized(Cls(t))
  <2>1. stack' = stack /\ waiters' = waiters \cup {t}
    BY <1>5 DEF WaitForInitializeToComplete
  <2>2. waiters' \subseteq Threads
    BY <1>0, <2>1 DEF TypeOK
  <2>3. Top(t) \in Frame /\ Top(t).cls = Cls(t)
    BY <1>0, <1>1, TopFacts DEF Cls
  <2>4. Became(t, Top(t))
    BY <1>0, <1>1, <2>1, TopFacts DEF Became, Same, TypeOK
  <2> QED BY <1>1, <1>2, <2>2, <2>3, <2>4, GoesOn
<1> QED BY <1>4, <1>5

LEMMA SpuriousWakeupKeeps ==
  ASSUME IInv, NEW t \in Threads, SpuriousWakeup(t)
  PROVE  IInv'
<1>1. /\ UNCHANGED <<status, initializing, pending, stack, throwing, sent, halted>>
      /\ waiters' \subseteq waiters
  BY DEF SpuriousWakeup
<1>2. TypeOK'
  BY <1>1 DEF IInv, TypeOK
<1>3. Subtree' /\ PendingBelow'
  BY <1>1 DEF IInv, Subtree, PendingBelow
<1>4. \A u \in Threads : CallsNest(u)' /\ BodiesLast(u)' /\ InProgress(u)'
  BY <1>1 DEF IInv, CallsNest, BodiesLast, InProgress, Done, Initialized
<1>5. \A u \in Threads : TopKnows(u)'
  BY <1>1 DEF IInv, TopKnows, Done, Initialized, Top, Cls, Begins
<1> QED BY <1>1, <1>2, <1>3, <1>4, <1>5 DEF IInv

LEMMA MessageKeeps ==
  ASSUME IInv, NEW t \in Threads, NEW c \in Classes, Message(t, c)
  PROVE  IInv'
<1>0. TypeOK /\ BodiesLast(t) /\ (throwing[t] => stack[t] # <<>>)
  BY DEF IInv
<1>1. stack[t] = <<>> /\ stack' = [stack EXCEPT ![t] = <<Call(c)>>]
      /\ UNCHANGED <<status, initializing, pending, waiters, throwing, sent, halted>>
  BY DEF Message
<1> DEFINE g == Call(c)
<1>2. g \in Frame /\ g.cls = c /\ g.at = "super"
  BY NewCall
<1>3. stack' = [stack EXCEPT ![t] = <<g>>]
  BY <1>1
<1> HIDE DEF g
<1>4. /\ stack' \in [Threads -> Seq(Frame)] /\ Same(t) /\ stack'[t] = <<g>>
      /\ DOMAIN stack'[t] = 1 .. 1 /\ stack'[t][1] = g /\ stack'[t] # <<>> /\ Head(stack'[t]) = g
  BY <1>0, <1>2, <1>3 DEF TypeOK, Same
<1>5. CallsNest(t)'
  BY <1>2, <1>4 DEF CallsNest
<1>6. BodiesLast(t)'
  <2>1. DOMAIN stack[t] = {}
    BY <1>1
  <2>2. initializing[t] \ pending = {}
    BY <1>0, <2>1 DEF BodiesLast
  <2> QED BY <1>1, <1>2, <1>4, <2>2 DEF BodiesLast
<1>7. Top(t)' = g
  BY <1>4 DEF Top
<1>8. ~throwing'[t]
  BY <1>0, <1>1
<1>9. TopKnows(t)'
  BY <1>2, <1>7, <1>8 DEF TopKnows
<1>10. \A d \in Classes : Begins(t, d)' => Begins(t, d)
  BY <1>2, <1>7 DEF Begins
<1>11. waiters' \subseteq Threads /\ throwing' \in [Threads -> BOOLEAN]
  BY <1>0, <1>1 DEF TypeOK
<1> QED BY <1>1, <1>4, <1>5, <1>6, <1>8, <1>9, <1>10, <1>11, Quiet

LEMMA UnwindKeeps ==
  ASSUME IInv, NEW t \in Threads, Unwind(t)
  PROVE  IInv'
<1>0. TypeOK
  BY DEF IInv
<1>1. stack[t] # <<>> /\ Top(t).at # "body" /\ Replace(t, <<>>)
      /\ throwing' = [throwing EXCEPT ![t] = Unwinding(t)]
      /\ UNCHANGED <<status, initializing, pending, waiters, sent, halted>>
  BY DEF Unwind, Running, Return
<1>2. Popped(t)
  BY <1>0, <1>1, ReplacedByNone
<1>3. throwing' \in [Threads -> BOOLEAN] /\ (throwing'[t] <=> Len(stack[t]) > 1)
      /\ \A u \in Threads \ {t} : throwing'[u] = throwing[u]
  <2>1. Unwinding(t) \in BOOLEAN
    BY DEF Unwinding
  <2> QED BY <1>0, <1>1, <2>1 DEF TypeOK, Unwinding
<1> QED BY <1>1, <1>2, <1>3, CallReturns

-----------------------------------------------------------------------------
(* The actions that claim, begin and finish classes.                       *)

LEMMA ClaimKeeps ==
  ASSUME IInv, NEW t \in Threads, Claim(t)
  PROVE  IInv'
<1>0. /\ TypeOK /\ TopKnows(t) /\ Subtree /\ PendingBelow /\ halted = "no" /\ InProgress(t)
      /\ (\A d \in sent : status[d] # "none") /\ (throwing[t] => stack[t] # <<>>)
  BY DEF IInv
<1>1. stack[t] # <<>> /\ Top(t).at = "claim" /\ ~throwing[t]
  BY AtFacts DEF Claim
<1>2. UNCHANGED <<initializing, pending, waiters, throwing, sent, halted>>
  BY DEF Claim
<1>3. waiters' \subseteq Threads
  BY <1>0, <1>2 DEF TypeOK
<1>4. CASE status[Cls(t)] # "none"
  <2>1. Become(t, "check") /\ status' = status
    BY <1>4 DEF Claim
  <2>2. PICK f \in Frame : Became(t, f) /\ f.cls = Cls(t) /\ f.at = "check"
    BY <1>0, <1>1, <2>1, BecomeFacts
  <2> QED BY <1>1, <1>2, <1>3, <1>4, <2>1, <2>2, GoesOn
<1>5. CASE status[Cls(t)] = "none"
  <2>0. PICK c \in Classes : c = Cls(t)
    BY <1>0, <1>1, TopFacts
  <2>1. Become(t, "begin") /\ status' = [status EXCEPT ![c] = "initializing"]
    BY <1>5, <2>0 DEF Claim
  <2>2. PICK f \in Frame : Became(t, f) /\ f.cls = Cls(t) /\ f.at = "begin"
    BY <1>0, <1>1, <2>1, BecomeFacts
  <2>3. /\ CallsNest(t)' /\ BodiesLast(t)'
        /\ Top(t)' = f /\ Cls(t)' = c /\ stack'[t] # <<>>
    BY <1>1, <1>2, <2>0, <2>2, TopMoves
  <2>4. stack' \in [Threads -> Seq(Frame)] /\ Same(t)
    BY <2>2 DEF Became
  <2>5. /\ status' \in [Classes -> Status] /\ status'[c] = "initializing" /\ status[c] = "none"
        /\ \A d \in Classes \ {c} : status'[d] = status[d]
    BY <1>0, <1>5, <2>0, <2>1 DEF TypeOK, Status
  <2>6. initializing \in [Threads -> SUBSET Classes] /\ throwing \in [Threads -> BOOLEAN]
        /\ superclass \in [Classes -> Classes \cup {NoClass}] /\ NoClass \notin Classes
    BY <1>0, HierarchyAssumption DEF TypeOK
  <2>7. Done(t, superclass[c])
    BY <1>0, <1>1, <2>0 DEF TopKnows
  <2>8. \A u \in Threads : c \notin initializing[u] /\ ~Begins(u, c)
    <3> TAKE u \in Threads
    <3>1. InProgress(u) /\ TopKnows(u)
      BY DEF IInv
    <3>2. c \notin initializing[u]
      BY <2>5, <3>1 DEF InProgress
    <3>3. ~Begins(u, c)
      BY <2>5, <3>1 DEF TopKnows, Begins
    <3> QED BY <3>2, <3>3
  <2>9. \A u \in Threads : \A d \in Classes : Done(u, d) => Done(u, d)'
    BY <1>2, <2>5 DEF Done, Initialized
  <2>10. TypeOK'
    BY <1>0, <1>2, <2>4, <2>5, <2>6 DEF TypeOK
  <2>11. Subtree'
    <3> SUFFICES ASSUME NEW d \in Classes, superclass[d] # NoClass
                 PROVE  /\ status'[d] # "none" => status'[superclass[d]] # "none"
                        /\ status'[d] = "initialized" => status'[superclass[d]] = "initialized"
      BY DEF Subtree
    <3>1. superclass[d] \in Classes
      BY <2>6
    <3>2. CASE d = c
      <4>1. status[superclass[c]] # "none"
        BY <1>0, <2>7, <3>1, <3>2 DEF Done, Initialized, InProgress
      <4> QED BY <2>5, <3>1, <3>2, <4>1
    <3>3. CASE d # c
      BY <1>0, <2>5, <3>1, <3>3 DEF Subtree
    <3> QED BY <3>2, <3>3
  <2>12. PendingBelow' /\ halted' = "no" /\ \A d \in sent' : status'[d] # "none"
    BY <1>0, <1>2, <2>5 DEF PendingBelow, TypeOK
  <2>13. InProgress(t)'
    <3> SUFFICES ASSUME NEW d \in initializing[t]
                 PROVE  /\ status'[d] = "initializing" /\ Done(t, superclass[d])'
                        /\ \A u \in Threads : d \in initializing[u] => u = t
      BY <1>2 DEF InProgress
    <3>1. d \in Classes /\ d # c /\ status[d] = "initializing" /\ Done(t, superclass[d])
          /\ \A u \in Threads : d \in initializing[u] => u = t
      BY <1>0, <2>5, <2>6 DEF InProgress
    <3>2. Done(t, superclass[d])'
      BY <1>2, <2>5, <3>1 DEF Done, Initialized
    <3> QED BY <2>5, <3>1, <3>2
  <2>14. TopKnows(t)'
    <3>1. Done(t, superclass[c])'
      BY <1>2, <2>5, <2>7 DEF Done, Initialized
    <3>2. Done(t, superclass[Cls(t)])'
      BY <2>3, <3>1 DEF Done, Initialized
    <3>3. c \notin sent
      BY <1>0, <2>5
    <3>4. \A u \in Threads : Begins(u, c)' => u = t
      <4> SUFFICES ASSUME NEW u \in Threads, u # t, Begins(u, c)' PROVE FALSE
        OBVIOUS
      <4>1. Begins(u, c)
        BY <2>4 DEF Begins, Top, Cls, Same
      <4> QED BY <2>8, <4>1
    <3>5. \A u \in Threads : Begins(u, Cls(t))' => u = t
      BY <2>3, <3>4 DEF Begins
    <3> QED BY <1>1, <1>2, <2>2, <2>3, <2>5, <2>8, <3>2, <3>3, <3>5 DEF TopKnows
  <2>15. \A u \in Threads \ {t} : initializing'[u] = initializing[u] /\ throwing'[u] = throwing[u]
    BY <1>2
  <2>16. \A d \in Classes : /\ status[d] = "initialized" => status'[d] = "initialized"
                            /\ status[d] # "none" => status'[d] # "none"
    BY <2>5
  <2>17. \A u \in Threads \ {t}, d \in Classes : Begins(u, d) =>
           /\ status'[d] = "initializing" /\ d \notin sent'
           /\ d \notin initializing'[t] /\ ~Begins(t, d)'
    <3> TAKE u \in Threads \ {t}, d \in Classes
    <3> HAVE Begins(u, d)
    <3>1. status[d] = "initializing" /\ d \notin sent /\ d \notin initializing[t]
      BY DEF IInv, TopKnows, Begins
    <3>2. d # c
      BY <2>5, <3>1
    <3>3. ~Begins(t, d)'
      BY <2>3, <3>2 DEF Begins
    <3> QED BY <1>2, <2>5, <3>1, <3>2, <3>3
  <2>18. \A u \in Threads \ {t} : \A d \in initializing[u] :
           /\ d \in pending' <=> d \in pending
           /\ status'[d] = "initializing" /\ d \notin initializing'[t]
    <3> TAKE u \in Threads \ {t}
    <3> TAKE d \in initializing[u]
    <3>1. d \in Classes /\ status[d] = "initializing" /\ (d \in initializing[t] => t = u)
      BY <2>6 DEF IInv, InProgress
    <3> QED BY <1>2, <2>5, <3>1
  <2>19. initializing' \in [Threads -> SUBSET Classes]
    BY <1>2, <2>6
  <2>20. \A u \in Threads \ {t} :
           CallsNest(u)' /\ BodiesLast(u)' /\ TopKnows(u)' /\ InProgress(u)'
           /\ (throwing'[u] => stack'[u] # <<>>)
    BY <2>4, <2>5, <2>15, <2>16, <2>17, <2>18, <2>19, Others
  <2>21. \A u \in Threads : CallsNest(u)' /\ BodiesLast(u)' /\ TopKnows(u)' /\ InProgress(u)'
                            /\ (throwing'[u] => stack'[u] # <<>>)
    BY <2>3, <2>13, <2>14, <2>20
  <2> QED BY <2>10, <2>11, <2>12, <2>21 DEF IInv
<1> QED BY <1>4, <1>5

LEMMA BeginInitializeKeeps ==
  ASSUME IInv, NEW t \in Threads, BeginInitialize(t)
  PROVE  IInv'
<1>0. /\ TypeOK /\ TopKnows(t) /\ Subtree /\ PendingBelow /\ halted = "no" /\ InProgress(t)
      /\ BodiesLast(t) /\ \A d \in sent : status[d] # "none"
  BY DEF IInv
<1>1. stack[t] # <<>> /\ Top(t).at = "begin" /\ ~throwing[t]
  BY AtFacts DEF BeginInitialize
<1>2. PICK c \in Classes : c = Cls(t)
  BY <1>0, <1>1, TopFacts
<1>3. /\ status[c] = "initializing" /\ c \notin sent /\ Done(t, superclass[c])
      /\ \A u \in Threads : c \notin initializing[u]
      /\ \A u \in Threads : Begins(u, c) => u = t
  BY <1>0, <1>1, <1>2 DEF TopKnows
<1>4. /\ initializing' = [initializing EXCEPT ![t] = initializing[t] \cup {c}]
      /\ sent' = sent \cup {c} /\ Become(t, "body")
      /\ UNCHANGED <<status, pending, waiters, throwing, halted>>
  BY <1>2, <1>3 DEF BeginInitialize
<1>5. PICK f \in Frame : Became(t, f) /\ f.cls = Cls(t) /\ f.at = "body"
  BY <1>0, <1>1, <1>4, BecomeFacts
<1>6. stack' \in [Threads -> Seq(Frame)] /\ Same(t)
  BY <1>5 DEF Became
<1>7. initializing \in [Threads -> SUBSET Classes]
      /\ superclass \in [Classes -> Classes \cup {NoClass}] /\ NoClass \notin Classes
  BY <1>0, HierarchyAssumption DEF TypeOK
<1>8. /\ initializing' \in [Threads -> SUBSET Classes]
      /\ initializing'[t] = initializing[t] \cup {c}
      /\ \A u \in Threads \ {t} : initializing'[u] = initializing[u]
  BY <1>4, <1>7
<1>9. c \notin pending
  BY <1>0, <1>3 DEF PendingBelow
<1> DEFINE s == stack[t]
           n == Len(stack[t])
           r == stack'[t]
<1>10. /\ r # <<>> /\ Len(r) = n /\ DOMAIN r = 1 .. n
       /\ r[1] = f /\ \A i \in 2 .. n : r[i] = s[i]
  BY <1>5 DEF Became
<1>11. /\ \A i \in 1 .. n :
           /\ i > 1 => s[i].at \in {"claim", "body"}
           /\ i > 1 /\ s[i].at = "claim" => s[i - 1].cls = superclass[s[i].cls]
           /\ s[i].at = "body" => s[i].cls \in initializing[t] /\ s[i].cls \notin pending
       /\ Top(t) = s[1] /\ c = s[1].cls /\ n \in Nat /\ n >= 1
  BY <1>1, <1>2, Frames
<1>12. /\ \A i, j \in 1 .. n :
           s[i].at = "body" /\ s[j].at = "body" /\ s[i].cls = s[j].cls => i = j
       /\ \A d \in initializing[t] \ pending : \E i \in 1 .. n : s[i].cls = d /\ s[i].at = "body"
  BY <1>0, TopFacts DEF BodiesLast
<1>13. Top(t)' = f /\ Cls(t)' = c /\ stack'[t] # <<>>
  BY <1>2, <1>5, <1>6, <1>10 DEF Top, Cls
<1> HIDE DEF s, n, r
<1>14. CallsNest(t)'
  <2>1. \A i \in 1 .. n :
          /\ i > 1 => r[i].at \in {"claim", "body"}
          /\ i > 1 /\ r[i].at = "claim" => r[i - 1].cls = superclass[r[i].cls]
          /\ r[i].at = "body" => r[i].cls \in initializing'[t] /\ r[i].cls \notin pending'
    <3> TAKE i \in 1 .. n
    <3>1. CASE i = 1
      BY <1>2, <1>4, <1>5, <1>8, <1>9, <1>10, <3>1
    <3>2. CASE i # 1
      <4>1. i \in 2 .. n /\ i > 1 /\ i - 1 \in 1 .. n
        BY <1>11, <3>2
      <4>2. r[i] = s[i] /\ r[i - 1].cls = s[i - 1].cls
        BY <1>2, <1>5, <1>10, <1>11, <4>1
      <4> QED BY <1>4, <1>8, <1>11, <4>1, <4>2
    <3> QED BY <3>1, <3>2
  <2> QED BY <1>10, <2>1 DEF CallsNest, r
<1>15. BodiesLast(t)'
  <2>1. \A i \in 2 .. n : i \in 1 .. n /\ r[i] = s[i] /\ (s[i].at = "body" => s[i].cls # c)
    BY <1>3, <1>10, <1>11
  <2>2. \A i \in 1 .. n : i = 1 \/ i \in 2 .. n
    BY <1>11
  <2>3. r[1].cls = c /\ r[1].at = "body" /\ 1 \in 1 .. n
    BY <1>2, <1>5, <1>10, <1>11
  <2>4. \A i, j \in 1 .. n :
           r[i].at = "body" /\ r[j].at = "body" /\ r[i].cls = r[j].cls => i = j
    BY <1>12, <2>1, <2>2, <2>3
  <2>5. \A d \in initializing'[t] \ pending' : \E i \in 1 .. n : r[i].cls = d /\ r[i].at = "body"
    <3> TAKE d \in initializing'[t] \ pending'
    <3>1. CASE d = c
      BY <2>3, <3>1
    <3>2. CASE d # c
      <4>1. d \in initializing[t] \ pending
        BY <1>4, <1>8, <3>2
      <4>2. PICK i \in 1 .. n : s[i].cls = d /\ s[i].at = "body"
        BY <1>12, <4>1
      <4>3. r[i] = s[i]
        BY <1>1, <1>11, <2>1, <2>2, <4>2
      <4> QED BY <4>2, <4>3
    <3> QED BY <3>1, <3>2
  <2> QED BY <1>10, <2>4, <2>5 DEF BodiesLast, r
<1>16. TopKnows(t)'
  BY <1>1, <1>4, <1>5, <1>13 DEF TopKnows
<1>17. InProgress(t)'
  <2> SUFFICES ASSUME NEW d \in initializing'[t]
               PROVE  /\ status'[d] = "initializing" /\ Done(t, superclass[d])'
                      /\ \A u \in Threads : d \in initializing'[u] => u = t
    BY DEF InProgress
  <2>1. CASE d = c
    <3>1. Done(t, superclass[c])'
      BY <1>3, <1>4, <1>8 DEF Done, Initialized
    <3> QED BY <1>3, <1>4, <1>8, <2>1, <3>1
  <2>2. CASE d # c
    <3>1. d \in initializing[t] /\ status[d] = "initializing" /\ Done(t, superclass[d])
          /\ \A u \in Threads : d \in initializing[u] => u = t
      BY <1>0, <1>8, <2>2 DEF InProgress
    <3>2. Done(t, superclass[d])'
      BY <1>4, <1>8, <3>1 DEF Done, Initialized
    <3> QED BY <1>4, <1>8, <3>1, <3>2
  <2> QED BY <2>1, <2>2
<1>18. TypeOK'
  BY <1>0, <1>4, <1>6, <1>8 DEF TypeOK
<1>19. Subtree' /\ halted' = "no" /\ \A d \in sent' : status'[d] # "none"
  BY <1>0, <1>3, <1>4 DEF Subtree
<1>20. PendingBelow'
  <2> SUFFICES ASSUME NEW d \in pending
               PROVE  \E u \in Threads : {d, superclass[d]} \subseteq initializing'[u]
    BY <1>4 DEF PendingBelow
  <2>1. PICK u \in Threads : {d, superclass[d]} \subseteq initializing[u]
    BY <1>0 DEF PendingBelow
  <2>2. initializing[u] \subseteq initializing'[u]
    BY <1>8
  <2> QED BY <2>1, <2>2
<1>21. \A u \in Threads \ {t}, d \in Classes : Begins(u, d) =>
           /\ status'[d] = "initializing" /\ d \notin sent'
           /\ d \notin initializing'[t] /\ ~Begins(t, d)'
  <2> TAKE u \in Threads \ {t}, d \in Classes
  <2> HAVE Begins(u, d)
  <2>1. status[d] = "initializing" /\ d \notin sent /\ d \notin initializing[t]
    BY DEF IInv, TopKnows, Begins
  <2>2. d # c
    BY <1>3
  <2>3. ~Begins(t, d)'
    BY <1>5, <1>13 DEF Begins
  <2> QED BY <1>4, <1>8, <2>1, <2>2, <2>3
<1>22. \A u \in Threads \ {t} : \A d \in initializing[u] :
           /\ d \in pending' <=> d \in pending
           /\ status'[d] = "initializing" /\ d \notin initializing'[t]
  <2> TAKE u \in Threads \ {t}
  <2> TAKE d \in initializing[u]
  <2>1. status[d] = "initializing" /\ (d \in initializing[t] => t = u) /\ d # c
    BY <1>3 DEF IInv, InProgress
  <2> QED BY <1>4, <1>8, <2>1
<1>23. /\ status' \in [Classes -> Status]
       /\ \A u \in Threads \ {t} : initializing'[u] = initializing[u] /\ throwing'[u] = throwing[u]
       /\ \A d \in Classes : /\ status[d] = "initialized" => status'[d] = "initialized"
                             /\ status[d] # "none" => status'[d] # "none"
  BY <1>0, <1>4, <1>8 DEF TypeOK
<1>24. \A u \in Threads \ {t} :
           CallsNest(u)' /\ BodiesLast(u)' /\ TopKnows(u)' /\ InProgress(u)'
           /\ (throwing'[u] => stack'[u] # <<>>)
  BY <1>6, <1>8, <1>21, <1>22, <1>23, Others
<1>25. \A u \in Threads : CallsNest(u)' /\ BodiesLast(u)' /\ TopKnows(u)' /\ InProgress(u)'
                          /\ (throwing'[u] => stack'[u] # <<>>)
  BY <1>13, <1>14, <1>15, <1>16, <1>17, <1>24
<1> QED BY <1>18, <1>19, <1>20, <1>25 DEF IInv

-----------------------------------------------------------------------------
(* The end of a +initialize method.                                        *)

\* The stack, once the innermost call, a +initialize in progress, has ended: its class
\* has left the thread's list or has become pending, and nothing else that still has a
\* call has.
LEMMA BodyGone ==
  ASSUME IInv, NEW t \in Threads, stack[t] # <<>>, Top(t).at = "body", Popped(t),
         \A d \in (initializing[t] \ pending) \ {Cls(t)} :
           d \in initializing'[t] /\ d \notin pending',
         \A d \in initializing'[t] \ pending' :
           d \in initializing[t] \ pending /\ d # Cls(t),
         Cls(t) \in Classes => status'[Cls(t)] = "initialized" \/ Cls(t) \in initializing'[t]
  PROVE  /\ CallsNest(t)' /\ BodiesLast(t)' /\ TopKnows(t)'
         /\ \A d \in Classes : ~Begins(t, d)'
         /\ stack'[t] # <<>> <=> Len(stack[t]) > 1
<1> DEFINE s == stack[t]
           n == Len(stack[t])
           r == stack'[t]
<1>0. PICK c : c = Cls(t)
  OBVIOUS
<1>1. \A i \in 1 .. n - 1 : r[i] = s[i + 1]
  BY DEF Popped
<1>2. /\ r # <<>> <=> n > 1
      /\ DOMAIN r = 1 .. n - 1
      /\ r # <<>> => /\ Top(t)' = s[2] /\ Top(t)'.at \in {"claim", "body"}
                     /\ Top(t)'.at = "claim" => superclass[Top(t)'.cls] = c
      /\ \A i \in DOMAIN r :
           /\ r[i].at \in {"claim", "body"}
           /\ i > 1 /\ r[i].at = "claim" => r[i - 1].cls = superclass[r[i].cls]
           /\ r[i].at = "body" => r[i].cls \in initializing[t] /\ r[i].cls \notin pending
  BY <1>0, CallEnds
<1>3. TypeOK /\ BodiesLast(t) /\ DOMAIN s = 1 .. n /\ n \in Nat /\ n >= 1
      /\ s[1].at = "body" /\ s[1].cls = c /\ c \in Classes
  BY <1>0, TopFacts, Frames DEF IInv
<1>4. /\ \A i, j \in 1 .. n :
           s[i].at = "body" /\ s[j].at = "body" /\ s[i].cls = s[j].cls => i = j
      /\ \A d \in initializing[t] \ pending : \E i \in 1 .. n : s[i].cls = d /\ s[i].at = "body"
  BY <1>3 DEF BodiesLast
<1>5. /\ \A d \in (initializing[t] \ pending) \ {c} : d \in initializing'[t] /\ d \notin pending'
      /\ \A d \in initializing'[t] \ pending' : d \in initializing[t] \ pending /\ d # c
      /\ status'[c] = "initialized" \/ c \in initializing'[t]
  BY <1>0, <1>3
<1> HIDE DEF s, n, r
<1>6. BodiesLast(t)'
  <2>1. \A i, j \in 1 .. n - 1 :
           r[i].at = "body" /\ r[j].at = "body" /\ r[i].cls = r[j].cls => i = j
    <3> TAKE i, j \in 1 .. n - 1
    <3> HAVE r[i].at = "body" /\ r[j].at = "body" /\ r[i].cls = r[j].cls
    <3>1. i + 1 \in 1 .. n /\ j + 1 \in 1 .. n /\ r[i] = s[i + 1] /\ r[j] = s[j + 1]
      BY <1>1, <1>3
    <3>2. i + 1 = j + 1
      BY <1>4, <3>1
    <3> QED BY <1>3, <3>2
  <2>2. \A d \in initializing'[t] \ pending' : \E i \in 1 .. n - 1 : r[i].cls = d /\ r[i].at = "body"
    <3> TAKE d \in initializing'[t] \ pending'
    <3>1. d \in initializing[t] \ pending /\ d # c
      BY <1>5
    <3>2. PICK k \in 1 .. n : s[k].cls = d /\ s[k].at = "body"
      BY <1>4, <3>1
    <3>3. k # 1
      BY <1>3, <3>1, <3>2
    <3>4. k - 1 \in 1 .. n - 1 /\ (k - 1) + 1 = k
      BY <1>3, <3>3
    <3>5. r[k - 1] = s[k]
      BY <1>1, <3>4
    <3> QED BY <3>2, <3>4, <3>5
  <2> QED BY <1>2, <2>1, <2>2 DEF BodiesLast, r
<1>7. \A i \in 1 .. n - 1 : r[i].at = "body" => r[i].cls # c
  <2> SUFFICES ASSUME NEW i \in 1 .. n - 1, r[i].at = "body", r[i].cls = c PROVE FALSE
    OBVIOUS
  <2>1. i + 1 \in 1 .. n /\ r[i] = s[i + 1] /\ 1 \in 1 .. n
    BY <1>1, <1>3
  <2>2. i + 1 = 1
    BY <1>3, <1>4, <2>1
  <2> QED BY <1>3, <2>2
<1>8. CallsNest(t)'
  BY <1>2, <1>5, <1>7 DEF CallsNest, r
<1>9. TopKnows(t)'
  <2> SUFFICES ASSUME r # <<>> PROVE TopKnows(t)'
    BY DEF TopKnows, r
  <2>1. Top(t)'.at \in {"claim", "body"} /\ Cls(t)' = Top(t)'.cls
    BY <1>2 DEF Cls
  <2>2. Done(t, c)'
    BY <1>5 DEF Done, Initialized
  <2>3. Top(t)'.at = "claim" => Done(t, superclass[Cls(t)])'
    <3> SUFFICES ASSUME Top(t)'.at = "claim" PROVE Done(t, superclass[Cls(t)])'
      OBVIOUS
    <3>1. superclass[Cls(t)'] = c
      BY <1>2, <2>1
    <3> QED BY <2>2, <3>1 DEF Done, Initialized
  <2> QED BY <2>1, <2>3 DEF TopKnows
<1>10. \A d \in Classes : ~Begins(t, d)'
  BY <1>2 DEF Begins, r
<1> QED BY <1>2, <1>6, <1>8, <1>9, <1>10 DEF r, n

\* A class that is in progress can end: what its end finishes with it is in progress on
\* the same thread, and is closed both ways.
LEMMA FinishedFacts ==
  ASSUME IInv, NEW t \in Threads, NEW c \in initializing[t]
  PROVE  /\ c \in Finished(c) /\ Finished(c) \subseteq pending \cup {c}
         /\ Finished(c) \subseteq initializing[t]
         /\ \A d \in pending : superclass[d] \in Finished(c) => d \in Finished(c)
         /\ \A d \in Finished(c) \ {c} : superclass[d] \in Finished(c)
<1> DEFINE closed == {S \in SUBSET (pending \cup {c}) :
                        c \in S /\ \A d \in pending : superclass[d] \in S => d \in S}
           F == Finished(c)
<1>1. F = {d \in pending \cup {c} : \A S \in closed : d \in S}
  BY DEF Finished
<1>2. \A S : S \in closed <=> /\ S \subseteq pending \cup {c} /\ c \in S
                              /\ \A d \in pending : superclass[d] \in S => d \in S
  OBVIOUS
<1> HIDE DEF closed, F
<1>3. c \in F /\ F \subseteq pending \cup {c}
  BY <1>1, <1>2
<1>4. \A d \in pending : superclass[d] \in F => d \in F
  BY <1>1, <1>2
<1>5. F \subseteq initializing[t]
  <2> DEFINE S == initializing[t] \cap (pending \cup {c})
  <2>1. ASSUME NEW d \in pending, superclass[d] \in S PROVE d \in S
    <3>1. PICK u \in Threads : {d, superclass[d]} \subseteq initializing[u]
      BY DEF IInv, PendingBelow
    <3>2. InProgress(u) /\ superclass[d] \in initializing[t]
      BY <2>1 DEF IInv
    <3>3. u = t
      BY <3>1, <3>2 DEF InProgress
    <3> QED BY <3>1, <3>3
  <2>2. S \in closed
    BY <1>2, <2>1
  <2> QED BY <1>1, <2>2
<1>6. \A d \in F \ {c} : superclass[d] \in F
  <2> SUFFICES ASSUME NEW d \in F \ {c}, superclass[d] \notin F PROVE FALSE
    OBVIOUS
  <2> DEFINE S == F \ {d}
  <2>1. ASSUME NEW e \in pending, superclass[e] \in S PROVE e \in S
    BY <1>4, <2>1
  <2>2. S \in closed
    BY <1>2, <1>3, <2>1
  <2> QED BY <1>1, <2>2
<1> QED BY <1>3, <1>4, <1>5, <1>6 DEF F

\* lockAndFinishInitializing, with the superclass finished and with it in progress.
LEMMA FinishKeeps ==
  ASSUME IInv, NEW t \in Threads, stack[t] # <<>>, Top(t).at = "body",
         Finish(t), Return(t), sent' = sent,
         throwing' \in [Threads -> BOOLEAN],
         \A u \in Threads \ {t} : throwing'[u] = throwing[u],
         throwing'[t] => Len(stack[t]) > 1
  PROVE  IInv'
<1>0. /\ TypeOK /\ Subtree /\ PendingBelow /\ halted = "no" /\ InProgress(t)
      /\ \A d \in sent : status[d] # "none"
  BY DEF IInv
<1>1. PICK c \in Classes : c = Cls(t)
  BY <1>0, TopFacts
<1>2. c \in initializing[t] /\ c \notin pending
  BY <1>1, Frames
<1>3. /\ status[c] = "initializing" /\ Done(t, superclass[c])
      /\ \A u \in Threads : c \in initializing[u] => u = t
  BY <1>0, <1>2 DEF InProgress
<1>4. Popped(t)
  BY <1>0, ReplacedByNone DEF Return
<1>5. stack' \in [Threads -> Seq(Frame)] /\ Same(t)
  BY <1>4 DEF Popped
<1>6. initializing \in [Threads -> SUBSET Classes] /\ pending \subseteq Classes
      /\ status \in [Classes -> Status] /\ waiters \subseteq Threads /\ sent \subseteq Classes
      /\ superclass \in [Classes -> Classes \cup {NoClass}] /\ NoClass \notin Classes
  BY <1>0, HierarchyAssumption DEF TypeOK
<1>7. \A u \in Threads \ {t}, d \in Classes : Begins(u, d) =>
        status[d] = "initializing" /\ d \notin sent /\ d \notin initializing[t]
  BY DEF IInv, TopKnows, Begins
<1>8. \A u \in Threads \ {t} : \A d \in initializing[u] :
        d \in Classes /\ status[d] = "initializing" /\ d \notin initializing[t]
  BY <1>6 DEF IInv, InProgress
<1>9. CASE ~MayFinish(c)
  <2>1. pending' = pending \cup {c} /\ UNCHANGED <<status, initializing, waiters, halted>>
    BY <1>1, <1>9 DEF Finish
  <2>2. superclass[c] \in initializing[t]
    BY <1>3, <1>9 DEF Done, MayFinish
  <2>3. /\ CallsNest(t)' /\ BodiesLast(t)' /\ TopKnows(t)'
        /\ \A d \in Classes : ~Begins(t, d)'
        /\ stack'[t] # <<>> <=> Len(stack[t]) > 1
    <3>1. \A d \in (initializing[t] \ pending) \ {Cls(t)} : d \in initializing'[t] /\ d \notin pending'
      BY <1>1, <2>1
    <3>2. \A d \in initializing'[t] \ pending' : d \in initializing[t] \ pending /\ d # Cls(t)
      BY <1>1, <2>1
    <3>3. Cls(t) \in initializing'[t]
      BY <1>1, <1>2, <2>1
    <3> QED BY <1>4, <3>1, <3>2, <3>3, BodyGone
  <2>4. TypeOK'
    BY <1>5, <1>6, <2>1 DEF TypeOK
  <2>5. Subtree' /\ halted' = "no" /\ \A d \in sent' : status'[d] # "none"
    BY <1>0, <2>1 DEF Subtree
  <2>6. PendingBelow'
    <3>1. \A d \in pending \cup {c} : \E u \in Threads : {d, superclass[d]} \subseteq initializing[u]
      BY <1>0, <1>2, <2>2 DEF PendingBelow
    <3> QED BY <2>1, <3>1 DEF PendingBelow
  <2>7. InProgress(t)'
    BY <1>0, <2>1 DEF InProgress, Done, Initialized
  <2>8. \A u \in Threads \ {t}, d \in Classes : Begins(u, d) =>
           /\ status'[d] = "initializing" /\ d \notin sent'
           /\ d \notin initializing'[t] /\ ~Begins(t, d)'
    BY <1>7, <2>1, <2>3
  <2>9. \A u \in Threads \ {t} : \A d \in initializing[u] :
           /\ d \in pending' <=> d \in pending
           /\ status'[d] = "initializing" /\ d \notin initializing'[t]
    BY <1>2, <1>8, <2>1
  <2>10. /\ status' \in [Classes -> Status] /\ initializing' \in [Threads -> SUBSET Classes]
         /\ \A u \in Threads \ {t} : initializing'[u] = initializing[u]
         /\ \A d \in Classes : /\ status[d] = "initialized" => status'[d] = "initialized"
                               /\ status[d] # "none" => status'[d] # "none"
    BY <1>6, <2>1
  <2>11. \A u \in Threads \ {t} :
           CallsNest(u)' /\ BodiesLast(u)' /\ TopKnows(u)' /\ InProgress(u)'
           /\ (throwing'[u] => stack'[u] # <<>>)
    BY <1>5, <2>8, <2>9, <2>10, Others
  <2>12. \A u \in Threads : CallsNest(u)' /\ BodiesLast(u)' /\ TopKnows(u)' /\ InProgress(u)'
                            /\ (throwing'[u] => stack'[u] # <<>>)
    BY <2>3, <2>7, <2>11
  <2> QED BY <2>4, <2>5, <2>6, <2>12 DEF IInv
<1>10. CASE MayFinish(c)
  <2> DEFINE F == Finished(c)
  <2>1. /\ c \in F /\ F \subseteq pending \cup {c} /\ F \subseteq initializing[t]
        /\ \A d \in pending : superclass[d] \in F => d \in F
        /\ \A d \in F \ {c} : superclass[d] \in F
    BY <1>2, FinishedFacts
  <2>2. /\ status' = [d \in Classes |-> IF d \in F THEN "initialized" ELSE status[d]]
        /\ initializing' = [initializing EXCEPT ![t] = initializing[t] \ F]
        /\ pending' = pending \ F
        /\ waiters' \subseteq waiters
        /\ halted' = IF F \subseteq initializing[t] THEN "no" ELSE "not initializing"
    BY <1>1, <1>10 DEF Finish
  <2> HIDE DEF F
  <2>3. /\ status' \in [Classes -> Status]
        /\ \A d \in F : status'[d] = "initialized" /\ status[d] = "initializing" /\ d \in Classes
        /\ \A d \in Classes \ F : status'[d] = status[d]
    BY <1>0, <1>6, <2>1, <2>2 DEF Status, InProgress
  <2>4. /\ initializing' \in [Threads -> SUBSET Classes] /\ initializing'[t] = initializing[t] \ F
        /\ \A u \in Threads \ {t} : initializing'[u] = initializing[u]
    BY <1>6, <2>2
  <2>5. \A d \in Classes : /\ status[d] = "initialized" => status'[d] = "initialized"
                           /\ status[d] # "none" <=> status'[d] # "none"
    BY <2>3
  <2>6. /\ CallsNest(t)' /\ BodiesLast(t)' /\ TopKnows(t)'
        /\ \A d \in Classes : ~Begins(t, d)'
        /\ stack'[t] # <<>> <=> Len(stack[t]) > 1
    <3>1. \A d \in (initializing[t] \ pending) \ {Cls(t)} : d \in initializing'[t] /\ d \notin pending'
      BY <1>1, <2>1, <2>2, <2>4
    <3>2. \A d \in initializing'[t] \ pending' : d \in initializing[t] \ pending /\ d # Cls(t)
      BY <1>1, <2>1, <2>2, <2>4
    <3>3. status'[Cls(t)] = "initialized"
      BY <1>1, <2>1, <2>3
    <3> QED BY <1>4, <3>1, <3>2, <3>3, BodyGone
  <2>7. TypeOK'
    BY <1>5, <1>6, <2>2, <2>3, <2>4 DEF TypeOK
  <2>8. Subtree'
    <3> SUFFICES ASSUME NEW d \in Classes, superclass[d] # NoClass
                 PROVE  /\ status'[d] # "none" => status'[superclass[d]] # "none"
                        /\ status'[d] = "initialized" => status'[superclass[d]] = "initialized"
      BY DEF Subtree
    <3>1. /\ superclass[d] \in Classes
          /\ status[d] # "none" => status[superclass[d]] # "none"
          /\ status[d] = "initialized" => status[superclass[d]] = "initialized"
      BY <1>0, <1>6 DEF Subtree
    <3>2. status'[d] # "none" => status'[superclass[d]] # "none"
      BY <2>5, <3>1
    <3>3. CASE d = c
      BY <1>10, <2>5, <3>1, <3>2, <3>3 DEF MayFinish, Initialized
    <3>4. CASE d \in F \ {c}
      BY <2>1, <2>3, <3>2, <3>4
    <3>5. CASE d \notin F
      BY <2>3, <2>5, <3>1, <3>2, <3>5
    <3> QED BY <3>3, <3>4, <3>5
  <2>9. halted' = "no" /\ \A d \in sent' : status'[d] # "none"
    BY <1>0, <1>6, <2>1, <2>2, <2>5
  <2>10. PendingBelow'
    <3> SUFFICES ASSUME NEW d \in pending, d \notin F
                 PROVE  \E u \in Threads : {d, superclass[d]} \subseteq initializing'[u]
      BY <2>2 DEF PendingBelow
    <3>1. PICK u \in Threads : {d, superclass[d]} \subseteq initializing[u]
      BY <1>0 DEF PendingBelow
    <3>2. superclass[d] \notin F
      BY <2>1
    <3>3. {d, superclass[d]} \subseteq initializing'[u]
      BY <2>4, <3>1, <3>2
    <3> QED BY <3>3
  <2>11. InProgress(t)'
    <3> SUFFICES ASSUME NEW d \in initializing'[t]
                 PROVE  /\ status'[d] = "initializing" /\ Done(t, superclass[d])'
                        /\ \A u \in Threads : d \in initializing'[u] => u = t
      BY DEF InProgress
    <3>1. d \in initializing[t] /\ d \notin F /\ d \in Classes
      BY <1>6, <2>4
    <3>2. /\ status[d] = "initializing" /\ Done(t, superclass[d])
          /\ \A u \in Threads : d \in initializing[u] => u = t
      BY <1>0, <3>1 DEF InProgress
    <3>3. Done(t, superclass[d])'
      BY <2>3, <2>4, <2>5, <3>2 DEF Done, Initialized
    <3>4. \A u \in Threads : d \in initializing'[u] => u = t
      BY <2>4, <3>2
    <3> QED BY <2>3, <3>1, <3>2, <3>3, <3>4
  <2>12. \A u \in Threads \ {t}, d \in Classes : Begins(u, d) =>
           /\ status'[d] = "initializing" /\ d \notin sent'
           /\ d \notin initializing'[t] /\ ~Begins(t, d)'
    <3> TAKE u \in Threads \ {t}, d \in Classes
    <3> HAVE Begins(u, d)
    <3>1. status[d] = "initializing" /\ d \notin sent /\ d \notin initializing[t]
      BY <1>7
    <3>2. d \notin F
      BY <2>1, <3>1
    <3> QED BY <2>3, <2>4, <2>6, <3>1, <3>2
  <2>13. \A u \in Threads \ {t} : \A d \in initializing[u] :
           /\ d \in pending' <=> d \in pending
           /\ status'[d] = "initializing" /\ d \notin initializing'[t]
    <3> TAKE u \in Threads \ {t}
    <3> TAKE d \in initializing[u]
    <3>1. d \in Classes /\ status[d] = "initializing" /\ d \notin initializing[t]
      BY <1>8
    <3>2. d \notin F
      BY <2>1, <3>1
    <3> QED BY <2>2, <2>3, <2>4, <3>1, <3>2
  <2>14. \A u \in Threads \ {t} : initializing'[u] = initializing[u] /\ throwing'[u] = throwing[u]
    BY <2>4
  <2>15. \A d \in Classes : /\ status[d] = "initialized" => status'[d] = "initialized"
                            /\ status[d] # "none" => status'[d] # "none"
    BY <2>5
  <2>16. \A u \in Threads \ {t} :
           CallsNest(u)' /\ BodiesLast(u)' /\ TopKnows(u)' /\ InProgress(u)'
           /\ (throwing'[u] => stack'[u] # <<>>)
    BY <1>5, <2>3, <2>4, <2>12, <2>13, <2>14, <2>15, Others
  <2>17. \A u \in Threads : CallsNest(u)' /\ BodiesLast(u)' /\ TopKnows(u)' /\ InProgress(u)'
                            /\ (throwing'[u] => stack'[u] # <<>>)
    BY <2>6, <2>11, <2>16
  <2> QED BY <2>7, <2>8, <2>9, <2>10, <2>17 DEF IInv
<1> QED BY <1>9, <1>10

LEMMA EndInitializeKeeps ==
  ASSUME IInv, NEW t \in Threads, EndInitialize(t)
  PROVE  IInv'
<1>1. stack[t] # <<>> /\ Top(t).at = "body"
  BY AtFacts DEF EndInitialize
<1>2. Finish(t) /\ Return(t) /\ sent' = sent
  BY DEF EndInitialize
<1>3. PICK thrown \in BOOLEAN : throwing' = [throwing EXCEPT ![t] = thrown /\ Unwinding(t)]
  BY DEF EndInitialize
<1>4. throwing \in [Threads -> BOOLEAN]
  BY DEF IInv, TypeOK
<1>5. /\ throwing' \in [Threads -> BOOLEAN]
      /\ \A u \in Threads \ {t} : throwing'[u] = throwing[u]
      /\ throwing'[t] => Len(stack[t]) > 1
  BY <1>3, <1>4 DEF Unwinding
<1> QED BY <1>1, <1>2, <1>5, FinishKeeps

LEMMA UnwindBodyKeeps ==
  ASSUME IInv, NEW t \in Threads, UnwindBody(t)
  PROVE  IInv'
<1>0. TypeOK /\ CallsNest(t) /\ BodiesLast(t) /\ throwing \in [Threads -> BOOLEAN]
  BY DEF IInv, TypeOK
<1>1. stack[t] # <<>> /\ Top(t).at = "body" /\ sent' = sent
  BY DEF UnwindBody, Running
<1>2. CASE /\ throwing' = [throwing EXCEPT ![t] = FALSE]
           /\ UNCHANGED <<status, initializing, pending, waiters, stack, halted>>
  <2>1. /\ throwing' \in [Threads -> BOOLEAN] /\ ~throwing'[t]
        /\ \A u \in Threads \ {t} : throwing'[u] = throwing[u]
    BY <1>0, <1>2
  <2>2. /\ stack' \in [Threads -> Seq(Frame)] /\ Same(t) /\ waiters' \subseteq Threads
        /\ UNCHANGED <<status, initializing, pending, sent, halted>>
    BY <1>0, <1>1, <1>2 DEF TypeOK, Same
  <2>3. CallsNest(t)' /\ BodiesLast(t)'
    BY <1>0, <1>2 DEF CallsNest, BodiesLast
  <2>4. Top(t)' = Top(t) /\ stack'[t] = stack[t]
    BY <1>2 DEF Top
  <2>5. TopKnows(t)' /\ \A d \in Classes : Begins(t, d)' => Begins(t, d)
    BY <1>1, <2>1, <2>4 DEF TopKnows, Begins
  <2> QED BY <2>1, <2>2, <2>3, <2>5, Quiet
<1>3. CASE /\ Finish(t) /\ Return(t)
           /\ throwing' = [throwing EXCEPT ![t] = Unwinding(t)]
  <2>1. /\ throwing' \in [Threads -> BOOLEAN]
        /\ \A u \in Threads \ {t} : throwing'[u] = throwing[u]
        /\ throwing'[t] => Len(stack[t]) > 1
    <3>1. Unwinding(t) \in BOOLEAN /\ (Unwinding(t) => Len(stack[t]) > 1)
      BY DEF Unwinding
    <3> QED BY <1>0, <1>3, <3>1
  <2> QED BY <1>1, <1>3, <2>1, FinishKeeps
<1> QED BY <1>2, <1>3 DEF UnwindBody

-----------------------------------------------------------------------------
\* The invariant holds at the start ...
LEMMA InitHolds == Init => IInv
<1> SUFFICES ASSUME Init PROVE IInv
  OBVIOUS
<1>1. \A t \in Threads : stack[t] = <<>> /\ ~throwing[t] /\ initializing[t] = {}
  BY DEF Init
<1>2. TypeOK
  BY DEF Init, TypeOK, Status
<1>3. Subtree
  BY HierarchyAssumption DEF Init, Subtree
<1>4. \A t \in Threads : CallsNest(t) /\ BodiesLast(t) /\ TopKnows(t) /\ InProgress(t)
  <2> TAKE t \in Threads
  <2>1. DOMAIN stack[t] = {}
    BY <1>1
  <2> QED BY <1>1, <2>1 DEF CallsNest, BodiesLast, TopKnows, InProgress
<1> QED BY <1>1, <1>2, <1>3, <1>4 DEF IInv, Init, PendingBelow

\* ... and every step keeps it.
LEMMA NextKeeps == IInv /\ [Next]_vars => IInv'
<1> SUFFICES ASSUME IInv, [Next]_vars PROVE IInv'
  OBVIOUS
<1>1. CASE UNCHANGED vars
  <2>1. UNCHANGED <<status, initializing, pending, waiters, stack, throwing, sent, halted>>
    BY <1>1 DEF vars
  <2>2. TypeOK' /\ Subtree' /\ PendingBelow' /\ halted' = "no" /\ \A c \in sent' : status'[c] # "none"
    BY <2>1 DEF IInv, TypeOK, Subtree, PendingBelow
  <2>3. \A u \in Threads : CallsNest(u)' /\ BodiesLast(u)' /\ InProgress(u)'
    BY <2>1 DEF IInv, CallsNest, BodiesLast, InProgress, Done, Initialized
  <2>4. \A u \in Threads : TopKnows(u)' /\ (throwing'[u] => stack'[u] # <<>>)
    BY <2>1 DEF IInv, TopKnows, Done, Initialized, Top, Cls, Begins
  <2> QED BY <2>2, <2>3, <2>4 DEF IInv
<1>2. ASSUME NEW t \in Threads, NEW c \in Classes, Message(t, c) PROVE IInv'
  BY <1>2, MessageKeeps
<1>3. ASSUME NEW t \in Threads, Step(t) PROVE IInv'
  <2>1. CASE SuperFirst(t)
    BY <2>1, SuperFirstKeeps
  <2>2. CASE Claim(t)
    BY <2>2, ClaimKeeps
  <2>3. CASE BeginInitialize(t)
    BY <2>3, BeginInitializeKeeps
  <2>4. CASE CheckInitializing(t)
    BY <2>4, CheckInitializingKeeps
  <2>5. CASE CheckInitialized(t)
    BY <2>5, CheckInitializedKeeps
  <2>6. CASE WaitForInitializeToComplete(t)
    BY <2>6, WaitKeeps
  <2>7. ASSUME NEW c \in Classes, BodyMessage(t, c) PROVE IInv'
    BY <2>7, BodyMessageKeeps
  <2>8. CASE EndInitialize(t)
    BY <2>8, EndInitializeKeeps
  <2>9. CASE Unwind(t)
    BY <2>9, UnwindKeeps
  <2>10. CASE UnwindBody(t)
    BY <2>10, UnwindBodyKeeps
  <2> QED BY <1>3, <2>1, <2>2, <2>3, <2>4, <2>5, <2>6, <2>7, <2>8, <2>9, <2>10 DEF Step
<1>4. ASSUME NEW t \in Threads, SpuriousWakeup(t) PROVE IInv'
  BY <1>4, SpuriousWakeupKeeps
<1> QED BY <1>1, <1>2, <1>3, <1>4 DEF Next

\* The invariant above holds in every state of every execution: of any set of threads,
\* any hierarchy and any messages of the +initialize methods.
THEOREM Invariance == Spec => []IInv
<1>1. Init => IInv
  BY InitHolds
<1>2. IInv /\ [Next]_vars => IInv'
  BY NextKeeps
<1> QED BY <1>1, <1>2, PTL DEF Spec

\* The invariant says what HierarchySound says.
LEMMA InvariantHierarchy == IInv => HierarchySound
<1> SUFFICES ASSUME IInv PROVE HierarchySound
  OBVIOUS
<1>1. ContiguousSubtree
  <2>1. \A t \in Threads : \A c \in initializing[t] :
          Initialized(superclass[c]) \/ superclass[c] \in initializing[t]
    BY DEF IInv, InProgress, Done
  <2> QED BY <2>1 DEF IInv, Subtree, ContiguousSubtree
<1>2. PendingWithSuperclass
  <2>1. \A t \in Threads : \A c \in initializing[t] :
          c \in pending <=> ~\E i \in DOMAIN stack[t] : stack[t][i].cls = c /\ stack[t][i].at = "body"
    <3> TAKE t \in Threads
    <3> TAKE c \in initializing[t]
    <3>1. CallsNest(t) /\ BodiesLast(t)
      BY DEF IInv
    <3>2. c \in pending =>
            ~\E i \in DOMAIN stack[t] : stack[t][i].cls = c /\ stack[t][i].at = "body"
      BY <3>1 DEF CallsNest
    <3>3. c \notin pending =>
            \E i \in DOMAIN stack[t] : stack[t][i].cls = c /\ stack[t][i].at = "body"
      BY <3>1 DEF BodiesLast
    <3> QED BY <3>2, <3>3
  <2> QED BY <2>1 DEF IInv, PendingBelow, PendingWithSuperclass
<1>3. NoFatal
  BY DEF IInv, NoFatal
<1> QED BY <1>1, <1>2, <1>3 DEF HierarchySound

\* The begun part and the finished part of the hierarchy each start at the root, the
\* pending map holds exactly the classes that wait for a superclass in progress on the
\* same thread, and no _objc_fatal of objc-initialize.mm is reached.
THEOREM Hierarchy == Spec => []HierarchySound
<1>1. Spec => []IInv
  BY Invariance
<1>2. IInv => HierarchySound
  BY InvariantHierarchy
<1> QED BY <1>1, <1>2, PTL

\* A step that sends +initialize: only BeginInitialize does, and only Finish takes
\* classes off a thread's list.
LEMMA StepSends ==
  ASSUME IInv, [Next]_vars
  PROVE  /\ \A c \in Classes \ sent : c \in sent' =>
              \E t \in Threads :
                /\ c \in initializing'[t]
                /\ Initialized(superclass[c]) \/ superclass[c] \in initializing[t]
         /\ \A t \in Threads : \A c \in Classes :
              c \in initializing'[t] \ initializing[t] => c \notin sent
<1> DEFINE Goal == /\ \A c \in Classes \ sent : c \in sent' =>
                        \E t \in Threads :
                          /\ c \in initializing'[t]
                          /\ Initialized(superclass[c]) \/ superclass[c] \in initializing[t]
                   /\ \A t \in Threads : \A c \in Classes :
                        c \in initializing'[t] \ initializing[t] => c \notin sent
<1>0. initializing \in [Threads -> SUBSET Classes]
  BY DEF IInv, TypeOK
<1>1. ASSUME sent' = sent, initializing' = initializing PROVE Goal
  BY <1>1
<1>2. ASSUME NEW t \in Threads, BeginInitialize(t) PROVE Goal
  <2>1. stack[t] # <<>> /\ Top(t).at = "begin" /\ TopKnows(t)
    BY <1>2, AtFacts DEF BeginInitialize, IInv
  <2>2. PICK c : c = Cls(t)
    OBVIOUS
  <2>3. c \notin sent /\ Done(t, superclass[c]) /\ c \notin initializing[t]
    BY <2>1, <2>2 DEF TopKnows
  <2>4. /\ initializing' = [initializing EXCEPT ![t] = initializing[t] \cup {c}]
        /\ sent' = sent \cup {c}
    BY <1>2, <2>2, <2>3 DEF BeginInitialize
  <2>5. c \in initializing'[t]
    BY <1>0, <2>4
  <2> QED BY <1>0, <2>3, <2>4, <2>5 DEF Done
<1>3. ASSUME NEW t \in Threads, Finish(t), sent' = sent PROVE Goal
  <2>1. \A u \in Threads : initializing'[u] \subseteq initializing[u]
    <3>1. PICK F : initializing' = initializing \/ initializing' = [initializing EXCEPT ![t] = @ \ F]
      BY <1>3 DEF Finish
    <3> QED BY <1>0, <3>1
  <2> QED BY <1>3, <2>1
<1> HIDE DEF Goal
<1> SUFFICES Goal
  BY DEF Goal
<1>4. ASSUME NEW t \in Threads, Step(t) PROVE Goal
  <2>1. CASE BeginInitialize(t)
    BY <1>2, <2>1
  <2>2. CASE EndInitialize(t)
    BY <1>3, <2>2 DEF EndInitialize
  <2>3. CASE UnwindBody(t)
    BY <1>1, <1>3, <2>3 DEF UnwindBody
  <2>4. CASE \/ SuperFirst(t) \/ Claim(t) \/ CheckInitializing(t) \/ WaitForInitializeToComplete(t)
             \/ (\E c \in Classes : BodyMessage(t, c)) \/ Unwind(t)
    BY <1>1, <2>4 DEF SuperFirst, Claim, CheckInitializing, WaitForInitializeToComplete,
                      BodyMessage, Unwind
  <2>5. CASE CheckInitialized(t)
    BY <1>1, <2>5 DEF CheckInitialized, Halt
  <2> QED BY <1>4, <2>1, <2>2, <2>3, <2>4, <2>5 DEF Step
<1>5. ASSUME NEW t \in Threads, (\E c \in Classes : Message(t, c)) \/ SpuriousWakeup(t) PROVE Goal
  BY <1>1, <1>5 DEF Message, SpuriousWakeup
<1>6. CASE UNCHANGED vars
  BY <1>1, <1>6 DEF vars
<1>7. CASE Next
  <2>1. PICK t \in Threads : (\E c \in Classes : Message(t, c)) \/ Step(t) \/ SpuriousWakeup(t)
    BY <1>7 DEF Next
  <2> QED BY <1>4, <1>5, <2>1
<1> QED BY <1>6, <1>7

\* +initialize is sent once to a class, after its superclass was initialized or while
\* that is in progress on the same thread.
THEOREM SentOnce == Spec => InitializeOnceSuperFirst
<1>1. Spec => []IInv
  BY Invariance
<1>2. ASSUME IInv, [Next]_vars
      PROVE  /\ [\A c \in Classes \ sent : c \in sent' =>
                   \E t \in Threads :
                     /\ c \in initializing'[t]
                     /\ Initialized(superclass[c]) \/ superclass[c] \in initializing[t]]_vars
             /\ [\A t \in Threads : \A c \in Classes :
                   c \in initializing'[t] \ initializing[t] => c \notin sent]_vars
  BY <1>2, StepSends
<1> QED BY <1>1, <1>2, PTL DEF Spec, InitializeOnceSuperFirst

\* A step after which a thread has fewer calls, with no exception: one of those where
\* a call returns.
LEMMA StepProceeds ==
  ASSUME IInv, [Next]_vars, NEW t \in Threads, NEW c \in Classes,
         Len(stack'[t]) < Len(stack[t]), Cls(t) = c, ~throwing[t], ~throwing'[t]
  PROVE  status'[c] = "initialized" \/ c \in initializing'[t]
<1> DEFINE Goal == status'[c] = "initialized" \/ c \in initializing'[t]
<1>0. TypeOK /\ InProgress(t) /\ TopKnows(t) /\ Len(stack[t]) \in Nat /\ stack \in [Threads -> Seq(Frame)]
      /\ initializing \in [Threads -> SUBSET Classes] /\ status \in [Classes -> Status]
      /\ stack[t] \in Seq(Frame)
  BY TopFacts DEF IInv, TypeOK
<1>1. stack'[t] # stack[t]
  BY <1>0
<1>2. stack[t] # <<>>
  <2>1. ASSUME stack[t] = <<>> PROVE FALSE
    <3>1. ASSUME NEW u \in Threads, Step(u) PROVE FALSE
      <4>1. u # t
        BY <2>1, <3>1 DEF Step, SuperFirst, Claim, BeginInitialize, CheckInitializing,
             CheckInitialized, WaitForInitializeToComplete, BodyMessage, EndInitialize, Unwind,
             UnwindBody, At, Running
      <4>2. stack'[t] = stack[t]
        BY <1>0, <3>1, <4>1 DEF Step, SuperFirst, Claim, BeginInitialize, CheckInitializing,
             CheckInitialized, WaitForInitializeToComplete, BodyMessage, EndInitialize, Unwind,
             UnwindBody, Become, Return, Replace, Halt
      <4> QED BY <1>1, <4>2
    <3>2. ASSUME NEW u \in Threads, NEW d \in Classes, Message(u, d) PROVE FALSE
      <4>1. u = t
        BY <1>0, <1>1, <3>2 DEF Message
      <4>2. stack'[t] = <<Call(d)>>
        BY <1>0, <3>2, <4>1 DEF Message
      <4> QED BY <2>1, <4>2
    <3>3. ASSUME NEW u \in Threads, SpuriousWakeup(u) PROVE FALSE
      BY <1>1, <3>3 DEF SpuriousWakeup
    <3>4. CASE UNCHANGED vars
      BY <1>1, <3>4 DEF vars
    <3> QED BY <3>1, <3>2, <3>3, <3>4 DEF Next
  <2> QED BY <2>1
<1>3. ASSUME NEW f \in Frame, Became(t, f) PROVE FALSE
  BY <1>0, <1>3 DEF Became
<1>4. ASSUME NEW g \in Frame, NEW f \in Frame, Pushed(t, g, f) PROVE FALSE
  BY <1>0, <1>4 DEF Pushed
<1>5. Top(t) \in Frame /\ Top(t).cls = c
  BY <1>0, <1>2, TopFacts DEF Cls
<1> DEFINE labels == {"super", "claim", "check", "checked", "begin", "body", "wait"}
<1>6. ASSUME NEW label \in labels, Become(t, label) PROVE FALSE
  BY <1>0, <1>2, <1>3, <1>6, BecomeFacts
<1> HIDE DEF Goal
<1> SUFFICES Goal
  BY DEF Goal
<1>7. ASSUME NEW u \in Threads, Step(u) PROVE Goal
  <2>1. u = t
    BY <1>0, <1>1, <1>7 DEF Step, SuperFirst, Claim, BeginInitialize, CheckInitializing,
         CheckInitialized, WaitForInitializeToComplete, BodyMessage, EndInitialize, Unwind,
         UnwindBody, Become, Return, Replace, Halt
  <2>2. Step(t)
    BY <1>7, <2>1
  <2>3. CASE SuperFirst(t)
    <3> DEFINE f == [Top(t) EXCEPT !.at = "claim"]
               super == superclass[Cls(t)]
    <3>1. f \in Frame
      BY <1>5, FrameAt
    <3>2. Replace(t, (IF Initialized(super) THEN <<>> ELSE <<Call(super)>>) \o <<f>>)
      BY <2>3 DEF SuperFirst
    <3>3. super \in Classes \cup {NoClass}
      BY HierarchyAssumption
    <3> HIDE DEF f, super
    <3>4. CASE Initialized(super)
      <4>1. <<>> \o <<f>> = <<f>>
        OBVIOUS
      <4>2. Replace(t, <<f>>)
        BY <3>2, <3>4, <4>1
      <4> QED BY <1>0, <1>2, <1>3, <3>1, <4>2, ReplacedByOne
    <3>5. CASE ~Initialized(super)
      <4>1. Call(super) \in Frame
        BY <3>5, NewCall DEF Initialized
      <4>2. Replace(t, <<Call(super)>> \o <<f>>)
        BY <3>2, <3>5
      <4> QED BY <1>0, <1>2, <1>4, <3>1, <4>1, <4>2, ReplacedByTwo
    <3> QED BY <3>4, <3>5
  <2>4. ASSUME NEW d \in Classes, BodyMessage(t, d) PROVE Goal
    <3> DEFINE f == [Top(t) EXCEPT !.todo = @ \ {d}]
               g == Call(d)
    <3>1. f \in Frame /\ g \in Frame
      BY <1>5, NewCall DEF Frame
    <3>2. Replace(t, (IF Initialized(d) THEN <<>> ELSE <<g>>) \o <<f>>)
      BY <2>4 DEF BodyMessage
    <3> HIDE DEF f, g
    <3>3. CASE Initialized(d)
      <4>1. <<>> \o <<f>> = <<f>>
        OBVIOUS
      <4>2. Replace(t, <<f>>)
        BY <3>2, <3>3, <4>1
      <4> QED BY <1>0, <1>2, <1>3, <3>1, <4>2, ReplacedByOne
    <3>4. CASE ~Initialized(d)
      <4>1. Replace(t, <<g>> \o <<f>>)
        BY <3>2, <3>4
      <4> QED BY <1>0, <1>2, <1>4, <3>1, <4>1, ReplacedByTwo
    <3> QED BY <3>3, <3>4
  <2>5. CASE Claim(t)
    <3>1. Become(t, "begin") \/ Become(t, "check")
      BY <2>5 DEF Claim
    <3> QED BY <1>6, <3>1
  <2>6. CASE BeginInitialize(t)
    <3>1. Become(t, "body") \/ stack' = stack
      BY <2>6 DEF BeginInitialize, Halt
    <3> QED BY <1>1, <1>6, <3>1
  <2>7. CASE CheckInitializing(t)
    <3>1. \/ Become(t, "checked") \/ Become(t, "wait")
          \/ c \in initializing[t] /\ initializing' = initializing
      BY <2>7 DEF CheckInitializing
    <3>2. CASE c \in initializing[t] /\ initializing' = initializing
      BY <3>2 DEF Goal
    <3> QED BY <1>6, <3>1, <3>2
  <2>8. CASE CheckInitialized(t)
    <3>1. (Initialized(c) /\ status' = status) \/ stack' = stack
      BY <2>8 DEF CheckInitialized, Halt
    <3> QED BY <1>1, <3>1 DEF Initialized, Goal
  <2>9. CASE WaitForInitializeToComplete(t)
    <3>1. (Initialized(c) /\ status' = status) \/ stack' = stack
      BY <2>9 DEF WaitForInitializeToComplete
    <3> QED BY <1>1, <3>1 DEF Initialized, Goal
  <2>10. CASE EndInitialize(t)
    <3>1. Finish(t) /\ Top(t).at = "body"
      BY <2>10, AtFacts DEF EndInitialize
    <3>2. c \in initializing[t]
      BY <1>2, <3>1, Frames
    <3>3. CASE ~MayFinish(c)
      BY <3>1, <3>2, <3>3 DEF Finish, Goal
    <3>4. CASE MayFinish(c)
      <4>1. c \in Finished(c)
        BY <3>2, FinishedFacts
      <4>2. status' = [d \in Classes |-> IF d \in Finished(c) THEN "initialized" ELSE status[d]]
        BY <3>1, <3>4 DEF Finish
      <4> QED BY <4>1, <4>2 DEF Goal
    <3> QED BY <3>3, <3>4
  <2>11. CASE Unwind(t) \/ UnwindBody(t)
    BY <2>11 DEF Unwind, UnwindBody
  <2> QED BY <2>2, <2>3, <2>4, <2>5, <2>6, <2>7, <2>8, <2>9, <2>10, <2>11 DEF Step
<1>8. ASSUME NEW u \in Threads, NEW d \in Classes, Message(u, d) PROVE FALSE
  BY <1>0, <1>1, <1>2, <1>8 DEF Message
<1>9. ASSUME NEW u \in Threads, SpuriousWakeup(u) PROVE FALSE
  BY <1>1, <1>9 DEF SpuriousWakeup
<1>10. CASE UNCHANGED vars
  BY <1>1, <1>10 DEF vars
<1>11. CASE Next
  <2>1. PICK u \in Threads : (\E d \in Classes : Message(u, d)) \/ Step(u) \/ SpuriousWakeup(u)
    BY <1>11 DEF Next
  <2> QED BY <1>7, <1>8, <1>9, <2>1
<1> QED BY <1>10, <1>11

\* A message goes through only once the class is initialized or is in progress on the
\* sender's own thread.
THEOREM Proceeds == Spec => ProceedsWhenSafe
<1>1. Spec => []IInv
  BY Invariance
<1>2. ASSUME IInv, [Next]_vars
      PROVE  [\A t \in Threads : \A c \in Classes :
                (Len(stack'[t]) < Len(stack[t]) /\ Cls(t) = c /\ ~throwing[t] /\ ~throwing'[t])
                  => status'[c] = "initialized" \/ c \in initializing'[t]]_vars
  BY <1>2, StepProceeds
<1> QED BY <1>1, <1>2, PTL DEF Spec, ProceedsWhenSafe
=============================================================================
