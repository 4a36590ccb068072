-------------------------- MODULE ClassInitialize --------------------------
(***************************************************************************)
(* +initialize (objc-initialize.mm): threads message classes, a class that *)
(* is not initialized is initialized by the first thread that gets there,  *)
(* superclass first, and the others wait on the classInitLock monitor.     *)
(*                                                                         *)
(* A critical section of the monitor is one step, and so is every test of  *)
(* the state made outside it. Each thread has a stack of calls of          *)
(* initializeNonMetaClass: a class's +initialize may message more classes, *)
(* and may throw. MultithreadedForkChild is never set in this repository,  *)
(* so the branches it guards are left out.                                 *)
(***************************************************************************)
EXTENDS Naturals, FiniteSets, Sequences

CONSTANTS
  Threads,
  Classes,      \* the non-meta classes
  NoClass,      \* the superclass of a root class
  superclass,   \* function from classes to their superclasses
  Messages      \* the classes each class's +initialize may message

ASSUME HierarchyAssumption ==
  /\ NoClass \notin Classes
  /\ superclass \in [Classes -> Classes \cup {NoClass}]
  /\ Messages \in [Classes -> SUBSET Classes]

VARIABLES
  status,       \* RW_INITIALIZING and RW_INITIALIZED of each class
  initializing, \* the classes on each thread's _objc_initializing_classes
  pending,      \* classes in pendingInitializeMap, each under its superclass
  waiters,      \* threads in classInitLock.wait()
  stack,        \* calls of initializeNonMetaClass, innermost first
  throwing,     \* an exception is unwinding the thread's stack
  sent,         \* classes whose +initialize was sent
  halted        \* why _objc_fatal stopped the process, or "no"

vars == <<status, initializing, pending, waiters, stack, throwing, sent, halted>>

Status == {"none", "initializing", "initialized"}

Frame == [cls : Classes, todo : SUBSET Classes,
          at : {"super", "claim", "check", "checked", "begin", "body", "wait"}]

Call(c) == [cls |-> c, todo |-> Messages[c], at |-> "super"]

Running(t) == stack[t] # <<>> /\ halted = "no"
Top(t) == Head(stack[t])
Cls(t) == Top(t).cls
At(t, label) == Running(t) /\ ~throwing[t] /\ Top(t).at = label

Replace(t, frames) == stack' = [stack EXCEPT ![t] = frames \o Tail(@)]
Become(t, label) == Replace(t, <<[Top(t) EXCEPT !.at = label]>>)
Return(t) == Replace(t, <<>>)

Halt(why) ==
  /\ halted' = why
  /\ UNCHANGED <<status, initializing, pending, waiters, stack, throwing, sent>>

Initialized(c) == c \in Classes => status[c] = "initialized"

-----------------------------------------------------------------------------
(* A class already initialized is not asked to initialize again            *)
(* (initializeAndMaybeRelock).                                             *)

\* a thread outside any +initialize messages a class
Message(t, c) ==
  /\ stack[t] = <<>> /\ halted = "no" /\ ~Initialized(c)
  /\ stack' = [stack EXCEPT ![t] = <<Call(c)>>]
  /\ UNCHANGED <<status, initializing, pending, waiters, throwing, sent, halted>>

\* +initialize messages a class
BodyMessage(t, c) ==
  /\ At(t, "body") /\ c \in Top(t).todo
  /\ Replace(t, (IF Initialized(c) THEN <<>> ELSE <<Call(c)>>)
                  \o <<[Top(t) EXCEPT !.todo = @ \ {c}]>>)
  /\ UNCHANGED <<status, initializing, pending, waiters, throwing, sent, halted>>

-----------------------------------------------------------------------------
(* initializeNonMetaClass                                                  *)

\* a slip: the superclass is left for later
SuperFirst_Skips(t) ==
  /\ At(t, "super")
  /\ Become(t, "claim")
  /\ UNCHANGED <<status, initializing, pending, waiters, throwing, sent, halted>>

\* a slip: the class is claimed before its superclass is initialized, the
\* order of the deadlock objc-initialize.mm:60 describes
SuperFirst_AfterClaim(t) ==
  /\ At(t, "super")
  /\ LET c == Cls(t)
         super == superclass[c]
         begin == <<[Top(t) EXCEPT !.at = "begin"]>>
     IN  IF status[c] = "none"
           THEN /\ status' = [status EXCEPT ![c] = "initializing"]
                /\ Replace(t, IF Initialized(super) THEN begin ELSE <<Call(super)>> \o begin)
           ELSE UNCHANGED status /\ Become(t, "check")
  /\ UNCHANGED <<initializing, pending, waiters, throwing, sent, halted>>

\* the superclass first
SuperFirst(t) ==
  /\ At(t, "super")
  /\ LET super == superclass[Cls(t)] IN
     Replace(t, (IF Initialized(super) THEN <<>> ELSE <<Call(super)>>)
                  \o <<[Top(t) EXCEPT !.at = "claim"]>>)
  /\ UNCHANGED <<status, initializing, pending, waiters, throwing, sent, halted>>

\* the atomic test and set of CLS_INITIALIZING
Claim(t) ==
  /\ At(t, "claim")
  /\ IF status[Cls(t)] = "none"
       THEN /\ status' = [status EXCEPT ![Cls(t)] = "initializing"]
            /\ Become(t, "begin")
       ELSE UNCHANGED status /\ Become(t, "check")
  /\ UNCHANGED <<initializing, pending, waiters, throwing, sent, halted>>

\* the class was claimed by this thread: +initialize is sent
BeginInitialize(t) ==
  /\ At(t, "begin")
  /\ IF Cls(t) \in initializing[t]
       THEN Halt("already initializing")
       ELSE /\ initializing' = [initializing EXCEPT ![t] = @ \cup {Cls(t)}]
            /\ sent' = sent \cup {Cls(t)}
            /\ Become(t, "body")
            /\ UNCHANGED <<status, pending, waiters, throwing, halted>>

\* a slip: whichever thread is initializing the class, go on
CheckInitializing_AnyThread(t) ==
  /\ At(t, "check")
  /\ IF status[Cls(t)] = "initializing" THEN Return(t) ELSE Become(t, "checked")
  /\ UNCHANGED <<status, initializing, pending, waiters, throwing, sent, halted>>

\* isInitializing(): by this thread, or by another, to be waited for
CheckInitializing(t) ==
  /\ At(t, "check")
  /\ IF status[Cls(t)] # "initializing" THEN Become(t, "checked")
     ELSE IF Cls(t) \in initializing[t] THEN Return(t)
     ELSE Become(t, "wait")
  /\ UNCHANGED <<status, initializing, pending, waiters, throwing, sent, halted>>

\* isInitialized(), asked after isInitializing()
CheckInitialized(t) ==
  /\ At(t, "checked")
  /\ IF Initialized(Cls(t))
       THEN /\ Return(t)
            /\ UNCHANGED <<status, initializing, pending, waiters, throwing, sent, halted>>
       ELSE Halt("buggy")

\* waitForInitializeToComplete: the test and the wait are one critical section
WaitForInitializeToComplete(t) ==
  /\ At(t, "wait") /\ t \notin waiters
  /\ IF Initialized(Cls(t))
       THEN Return(t) /\ UNCHANGED waiters
       ELSE waiters' = waiters \cup {t} /\ UNCHANGED stack
  /\ UNCHANGED <<status, initializing, pending, throwing, sent, halted>>

\* a condition variable may wake a thread nobody notified
SpuriousWakeup(t) ==
  /\ t \in waiters /\ halted = "no"
  /\ waiters' = waiters \ {t}
  /\ UNCHANGED <<status, initializing, pending, stack, throwing, sent, halted>>

-----------------------------------------------------------------------------
(* lockAndFinishInitializing                                               *)

\* a slip: only the immediate subclasses are marked
Finished_OneLevel(c) ==
  {c} \cup {d \in pending : superclass[d] = c}

\* c and, recursively, the subclasses that were merely waiting for it: the least set
\* with c and with every pending class whose superclass it has
Finished(c) ==
  LET closed == {S \in SUBSET (pending \cup {c}) :
                   c \in S /\ \A d \in pending : superclass[d] \in S => d \in S}
  IN  {d \in pending \cup {c} : \A S \in closed : d \in S}

\* notifyAll
Notified(c) == waiters

MayFinish(c) == Initialized(superclass[c])

\* _finishInitializing of c and its pending subclasses, which are to be on
\* this thread's list; or _finishInitializingAfter
Finish(t) ==
  LET c == Cls(t)
      done == Finished(c)
  IN \/ /\ ~MayFinish(c)
        /\ pending' = pending \cup {c}
        /\ UNCHANGED <<status, initializing, waiters, halted>>
     \/ /\ MayFinish(c)
        /\ status' = [d \in Classes |-> IF d \in done THEN "initialized" ELSE status[d]]
        /\ initializing' = [initializing EXCEPT ![t] = @ \ done]
        /\ pending' = pending \ done
        /\ waiters' = waiters \ Notified(c)
        /\ halted' = IF done \subseteq initializing[t] THEN "no" ELSE "not initializing"

\* an exception goes on to the calling +initialize, if there is one
Unwinding(t) == Len(stack[t]) > 1

\* +initialize returns, or throws; @finally finishes either way
EndInitialize(t) ==
  /\ At(t, "body")
  /\ Finish(t)
  /\ \E thrown \in BOOLEAN :
       throwing' = [throwing EXCEPT ![t] = thrown /\ Unwinding(t)]
  /\ Return(t)
  /\ UNCHANGED sent

\* a call that had not begun +initialize is abandoned
Unwind(t) ==
  /\ Running(t) /\ throwing[t] /\ Top(t).at # "body"
  /\ Return(t)
  /\ throwing' = [throwing EXCEPT ![t] = Unwinding(t)]
  /\ UNCHANGED <<status, initializing, pending, waiters, sent, halted>>

\* a +initialize in progress catches the exception, or ends
UnwindBody(t) ==
  /\ Running(t) /\ throwing[t] /\ Top(t).at = "body"
  /\ \/ /\ throwing' = [throwing EXCEPT ![t] = FALSE]
        /\ UNCHANGED <<status, initializing, pending, waiters, stack, halted>>
     \/ /\ Finish(t)
        /\ Return(t)
        /\ throwing' = [throwing EXCEPT ![t] = Unwinding(t)]
  /\ UNCHANGED sent

-----------------------------------------------------------------------------
Init ==
  /\ status = [c \in Classes |-> "none"]
  /\ initializing = [t \in Threads |-> {}]
  /\ pending = {} /\ waiters = {}
  /\ stack = [t \in Threads |-> <<>>]
  /\ throwing = [t \in Threads |-> FALSE]
  /\ sent = {} /\ halted = "no"

Step(t) ==
  \/ SuperFirst(t) \/ Claim(t) \/ BeginInitialize(t)
  \/ CheckInitializing(t) \/ CheckInitialized(t) \/ WaitForInitializeToComplete(t)
  \/ (\E c \in Classes : BodyMessage(t, c))
  \/ EndInitialize(t) \/ Unwind(t) \/ UnwindBody(t)

Next ==
  \E t \in Threads :
    \/ \E c \in Classes : Message(t, c)
    \/ Step(t)
    \/ SpuriousWakeup(t)

Spec == Init /\ [][Next]_vars

\* a thread that can run runs, and +initialize methods end
FairSpec == Spec /\ \A t \in Threads : WF_vars(Step(t))

-----------------------------------------------------------------------------
(* Correctness                                                             *)

\* The initializing and initialized part of the hierarchy is a contiguous
\* subtree that starts at the root, and so is its initialized part; a class
\* begun under a superclass in progress belongs to the same thread
\* (objc-initialize.mm:85, lockAndFinishInitializing).
ContiguousSubtree ==
  \A c \in Classes :
    LET super == superclass[c] IN
    super # NoClass =>
      /\ status[c] # "none" => status[super] # "none"
      /\ status[c] = "initialized" => status[super] = "initialized"
      /\ \A t \in Threads :
           c \in initializing[t] => Initialized(super) \/ super \in initializing[t]

\* A class whose +initialize returned before its superclass's did waits in
\* pendingInitializeMap, together with that superclass in progress on the same
\* thread, and no other class does: the map never keeps a class that nobody
\* will finish, at any depth.
PendingWithSuperclass ==
  /\ \A c \in pending : \E t \in Threads : {c, superclass[c]} \subseteq initializing[t]
  /\ \A t \in Threads : \A c \in initializing[t] :
       c \in pending <=> ~\E i \in DOMAIN stack[t] : stack[t][i].cls = c /\ stack[t][i].at = "body"

\* None of the three _objc_fatal of objc-initialize.mm is reached: two bits read
\* one after the other outside the lock, and a list kept per thread while a
\* class may be finished by the initialization of another.
NoFatal == halted = "no"

\* +initialize is sent once to a class, after its superclass was initialized or
\* while it is being initialized by this very thread.
InitializeOnceSuperFirst ==
  [][\A c \in Classes \ sent : c \in sent' =>
       \E t \in Threads :
         /\ c \in initializing'[t]
         /\ Initialized(superclass[c]) \/ superclass[c] \in initializing[t]]_vars /\
  [][\A t \in Threads : \A c \in Classes :
       c \in initializing'[t] \ initializing[t] => c \notin sent]_vars

\* A message goes through only once the class is initialized or is in progress
\* on the sender's own thread; an exception in +initialize counts as its end.
ProceedsWhenSafe ==
  [][\A t \in Threads : \A c \in Classes :
       (Len(stack'[t]) < Len(stack[t]) /\ Cls(t) = c /\ ~throwing[t] /\ ~throwing'[t])
         => status'[c] = "initialized" \/ c \in initializing'[t]]_vars

\* Every message is answered: where +initialize methods message only their
\* class's descendants no thread waits for ever, the deadlock that
\* objc-initialize.mm:60 says initializing superclasses first solves.
MessagesReturn ==
  \A t \in Threads : []<>(stack[t] = <<>>)

\* The state between two calls of initializeNonMetaClass, in three parts: what is begun
\* and finished below what, the pending map, and that no _objc_fatal is reached.
HierarchySound == ContiguousSubtree /\ PendingWithSuperclass /\ NoFatal
=============================================================================
