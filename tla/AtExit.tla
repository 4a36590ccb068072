------------------------------- MODULE AtExit -------------------------------
(***************************************************************************)
(* Handlers registered for the end of the process or of an image           *)
(* (atexit.c): a list of blocks under one mutex, which is dropped while a  *)
(* block is allocated and while a handler runs. What a thread does between *)
(* taking the mutex and dropping it is one step.                           *)
(***************************************************************************)
EXTENDS Integers, Sequences, SequencesExt, Process

CONSTANTS
  Finalizers,         \* the threads that call __cxa_finalize_ranges
  Handlers, NoHandler,
  Unloaded,           \* the handlers in the ranges of an image; the others are
                      \* called when the process ends
  ATEXIT_SIZE

ASSUME AtExitAssumption ==
  /\ Finalizers \subseteq Threads /\ Unloaded \subseteq Handlers /\ NoHandler \notin Handlers
  /\ ATEXIT_SIZE \in Nat \ {0}

VARIABLES
  atexit,             \* the blocks' entries; the head of the list is last
  new_registration,   \* __atexit_new_registration
  reg,                \* each thread's atexit_register
  fin,                \* each thread's __cxa_finalize_ranges
  called,             \* handlers in the order they were called
  before              \* history: what was registered when a registration began

atexitVars == <<atexit, new_registration, reg, fin, called, before>>

NoReg == [pc |-> "idle", fn |-> NoHandler, p |-> 0, old |-> 0]
NoFin == [pc |-> "idle", range |-> {}, at |-> <<0, 0>>]
Entry(h) == [fn |-> h, empty |-> FALSE]

Registered == {e.fn : e \in UNION {ToSet(b) : b \in ToSet(atexit)}}
Waiting == Registered \ ToSet(called)

-----------------------------------------------------------------------------
(* atexit_register.                                                        *)

\* the head is read before the mutex is taken; a thread that runs a handler may
\* register another
Register(t, h) ==
  /\ reg[t].pc = "idle" /\ fin[t].pc \in {"idle", "calling"}
  /\ h \notin Registered /\ \A u \in Threads : reg[u].fn # h
  /\ reg' = [reg EXCEPT ![t] = [NoReg EXCEPT !.pc = "lock", !.fn = h, !.p = Len(atexit)]]
  /\ before' = [before EXCEPT ![h] = Registered]
  /\ UNCHANGED <<atexit, new_registration, fin, called>>

\* the loop from its condition on, with the mutex held, for block p
Loop(t, p) ==
  IF Len(atexit[p]) < ATEXIT_SIZE
  THEN /\ atexit' = [atexit EXCEPT ![p] = Append(@, Entry(reg[t].fn))]
       /\ new_registration' = TRUE
       /\ reg' = [reg EXCEPT ![t] = NoReg]
  ELSE /\ reg' = [reg EXCEPT ![t].pc = "malloc", ![t].old = Len(atexit)]
       /\ UNCHANGED <<atexit, new_registration>>

TakeMutex(t) ==
  /\ reg[t].pc = "lock" /\ Loop(t, reg[t].p)
  /\ UNCHANGED <<fin, called, before>>

\* a slip: after a lost race the thread goes on with the block it had
Malloc_KeepsBlock(t) ==
  /\ reg[t].pc = "malloc"
  /\ IF Len(atexit) # reg[t].old
     THEN Loop(t, reg[t].old)
     ELSE /\ atexit' = <<<<Entry(reg[t].fn)>>>> \o atexit /\ new_registration' = TRUE
          /\ reg' = [reg EXCEPT ![t] = NoReg]
  /\ UNCHANGED <<fin, called, before>>

\* the block is allocated without the mutex: it is used if the head is still the
\* same, and freed otherwise
Malloc(t) ==
  /\ reg[t].pc = "malloc"
  /\ \/ IF Len(atexit) # reg[t].old
        THEN Loop(t, Len(atexit))
        ELSE /\ atexit' = Append(atexit, <<Entry(reg[t].fn)>>)
             /\ new_registration' = TRUE
             /\ reg' = [reg EXCEPT ![t] = NoReg]
     \/ /\ reg' = [reg EXCEPT ![t] = NoReg]          \* no memory: -1
        /\ UNCHANGED <<atexit, new_registration>>
  /\ UNCHANGED <<fin, called, before>>

-----------------------------------------------------------------------------
(* __cxa_finalize_ranges.                                                  *)

Top == <<Len(atexit) + 1, 0>>
Below(x, y) == x[1] < y[1] \/ (x[1] = y[1] /\ x[2] < y[2])

\* the entries a scan finds from place "at" on, newest first
Found(range, at) ==
  {x \in UNION {{<<b, n>> : n \in DOMAIN atexit[b]} : b \in DOMAIN atexit} :
     LET e == atexit[x[1]][x[2]] IN Below(x, at) /\ ~e.empty /\ e.fn \in range}

\* marks the next entry empty and calls it, or returns
Scan(t, range, at) ==
  LET found == Found(range, at) IN
  \/ \E x \in found :
       /\ \A y \in found : y = x \/ Below(y, x)
       /\ atexit' = [atexit EXCEPT ![x[1]][x[2]].empty = TRUE]
       /\ called' = Append(called, atexit[x[1]][x[2]].fn)
       /\ new_registration' = FALSE
       /\ fin' = [fin EXCEPT ![t] = [pc |-> "calling", range |-> range, at |-> x]]
  \/ /\ found = {}
     /\ fin' = [fin EXCEPT ![t] = NoFin]
     /\ UNCHANGED <<atexit, called, new_registration>>

\* for the ranges of an image, or for every handler
Finalize(t, range) ==
  /\ fin[t].pc = "idle" /\ reg[t].pc = "idle"
  /\ Found(range, Top) # {} /\ Scan(t, range, Top)
  /\ UNCHANGED <<reg, before>>

\* a slip: the scan goes on where it was
HandlerReturns_NoRestart(t) ==
  /\ fin[t].pc = "calling" /\ reg[t].pc = "idle"
  /\ Scan(t, fin[t].range, fin[t].at)
  /\ UNCHANGED <<reg, before>>

HandlerReturns(t) ==
  /\ fin[t].pc = "calling" /\ reg[t].pc = "idle"
  /\ Scan(t, fin[t].range, IF new_registration THEN Top ELSE fin[t].at)
  /\ UNCHANGED <<reg, before>>

AtExitInit ==
  /\ atexit = <<<<>>>> /\ new_registration = FALSE /\ called = <<>>
  /\ reg = [t \in Threads |-> NoReg] /\ fin = [t \in Threads |-> NoFin]
  /\ before = [h \in Handlers |-> {}]

AtExitNext ==
  \E t \in Threads :
    \/ \E h \in Handlers : Register(t, h)
    \/ TakeMutex(t) \/ Malloc(t) \/ HandlerReturns(t)
    \/ t \in Finalizers /\ \E range \in {Unloaded, Handlers} : Finalize(t, range)

AtExitSpec == AtExitInit /\ [][AtExitNext]_atexitVars

-----------------------------------------------------------------------------
\* A handler is called once, and before every handler in the same ranges whose
\* registration had ended when its own began: the blocks are a stack, although a
\* registration picks its block before it takes the mutex and may come to it when it
\* is no longer the head (atexit_register, "points to head of LIFO stack").
CallsLast ==
  \A t \in Threads : Len(called') > Len(called) /\ fin'[t] # fin[t] =>
    LET h == Last(called') IN
    /\ h \notin ToSet(called)
    /\ \A g \in Waiting \cap fin'[t].range : h \notin before[g]
LastRegisteredFirst == [][CallsLast]_atexitVars

\* When the handlers of some ranges, or all of them, have been called, none of them
\* waits to be, those included that were registered by the handlers meanwhile: "Call
\* any recursively registered handlers" (__cxa_finalize_ranges).
EndsWithNoneWaiting ==
  \A t \in Threads : fin[t].pc = "calling" /\ fin'[t].pc = "idle" =>
    Waiting \cap fin[t].range = {}
AllCalled == [][EndsWithNoneWaiting]_atexitVars
=============================================================================
