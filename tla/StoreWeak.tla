----------------------------- MODULE StoreWeak -----------------------------
(***************************************************************************)
(* storeWeak (NSObject.mm) and the clearing of weak references by -dealloc,*)
(* run by several threads on shared variables. A side table, picked by the *)
(* address of an object, has the lock for what is registered with that     *)
(* object; nil has a table too. WeakTable models what is done with a lock  *)
(* held; here it is one step, on the set of registered pairs.              *)
(***************************************************************************)
EXTENDS Naturals, Sequences, FiniteSets, FiniteSetsExt

CONSTANTS
  Threads, Objects, Locations, Classes,
  nil, Dead, NoThread,
  SideTables,  \* StripedMap: the address of the side table of an object, or of nil
  ClassOf,     \* getIsa()
  MaxCalls,    \* bound: calls of storeWeak and -dealloc in all
  MaxDepth     \* bound: calls on one thread's stack

ASSUME StoreWeakAssumption ==
  /\ nil \notin Objects \cup Locations /\ Dead \notin Objects \cup {nil} /\ NoThread \notin Threads
  /\ SideTables \in [Objects \cup {nil} -> Nat] /\ ClassOf \in [Objects -> Classes]
  /\ MaxCalls \in Nat /\ MaxDepth \in Nat

VARIABLES
  location,    \* what each weak variable holds; Dead if it is not alive
  registered,  \* the pairs <<object, location>> in the weak tables
  life,        \* "live", "deallocating", or "cleared" and soon freed
  lock,        \* the owner of each side table's lock
  status,      \* +initialize of each class: "none", "initializing", "initialized"
  initializer, \* the thread that sends it
  stack,       \* each thread's calls, innermost first
  calls

vars == <<location, registered, life, lock, status, initializer, stack, calls>>
memory == <<location, registered, life>>
classes == <<status, initializer>>

Tables == {SideTables[o] : o \in Objects \cup {nil}}

Frame == [at : {"retry", "lock1", "lock2", "check", "initialize", "body", "update",
                "unlock", "dealloc", "clear", "free"},
          loc : Locations \cup {nil}, old : Objects \cup {nil}, new : Objects \cup {nil},
          haveOld : BOOLEAN, haveNew : BOOLEAN,
          prev : BOOLEAN]  \* previouslyInitializedClass is new's class

Top(t) == Head(stack[t])
At(t, label) == stack[t] # <<>> /\ Top(t).at = label
Push(t, f) == stack' = [stack EXCEPT ![t] = <<f>> \o @]
Pop(t) == stack' = [stack EXCEPT ![t] = Tail(@)]
Goto(t, label) == stack' = [stack EXCEPT ![t][1].at = label]

Frames == UNION {{stack[t][i] : i \in DOMAIN stack[t]} : t \in Threads}
UsedBy(l) == {f \in Frames : f.loc = l}

\* a thread calls when it is in no call, or from +initialize or -dealloc
MayCall(t) ==
  /\ calls < MaxCalls /\ Len(stack[t]) < MaxDepth
  /\ stack[t] = <<>> \/ At(t, "body") \/ At(t, "dealloc")

\* The caller keeps a reference to what it stores, or is that object's -dealloc.
\* +initialize stores instances of its own class only: two that wait for each
\* other's class are the program's own deadlock.
MayStore(t, o) ==
  o # nil => /\ life[o] = "live" \/ (At(t, "dealloc") /\ Top(t).new = o)
             /\ At(t, "body") => ClassOf[o] = ClassOf[Top(t).new]

\* --- storeWeak ------------------------------------------------------------

\* A variable is made and destroyed while nobody else uses it; in between,
\* several threads may store in it.
Call(t, l, o, haveOld, haveNew) ==
  /\ MayCall(t) /\ MayStore(t, o)
  /\ haveOld <=> location[l] # Dead
  /\ (haveOld /\ haveNew) \/ UsedBy(l) = {}
  /\ haveOld \/ haveNew
  /\ haveNew \/ o = nil
  /\ \A f \in UsedBy(l) : f.haveOld /\ f.haveNew
  /\ Push(t, [at |-> "retry", loc |-> l, old |-> nil, new |-> o,
              haveOld |-> haveOld, haveNew |-> haveNew, prev |-> FALSE])
  /\ calls' = calls + 1
  /\ UNCHANGED <<memory, lock, classes>>

\* oldObj = *location, with no lock held
ReadOld(t) ==
  /\ At(t, "retry")
  /\ stack' = [stack EXCEPT ![t][1].at = "lock1",
                            ![t][1].old = IF Top(t).haveOld THEN location[Top(t).loc]
                                          ELSE nil]
  /\ UNCHANGED <<memory, lock, classes, calls>>

\* the tables a call locks
TablesOf(f) == (IF f.haveOld THEN {SideTables[f.old]} ELSE {})
               \cup (IF f.haveNew THEN {SideTables[f.new]} ELSE {})

Acquire(t, s) == lock[s] = NoThread /\ lock' = [lock EXCEPT ![s] = t]
Release(t, ss) == lock' = [s \in Tables |-> IF s \in ss THEN NoThread ELSE lock[s]]

\* a slip: the old object's table first
LockFirst_OldFirst(t) ==
  /\ At(t, "lock1")
  /\ Acquire(t, IF Top(t).haveOld THEN SideTables[Top(t).old] ELSE SideTables[Top(t).new])
  /\ Goto(t, IF Cardinality(TablesOf(Top(t))) = 2 THEN "lock2" ELSE "check")
  /\ UNCHANGED <<memory, classes, calls>>

\* lockTwo: the lower address first, one lock if the tables are the same
LockFirst(t) ==
  /\ At(t, "lock1")
  /\ Acquire(t, Min(TablesOf(Top(t))))
  /\ Goto(t, IF Cardinality(TablesOf(Top(t))) = 2 THEN "lock2" ELSE "check")
  /\ UNCHANGED <<memory, classes, calls>>

LockSecond(t) ==
  /\ At(t, "lock2")
  /\ \E s \in TablesOf(Top(t)) : lock[s] # t /\ Acquire(t, s)
  /\ Goto(t, "check")
  /\ UNCHANGED <<memory, classes, calls>>

Changed(f) == f.haveOld /\ location[f.loc] # f.old

\* a slip: whether +initialize has begun is enough
Uninitialized_Begun(f) ==
  f.haveNew /\ f.new # nil /\ ~f.prev /\ status[ClassOf[f.new]] = "none"

Uninitialized(f) ==
  f.haveNew /\ f.new # nil /\ ~f.prev /\ status[ClassOf[f.new]] # "initialized"

\* a slip: the old value is not looked at again
Check_Stale(t) ==
  /\ At(t, "check")
  /\ LET f == Top(t) IN
     IF Uninitialized(f)
     THEN Release(t, TablesOf(f)) /\ Goto(t, "initialize")
     ELSE Goto(t, "update") /\ UNCHANGED lock
  /\ UNCHANGED <<memory, classes, calls>>

Check(t) ==
  /\ At(t, "check")
  /\ LET f == Top(t) IN
     IF Changed(f) THEN Release(t, TablesOf(f)) /\ Goto(t, "retry")
     ELSE IF Uninitialized(f)
     THEN Release(t, TablesOf(f)) /\ Goto(t, "initialize")
     ELSE Goto(t, "update") /\ UNCHANGED lock
  /\ UNCHANGED <<memory, classes, calls>>

\* class_initialize sends +initialize, ...
SendInitialize(t) ==
  /\ At(t, "initialize") /\ status[ClassOf[Top(t).new]] = "none"
  /\ status' = [status EXCEPT ![ClassOf[Top(t).new]] = "initializing"]
  /\ initializer' = [initializer EXCEPT ![ClassOf[Top(t).new]] = t]
  /\ Goto(t, "body")
  /\ UNCHANGED <<memory, lock, calls>>

EndInitialize(t) ==
  /\ At(t, "body")
  /\ status' = [status EXCEPT ![ClassOf[Top(t).new]] = "initialized"]
  /\ Goto(t, "initialize")
  /\ UNCHANGED <<memory, lock, initializer, calls>>

\* ... or returns when it has been sent, by another thread, or this one is
\* sending it
InitializeReturns(t) ==
  /\ At(t, "initialize")
  /\ LET c == ClassOf[Top(t).new] IN
     status[c] = "initialized" \/ (status[c] = "initializing" /\ initializer[c] = t)
  /\ stack' = [stack EXCEPT ![t][1].at = "retry", ![t][1].prev = TRUE]
  /\ UNCHANGED <<memory, lock, classes, calls>>

\* a slip: a deallocating object is registered all the same
Registers_Deallocating(f) == f.haveNew /\ f.new # nil

\* weak_register_no_lock returns nil for an object that is deallocating
Registers(f) == f.haveNew /\ f.new # nil /\ life[f.new] = "live"

\* weak_unregister_no_lock, weak_register_no_lock, and *location = newObj; without
\* a new value the variable goes out of scope
Update(t) ==
  /\ At(t, "update")
  /\ LET f == Top(t) IN
     /\ registered' = (registered \ (IF f.haveOld THEN {<<f.old, f.loc>>} ELSE {}))
                      \cup (IF Registers(f) THEN {<<f.new, f.loc>>} ELSE {})
     /\ location' = [location EXCEPT ![f.loc] = IF Registers(f) THEN f.new
                                                ELSE IF f.haveNew THEN nil ELSE Dead]
  /\ Goto(t, "unlock")
  /\ UNCHANGED <<life, lock, classes, calls>>

UnlockTwo(t) ==
  /\ At(t, "unlock")
  /\ Release(t, TablesOf(Top(t))) /\ Pop(t)
  /\ UNCHANGED <<memory, classes, calls>>

\* --- -dealloc -------------------------------------------------------------

\* the last reference goes
BeginDealloc(t, o) ==
  /\ MayCall(t) /\ life[o] = "live" /\ \A f \in Frames : f.new # o
  /\ life' = [life EXCEPT ![o] = "deallocating"]
  /\ Push(t, [at |-> "dealloc", loc |-> nil, old |-> nil, new |-> o,
              haveOld |-> FALSE, haveNew |-> FALSE, prev |-> FALSE])
  /\ calls' = calls + 1
  /\ UNCHANGED <<location, registered, lock, classes>>

LockClear(t) ==
  /\ At(t, "dealloc")
  /\ Acquire(t, SideTables[Top(t).new])
  /\ Goto(t, "clear")
  /\ UNCHANGED <<memory, classes, calls>>

\* weak_clear_no_lock: what is registered and holds the object becomes nil
ClearDeallocating(t) ==
  /\ At(t, "clear")
  /\ LET o == Top(t).new IN
     /\ location' = [l \in Locations |-> IF <<o, l>> \in registered /\ location[l] = o
                                         THEN nil ELSE location[l]]
     /\ registered' = {r \in registered : r[1] # o}
     /\ life' = [life EXCEPT ![o] = "cleared"]
     /\ Release(t, {SideTables[o]})
  /\ Goto(t, "free")
  /\ UNCHANGED <<classes, calls>>

\* the memory is freed, and becomes another object of the same class
Free(t) ==
  /\ At(t, "free")
  /\ life' = [life EXCEPT ![Top(t).new] = "live"]
  /\ Pop(t)
  /\ UNCHANGED <<location, registered, lock, classes, calls>>

-----------------------------------------------------------------------------
Init ==
  /\ location = [l \in Locations |-> nil]
  /\ registered = {}
  /\ life = [o \in Objects |-> "live"]
  /\ lock = [s \in Tables |-> NoThread]
  /\ status = [c \in Classes |-> "none"]
  /\ initializer = [c \in Classes |-> NoThread]
  /\ stack = [t \in Threads |-> <<>>]
  /\ calls = 0

\* a thread goes on with its innermost call
Step(t) ==
  \/ ReadOld(t) \/ LockFirst(t) \/ LockSecond(t) \/ Check(t)
  \/ SendInitialize(t) \/ EndInitialize(t) \/ InitializeReturns(t)
  \/ Update(t) \/ UnlockTwo(t)
  \/ LockClear(t) \/ ClearDeallocating(t) \/ Free(t)

Begin(t) ==
  \/ \E l \in Locations, o \in Objects \cup {nil}, ho, hn \in BOOLEAN : Call(t, l, o, ho, hn)
  \/ \E o \in Objects : BeginDealloc(t, o)

Next == \E t \in Threads : Begin(t) \/ Step(t)

Spec == Init /\ [][Next]_vars

\* Threads run, and +initialize and -dealloc methods end. The bound on calls makes
\* every run of interfering stores finite.
FairSpec == Spec /\ \A t \in Threads : WF_vars(Step(t))

-----------------------------------------------------------------------------
\* A variable that holds an object is registered with it, and nothing else is: a
\* store that raced another store, or the object's -dealloc, between the read of
\* *location and the locks neither leaves a variable that would dangle nor a pair
\* that would make -dealloc write to a variable gone out of scope.
PairsExact ==
  registered = {<<location[l], l>> : l \in {l \in Locations : location[l] \in Objects}}

\* "no weakly-referenced object has an un-+initialized isa" (NSObject.mm:312): by
\* the time a class's own -allowsWeakReference may be sent with the tables locked,
\* +initialize is done, or in progress on this very thread.
NoInitializeUnderLock ==
  \A t \in Threads : At(t, "update") /\ Top(t).haveNew /\ Top(t).new # nil =>
    LET c == ClassOf[Top(t).new] IN
    status[c] = "initialized" \/ (status[c] = "initializing" /\ initializer[c] = t)

\* The stores and deallocs of all threads, interleaved, are zeroing weak
\* references: each takes effect at one instant, and no variable holds an object
\* whose memory is reused.
References == INSTANCE WeakReferences WITH
  deallocating <- {o \in Objects : life[o] # "live"}
ImplementsWeakReferences == References!Spec

\* Every call returns: neither the tables' locks nor +initialize make threads
\* wait for one another, and a store of an instance from within its class's own
\* +initialize does not retry for ever.
StoresReturn == \A t \in Threads : []<>(stack[t] = <<>>)
=============================================================================
