------------------------------ MODULE RefCount ------------------------------
(***************************************************************************)
(* The reference count of one object: the bits of its isa word, its entry  *)
(* in the side table, the side table's lock, and the threads that retain,  *)
(* release, weakly load, weakly store, re-class and deallocate it          *)
(* (objc-object.h, NSObject.mm).                                           *)
(*                                                                         *)
(* A step is one atomic access to the isa word (LoadExclusive or a         *)
(* StoreExclusive, which may fail for no reason) or one critical section   *)
(* of the side table lock; a step that ends a critical section also        *)
(* releases the lock.                                                      *)
(***************************************************************************)
EXTENDS Integers, FiniteSets, Process

CONSTANTS
  RC_HALF,    \* what an overflow moves to the side table (2^18 on arm64)
  SIDE_PINNED,\* the count whose top bit pins it (2^61, SIDE_TABLE_RC_PINNED)
  MaxRefs,    \* bound on the references clients own at any time
  Ops         \* the operations the clients of this instance call

RC_MAX == 2 * RC_HALF - 1       \* the largest extra_rc
SIDE_MOD == 2 * SIDE_PINNED     \* side table counts wrap here

Operations == {"retain", "release", "retainCount", "changeIsa",
               "storeWeak", "clearWeak", "loadWeak"}

ASSUME ConstantsAssumption ==
  /\ IsFiniteSet(Threads) /\ NoThread \notin Threads
  /\ RC_HALF \in Nat /\ RC_HALF >= 2
  /\ MaxRefs \in Nat /\ MaxRefs >= 1
  /\ SIDE_PINNED \in Nat /\ SIDE_PINNED > MaxRefs /\ SIDE_PINNED > RC_HALF
  /\ Ops \subseteq Operations

VARIABLES
  isa,          \* the isa word, without its class
  side,         \* the object's entry in SideTable::refcnts
  weakRef,      \* the weak location is registered and holds the object
  lock,         \* owner of the side table's spinlock
  crashed,      \* os_unfair_lock aborted: unlocked by a thread not its owner
  deallocator,  \* the thread that was told to send -dealloc
  freed,        \* the memory was given back
  refs,         \* strong references owned by clients, not being released
  nest,         \* retain of self inside -dealloc: 0 not yet, 1 made, 2 undone
  pc,           \* where each thread is
  old,          \* rootRetain, rootRelease, changeIsa: oldisa
  full,         \* ... variant == RRVariant::Full
  locked,       \* ... sideTableLocked
  try           \* rootRetain: tryRetain

objVars == <<isa, side, weakRef>>
lifeVars == <<deallocator, freed, refs, nest>>
localVars == <<old, full, locked, try>>
lockVars == <<lock, crashed>>
vars == <<objVars, lifeVars, localVars, lockVars, pc>>

IsaWord == [nonpointer : BOOLEAN, extra_rc : 0..RC_MAX,
        has_sidetable_rc : BOOLEAN, weakly_referenced : BOOLEAN]

Entry == [here : BOOLEAN, rc : 0..SIDE_MOD - 1,
          deallocating : BOOLEAN, weakly_referenced : BOOLEAN]

Labels == {"idle", "rt_load", "rt_cas", "rt_add", "lw_unlock",
           "rl_load", "rl_cas", "rl_put1", "rl_put2", "rl_back",
           "ci_load", "ci_cas", "ci_move", "rc_read", "rc_side",
           "sw_load", "sw_cas", "dealloc", "da_free"}

-----------------------------------------------------------------------------
(* The isa word and the side table entry.                                  *)

IsDeallocating(i) == i.extra_rc = 0 /\ ~i.has_sidetable_rc

NoEntry == [here |-> FALSE, rc |-> 0,
            deallocating |-> FALSE, weakly_referenced |-> FALSE]

Pinned(e) == e.rc >= SIDE_PINNED

RawIsa == [nonpointer |-> FALSE, extra_rc |-> 0,
           has_sidetable_rc |-> FALSE, weakly_referenced |-> FALSE]

initIsa(nonpointer) ==
  IF nonpointer THEN [RawIsa EXCEPT !.nonpointer = TRUE, !.extra_rc = 1]
                ELSE RawIsa

\* sidetable_retain and sidetable_tryRetain, on an entry not deallocating
SideRetained(e) ==
  [e EXCEPT !.here = TRUE, !.rc = IF Pinned(e) THEN @ ELSE @ + 1]

SideLastReference(e) == e.rc = 0 /\ ~e.deallocating

SideReleased(e) ==
  IF SideLastReference(e) THEN [e EXCEPT !.here = TRUE, !.deallocating = TRUE]
  ELSE IF Pinned(e) THEN e
  ELSE [e EXCEPT !.rc = (@ - 1) % SIDE_MOD]

sidetable_addExtraRC(e, delta) ==
  [e EXCEPT !.here = TRUE, !.rc = IF Pinned(e) THEN @ ELSE @ + delta]

sidetable_subExtraRC(e, delta) == [e EXCEPT !.rc = (@ - delta) % SIDE_MOD]

sidetable_clearExtraRC(e) == IF e.rc = 0 THEN NoEntry ELSE e

\* extra_rc - 1 wraps when it is 0, and a carry pins the count
sidetable_moveExtraRC(e, i) ==
  LET sum == e.rc + ((i.extra_rc - 1) % SIDE_MOD)
  IN  [here |-> TRUE,
       rc |-> IF sum >= SIDE_MOD THEN SIDE_PINNED ELSE sum,
       deallocating |-> IsDeallocating(i),
       weakly_referenced |-> i.weakly_referenced]

-----------------------------------------------------------------------------
(* Clients. A reference is owned by somebody until its release begins; a   *)
(* thread that uses the object relies on a reference that nobody releases  *)
(* before the call returns.                                                *)

\* references whose release has begun and is not yet counted
Releasing == {t \in Threads : /\ t # deallocator
                              /\ pc[t] \in {"rl_load", "rl_cas", "rl_put1",
                                            "rl_put2", "rl_back"}}

\* retains that have begun and are not yet counted
Retaining == {t \in Threads : t # deallocator /\ pc[t] \in {"rt_load", "rt_cas"}}

Using == {t \in Threads :
            /\ t # deallocator
            /\ \/ pc[t] \in {"rt_load", "rt_cas", "rt_add"} /\ ~try[t]
               \/ pc[t] \in {"ci_load", "ci_cas", "ci_move", "rc_read",
                             "rc_side", "sw_load", "sw_cas"}}

Total == refs + Cardinality(Releasing)

Room == Total + Cardinality(Retaining) < MaxRefs

Goto(t, l) == pc' = [pc EXCEPT ![t] = l]

Home(t) == IF t = deallocator /\ ~freed THEN "dealloc" ELSE "idle"

\* os_unfair_lock: only the owner may unlock, anything else aborts
Unlock(t) == /\ lock' = IF lock = t THEN NoThread ELSE lock
             /\ crashed' = (crashed \/ lock # t)

UnlockIf(cond, t) == IF cond THEN Unlock(t) ELSE UNCHANGED lockVars

-----------------------------------------------------------------------------
(* rootRetain                                                              *)

BeginRetain(t) ==
  /\ "retain" \in Ops
  /\ \/ pc[t] = "idle" /\ refs > 0 /\ Room /\ UNCHANGED nest
     \/ pc[t] = "dealloc" /\ nest = 0 /\ nest' = 1
  /\ Goto(t, "rt_load")
  /\ full' = [full EXCEPT ![t] = FALSE]
  /\ locked' = [locked EXCEPT ![t] = FALSE]
  /\ try' = [try EXCEPT ![t] = FALSE]
  /\ UNCHANGED <<objVars, deallocator, freed, refs, old, lockVars>>

RetainLoad(t) ==
  /\ pc[t] = "rt_load"
  /\ old' = [old EXCEPT ![t] = isa]
  /\ Goto(t, "rt_cas")
  /\ UNCHANGED <<objVars, lifeVars, full, locked, try, lockVars>>

\* the retain counts: a reference more, except inside -dealloc
Counted(t) == refs' = IF t = deallocator THEN refs ELSE refs + 1

\* where rootRetain returns to; the caller of a tryRetain holds the lock
AfterRetain(t) == IF try[t] THEN "lw_unlock" ELSE Home(t)

RetainRaw(t) ==
  /\ pc[t] = "rt_cas" /\ ~old[t].nonpointer /\ ~try[t]
  /\ locked[t] \/ lock = NoThread
  /\ side' = SideRetained(side)
  /\ UnlockIf(locked[t], t)
  /\ Counted(t)
  /\ Goto(t, Home(t))
  /\ UNCHANGED <<isa, weakRef, deallocator, freed, nest, localVars>>

TryRetainRaw(t) ==
  /\ pc[t] = "rt_cas" /\ ~old[t].nonpointer /\ try[t]
  /\ IF side.deallocating
       THEN UNCHANGED <<side, refs>>
       ELSE side' = SideRetained(side) /\ Counted(t)
  /\ Goto(t, "lw_unlock")
  /\ UNCHANGED <<isa, weakRef, deallocator, freed, nest, localVars, lockVars>>

RetainDeallocating(t) ==
  /\ pc[t] = "rt_cas" /\ old[t].nonpointer /\ IsDeallocating(old[t])
  /\ UnlockIf(locked[t], t)
  /\ Goto(t, AfterRetain(t))
  /\ UNCHANGED <<objVars, lifeVars, localVars>>

RetainLive(t) == /\ pc[t] = "rt_cas"
                 /\ old[t].nonpointer /\ ~IsDeallocating(old[t])

\* a slip: the carry is noticed one retain late
Overflows_Late(t) == old[t].extra_rc > RC_MAX

Overflows(t) == old[t].extra_rc = RC_MAX

rootRetain_overflow(t) ==
  /\ RetainLive(t) /\ Overflows(t) /\ ~full[t]
  /\ full' = [full EXCEPT ![t] = TRUE]
  /\ Goto(t, "rt_load")
  /\ UNCHANGED <<objVars, lifeVars, old, locked, try, lockVars>>

RetainLock(t) ==
  /\ RetainLive(t) /\ Overflows(t) /\ full[t] /\ ~try[t] /\ ~locked[t]
  /\ lock = NoThread
  /\ lock' = t
  /\ locked' = [locked EXCEPT ![t] = TRUE]
  /\ UNCHANGED <<objVars, lifeVars, old, full, try, crashed, pc>>

\* in the CAS loop: the lock an overflow needs is taken, or is the caller's
RetainReady(t) == /\ RetainLive(t)
                  /\ Overflows(t) => full[t] /\ (try[t] \/ locked[t])

\* sideTableLocked is set on overflow, also where tryRetain took no lock
RetainMarksLocked(t) ==
  locked' = [locked EXCEPT ![t] = @ \/ Overflows(t)]

RetainStore(t) ==
  /\ RetainReady(t) /\ isa = old[t]
  /\ RetainMarksLocked(t)
  /\ IF Overflows(t)
       THEN /\ isa' = [old[t] EXCEPT !.extra_rc = RC_HALF,
                                     !.has_sidetable_rc = TRUE]
            /\ Goto(t, "rt_add")
            /\ UNCHANGED lockVars
       ELSE /\ isa' = [old[t] EXCEPT !.extra_rc = @ + 1]
            /\ Goto(t, AfterRetain(t))
            /\ UnlockIf(locked[t] /\ ~try[t], t)
  /\ Counted(t)
  /\ UNCHANGED <<side, weakRef, deallocator, freed, nest, old, full, try>>

\* StoreExclusive fails: the isa changed, or for no reason
RetainStoreFails(t) ==
  /\ RetainReady(t)
  /\ RetainMarksLocked(t)
  /\ old' = [old EXCEPT ![t] = isa]
  /\ UNCHANGED <<objVars, lifeVars, full, try, lockVars, pc>>

\* a slip: the lock is kept, as for a tryRetain
RetainAddExtra_KeepsLock(t) ==
  /\ pc[t] = "rt_add"
  /\ side' = sidetable_addExtraRC(side, RC_HALF)
  /\ Goto(t, AfterRetain(t))
  /\ UNCHANGED <<isa, weakRef, lifeVars, localVars, lockVars>>

RetainAddExtra(t) ==
  /\ pc[t] = "rt_add"
  /\ side' = sidetable_addExtraRC(side, RC_HALF)
  /\ UnlockIf(~try[t], t)
  /\ Goto(t, AfterRetain(t))
  /\ UNCHANGED <<isa, weakRef, lifeVars, localVars>>

-----------------------------------------------------------------------------
(* rootRelease                                                             *)

\* a reference can be given up unless it is the last one a user relies on
BeginRelease(t) ==
  /\ "release" \in Ops
  /\ \/ /\ pc[t] = "idle"
        /\ refs > IF Using = {} THEN 0 ELSE 1
        /\ refs' = refs - 1
        /\ UNCHANGED nest
     \/ pc[t] = "dealloc" /\ nest = 1 /\ nest' = 2 /\ UNCHANGED refs
  /\ Goto(t, "rl_load")
  /\ full' = [full EXCEPT ![t] = FALSE]
  /\ locked' = [locked EXCEPT ![t] = FALSE]
  /\ UNCHANGED <<objVars, deallocator, freed, old, try, lockVars>>

ReleaseLoad(t) ==
  /\ pc[t] = "rl_load"
  /\ old' = [old EXCEPT ![t] = isa]
  /\ Goto(t, "rl_cas")
  /\ UNCHANGED <<objVars, lifeVars, full, locked, try, lockVars>>

\* the thread that took the count to zero is told to send -dealloc
Deallocate(t) == deallocator' = t /\ nest' = 0 /\ Goto(t, "dealloc")

\* ... unless cond does not hold
DeallocateIf(cond, t) ==
  IF cond THEN Deallocate(t) ELSE Goto(t, Home(t)) /\ UNCHANGED <<deallocator, nest>>

ReleaseRaw(t) ==
  /\ pc[t] = "rl_cas" /\ ~old[t].nonpointer
  /\ locked[t] \/ lock = NoThread
  /\ side' = SideReleased(side)
  /\ UnlockIf(locked[t], t)
  /\ DeallocateIf(SideLastReference(side), t)
  /\ UNCHANGED <<isa, weakRef, freed, refs, localVars>>

ReleaseDeallocating(t) ==
  /\ pc[t] = "rl_cas" /\ old[t].nonpointer /\ IsDeallocating(old[t])
  /\ UnlockIf(locked[t], t)
  /\ Goto(t, Home(t))
  /\ UNCHANGED <<objVars, lifeVars, localVars>>

ReleaseReady(t) == pc[t] = "rl_cas" /\ old[t].nonpointer /\ old[t].extra_rc > 0

\* a slip: oldisa, not newisa, is asked whether the object is deallocating
ReleaseStore_AsksOld(t) ==
  /\ ReleaseReady(t) /\ isa = old[t]
  /\ isa' = [old[t] EXCEPT !.extra_rc = @ - 1]
  /\ UnlockIf(locked[t], t)
  /\ DeallocateIf(IsDeallocating(old[t]), t)
  /\ UNCHANGED <<side, weakRef, freed, refs, localVars>>

ReleaseStore(t) ==
  /\ ReleaseReady(t) /\ isa = old[t]
  /\ isa' = [old[t] EXCEPT !.extra_rc = @ - 1]
  /\ UnlockIf(locked[t], t)
  /\ DeallocateIf(IsDeallocating(isa'), t)
  /\ UNCHANGED <<side, weakRef, freed, refs, localVars>>

ReleaseStoreFails(t) ==
  /\ ReleaseReady(t)
  /\ old' = [old EXCEPT ![t] = isa]
  /\ UNCHANGED <<objVars, lifeVars, full, locked, try, lockVars, pc>>

Underflows(t) == /\ pc[t] = "rl_cas" /\ old[t].nonpointer
                 /\ old[t].extra_rc = 0 /\ old[t].has_sidetable_rc

rootRelease_underflow(t) ==
  /\ Underflows(t) /\ ~full[t]
  /\ full' = [full EXCEPT ![t] = TRUE]
  /\ Goto(t, "rl_load")
  /\ UNCHANGED <<objVars, lifeVars, old, locked, try, lockVars>>

\* the isa is loaded again: it may have become a raw pointer meanwhile
ReleaseLock(t) ==
  /\ Underflows(t) /\ full[t] /\ ~locked[t]
  /\ lock = NoThread
  /\ lock' = t
  /\ locked' = [locked EXCEPT ![t] = TRUE]
  /\ Goto(t, "rl_load")
  /\ UNCHANGED <<objVars, lifeVars, old, full, try, crashed>>

ReleaseBorrow(t) ==
  /\ Underflows(t) /\ full[t] /\ locked[t]
  /\ IF side.rc > 0
       THEN /\ side' = sidetable_subExtraRC(side, RC_HALF)
            /\ Goto(t, "rl_put1")
            /\ UNCHANGED <<deallocator, nest, lockVars>>
       ELSE /\ Deallocate(t)
            /\ Unlock(t)
            /\ UNCHANGED side
  /\ UNCHANGED <<isa, weakRef, freed, refs, localVars>>

\* a slip: the original decrement is not redone
Borrowed_All(i) == [i EXCEPT !.extra_rc = @ + RC_HALF,
                             !.has_sidetable_rc = side.rc # 0]

\* the borrowed counts, less the one released, go to the isa
Borrowed(i) == [i EXCEPT !.extra_rc = @ + (RC_HALF - 1),
                         !.has_sidetable_rc = side.rc # 0]

ReleaseStoreBorrowed(t) ==
  /\ pc[t] \in {"rl_put1", "rl_put2"}
  /\ isa = old[t] /\ old[t].extra_rc + (RC_HALF - 1) <= RC_MAX
  /\ isa' = Borrowed(old[t])
  /\ side' = sidetable_clearExtraRC(side)
  /\ Unlock(t)
  /\ DeallocateIf(IsDeallocating(isa') /\ pc[t] = "rl_put2", t)
  /\ UNCHANGED <<weakRef, freed, refs, localVars>>

\* the first failure is retried at once, the second puts the counts back
ReleaseStoreBorrowedFails(t) ==
  /\ pc[t] \in {"rl_put1", "rl_put2"}
  /\ old' = [old EXCEPT ![t] = isa]
  /\ Goto(t, IF pc[t] = "rl_put1" /\ isa.nonpointer THEN "rl_put2" ELSE "rl_back")
  /\ UNCHANGED <<objVars, lifeVars, full, locked, try, lockVars>>

ReleasePutBack(t) ==
  /\ pc[t] = "rl_back"
  /\ side' = sidetable_addExtraRC(side, RC_HALF)
  /\ old' = [old EXCEPT ![t] = isa]
  /\ Goto(t, "rl_cas")
  /\ UNCHANGED <<isa, weakRef, lifeVars, full, locked, try, lockVars>>

-----------------------------------------------------------------------------
(* changeIsa, to a class whose instances require a raw isa                 *)

BeginChangeIsa(t) ==
  /\ "changeIsa" \in Ops
  /\ pc[t] = "idle" /\ refs > 0
  /\ Goto(t, "ci_load")
  /\ locked' = [locked EXCEPT ![t] = FALSE]
  /\ UNCHANGED <<objVars, lifeVars, old, full, try, lockVars>>

ChangeIsaLoad(t) ==
  /\ pc[t] = "ci_load"
  /\ old' = [old EXCEPT ![t] = isa]
  /\ Goto(t, "ci_cas")
  /\ UNCHANGED <<objVars, lifeVars, full, locked, try, lockVars>>

ChangeIsaLock(t) ==
  /\ pc[t] = "ci_cas" /\ old[t].nonpointer /\ ~locked[t]
  /\ lock = NoThread
  /\ lock' = t
  /\ locked' = [locked EXCEPT ![t] = TRUE]
  /\ UNCHANGED <<objVars, lifeVars, old, full, try, crashed, pc>>

ChangeIsaReady(t) == pc[t] = "ci_cas" /\ (old[t].nonpointer => locked[t])

ChangeIsaStore(t) ==
  /\ ChangeIsaReady(t) /\ isa = old[t]
  /\ isa' = RawIsa
  /\ IF old[t].nonpointer
       THEN Goto(t, "ci_move") /\ UNCHANGED lockVars
       ELSE Goto(t, Home(t)) /\ UnlockIf(locked[t], t)
  /\ UNCHANGED <<side, weakRef, lifeVars, localVars>>

ChangeIsaStoreFails(t) ==
  /\ ChangeIsaReady(t)
  /\ old' = [old EXCEPT ![t] = isa]
  /\ UNCHANGED <<objVars, lifeVars, full, locked, try, lockVars, pc>>

ChangeIsaMove(t) ==
  /\ pc[t] = "ci_move"
  /\ side' = sidetable_moveExtraRC(side, old[t])
  /\ Unlock(t)
  /\ Goto(t, Home(t))
  /\ UNCHANGED <<isa, weakRef, lifeVars, localVars>>

-----------------------------------------------------------------------------
(* rootRetainCount: the isa is read under the lock; a raw isa's count is   *)
(* read by sidetable_retainCount, which takes the lock again.              *)

BeginRetainCount(t) ==
  /\ "retainCount" \in Ops
  /\ pc[t] = "idle" /\ refs > 0
  /\ lock = NoThread
  /\ lock' = t
  /\ Goto(t, "rc_read")
  /\ UNCHANGED <<objVars, lifeVars, localVars, crashed>>

RetainCountRead(t) ==
  /\ pc[t] = "rc_read"
  /\ Unlock(t)
  /\ Goto(t, IF isa.nonpointer THEN "idle" ELSE "rc_side")
  /\ UNCHANGED <<objVars, lifeVars, localVars>>

RetainCountSide(t) ==
  /\ pc[t] = "rc_side" /\ lock = NoThread
  /\ Goto(t, "idle")
  /\ UNCHANGED <<objVars, lifeVars, localVars, lockVars>>

\* what the read of RetainCountRead or RetainCountSide yields
rootRetainCount ==
  IF isa.nonpointer
    THEN isa.extra_rc + IF isa.has_sidetable_rc THEN side.rc ELSE 0
    ELSE 1 + side.rc

-----------------------------------------------------------------------------
(* The weak location: storeWeak of the object and of nil, and a load,      *)
(* which holds the side table's lock around _tryRetain.                    *)

rootIsDeallocating ==
  IF isa.nonpointer THEN IsDeallocating(isa) ELSE side.deallocating

\* a deallocating object is not registered: nil is stored
BeginStoreWeak(t) ==
  /\ "storeWeak" \in Ops
  /\ (pc[t] = "idle" /\ refs > 0) \/ pc[t] = "dealloc"
  /\ lock = NoThread
  /\ IF rootIsDeallocating
       THEN weakRef' = FALSE /\ UNCHANGED <<lock, pc>>
       ELSE weakRef' = TRUE /\ lock' = t /\ Goto(t, "sw_load")
  /\ UNCHANGED <<isa, side, lifeVars, localVars, crashed>>

StoreWeakLoad(t) ==
  /\ pc[t] = "sw_load"
  /\ old' = [old EXCEPT ![t] = isa]
  /\ Goto(t, "sw_cas")
  /\ UNCHANGED <<objVars, lifeVars, full, locked, try, lockVars>>

\* setWeaklyReferenced_nolock
SetWeaklyReferenced(t) ==
  /\ pc[t] = "sw_cas"
  /\ IF old[t].nonpointer
       THEN /\ old[t].weakly_referenced \/ isa = old[t]
            /\ isa' = IF old[t].weakly_referenced THEN isa
                      ELSE [old[t] EXCEPT !.weakly_referenced = TRUE]
            /\ UNCHANGED side
       ELSE /\ side' = [side EXCEPT !.here = TRUE, !.weakly_referenced = TRUE]
            /\ UNCHANGED isa
  /\ Unlock(t)
  /\ Goto(t, Home(t))
  /\ UNCHANGED <<weakRef, lifeVars, localVars>>

SetWeaklyReferencedFails(t) ==
  /\ pc[t] = "sw_cas" /\ old[t].nonpointer /\ ~old[t].weakly_referenced
  /\ old' = [old EXCEPT ![t] = isa]
  /\ UNCHANGED <<objVars, lifeVars, full, locked, try, lockVars, pc>>

\* storeWeak of nil: unregistered, but the object keeps its weakly_referenced
ClearWeak(t) ==
  /\ "clearWeak" \in Ops
  /\ pc[t] \in {"idle", "dealloc"}
  /\ weakRef /\ lock = NoThread
  /\ weakRef' = FALSE
  /\ UNCHANGED <<isa, side, lifeVars, localVars, lockVars, pc>>

BeginLoadWeak(t) ==
  /\ "loadWeak" \in Ops
  /\ (pc[t] = "idle" /\ Room) \/ pc[t] = "dealloc"
  /\ weakRef /\ lock = NoThread
  /\ lock' = t
  /\ Goto(t, "rt_load")
  /\ full' = [full EXCEPT ![t] = FALSE]
  /\ locked' = [locked EXCEPT ![t] = FALSE]
  /\ try' = [try EXCEPT ![t] = TRUE]
  /\ UNCHANGED <<objVars, lifeVars, old, crashed>>

\* the caller of tryRetain unlocks
LoadWeakUnlock(t) ==
  /\ pc[t] = "lw_unlock"
  /\ Unlock(t)
  /\ Goto(t, Home(t))
  /\ UNCHANGED <<objVars, lifeVars, localVars>>

-----------------------------------------------------------------------------
(* -dealloc ends in rootDealloc.                                           *)

\* no weak reference, no side table count, and here no associated object
\* and no C++ destructor
rootDealloc_fast(t) ==
  /\ pc[t] = "dealloc" /\ nest # 1
  /\ isa.nonpointer /\ ~isa.weakly_referenced /\ ~isa.has_sidetable_rc
  /\ freed' = TRUE
  /\ Goto(t, "idle")
  /\ UNCHANGED <<objVars, deallocator, refs, nest, localVars, lockVars>>

\* a slip: the weak location is cleared without the lock
clearDeallocating_Unlocked(t) ==
  /\ pc[t] = "dealloc" /\ nest # 1
  /\ weakRef' = FALSE /\ side' = NoEntry
  /\ Goto(t, "da_free")
  /\ UNCHANGED <<isa, lifeVars, localVars, lockVars>>

\* object_dispose ends in clearDeallocating
clearDeallocating(t) ==
  /\ pc[t] = "dealloc" /\ nest # 1
  /\ \/ /\ ~isa.nonpointer /\ lock = NoThread
        /\ weakRef' = (weakRef /\ ~side.weakly_referenced)
        /\ side' = NoEntry
     \/ /\ isa.nonpointer /\ lock = NoThread
        /\ isa.weakly_referenced \/ isa.has_sidetable_rc
        /\ weakRef' = (weakRef /\ ~isa.weakly_referenced)
        /\ side' = IF isa.has_sidetable_rc THEN NoEntry ELSE side
     \/ /\ isa.nonpointer
        /\ ~isa.weakly_referenced /\ ~isa.has_sidetable_rc
        /\ UNCHANGED <<weakRef, side>>
  /\ Goto(t, "da_free")
  /\ UNCHANGED <<isa, lifeVars, localVars, lockVars>>

Free(t) ==
  /\ pc[t] = "da_free"
  /\ freed' = TRUE
  /\ Goto(t, "idle")
  /\ UNCHANGED <<objVars, deallocator, refs, nest, localVars, lockVars>>

-----------------------------------------------------------------------------
Init ==
  /\ \E nonpointer \in BOOLEAN : isa = initIsa(nonpointer)
  /\ side = NoEntry /\ weakRef = FALSE
  /\ lock = NoThread /\ crashed = FALSE
  /\ deallocator = NoThread /\ freed = FALSE
  /\ refs = 1 /\ nest = 0
  /\ pc = [t \in Threads |-> "idle"]
  /\ old = [t \in Threads |-> RawIsa]
  /\ full = [t \in Threads |-> FALSE]
  /\ locked = [t \in Threads |-> FALSE]
  /\ try = [t \in Threads |-> FALSE]

Begin(t) == \/ BeginRetain(t) \/ BeginRelease(t) \/ BeginChangeIsa(t)
            \/ BeginRetainCount(t) \/ BeginStoreWeak(t) \/ BeginLoadWeak(t)
            \/ ClearWeak(t)

RetainStep(t) ==
  \/ RetainLoad(t) \/ RetainRaw(t) \/ TryRetainRaw(t) \/ RetainDeallocating(t)
  \/ rootRetain_overflow(t) \/ RetainLock(t) \/ RetainStore(t)
  \/ RetainStoreFails(t) \/ RetainAddExtra(t)

ReleaseStep(t) ==
  \/ ReleaseLoad(t) \/ ReleaseRaw(t) \/ ReleaseDeallocating(t)
  \/ ReleaseStore(t) \/ ReleaseStoreFails(t) \/ rootRelease_underflow(t)
  \/ ReleaseLock(t) \/ ReleaseBorrow(t) \/ ReleaseStoreBorrowed(t)
  \/ ReleaseStoreBorrowedFails(t) \/ ReleasePutBack(t)

ChangeIsaStep(t) ==
  \/ ChangeIsaLoad(t) \/ ChangeIsaLock(t) \/ ChangeIsaStore(t)
  \/ ChangeIsaStoreFails(t) \/ ChangeIsaMove(t)

OtherStep(t) ==
  \/ RetainCountRead(t) \/ RetainCountSide(t)
  \/ StoreWeakLoad(t) \/ SetWeaklyReferenced(t) \/ SetWeaklyReferencedFails(t)
  \/ LoadWeakUnlock(t)
  \/ rootDealloc_fast(t) \/ clearDeallocating(t) \/ Free(t)

ThreadStep(t) ==
  Begin(t) \/ RetainStep(t) \/ ReleaseStep(t) \/ ChangeIsaStep(t) \/ OtherStep(t)

\* an abort stops the process
Next == ~crashed /\ \E t \in Threads : ThreadStep(t)

Spec == Init /\ [][Next]_vars

-----------------------------------------------------------------------------
(* Fairness: a thread in a call takes its next step when it can and goes   *)
(* on being able to, and a StoreExclusive that may succeed again and again *)
(* succeeds. The lock is an os_unfair_lock, which may starve a waiter for  *)
(* as long as others come for it; no fairness of acquiring it is assumed.  *)
(* What is assumed is that clients make finitely many calls, however many. *)

\* a step of a call, or the release by a -dealloc that has retained self
CallStep(t) ==
  \/ RetainStep(t) \/ ReleaseStep(t) \/ ChangeIsaStep(t) \/ OtherStep(t)
  \/ pc[t] = "dealloc" /\ BeginRelease(t)

Stores(t) ==
  \/ RetainStore(t) \/ ReleaseStore(t) \/ ReleaseStoreBorrowed(t)
  \/ ChangeIsaStore(t) \/ SetWeaklyReferenced(t)

Fairness ==
  \A t \in Threads :
    WF_vars(~crashed /\ CallStep(t)) /\ SF_vars(~crashed /\ Stores(t))

\* from some time on nobody begins a call
FiniteCalls == <>[][\E t \in Threads : CallStep(t)]_vars

FairSpec == Spec /\ Fairness /\ FiniteCalls

-----------------------------------------------------------------------------
(* Properties.                                                             *)

\* Every variable keeps its type.
TypeOK ==
  /\ isa \in IsaWord /\ side \in Entry /\ weakRef \in BOOLEAN
  /\ lock \in Threads \cup {NoThread} /\ crashed \in BOOLEAN
  /\ deallocator \in Threads \cup {NoThread} /\ freed \in BOOLEAN
  /\ refs \in Nat /\ nest \in 0..2
  /\ pc \in [Threads -> Labels] /\ old \in [Threads -> IsaWord]
  /\ full \in [Threads -> BOOLEAN] /\ locked \in [Threads -> BOOLEAN]
  /\ try \in [Threads -> BOOLEAN]

\* Whenever no thread is inside the side table lock, the count split over the
\* isa word and the side table is the number of references: the lock-free
\* updates, the overflow, the borrow and the change of isa lose or invent none.
\* (A pinned count, which no longer counts, is excepted.)
CountsConserved ==
  lock = NoThread /\ deallocator = NoThread /\ ~Pinned(side)
    => rootRetainCount = Total

\* No thread is inside a retain, release, weak store or load of the object
\* once its memory is freed.
NoUseAfterFree ==
  freed => \A t \in Threads : pc[t] \in {"idle", "lw_unlock"}

\* The memory is freed only after the weak location was cleared and the side
\* table entry erased: assert(!sidetable_present()).
NothingLeftBehind == freed => ~weakRef /\ side = NoEntry

\* An object's end: nobody is inside it when its memory is freed, and nothing is left
\* that says it lived (rootDealloc, clearDeallocating).
FreedClean == NoUseAfterFree /\ NothingLeftBehind

\* No thread unlocks the side table's lock unless it owns it.
NoForeignUnlock == ~crashed

\* Only an overflow of the side table's count may pin it.
NeverPinned == ~Pinned(side) \/ deallocator # NoThread

\* The abstract lifetime: every retain, successful weak load and release takes
\* effect at one instant, the release of the last reference sends -dealloc and no
\* other does, whatever weak loads, overflows and borrows are under way. (Only a
\* pinned count is given up without a -dealloc.)
Phase == IF freed THEN "freed"
         ELSE IF deallocator # NoThread THEN "deallocating" ELSE "alive"

Life == INSTANCE Lifetime WITH count <- Total, phase <- Phase

ImplementsLifetime == Life!Init /\ [][Life!Next \/ Pinned(side)]_<<Total, Phase>>

\* Every call returns: no thread waits for ever for the side table lock or in a
\* loop of failing stores. (A weak load may abort instead: see NoForeignUnlock.)
CallsTerminate ==
  \A t \in Threads : []<>(pc[t] \in {"idle", "dealloc"} \/ crashed)

\* An object that has no reference left is freed in the end, weak stores and
\* loads of other threads notwithstanding.
DeallocEnds == deallocator # NoThread ~> freed \/ crashed
=============================================================================
