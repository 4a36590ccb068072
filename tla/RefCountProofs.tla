--------------------------- MODULE RefCountProofs ---------------------------
(***************************************************************************)
(* Theorems about RefCount, for any number of threads and any widths of    *)
(* the inline and the side table counts: no count leaves its field, the    *)
(* counts are as many as the references, a freed object is not in use, and *)
(* the object lives as Lifetime says.                                      *)
(***************************************************************************)
EXTENDS RefCount, FiniteSetTheorems, TLAPS

-----------------------------------------------------------------------------
(* The operators on side table entries stay within an entry's type.        *)

LEMMA EntryTypes ==
  ASSUME NEW e \in Entry, NEW i \in IsaWord
  PROVE  /\ NoEntry \in Entry
         /\ SideRetained(e) \in Entry
         /\ SideReleased(e) \in Entry
         /\ sidetable_addExtraRC(e, RC_HALF) \in Entry
         /\ sidetable_subExtraRC(e, RC_HALF) \in Entry
         /\ sidetable_clearExtraRC(e) \in Entry
         /\ sidetable_moveExtraRC(e, i) \in Entry
<1> USE ConstantsAssumption DEF Entry, IsaWord, Pinned, NoEntry, RC_MAX, SIDE_MOD
<1>1. NoEntry \in Entry
  OBVIOUS
<1>0. /\ e.rc \in Nat /\ e.rc < SIDE_MOD
      /\ ~Pinned(e) => e.rc + 1 \in 0..SIDE_MOD - 1
      /\ ~Pinned(e) => e.rc + RC_HALF \in 0..SIDE_MOD - 1
  OBVIOUS
<1>2. SideRetained(e) \in Entry
  BY <1>0, SideRetained(e) = IF Pinned(e) THEN [e EXCEPT !.here = TRUE]
             ELSE [e EXCEPT !.here = TRUE, !.rc = e.rc + 1] DEF SideRetained
<1>3. SideReleased(e) \in Entry
  <2>1. (e.rc - 1) % SIDE_MOD \in 0..SIDE_MOD - 1
    OBVIOUS
  <2>2. CASE SideLastReference(e)
    BY <2>2 DEF SideReleased
  <2>3. CASE ~SideLastReference(e) /\ Pinned(e)
    BY <2>3 DEF SideReleased
  <2>4. CASE ~SideLastReference(e) /\ ~Pinned(e)
    <3>1. SideReleased(e) = [e EXCEPT !.rc = (e.rc - 1) % SIDE_MOD]
      BY <2>4 DEF SideReleased
    <3> QED BY <3>1, <2>1
  <2> QED BY <2>2, <2>3, <2>4
<1>4. sidetable_addExtraRC(e, RC_HALF) \in Entry
  <2>1. CASE Pinned(e)
    BY <2>1 DEF sidetable_addExtraRC
  <2>2. CASE ~Pinned(e)
    <3>1. sidetable_addExtraRC(e, RC_HALF)
            = [e EXCEPT !.here = TRUE, !.rc = e.rc + RC_HALF]
      BY <2>2 DEF sidetable_addExtraRC
    <3> QED BY <1>0, <2>2, <3>1
  <2> QED BY <2>1, <2>2
<1>5. sidetable_subExtraRC(e, RC_HALF) \in Entry
  BY DEF sidetable_subExtraRC
<1>6. sidetable_clearExtraRC(e) \in Entry
  BY DEF sidetable_clearExtraRC
<1>7. sidetable_moveExtraRC(e, i) \in Entry
  BY DEF sidetable_moveExtraRC, IsDeallocating
<1> QED BY <1>1, <1>2, <1>3, <1>4, <1>5, <1>6, <1>7

-----------------------------------------------------------------------------
(* Type correctness.                                                       *)

LEMMA InitIsaTypes ==
  /\ RawIsa \in IsaWord
  /\ \A nonpointer \in BOOLEAN : initIsa(nonpointer) \in IsaWord
<1>1. 0 \in 0..RC_MAX /\ 1 \in 0..RC_MAX
  BY ConstantsAssumption DEF RC_MAX
<1>2. RawIsa \in IsaWord
  BY <1>1 DEF RawIsa, IsaWord
<1>3. initIsa(TRUE) = [RawIsa EXCEPT !.nonpointer = TRUE, !.extra_rc = 1]
  BY DEF initIsa
<1>4. initIsa(TRUE) \in IsaWord
  BY <1>1, <1>2, <1>3 DEF IsaWord
<1> QED BY <1>2, <1>4 DEF initIsa

\* The updates rootRetain, rootRelease and setWeaklyReferenced_nolock store.
LEMMA IsaTypes ==
  ASSUME NEW i \in IsaWord
  PROVE  /\ i.extra_rc # RC_MAX => [i EXCEPT !.extra_rc = @ + 1] \in IsaWord
         /\ i.extra_rc > 0 => [i EXCEPT !.extra_rc = @ - 1] \in IsaWord
         /\ [i EXCEPT !.extra_rc = RC_HALF, !.has_sidetable_rc = TRUE] \in IsaWord
         /\ [i EXCEPT !.weakly_referenced = TRUE] \in IsaWord
         /\ i.extra_rc + (RC_HALF - 1) <= RC_MAX => Borrowed(i) \in IsaWord
<1>1. /\ i.extra_rc \in Int /\ i.extra_rc >= 0 /\ i.extra_rc <= RC_MAX
      /\ RC_MAX \in Nat /\ RC_HALF \in 0..RC_MAX /\ RC_HALF - 1 \in Nat
  BY ConstantsAssumption DEF IsaWord, RC_MAX
<1>2. ASSUME NEW n \in 0..RC_MAX, NEW b \in BOOLEAN
      PROVE  /\ [i EXCEPT !.extra_rc = n] \in IsaWord
             /\ [i EXCEPT !.extra_rc = n, !.has_sidetable_rc = b] \in IsaWord
  BY DEF IsaWord
<1>3. [i EXCEPT !.weakly_referenced = TRUE] \in IsaWord
  BY DEF IsaWord
<1>4. i.extra_rc # RC_MAX => i.extra_rc + 1 \in 0..RC_MAX
  BY <1>1
<1>5. i.extra_rc > 0 => i.extra_rc - 1 \in 0..RC_MAX
  BY <1>1
<1>6. i.extra_rc + (RC_HALF - 1) <= RC_MAX => i.extra_rc + (RC_HALF - 1) \in 0..RC_MAX
  BY <1>1
<1> QED BY <1>1, <1>2, <1>3, <1>4, <1>5, <1>6 DEF Borrowed

LEMMA InitType == Init => TypeOK
<1> SUFFICES ASSUME Init PROVE TypeOK
  OBVIOUS
<1>1. isa \in IsaWord /\ RawIsa \in IsaWord
  BY InitIsaTypes DEF Init
<1>2. NoEntry \in Entry
  BY ConstantsAssumption DEF NoEntry, Entry, SIDE_MOD
<1>3. lock = NoThread /\ crashed = FALSE /\ weakRef = FALSE
      /\ deallocator = NoThread /\ freed = FALSE /\ refs = 1 /\ nest = 0
  BY DEF Init
<1>4. /\ pc \in [Threads -> Labels] /\ old \in [Threads -> IsaWord]
      /\ full \in [Threads -> BOOLEAN] /\ locked \in [Threads -> BOOLEAN]
      /\ try \in [Threads -> BOOLEAN]
  BY <1>1 DEF Init, Labels
<1>5. side \in Entry
  BY <1>2 DEF Init
<1>6. refs \in Nat /\ nest \in 0..2
  BY <1>3
<1> QED BY <1>1, <1>3, <1>4, <1>5, <1>6 DEF TypeOK

LEMMA BeginType ==
  ASSUME TypeOK, NEW t \in Threads, Begin(t)
  PROVE  TypeOK'
<1> USE DEF TypeOK, Labels, Goto, Home, Unlock, UnlockIf, Counted, AfterRetain, Deallocate, DeallocateIf, objVars, lifeVars, localVars, lockVars
<1>1. CASE BeginRetain(t)
  BY <1>1 DEF BeginRetain
<1>2. CASE BeginRelease(t)
  BY <1>2 DEF BeginRelease
<1>3. CASE BeginChangeIsa(t)
  BY <1>3 DEF BeginChangeIsa
<1>4. CASE BeginRetainCount(t)
  BY <1>4 DEF BeginRetainCount
<1>5. CASE BeginStoreWeak(t)
  BY <1>5 DEF BeginStoreWeak
<1>6. CASE BeginLoadWeak(t)
  BY <1>6 DEF BeginLoadWeak
<1>7. CASE ClearWeak(t)
  BY <1>7 DEF ClearWeak
<1> QED BY <1>1, <1>2, <1>3, <1>4, <1>5, <1>6, <1>7 DEF Begin

LEMMA RetainStepType ==
  ASSUME TypeOK, NEW t \in Threads, RetainStep(t)
  PROVE  TypeOK'
<1> USE DEF TypeOK, Labels, Goto, Home, Unlock, UnlockIf, Counted, AfterRetain, Deallocate, DeallocateIf, objVars, lifeVars, localVars, lockVars
<1>1. CASE RetainLoad(t)
  BY <1>1 DEF RetainLoad
<1>2. CASE RetainRaw(t)
  BY <1>2, EntryTypes DEF RetainRaw
<1>3. CASE TryRetainRaw(t)
  BY <1>3, EntryTypes DEF TryRetainRaw
<1>4. CASE RetainDeallocating(t)
  BY <1>4 DEF RetainDeallocating
<1>5. CASE rootRetain_overflow(t)
  BY <1>5 DEF rootRetain_overflow
<1>6. CASE RetainLock(t)
  BY <1>6 DEF RetainLock
<1>7. CASE RetainStore(t)
  <2>1. isa' \in IsaWord
    BY <1>7, IsaTypes
       DEF RetainStore, RetainReady, RetainLive, Overflows, RetainMarksLocked
  <2> QED BY <1>7, <2>1 DEF RetainStore, RetainMarksLocked
<1>8. CASE RetainStoreFails(t)
  BY <1>8 DEF RetainStoreFails, RetainMarksLocked
<1>9. CASE RetainAddExtra(t)
  BY <1>9, EntryTypes DEF RetainAddExtra
<1> QED BY <1>1, <1>2, <1>3, <1>4, <1>5, <1>6, <1>7, <1>8, <1>9 DEF RetainStep

LEMMA ReleaseStepType ==
  ASSUME TypeOK, NEW t \in Threads, ReleaseStep(t)
  PROVE  TypeOK'
<1> USE DEF TypeOK, Labels, Goto, Home, Unlock, UnlockIf, Counted, AfterRetain, Deallocate, DeallocateIf, objVars, lifeVars, localVars, lockVars
<1>1. CASE ReleaseLoad(t)
  BY <1>1 DEF ReleaseLoad
<1>2. CASE ReleaseRaw(t)
  <2>1. side' \in Entry
    BY <1>2, EntryTypes DEF ReleaseRaw
  <2>2. pc' \in [Threads -> Labels] /\ nest' \in 0..2
        /\ deallocator' \in Threads \cup {NoThread}
    BY <1>2 DEF ReleaseRaw
  <2> QED BY <1>2, <2>1, <2>2 DEF ReleaseRaw
<1>3. CASE ReleaseDeallocating(t)
  BY <1>3 DEF ReleaseDeallocating
<1>4. CASE ReleaseStore(t)
  <2>1. isa' \in IsaWord
    BY <1>4, IsaTypes DEF ReleaseStore, ReleaseReady
  <2>2. pc' \in [Threads -> Labels] /\ nest' \in 0..2
        /\ deallocator' \in Threads \cup {NoThread}
    BY <1>4 DEF ReleaseStore
  <2> QED BY <1>4, <2>1, <2>2 DEF ReleaseStore
<1>5. CASE ReleaseStoreFails(t)
  BY <1>5 DEF ReleaseStoreFails
<1>6. CASE rootRelease_underflow(t)
  BY <1>6 DEF rootRelease_underflow
<1>7. CASE ReleaseLock(t)
  BY <1>7 DEF ReleaseLock
<1>8. CASE ReleaseBorrow(t)
  BY <1>8, EntryTypes DEF ReleaseBorrow
<1>9. CASE ReleaseStoreBorrowed(t)
  <2>1. isa' \in IsaWord
    BY <1>9, IsaTypes DEF ReleaseStoreBorrowed
  <2>2. side' \in Entry
    BY <1>9, EntryTypes DEF ReleaseStoreBorrowed
  <2>3. pc' \in [Threads -> Labels] /\ nest' \in 0..2
        /\ deallocator' \in Threads \cup {NoThread}
    BY <1>9 DEF ReleaseStoreBorrowed
  <2> QED BY <1>9, <2>1, <2>2, <2>3 DEF ReleaseStoreBorrowed
<1>10. CASE ReleaseStoreBorrowedFails(t)
  BY <1>10 DEF ReleaseStoreBorrowedFails
<1>11. CASE ReleasePutBack(t)
  BY <1>11, EntryTypes DEF ReleasePutBack
<1> QED BY <1>1, <1>2, <1>3, <1>4, <1>5, <1>6, <1>7, <1>8, <1>9, <1>10, <1>11 DEF ReleaseStep

LEMMA ChangeIsaStepType ==
  ASSUME TypeOK, NEW t \in Threads, ChangeIsaStep(t)
  PROVE  TypeOK'
<1> USE DEF TypeOK, Labels, Goto, Home, Unlock, UnlockIf, Counted, AfterRetain, Deallocate, DeallocateIf, objVars, lifeVars, localVars, lockVars
<1>1. CASE ChangeIsaLoad(t)
  BY <1>1 DEF ChangeIsaLoad
<1>2. CASE ChangeIsaLock(t)
  BY <1>2 DEF ChangeIsaLock
<1>3. CASE ChangeIsaStore(t)
  BY <1>3, InitIsaTypes DEF ChangeIsaStore
<1>4. CASE ChangeIsaStoreFails(t)
  BY <1>4 DEF ChangeIsaStoreFails
<1>5. CASE ChangeIsaMove(t)
  BY <1>5, EntryTypes DEF ChangeIsaMove
<1> QED BY <1>1, <1>2, <1>3, <1>4, <1>5 DEF ChangeIsaStep

LEMMA OtherStepType ==
  ASSUME TypeOK, NEW t \in Threads, OtherStep(t)
  PROVE  TypeOK'
<1> USE DEF TypeOK, Labels, Goto, Home, Unlock, UnlockIf, Counted, AfterRetain, Deallocate, DeallocateIf, objVars, lifeVars, localVars, lockVars
<1>1. CASE RetainCountRead(t)
  BY <1>1 DEF RetainCountRead
<1>2. CASE RetainCountSide(t)
  BY <1>2 DEF RetainCountSide
<1>3. CASE StoreWeakLoad(t)
  BY <1>3 DEF StoreWeakLoad
<1>4. CASE SetWeaklyReferenced(t)
  <2>1. isa' \in IsaWord
    BY <1>4, IsaTypes DEF SetWeaklyReferenced
  <2>2. side' \in Entry
    BY <1>4 DEF SetWeaklyReferenced, Entry
  <2> QED BY <1>4, <2>1, <2>2 DEF SetWeaklyReferenced
<1>5. CASE SetWeaklyReferencedFails(t)
  BY <1>5 DEF SetWeaklyReferencedFails
<1>6. CASE LoadWeakUnlock(t)
  BY <1>6 DEF LoadWeakUnlock
<1>7. CASE rootDealloc_fast(t)
  BY <1>7 DEF rootDealloc_fast
<1>8. CASE clearDeallocating(t)
  BY <1>8, EntryTypes DEF clearDeallocating
<1>9. CASE Free(t)
  BY <1>9 DEF Free
<1> QED BY <1>1, <1>2, <1>3, <1>4, <1>5, <1>6, <1>7, <1>8, <1>9 DEF OtherStep

LEMMA TypeStep ==
  ASSUME TypeOK, NEW t \in Threads, ThreadStep(t)
  PROVE  TypeOK'
BY BeginType, RetainStepType, ReleaseStepType, ChangeIsaStepType, OtherStepType
   DEF ThreadStep

\* Every reachable state is well typed: in particular no count leaves the
\* width of its field, whatever the order of overflows, borrows and put-backs.
THEOREM TypeCorrect == Spec => []TypeOK
<1>1. TypeOK /\ [Next]_vars => TypeOK'
  <2> SUFFICES ASSUME TypeOK, [Next]_vars PROVE TypeOK'
    OBVIOUS
  <2>1. CASE UNCHANGED vars
    BY <2>1 DEF TypeOK, vars, objVars, lifeVars, localVars, lockVars
  <2>2. ASSUME NEW t \in Threads, ThreadStep(t) PROVE TypeOK'
    BY <2>2, TypeStep
  <2> QED BY <2>1, <2>2 DEF Next
<1> QED BY InitType, <1>1, PTL DEF Spec

-----------------------------------------------------------------------------
(* The inductive invariant.                                                *)

Alive == deallocator = NoThread

\* the threads inside the side table's lock
InCritical(t) ==
  \/ pc[t] \in {"rt_load", "rt_cas"} /\ (try[t] \/ locked[t])
  \/ pc[t] \in {"rl_load", "rl_cas", "ci_load", "ci_cas"} /\ locked[t]
  \/ pc[t] \in {"rt_add", "rl_put1", "rl_put2", "rl_back", "ci_move", "rc_read",
                "sw_load", "sw_cas"}

Moving(t) == pc[t] \in {"rt_add", "rl_put1", "rl_put2", "rl_back"}

\* the counts a thread carries between the isa word and the side table
Carried(t) == IF Moving(t) THEN RC_HALF
              ELSE IF pc[t] = "ci_move" THEN old[t].extra_rc - 1
              ELSE 0

\* only the thread inside the lock carries any
InTransit == IF lock = NoThread THEN 0 ELSE Carried(lock)

HalfMoving == lock # NoThread /\ Moving(lock)

\* the counts that are in one of them
Count == side.rc + IF isa.nonpointer THEN isa.extra_rc ELSE 1

Halves == {k * RC_HALF : k \in Nat}

Owners == \A t \in Threads : InCritical(t) => lock = t

SideShape ==
  /\ Alive => ~side.deallocating
  /\ isa.nonpointer =>
       /\ ~side.weakly_referenced
       /\ ~isa.has_sidetable_rc => side = NoEntry
       /\ isa.has_sidetable_rc => side.rc > 0 \/ HalfMoving
  /\ Alive /\ isa.nonpointer => ~Pinned(side) /\ side.rc \in Halves

OldIsa(t) ==
  /\ pc[t] \in {"rt_cas", "rl_cas", "ci_cas", "sw_cas", "rl_put1", "rl_put2"}
       => old[t].nonpointer \/ ~isa.nonpointer
  /\ Alive /\ pc[t] = "rl_cas" /\ old[t].nonpointer => ~IsDeallocating(old[t])
  /\ pc[t] = "rl_cas" /\ locked[t] /\ old[t].nonpointer /\ old[t].has_sidetable_rc
       => isa.nonpointer /\ isa.has_sidetable_rc
  /\ pc[t] = "sw_cas" /\ old[t].nonpointer
       => isa.nonpointer /\ (old[t].weakly_referenced => isa.weakly_referenced)
  /\ Moving(t) => isa.nonpointer /\ isa.has_sidetable_rc
  /\ pc[t] \in {"rl_put1", "rl_put2"} => old[t].nonpointer
  /\ pc[t] = "ci_move" => /\ ~isa.nonpointer /\ ~side.weakly_referenced
                          /\ old[t].nonpointer /\ ~IsDeallocating(old[t])

Conserved == Alive /\ ~Pinned(side) => Total >= 1 /\ Count + InTransit = Total

Bounded == Alive => Total + Cardinality(Retaining) <= MaxRefs

Relied == \A t \in Threads : t \in Using => refs > 0

Flagged == IF isa.nonpointer THEN isa.weakly_referenced ELSE side.weakly_referenced

\* the thread inside the lock is about to flag it
FlagComing ==
  /\ lock # NoThread
  /\ \/ pc[lock] \in {"sw_load", "sw_cas"}
     \/ pc[lock] = "ci_move" /\ old[lock].weakly_referenced

WeakFlag ==
  /\ weakRef => Flagged \/ FlagComing
  /\ \A t \in Threads : pc[t] \in {"rt_load", "rt_cas"} /\ try[t] => weakRef

Gone == freed \/ pc[deallocator] = "da_free"

\* outside, or in a weak load, which finds the object deallocating
Away(t) == \/ pc[t] \in {"idle", "lw_unlock"}
           \/ pc[t] \in {"rt_load", "rt_cas"} /\ try[t]

\* -dealloc of the object: what each thread still does
Ending ==
  /\ \A t \in Threads : pc[t] \in {"dealloc", "da_free"} => t = deallocator
  /\ Alive => ~freed
  /\ ~Alive =>
       /\ refs = 0
       /\ \A t \in Threads \ {deallocator} : Away(t)
       /\ IF freed THEN pc[deallocator] = "idle"
          ELSE pc[deallocator] \in {"dealloc", "da_free", "rt_load", "rt_cas",
                                    "rl_load", "rl_cas", "lw_unlock"}
       /\ pc[deallocator] \in {"rt_cas", "rl_cas"} /\ old[deallocator].nonpointer
            => IsDeallocating(old[deallocator])
       /\ IF Gone THEN ~weakRef /\ side = NoEntry
          ELSE IF isa.nonpointer THEN IsDeallocating(isa) ELSE side.deallocating

-----------------------------------------------------------------------------
(* A step of one thread leaves the others where they are.                  *)

Elsewhere(t) ==
  /\ deallocator' = deallocator \/ (deallocator' = t /\ pc'[t] = "dealloc")
  /\ freed => freed'
  /\ \A u \in Threads \ {t} :
       /\ pc'[u] = pc[u] /\ old'[u] = old[u]
       /\ full'[u] = full[u] /\ locked'[u] = locked[u] /\ try'[u] = try[u]
       /\ u = deallocator' <=> u = deallocator

LEMMA CardinalityStep ==
  ASSUME NEW S \in SUBSET Threads, NEW T \in SUBSET Threads, NEW t \in Threads,
         \A u \in Threads \ {t} : u \in T <=> u \in S
  PROVE  /\ Cardinality(S) \in Nat /\ Cardinality(T) \in Nat
         /\ Cardinality(T) = Cardinality(S) + (IF t \in T THEN 1 ELSE 0)
                                            - (IF t \in S THEN 1 ELSE 0)
<1>1. IsFiniteSet(S) /\ IsFiniteSet(T)
  BY ConstantsAssumption, FS_Subset
<1>2. Cardinality(S) \in Nat /\ Cardinality(T) \in Nat
  BY <1>1, FS_CardinalityType
<1>3. CASE t \in T <=> t \in S
  <2>1. T = S
    BY <1>3
  <2> QED BY <1>2, <2>1
<1>4. CASE t \in T /\ t \notin S
  <2>1. T = S \cup {t}
    BY <1>4
  <2> QED BY <1>1, <1>2, <1>4, <2>1, FS_AddElement
<1>5. CASE t \notin T /\ t \in S
  <2>1. S = T \cup {t}
    BY <1>5
  <2> QED BY <1>1, <1>2, <1>5, <2>1, FS_AddElement
<1> QED BY <1>3, <1>4, <1>5


Releases(t) == t # deallocator /\ pc[t] \in {"rl_load", "rl_cas", "rl_put1",
                                             "rl_put2", "rl_back"}
Retains(t) == t # deallocator /\ pc[t] \in {"rt_load", "rt_cas"}

\* ... so what the clients own changes by what the thread did.
LEMMA Counting ==
  ASSUME TypeOK, NEW t \in Threads, Elsewhere(t), refs' \in Nat
  PROVE  /\ Total \in Nat /\ Cardinality(Retaining) \in Nat
         /\ Total' = Total + (refs' - refs) + (IF Releases(t)' THEN 1 ELSE 0)
                                            - (IF Releases(t) THEN 1 ELSE 0)
         /\ Cardinality(Retaining') = Cardinality(Retaining)
              + (IF Retains(t)' THEN 1 ELSE 0) - (IF Retains(t) THEN 1 ELSE 0)
<1>1. Releasing \in SUBSET Threads /\ Releasing' \in SUBSET Threads
      /\ Retaining \in SUBSET Threads /\ Retaining' \in SUBSET Threads
  BY DEF Releasing, Retaining
<1>2. \A u \in Threads \ {t} : /\ u \in Releasing' <=> u \in Releasing
                               /\ u \in Retaining' <=> u \in Retaining
  BY DEF Elsewhere, Releasing, Retaining
<1>3. /\ t \in Releasing <=> Releases(t)
      /\ t \in Releasing' <=> Releases(t)'
      /\ t \in Retaining <=> Retains(t)
      /\ t \in Retaining' <=> Retains(t)'
  BY DEF Releasing, Retaining, Releases, Retains
<1>4. /\ Cardinality(Releasing) \in Nat /\ Cardinality(Releasing') \in Nat
      /\ Cardinality(Releasing') = Cardinality(Releasing)
           + (IF t \in Releasing' THEN 1 ELSE 0) - (IF t \in Releasing THEN 1 ELSE 0)
  BY <1>1, <1>2, CardinalityStep
<1>5. /\ Cardinality(Retaining) \in Nat
      /\ Cardinality(Retaining') = Cardinality(Retaining)
           + (IF t \in Retaining' THEN 1 ELSE 0) - (IF t \in Retaining THEN 1 ELSE 0)
  BY <1>1, <1>2, CardinalityStep
<1> QED BY <1>3, <1>4, <1>5 DEF Total, TypeOK

LEMMA Halved ==
  /\ 0 \in Halves
  /\ \A n \in Halves : /\ n \in Nat /\ n + RC_HALF \in Halves
                       /\ n > 0 => n >= RC_HALF /\ n - RC_HALF \in Halves
<1>1. 0 \in Halves
  <2>1. 0 = 0 * RC_HALF
    BY ConstantsAssumption
  <2> QED BY <2>1 DEF Halves
<1>2. ASSUME NEW n \in Halves
      PROVE  /\ n \in Nat /\ n + RC_HALF \in Halves
             /\ n > 0 => n >= RC_HALF /\ n - RC_HALF \in Halves
  <2>1. PICK k \in Nat : n = k * RC_HALF
    BY DEF Halves
  <2>2. n \in Nat /\ n + RC_HALF = (k + 1) * RC_HALF
    BY <2>1, ConstantsAssumption
  <2>3. n + RC_HALF \in Halves
    BY <2>2 DEF Halves
  <2>4. ASSUME n > 0
        PROVE  n >= RC_HALF /\ n - RC_HALF \in Halves
    <3>1. k # 0
      BY <2>1, <2>4, ConstantsAssumption
    <3>2. PICK j \in Nat : k = j + 1
      BY <3>1
    <3>3. n = j * RC_HALF + RC_HALF /\ j * RC_HALF \in Nat
      BY <2>1, <3>2, ConstantsAssumption
    <3> QED BY <3>3, ConstantsAssumption DEF Halves
  <2> QED BY <2>2, <2>3, <2>4
<1> QED BY <1>1, <1>2

\* What each operator does to the fields of an entry.
LEMMA RetainedFields ==
  ASSUME NEW e \in Entry
  PROVE  LET r == SideRetained(e)
         IN  /\ r.rc = IF Pinned(e) THEN e.rc ELSE e.rc + 1
             /\ r.deallocating = e.deallocating
             /\ r.weakly_referenced = e.weakly_referenced
BY DEF SideRetained, Pinned, Entry

LEMMA AddedFields ==
  ASSUME NEW e \in Entry
  PROVE  LET r == sidetable_addExtraRC(e, RC_HALF)
         IN  /\ r.rc = IF Pinned(e) THEN e.rc ELSE e.rc + RC_HALF
             /\ r.deallocating = e.deallocating
             /\ r.weakly_referenced = e.weakly_referenced
BY DEF sidetable_addExtraRC, Pinned, Entry

LEMMA ReleasedFields ==
  ASSUME NEW e \in Entry
  PROVE  LET r == SideReleased(e)
         IN  /\ r.weakly_referenced = e.weakly_referenced
             /\ SideLastReference(e) => r.deallocating /\ r.rc = e.rc
             /\ ~SideLastReference(e) => r.deallocating = e.deallocating
             /\ ~SideLastReference(e) /\ Pinned(e) => r.rc = e.rc
             /\ e.rc > 0 /\ ~Pinned(e) => r.rc = e.rc - 1
<1> DEFINE r == SideReleased(e)
<1>1. CASE SideLastReference(e)
  <2>1. r = [e EXCEPT !.here = TRUE, !.deallocating = TRUE]
    BY <1>1 DEF SideReleased
  <2>2. r.deallocating /\ r.rc = e.rc /\ r.weakly_referenced = e.weakly_referenced
    BY <2>1 DEF Entry
  <2>3. e.rc = 0
    BY <1>1 DEF SideLastReference
  <2> QED BY <1>1, <2>2, <2>3
<1>2. CASE ~SideLastReference(e) /\ Pinned(e)
  <2>1. r = e
    BY <1>2 DEF SideReleased
  <2> QED BY <1>2, <2>1, ConstantsAssumption DEF Pinned, Entry
<1>3. CASE ~SideLastReference(e) /\ ~Pinned(e)
  <2>1. r = [e EXCEPT !.rc = (e.rc - 1) % SIDE_MOD]
    BY <1>3 DEF SideReleased
  <2>2. e.rc > 0 => (e.rc - 1) % SIDE_MOD = e.rc - 1
    BY ConstantsAssumption DEF Entry, SIDE_MOD
  <2> QED BY <1>3, <2>1, <2>2 DEF Entry
<1> QED BY <1>1, <1>2, <1>3

LEMMA SubtractedFields ==
  ASSUME NEW e \in Entry
  PROVE  LET r == sidetable_subExtraRC(e, RC_HALF)
         IN  /\ e.rc >= RC_HALF => r.rc = e.rc - RC_HALF
             /\ r.deallocating = e.deallocating
             /\ r.weakly_referenced = e.weakly_referenced
<1>1. e.rc >= RC_HALF => (e.rc - RC_HALF) % SIDE_MOD = e.rc - RC_HALF
  BY ConstantsAssumption DEF Entry, SIDE_MOD
<1> QED BY <1>1 DEF sidetable_subExtraRC, Entry

\* changeIsa moves what the isa word held, unless that pins the count.
LEMMA MovedFields ==
  ASSUME NEW e \in Entry, NEW i \in IsaWord
  PROVE  LET m == sidetable_moveExtraRC(e, i)
         IN  /\ m.deallocating = IsDeallocating(i)
             /\ m.weakly_referenced = i.weakly_referenced
             /\ ~Pinned(m) => i.extra_rc > 0 /\ m.rc = e.rc + i.extra_rc - 1
<1> USE ConstantsAssumption DEF Entry, IsaWord, Pinned, RC_MAX, SIDE_MOD
<1> DEFINE m == sidetable_moveExtraRC(e, i)
           sum == e.rc + ((i.extra_rc - 1) % SIDE_MOD)
<1>1. /\ m.rc = IF sum >= SIDE_MOD THEN SIDE_PINNED ELSE sum
      /\ m.deallocating = IsDeallocating(i)
      /\ m.weakly_referenced = i.weakly_referenced
  BY DEF sidetable_moveExtraRC
<1>2. e.rc \in Nat /\ i.extra_rc \in Nat /\ i.extra_rc <= RC_MAX
  OBVIOUS
<1>3. CASE i.extra_rc = 0
  <2>1. (i.extra_rc - 1) % SIDE_MOD = SIDE_MOD - 1
    BY <1>3
  <2>2. m.rc >= SIDE_PINNED
    BY <1>1, <1>2, <2>1
  <2> QED BY <1>1, <2>2
<1>4. CASE i.extra_rc > 0
  <2>1. (i.extra_rc - 1) % SIDE_MOD = i.extra_rc - 1
    BY <1>2, <1>4
  <2> QED BY <1>1, <1>2, <2>1
<1> QED BY <1>2, <1>3, <1>4

LEMMA CountTypes ==
  ASSUME TypeOK
  PROVE  Total \in Nat /\ Cardinality(Retaining) \in Nat
<1>1. Releasing \in SUBSET Threads /\ Retaining \in SUBSET Threads
  BY DEF Releasing, Retaining
<1>2. Cardinality(Releasing) \in Nat /\ Cardinality(Retaining) \in Nat
  BY <1>1, ConstantsAssumption, FS_Subset, FS_CardinalityType
<1> QED BY <1>2 DEF Total, TypeOK

-----------------------------------------------------------------------------
LEMMA LiveIsa ==
  ASSUME TypeOK, SideShape, Conserved, \A u \in Threads : OldIsa(u),
         Alive, isa.nonpointer
  PROVE  ~IsDeallocating(isa)
<1> SUFFICES ASSUME isa.extra_rc = 0, ~isa.has_sidetable_rc
             PROVE  FALSE
  BY DEF IsDeallocating
<1>1. side.rc = 0
  BY DEF SideShape, NoEntry
<1>2. InTransit = 0
  BY DEF TypeOK, InTransit, Carried, OldIsa
<1>3. Count = 0
  BY <1>1 DEF Count, TypeOK, Entry
<1>4. Total >= 1 /\ Count + InTransit = Total
  BY DEF SideShape, Conserved
<1> QED BY <1>2, <1>3, <1>4

LEMMA LastRelease ==
  ASSUME TypeOK, NEW t \in Threads, Alive, Relied, Ending, Releases(t), Total = 1
  PROVE  /\ refs = 0
         /\ \A u \in Threads \ {t} : Away(u) \/ pc[u] = "rt_add"
<1>1. Releasing \in SUBSET Threads /\ t \in Releasing
  BY DEF Releasing, Releases
<1>2. Releasing \ {t} \in SUBSET Threads
  BY <1>1
<1>3. /\ Cardinality(Releasing) \in Nat /\ Cardinality(Releasing \ {t}) \in Nat
      /\ Cardinality(Releasing \ {t}) = Cardinality(Releasing) - 1
  BY <1>1, <1>2, CardinalityStep
<1>4. refs = 0 /\ Cardinality(Releasing \ {t}) = 0
  BY <1>3 DEF Total, TypeOK
<1>5. Releasing \ {t} = {}
  BY <1>2, <1>4, ConstantsAssumption, FS_Subset, FS_EmptySet
<1>6. ASSUME NEW u \in Threads \ {t}
      PROVE  Away(u) \/ pc[u] = "rt_add"
  <2>1. u # deallocator /\ u \notin Releasing /\ u \notin Using
    BY <1>4, <1>5, ConstantsAssumption DEF Alive, Relied
  <2> QED BY <2>1 DEF Away, Releasing, Using, TypeOK, Labels, Ending
<1> QED BY <1>4, <1>6

LEMMA Transit ==
  ASSUME TypeOK, TypeOK', NEW t \in Threads, Elsewhere(t)
  PROVE  /\ InTransit \in Int /\ InTransit' \in Int
         /\ lock = t => InTransit = Carried(t)
         /\ lock' = t => InTransit' = (Carried(t))'
         /\ lock = NoThread => InTransit = 0
         /\ lock' = NoThread => InTransit' = 0
         /\ Carried(t) = 0 /\ (Carried(t))' = 0
              /\ (lock' = lock \/ (lock \in {t, NoThread} /\ lock' \in {t, NoThread}))
              => InTransit' = InTransit
<1>1. /\ lock = t => InTransit = Carried(t)
      /\ lock' = t => InTransit' = (Carried(t))'
      /\ lock = NoThread => InTransit = 0
      /\ lock' = NoThread => InTransit' = 0
  BY ConstantsAssumption DEF InTransit
<1>2. InTransit \in Int /\ InTransit' \in Int
  BY ConstantsAssumption DEF InTransit, Carried, TypeOK, IsaWord
<1>3. lock' = lock /\ lock # t => InTransit' = InTransit
  BY DEF InTransit, Carried, Moving, Elsewhere, TypeOK
<1> QED BY <1>1, <1>2, <1>3

-----------------------------------------------------------------------------
(* One lemma for each part of the invariant: every step keeps it.          *)

\* A step of a thread leaves the others where they are, and only its own end of a
\* last release makes it the deallocator.
LEMMA Locality ==
  ASSUME TypeOK, NEW t \in Threads, ThreadStep(t), Ending
  PROVE  Elsewhere(t)
<1> USE ConstantsAssumption DEF Goto, Home, Unlock, UnlockIf, Counted,
       AfterRetain, Deallocate, DeallocateIf, objVars, lifeVars, localVars,
       lockVars, TypeOK, Elsewhere, Ending, Away, Alive
<1>1. CASE BeginRetain(t) \/ BeginRelease(t) \/ BeginChangeIsa(t)
           \/ BeginRetainCount(t) \/ BeginStoreWeak(t) \/ BeginLoadWeak(t)
           \/ ClearWeak(t)
  BY <1>1 DEF BeginRetain, BeginRelease, BeginChangeIsa, BeginRetainCount,
     BeginStoreWeak, rootIsDeallocating, BeginLoadWeak, ClearWeak
<1>2. CASE RetainLoad(t) \/ RetainRaw(t) \/ TryRetainRaw(t)
           \/ RetainDeallocating(t) \/ rootRetain_overflow(t) \/ RetainLock(t)
           \/ RetainStore(t) \/ RetainStoreFails(t) \/ RetainAddExtra(t)
  BY <1>2 DEF RetainLoad, RetainRaw, TryRetainRaw, RetainDeallocating,
     rootRetain_overflow, RetainLive, Overflows, RetainLock, RetainStore,
     RetainReady, RetainMarksLocked, RetainStoreFails, RetainAddExtra
<1>3. CASE ReleaseLoad(t) \/ ReleaseRaw(t) \/ ReleaseDeallocating(t)
           \/ ReleaseStore(t) \/ ReleaseStoreFails(t)
           \/ rootRelease_underflow(t) \/ ReleaseLock(t) \/ ReleaseBorrow(t)
           \/ ReleaseStoreBorrowed(t) \/ ReleaseStoreBorrowedFails(t)
           \/ ReleasePutBack(t)
  BY <1>3 DEF ReleaseLoad, ReleaseRaw, ReleaseDeallocating, ReleaseStore,
     ReleaseReady, ReleaseStoreFails, rootRelease_underflow, Underflows,
     ReleaseLock, ReleaseBorrow, ReleaseStoreBorrowed, Borrowed,
     ReleaseStoreBorrowedFails, ReleasePutBack
<1>4. CASE ChangeIsaLoad(t) \/ ChangeIsaLock(t) \/ ChangeIsaStore(t)
           \/ ChangeIsaStoreFails(t) \/ ChangeIsaMove(t)
  BY <1>4 DEF ChangeIsaLoad, ChangeIsaLock, ChangeIsaStore, ChangeIsaReady,
     ChangeIsaStoreFails, ChangeIsaMove
<1>5. CASE RetainCountRead(t) \/ RetainCountSide(t) \/ StoreWeakLoad(t)
           \/ SetWeaklyReferenced(t) \/ SetWeaklyReferencedFails(t)
           \/ LoadWeakUnlock(t) \/ rootDealloc_fast(t) \/ clearDeallocating(t)
           \/ Free(t)
  BY <1>5 DEF RetainCountRead, RetainCountSide, StoreWeakLoad,
     SetWeaklyReferenced, SetWeaklyReferencedFails, LoadWeakUnlock,
     rootDealloc_fast, clearDeallocating, Free
<1> QED BY <1>1, <1>2, <1>3, <1>4, <1>5 DEF ThreadStep, Begin, RetainStep,
       ReleaseStep, ChangeIsaStep, OtherStep

\* The side table's lock has one owner, who is inside it.
LEMMA OwnersStep ==
  ASSUME TypeOK, NEW t \in Threads, ThreadStep(t), Owners
  PROVE  Owners'
<1> USE ConstantsAssumption DEF Goto, Home, Unlock, UnlockIf, Counted,
       AfterRetain, Deallocate, DeallocateIf, objVars, lifeVars, localVars,
       lockVars, TypeOK, Owners, InCritical
<1>1. CASE BeginRetain(t) \/ BeginRelease(t) \/ BeginChangeIsa(t)
           \/ BeginRetainCount(t) \/ BeginStoreWeak(t) \/ BeginLoadWeak(t)
           \/ ClearWeak(t)
  BY <1>1 DEF BeginRetain, BeginRelease, BeginChangeIsa, BeginRetainCount,
     BeginStoreWeak, rootIsDeallocating, BeginLoadWeak, ClearWeak
<1>2. CASE RetainLoad(t) \/ RetainRaw(t) \/ TryRetainRaw(t)
           \/ RetainDeallocating(t) \/ rootRetain_overflow(t) \/ RetainLock(t)
           \/ RetainStore(t) \/ RetainStoreFails(t) \/ RetainAddExtra(t)
  BY <1>2 DEF RetainLoad, RetainRaw, TryRetainRaw, RetainDeallocating,
     rootRetain_overflow, RetainLive, Overflows, RetainLock, RetainStore,
     RetainReady, RetainMarksLocked, RetainStoreFails, RetainAddExtra
<1>3. CASE ReleaseLoad(t) \/ ReleaseRaw(t) \/ ReleaseDeallocating(t)
           \/ ReleaseStore(t) \/ ReleaseStoreFails(t)
           \/ rootRelease_underflow(t) \/ ReleaseLock(t) \/ ReleaseBorrow(t)
           \/ ReleaseStoreBorrowed(t) \/ ReleaseStoreBorrowedFails(t)
           \/ ReleasePutBack(t)
  BY <1>3 DEF ReleaseLoad, ReleaseRaw, ReleaseDeallocating, ReleaseStore,
     ReleaseReady, ReleaseStoreFails, rootRelease_underflow, Underflows,
     ReleaseLock, ReleaseBorrow, ReleaseStoreBorrowed, Borrowed,
     ReleaseStoreBorrowedFails, ReleasePutBack
<1>4. CASE ChangeIsaLoad(t) \/ ChangeIsaLock(t) \/ ChangeIsaStore(t)
           \/ ChangeIsaStoreFails(t) \/ ChangeIsaMove(t)
  BY <1>4 DEF ChangeIsaLoad, ChangeIsaLock, ChangeIsaStore, ChangeIsaReady,
     ChangeIsaStoreFails, ChangeIsaMove
<1>5. CASE RetainCountRead(t) \/ RetainCountSide(t) \/ StoreWeakLoad(t)
           \/ SetWeaklyReferenced(t) \/ SetWeaklyReferencedFails(t)
           \/ LoadWeakUnlock(t) \/ rootDealloc_fast(t) \/ clearDeallocating(t)
           \/ Free(t)
  BY <1>5 DEF RetainCountRead, RetainCountSide, StoreWeakLoad,
     SetWeaklyReferenced, SetWeaklyReferencedFails, LoadWeakUnlock,
     rootDealloc_fast, clearDeallocating, Free
<1> QED BY <1>1, <1>2, <1>3, <1>4, <1>5 DEF ThreadStep, Begin, RetainStep,
       ReleaseStep, ChangeIsaStep, OtherStep

\* Whoever uses the object relies on a reference that somebody owns.
LEMMA ReliedStep ==
  ASSUME TypeOK, NEW t \in Threads, ThreadStep(t), Relied, Ending, Elsewhere(t)
  PROVE  Relied'
<1> USE ConstantsAssumption DEF Goto, Home, Unlock, UnlockIf, Counted,
       AfterRetain, Deallocate, DeallocateIf, objVars, lifeVars, localVars,
       lockVars, TypeOK, Elsewhere, Relied, Using, Ending, Away, Alive
<1>1. CASE BeginRetain(t) \/ BeginRelease(t) \/ BeginChangeIsa(t)
           \/ BeginRetainCount(t) \/ BeginStoreWeak(t) \/ BeginLoadWeak(t)
           \/ ClearWeak(t)
  BY <1>1 DEF BeginRetain, BeginRelease, BeginChangeIsa, BeginRetainCount,
     BeginStoreWeak, rootIsDeallocating, BeginLoadWeak, ClearWeak
<1>2. CASE RetainLoad(t) \/ RetainRaw(t) \/ TryRetainRaw(t)
           \/ RetainDeallocating(t) \/ rootRetain_overflow(t) \/ RetainLock(t)
           \/ RetainStore(t) \/ RetainStoreFails(t) \/ RetainAddExtra(t)
  BY <1>2 DEF RetainLoad, RetainRaw, TryRetainRaw, RetainDeallocating,
     rootRetain_overflow, RetainLive, Overflows, RetainLock, RetainStore,
     RetainReady, RetainMarksLocked, RetainStoreFails, RetainAddExtra
<1>3. CASE ReleaseLoad(t) \/ ReleaseRaw(t) \/ ReleaseDeallocating(t)
           \/ ReleaseStore(t) \/ ReleaseStoreFails(t)
           \/ rootRelease_underflow(t) \/ ReleaseLock(t) \/ ReleaseBorrow(t)
           \/ ReleaseStoreBorrowed(t) \/ ReleaseStoreBorrowedFails(t)
           \/ ReleasePutBack(t)
  BY <1>3 DEF ReleaseLoad, ReleaseRaw, ReleaseDeallocating, ReleaseStore,
     ReleaseReady, ReleaseStoreFails, rootRelease_underflow, Underflows,
     ReleaseLock, ReleaseBorrow, ReleaseStoreBorrowed, Borrowed,
     ReleaseStoreBorrowedFails, ReleasePutBack
<1>4. CASE ChangeIsaLoad(t) \/ ChangeIsaLock(t) \/ ChangeIsaStore(t)
           \/ ChangeIsaStoreFails(t) \/ ChangeIsaMove(t)
  BY <1>4 DEF ChangeIsaLoad, ChangeIsaLock, ChangeIsaStore, ChangeIsaReady,
     ChangeIsaStoreFails, ChangeIsaMove
<1>5. CASE RetainCountRead(t) \/ RetainCountSide(t) \/ StoreWeakLoad(t)
           \/ SetWeaklyReferenced(t) \/ SetWeaklyReferencedFails(t)
           \/ LoadWeakUnlock(t) \/ rootDealloc_fast(t) \/ clearDeallocating(t)
           \/ Free(t)
  BY <1>5 DEF RetainCountRead, RetainCountSide, StoreWeakLoad,
     SetWeaklyReferenced, SetWeaklyReferencedFails, LoadWeakUnlock,
     rootDealloc_fast, clearDeallocating, Free
<1> QED BY <1>1, <1>2, <1>3, <1>4, <1>5 DEF ThreadStep, Begin, RetainStep,
       ReleaseStep, ChangeIsaStep, OtherStep

\* There are never more references than clients may make.
LEMMA BoundedStep ==
  ASSUME TypeOK, NEW t \in Threads, ThreadStep(t), Bounded, Ending,
         Elsewhere(t), refs' \in Nat
  PROVE  Bounded'
<1> USE ConstantsAssumption DEF Goto, Home, Unlock, UnlockIf, Counted,
       AfterRetain, Deallocate, DeallocateIf, objVars, lifeVars, localVars,
       lockVars, TypeOK, Alive, Bounded, Room, Elsewhere, Releases, Retains,
       Ending
<1>count. /\ Total \in Nat /\ Cardinality(Retaining) \in Nat
          /\ Total' = Total + (refs' - refs) + (IF (Releases(t))' THEN 1 ELSE 0)
                                             - (IF Releases(t) THEN 1 ELSE 0)
          /\ Cardinality(Retaining') = Cardinality(Retaining)
               + (IF (Retains(t))' THEN 1 ELSE 0) - (IF Retains(t) THEN 1 ELSE 0)
  BY Counting
<1>1. CASE BeginRetain(t) \/ BeginRelease(t) \/ BeginChangeIsa(t)
           \/ BeginRetainCount(t) \/ BeginStoreWeak(t) \/ BeginLoadWeak(t)
           \/ ClearWeak(t)
  BY <1>1, <1>count DEF BeginRetain, Total, BeginRelease, BeginChangeIsa,
     BeginRetainCount, BeginStoreWeak, rootIsDeallocating, BeginLoadWeak,
     ClearWeak
<1>2. CASE RetainLoad(t) \/ RetainRaw(t) \/ TryRetainRaw(t)
           \/ RetainDeallocating(t) \/ rootRetain_overflow(t) \/ RetainLock(t)
           \/ RetainStore(t) \/ RetainStoreFails(t) \/ RetainAddExtra(t)
  BY <1>2, <1>count DEF RetainLoad, RetainRaw, TryRetainRaw,
     RetainDeallocating, rootRetain_overflow, RetainLive, Overflows,
     RetainLock, RetainStore, RetainReady, RetainMarksLocked, RetainStoreFails,
     RetainAddExtra
<1>3. CASE ReleaseLoad(t) \/ ReleaseRaw(t) \/ ReleaseDeallocating(t)
           \/ ReleaseStore(t) \/ ReleaseStoreFails(t)
           \/ rootRelease_underflow(t) \/ ReleaseLock(t) \/ ReleaseBorrow(t)
           \/ ReleaseStoreBorrowed(t) \/ ReleaseStoreBorrowedFails(t)
           \/ ReleasePutBack(t)
  BY <1>3, <1>count DEF ReleaseLoad, ReleaseRaw, ReleaseDeallocating,
     ReleaseStore, ReleaseReady, ReleaseStoreFails, rootRelease_underflow,
     Underflows, ReleaseLock, ReleaseBorrow, ReleaseStoreBorrowed, Borrowed,
     ReleaseStoreBorrowedFails, ReleasePutBack
<1>4. CASE ChangeIsaLoad(t) \/ ChangeIsaLock(t) \/ ChangeIsaStore(t)
           \/ ChangeIsaStoreFails(t) \/ ChangeIsaMove(t)
  BY <1>4, <1>count DEF ChangeIsaLoad, ChangeIsaLock, ChangeIsaStore,
     ChangeIsaReady, ChangeIsaStoreFails, ChangeIsaMove
<1>5. CASE RetainCountRead(t) \/ RetainCountSide(t) \/ StoreWeakLoad(t)
           \/ SetWeaklyReferenced(t) \/ SetWeaklyReferencedFails(t)
           \/ LoadWeakUnlock(t) \/ rootDealloc_fast(t) \/ clearDeallocating(t)
           \/ Free(t)
  BY <1>5, <1>count DEF RetainCountRead, RetainCountSide, StoreWeakLoad,
     SetWeaklyReferenced, SetWeaklyReferencedFails, LoadWeakUnlock,
     rootDealloc_fast, clearDeallocating, Free
<1> QED BY <1>1, <1>2, <1>3, <1>4, <1>5 DEF ThreadStep, Begin, RetainStep,
       ReleaseStep, ChangeIsaStep, OtherStep

\* A weak location that is set is, or is about to be, flagged in the object.
LEMMA WeakFlagStep ==
  ASSUME TypeOK, NEW t \in Threads, ThreadStep(t), Owners, WeakFlag, Ending,
         Elsewhere(t), \A u \in Threads : OldIsa(u)
  PROVE  WeakFlag'
<1> USE ConstantsAssumption DEF Goto, Home, Unlock, UnlockIf, Counted,
       AfterRetain, Deallocate, DeallocateIf, objVars, lifeVars, localVars,
       lockVars, TypeOK, Alive, Owners, InCritical, WeakFlag, Flagged,
       FlagComing, OldIsa
<1>1. CASE BeginRetain(t) \/ BeginRelease(t) \/ BeginChangeIsa(t)
           \/ BeginRetainCount(t) \/ BeginStoreWeak(t) \/ BeginLoadWeak(t)
           \/ ClearWeak(t)
  BY <1>1 DEF BeginRetain, BeginRelease, BeginChangeIsa, BeginRetainCount,
     BeginStoreWeak, rootIsDeallocating, BeginLoadWeak, ClearWeak
<1>2. CASE RetainLoad(t) \/ rootRetain_overflow(t) \/ RetainLock(t)
           \/ RetainStoreFails(t)
  BY <1>2 DEF RetainLoad, rootRetain_overflow, RetainLive, Overflows,
     RetainLock, RetainStoreFails, RetainReady, RetainMarksLocked
<1>3. CASE RetainRaw(t)
  BY <1>3, RetainedFields DEF RetainRaw
<1>4. CASE TryRetainRaw(t)
  BY <1>4, RetainedFields DEF TryRetainRaw
<1>5. CASE RetainDeallocating(t)
  BY <1>5 DEF RetainDeallocating
<1>6. CASE RetainStore(t)
  <2>1. Flagged' = Flagged /\ weakRef' = weakRef
    BY <1>6, ZenonT(60) DEF RetainStore, RetainReady, RetainLive, IsaWord
  <2>2. lock' = lock \/ lock = t
    BY <1>6 DEF RetainStore, RetainReady, RetainLive
  <2>3. pc[t] = "rt_cas" /\ pc'[t] \notin {"rt_load", "rt_cas"} /\ old' = old
    BY <1>6 DEF RetainStore, RetainReady, RetainLive
  <2>4. FlagComing => FlagComing'
    BY <2>2, <2>3 DEF Elsewhere
  <2> QED BY <2>1, <2>3, <2>4 DEF Elsewhere
<1>7. CASE RetainAddExtra(t)
  BY <1>7, AddedFields DEF RetainAddExtra
<1>8. CASE ReleaseLoad(t) \/ ReleaseStoreFails(t) \/ rootRelease_underflow(t)
           \/ ReleaseLock(t) \/ ReleaseStoreBorrowedFails(t)
  BY <1>8 DEF ReleaseLoad, ReleaseStoreFails, ReleaseReady,
     rootRelease_underflow, Underflows, ReleaseLock, ReleaseStoreBorrowedFails
<1>9. CASE ReleaseRaw(t)
  BY <1>9, ReleasedFields DEF ReleaseRaw
<1>10. CASE ReleaseDeallocating(t)
  BY <1>10 DEF ReleaseDeallocating
<1>11. CASE ReleaseStore(t)
  BY <1>11 DEF ReleaseStore, ReleaseReady
<1>12. CASE ReleaseBorrow(t)
  BY <1>12, SubtractedFields DEF ReleaseBorrow, Underflows
<1>13. CASE ReleaseStoreBorrowed(t)
  BY <1>13 DEF ReleaseStoreBorrowed, Borrowed, sidetable_clearExtraRC
<1>14. CASE ReleasePutBack(t)
  BY <1>14, AddedFields DEF ReleasePutBack
<1>15. CASE ChangeIsaLoad(t) \/ ChangeIsaLock(t) \/ ChangeIsaStoreFails(t)
  BY <1>15 DEF ChangeIsaLoad, ChangeIsaLock, ChangeIsaStoreFails,
     ChangeIsaReady
<1>16. CASE ChangeIsaStore(t)
  <2>1. UNCHANGED <<side, weakRef, old, try>> /\ isa = old[t] /\ ~isa'.nonpointer
    BY <1>16 DEF ChangeIsaStore, ChangeIsaReady, RawIsa
  <2>2. CASE old[t].nonpointer
    <3>1. lock = t /\ lock' = t /\ pc[t] = "ci_cas" /\ pc'[t] = "ci_move"
      BY <1>16, <2>2 DEF ChangeIsaStore, ChangeIsaReady
    <3>2. Flagged => FlagComing'
      BY <2>1, <2>2, <3>1, ConstantsAssumption
    <3>3. ~FlagComing
      BY <3>1
    <3> QED BY <2>1, <3>1, <3>2, <3>3 DEF Elsewhere
  <2>3. CASE ~old[t].nonpointer
    <3>1. Flagged' = Flagged
      BY <2>1, <2>3
    <3>2. pc[t] = "ci_cas" /\ pc'[t] \notin {"rt_load", "rt_cas"} /\ (lock' = lock \/ lock = t)
      BY <1>16, <2>3 DEF ChangeIsaStore, ChangeIsaReady
    <3>3. FlagComing => FlagComing'
      BY <2>1, <3>2 DEF Elsewhere
    <3> QED BY <2>1, <3>1, <3>2, <3>3 DEF Elsewhere
  <2> QED BY <2>2, <2>3
<1>17. CASE ChangeIsaMove(t)
  BY <1>17, MovedFields DEF ChangeIsaMove
<1>18. CASE RetainCountRead(t) \/ RetainCountSide(t) \/ StoreWeakLoad(t)
           \/ SetWeaklyReferencedFails(t) \/ LoadWeakUnlock(t)
           \/ rootDealloc_fast(t) \/ Free(t)
  BY <1>18 DEF RetainCountRead, RetainCountSide, StoreWeakLoad,
     SetWeaklyReferencedFails, LoadWeakUnlock, rootDealloc_fast, Free
<1>19. CASE SetWeaklyReferenced(t)
  <2>1. CASE old[t].nonpointer
    <3>1. isa.nonpointer /\ (old[t].weakly_referenced => isa.weakly_referenced)
      BY <1>19, <2>1 DEF SetWeaklyReferenced
    <3>2. Flagged'
      BY <1>19, <2>1, <3>1 DEF SetWeaklyReferenced, IsaWord
    <3> QED BY <1>19, <3>2 DEF SetWeaklyReferenced, Elsewhere
  <2>2. CASE ~old[t].nonpointer
    <3>1. ~isa.nonpointer /\ isa' = isa
      BY <1>19, <2>2 DEF SetWeaklyReferenced
    <3>2. side'.weakly_referenced
      BY <1>19, <2>2, ZenonT(60) DEF SetWeaklyReferenced, Entry
    <3> QED BY <1>19, <3>1, <3>2 DEF SetWeaklyReferenced, Elsewhere
  <2> QED BY <2>1, <2>2
<1>20. CASE clearDeallocating(t)
  <2>1. ~FlagComing
    BY <1>20, ConstantsAssumption DEF clearDeallocating, Ending, Away
  <2>2. ~weakRef'
    BY <1>20, <2>1 DEF clearDeallocating
  <2>3. weakRef' = weakRef \/ lock = NoThread
    BY <1>20 DEF clearDeallocating
  <2>4. ASSUME NEW u \in Threads, pc'[u] \in {"rt_load", "rt_cas"}, try'[u]
        PROVE  weakRef'
    <3>1. pc[u] \in {"rt_load", "rt_cas"} /\ try[u]
      BY <1>20, <2>4 DEF clearDeallocating
    <3>2. weakRef /\ lock = u
      BY <3>1
    <3> QED BY <2>3, <3>2, ConstantsAssumption
  <2> QED BY <2>2, <2>4
<1> QED BY <1>1, <1>2, <1>3, <1>4, <1>5, <1>6, <1>7, <1>8, <1>9, <1>10, <1>11,
       <1>12, <1>13, <1>14, <1>15, <1>16, <1>17, <1>18, <1>19,
       <1>20 DEF ThreadStep, Begin, RetainStep, ReleaseStep, ChangeIsaStep,
       OtherStep

\* What a thread read of the isa word still tells what it needs to know of it.
LEMMA OldIsaStep ==
  ASSUME TypeOK, NEW t \in Threads, ThreadStep(t), Owners, Ending, SideShape,
         Elsewhere(t), \A u \in Threads : OldIsa(u), Conserved
  PROVE  \A u \in Threads : OldIsa(u)'
<1> USE ConstantsAssumption DEF Goto, Home, Unlock, UnlockIf, Counted,
       AfterRetain, Deallocate, DeallocateIf, objVars, lifeVars, localVars,
       lockVars, TypeOK, Alive, Owners, InCritical, Moving, OldIsa, Elsewhere
<1>1. CASE BeginRetain(t) \/ BeginRelease(t) \/ BeginChangeIsa(t)
           \/ BeginRetainCount(t) \/ BeginStoreWeak(t) \/ BeginLoadWeak(t)
           \/ ClearWeak(t)
  BY <1>1 DEF BeginRetain, BeginRelease, BeginChangeIsa, BeginRetainCount,
     BeginStoreWeak, rootIsDeallocating, BeginLoadWeak, ClearWeak
<1>2. CASE RetainLoad(t) \/ RetainRaw(t) \/ TryRetainRaw(t)
           \/ RetainDeallocating(t) \/ rootRetain_overflow(t) \/ RetainLock(t)
           \/ RetainStoreFails(t) \/ RetainAddExtra(t)
  BY <1>2 DEF RetainLoad, RetainRaw, TryRetainRaw, RetainDeallocating,
     rootRetain_overflow, RetainLive, Overflows, RetainLock, RetainStoreFails,
     RetainReady, RetainMarksLocked, RetainAddExtra
<1>3. CASE RetainStore(t)
  <2>1. /\ isa.nonpointer /\ isa'.nonpointer
        /\ isa.has_sidetable_rc => isa'.has_sidetable_rc
        /\ Overflows(t) => isa'.has_sidetable_rc
        /\ isa'.weakly_referenced = isa.weakly_referenced
    BY <1>3, ZenonT(60) DEF RetainStore, RetainReady, RetainLive, IsaWord
  <2>2. /\ old' = old /\ deallocator' = deallocator
        /\ Overflows(t) => pc'[t] = "rt_add"
        /\ ~Overflows(t) => pc'[t] \in {"idle", "dealloc", "lw_unlock"}
    BY <1>3 DEF RetainStore
  <2>3. \A u \in Threads \ {t} : OldIsa(u)'
    BY <2>1, <2>2
  <2>4. OldIsa(t)'
    BY <2>1, <2>2
  <2> QED BY <2>3, <2>4
<1>4. CASE ReleaseDeallocating(t) \/ rootRelease_underflow(t)
           \/ ReleaseLock(t) \/ ReleaseBorrow(t)
           \/ ReleaseStoreBorrowedFails(t)
  BY <1>4 DEF ReleaseDeallocating, rootRelease_underflow, Underflows,
     ReleaseLock, ReleaseBorrow, ReleaseStoreBorrowedFails
<1>5. CASE ReleaseLoad(t)
  <2>1. Alive /\ isa.nonpointer => ~IsDeallocating(isa)
    BY LiveIsa
  <2> QED BY <1>5, <2>1 DEF ReleaseLoad
<1>6. CASE ReleaseRaw(t)
  BY <1>6 DEF ReleaseRaw
<1>7. CASE ReleaseStore(t)
  BY <1>7 DEF ReleaseStore, ReleaseReady
<1>8. CASE ReleaseStoreFails(t)
  <2>1. Alive /\ isa.nonpointer => ~IsDeallocating(isa)
    BY LiveIsa
  <2> QED BY <1>8, <2>1 DEF ReleaseStoreFails, ReleaseReady
<1>9. CASE ReleaseStoreBorrowed(t)
  BY <1>9 DEF ReleaseStoreBorrowed, Borrowed, sidetable_clearExtraRC
<1>10. CASE ReleasePutBack(t)
  <2>1. isa.nonpointer /\ isa.has_sidetable_rc /\ ~IsDeallocating(isa)
    BY <1>10 DEF ReleasePutBack, IsDeallocating
  <2> QED BY <1>10, <2>1 DEF ReleasePutBack
<1>11. CASE ChangeIsaLoad(t) \/ ChangeIsaLock(t) \/ ChangeIsaStoreFails(t)
           \/ ChangeIsaMove(t)
  BY <1>11 DEF ChangeIsaLoad, ChangeIsaLock, ChangeIsaStoreFails,
     ChangeIsaReady, ChangeIsaMove
<1>12. CASE ChangeIsaStore(t)
  <2>1. /\ isa.nonpointer => /\ lock = t /\ Alive /\ ~IsDeallocating(isa)
                           /\ ~side.weakly_referenced
        /\ side' = side
    BY <1>12, LiveIsa DEF ChangeIsaStore, ChangeIsaReady, Ending, Away,
       SideShape
  <2>2. ~isa'.nonpointer /\ isa = old[t]
    BY <1>12 DEF ChangeIsaStore, ChangeIsaReady, RawIsa
  <2>3. ASSUME NEW u \in Threads \ {t}
        PROVE  OldIsa(u)'
    BY <1>12, <2>1, <2>2 DEF ChangeIsaStore
  <2>4. OldIsa(t)'
    BY <1>12, <2>1, <2>2 DEF ChangeIsaStore
  <2> QED BY <2>3, <2>4
<1>13. CASE RetainCountRead(t) \/ RetainCountSide(t) \/ StoreWeakLoad(t)
           \/ SetWeaklyReferenced(t) \/ SetWeaklyReferencedFails(t)
           \/ LoadWeakUnlock(t) \/ rootDealloc_fast(t) \/ clearDeallocating(t)
           \/ Free(t)
  BY <1>13 DEF RetainCountRead, RetainCountSide, StoreWeakLoad,
     SetWeaklyReferenced, SetWeaklyReferencedFails, LoadWeakUnlock,
     rootDealloc_fast, clearDeallocating, Free
<1> QED BY <1>1, <1>2, <1>3, <1>4, <1>5, <1>6, <1>7, <1>8, <1>9, <1>10, <1>11,
       <1>12, <1>13 DEF ThreadStep, Begin, RetainStep, ReleaseStep,
       ChangeIsaStep, OtherStep

\* The side table holds counts exactly while the isa word says so.
LEMMA SideShapeStep ==
  ASSUME TypeOK, NEW t \in Threads, ThreadStep(t), Owners, Ending, SideShape,
         Elsewhere(t), \A u \in Threads : OldIsa(u), Conserved, Bounded
  PROVE  SideShape'
<1> USE ConstantsAssumption DEF Goto, Home, Unlock, UnlockIf, Counted,
       AfterRetain, Deallocate, DeallocateIf, objVars, lifeVars, localVars,
       lockVars, TypeOK, Alive, Owners, InCritical, SideShape, Moving,
       HalfMoving
<1>p0. Total \in Nat /\ Cardinality(Retaining) \in Nat
  BY CountTypes
<1>1. CASE BeginRetain(t) \/ BeginRelease(t) \/ BeginChangeIsa(t)
           \/ BeginRetainCount(t) \/ BeginStoreWeak(t) \/ BeginLoadWeak(t)
           \/ ClearWeak(t)
  BY <1>1, <1>p0 DEF BeginRetain, BeginRelease, BeginChangeIsa,
     BeginRetainCount, BeginStoreWeak, rootIsDeallocating, BeginLoadWeak,
     ClearWeak
<1>2. CASE RetainLoad(t) \/ RetainDeallocating(t) \/ rootRetain_overflow(t)
           \/ RetainLock(t) \/ RetainStoreFails(t)
  BY <1>2, <1>p0 DEF RetainLoad, RetainDeallocating, rootRetain_overflow,
     RetainLive, Overflows, RetainLock, RetainStoreFails, RetainReady,
     RetainMarksLocked
<1>3. CASE RetainRaw(t)
  <2>1. ~isa.nonpointer /\ isa' = isa /\ deallocator' = deallocator
    BY <1>3 DEF RetainRaw, OldIsa
  <2>2. Alive => ~side'.deallocating
    BY <1>3, RetainedFields DEF RetainRaw
  <2> QED BY <2>1, <2>2
<1>4. CASE TryRetainRaw(t)
  <2>1. ~isa.nonpointer /\ isa' = isa /\ deallocator' = deallocator
    BY <1>4 DEF TryRetainRaw, OldIsa
  <2>2. side'.deallocating = side.deallocating
    BY <1>4, RetainedFields DEF TryRetainRaw
  <2> QED BY <2>1, <2>2
<1>5. CASE RetainStore(t)
  <2>1. /\ isa.nonpointer /\ isa'.nonpointer /\ deallocator' = deallocator /\ side' = side
        /\ Overflows(t) => isa'.has_sidetable_rc /\ lock' = lock /\ pc'[t] = "rt_add"
        /\ ~Overflows(t) => isa'.has_sidetable_rc = isa.has_sidetable_rc
    BY <1>5, ZenonT(60) DEF RetainStore, RetainReady, RetainLive, IsaWord
  <2>2. Overflows(t) => lock = t
    BY <1>5 DEF RetainStore, RetainReady, RetainLive
  <2>3. Overflows(t) => HalfMoving'
    BY <2>1, <2>2, ConstantsAssumption
  <2>4. ~Overflows(t) => (HalfMoving' <=> HalfMoving)
    BY <1>5 DEF RetainStore, RetainReady, RetainLive, Elsewhere
  <2> QED BY <2>1, <2>3, <2>4
<1>6. CASE RetainAddExtra(t)
  <2>1. isa.nonpointer /\ isa.has_sidetable_rc /\ isa' = isa /\ deallocator' = deallocator
    BY <1>6 DEF RetainAddExtra, OldIsa
  <2>2. /\ side'.deallocating = side.deallocating
        /\ side'.weakly_referenced = side.weakly_referenced
        /\ side'.rc > 0
        /\ ~Pinned(side) => side'.rc = side.rc + RC_HALF
    BY <1>6, AddedFields DEF RetainAddExtra, Pinned, Entry
  <2>3. Alive => side.rc + RC_HALF < SIDE_PINNED
    <3>1. Alive => Count + RC_HALF = Total /\ Total <= MaxRefs
      BY <1>6, <2>1, <1>p0 DEF RetainAddExtra, Conserved, Bounded, InTransit,
         Carried
    <3>2. Count >= side.rc /\ Count \in Nat
      BY DEF Count, IsaWord, Entry, RC_MAX
    <3> QED BY <3>1, <3>2, <1>p0 DEF Entry
  <2> QED BY <2>1, <2>2, <2>3, Halved DEF Pinned, Entry
<1>7. CASE ReleaseLoad(t) \/ ReleaseDeallocating(t) \/ ReleaseStoreFails(t)
           \/ rootRelease_underflow(t) \/ ReleaseLock(t)
           \/ ReleaseStoreBorrowedFails(t)
  BY <1>7, <1>p0 DEF ReleaseLoad, ReleaseDeallocating, ReleaseStoreFails,
     ReleaseReady, rootRelease_underflow, Underflows, ReleaseLock,
     ReleaseStoreBorrowedFails
<1>8. CASE ReleaseRaw(t)
  <2>1. ~isa.nonpointer /\ isa' = isa
    BY <1>8 DEF ReleaseRaw, OldIsa
  <2>2. Alive' => Alive /\ ~side'.deallocating
    BY <1>8, ReleasedFields DEF ReleaseRaw
  <2> QED BY <2>1, <2>2
<1>9. CASE ReleaseStore(t)
  BY <1>9, <1>p0 DEF ReleaseStore, ReleaseReady
<1>10. CASE ReleaseBorrow(t)
  <2>1. lock = t /\ isa.nonpointer /\ isa.has_sidetable_rc /\ isa' = isa
    BY <1>10 DEF ReleaseBorrow, Underflows, OldIsa
  <2>2. side.rc > 0
    BY <1>10, <2>1 DEF ReleaseBorrow, Underflows
  <2>3. HalfMoving' /\ deallocator' = deallocator
    BY <1>10, <2>1, <2>2 DEF ReleaseBorrow
  <2>4. Alive => /\ ~side'.deallocating
                 /\ side'.rc \in Halves /\ ~Pinned(side')
    <3>1. Alive => side.rc \in Halves /\ ~Pinned(side) /\ ~side.deallocating
      BY <2>1
    <3>2. Alive => side.rc >= RC_HALF /\ side.rc - RC_HALF \in Halves
      BY <2>2, <3>1, Halved
    <3>3. side' = sidetable_subExtraRC(side, RC_HALF)
      BY <1>10, <2>2 DEF ReleaseBorrow
    <3>4. Alive => side'.rc = side.rc - RC_HALF /\ side'.deallocating = side.deallocating
      BY <3>2, <3>3, SubtractedFields
    <3> QED BY <3>1, <3>2, <3>4 DEF Pinned, Entry
  <2>5. side'.weakly_referenced = side.weakly_referenced
    BY <1>10, <2>2, SubtractedFields DEF ReleaseBorrow
  <2> QED BY <2>1, <2>3, <2>4, <2>5
<1>11. CASE ReleaseStoreBorrowed(t)
  <2>1. isa.nonpointer /\ Alive
    BY <1>11 DEF ReleaseStoreBorrowed, OldIsa, Ending, Away
  <2>2. isa'.nonpointer /\ (isa'.has_sidetable_rc <=> side.rc # 0)
    BY <1>11, <2>1 DEF ReleaseStoreBorrowed, Borrowed, IsaWord
  <2>3. CASE side.rc = 0
    <3>1. side' = NoEntry
      BY <1>11, <2>3 DEF ReleaseStoreBorrowed, sidetable_clearExtraRC
    <3> QED BY <2>2, <2>3, <3>1, Halved DEF NoEntry, Pinned
  <2>4. CASE side.rc # 0
    <3>1. side' = side
      BY <1>11, <2>4 DEF ReleaseStoreBorrowed, sidetable_clearExtraRC
    <3> QED BY <2>1, <2>2, <2>4, <3>1 DEF Pinned, Entry
  <2> QED BY <2>3, <2>4
<1>12. CASE ReleasePutBack(t)
  <2>1. isa.nonpointer /\ isa.has_sidetable_rc /\ isa' = isa /\ deallocator' = deallocator
    BY <1>12 DEF ReleasePutBack, OldIsa
  <2>2. /\ side'.deallocating = side.deallocating
        /\ side'.weakly_referenced = side.weakly_referenced
        /\ side'.rc > 0
        /\ ~Pinned(side) => side'.rc = side.rc + RC_HALF
    BY <1>12, AddedFields DEF ReleasePutBack, Pinned, Entry
  <2>3. Alive => side.rc + RC_HALF < SIDE_PINNED
    <3>1. Alive => Count + RC_HALF = Total /\ Total <= MaxRefs
      BY <1>12, <2>1, <1>p0 DEF ReleasePutBack, Conserved, Bounded, InTransit,
         Carried
    <3>2. Count >= side.rc /\ Count \in Nat
      BY DEF Count, IsaWord, Entry, RC_MAX
    <3> QED BY <3>1, <3>2, <1>p0 DEF Entry
  <2> QED BY <2>1, <2>2, <2>3, Halved DEF Pinned, Entry
<1>13. CASE ChangeIsaLoad(t) \/ ChangeIsaLock(t) \/ ChangeIsaStoreFails(t)
  BY <1>13, <1>p0 DEF ChangeIsaLoad, ChangeIsaLock, ChangeIsaStoreFails,
     ChangeIsaReady
<1>14. CASE ChangeIsaStore(t)
  <2>1. ~isa'.nonpointer /\ deallocator' = deallocator /\ side' = side
    BY <1>14 DEF ChangeIsaStore, RawIsa
  <2> QED BY <2>1
<1>15. CASE ChangeIsaMove(t)
  <2>1. ~isa.nonpointer /\ isa' = isa /\ deallocator' = deallocator
    BY <1>15 DEF ChangeIsaMove, OldIsa
  <2>2. ~side'.deallocating
    BY <1>15, MovedFields DEF ChangeIsaMove, OldIsa
  <2> QED BY <2>1, <2>2
<1>16. CASE RetainCountRead(t) \/ RetainCountSide(t) \/ StoreWeakLoad(t)
           \/ SetWeaklyReferencedFails(t) \/ LoadWeakUnlock(t)
           \/ rootDealloc_fast(t) \/ Free(t)
  BY <1>16, <1>p0 DEF RetainCountRead, RetainCountSide, StoreWeakLoad,
     SetWeaklyReferencedFails, LoadWeakUnlock, rootDealloc_fast, Free
<1>17. CASE SetWeaklyReferenced(t)
  <2>1. CASE old[t].nonpointer
    <3>1. /\ isa.nonpointer /\ isa'.nonpointer /\ side' = side /\ deallocator' = deallocator
          /\ isa'.has_sidetable_rc = isa.has_sidetable_rc
      BY <1>17, <2>1 DEF SetWeaklyReferenced, OldIsa, IsaWord
    <3>2. ~HalfMoving /\ ~HalfMoving'
      BY <1>17 DEF SetWeaklyReferenced
    <3> QED BY <3>1, <3>2
  <2>2. CASE ~old[t].nonpointer
    <3>1. ~isa.nonpointer /\ isa' = isa /\ deallocator' = deallocator
      BY <1>17, <2>2 DEF SetWeaklyReferenced, OldIsa
    <3>2. side'.deallocating = side.deallocating
      BY <1>17, <2>2, ZenonT(60) DEF SetWeaklyReferenced, Entry
    <3> QED BY <3>1, <3>2
  <2> QED BY <2>1, <2>2
<1>18. CASE clearDeallocating(t)
  <2>1. ~Alive' /\ isa' = isa /\ HalfMoving' = HalfMoving
    BY <1>18 DEF clearDeallocating, Ending, Elsewhere
  <2>2. isa.nonpointer => ~isa.has_sidetable_rc
    BY <1>18 DEF clearDeallocating, Ending, Gone, IsDeallocating
  <2>3. isa.nonpointer => side' = NoEntry
    BY <1>18, <2>2 DEF clearDeallocating
  <2> QED BY <2>1, <2>2, <2>3
<1> QED BY <1>1, <1>2, <1>3, <1>4, <1>5, <1>6, <1>7, <1>8, <1>9, <1>10, <1>11,
       <1>12, <1>13, <1>14, <1>15, <1>16, <1>17, <1>18 DEF ThreadStep, Begin,
       RetainStep, ReleaseStep, ChangeIsaStep, OtherStep

\* The last release, and only that, begins the object's end.
LEMMA EndingStep ==
  ASSUME TypeOK, NEW t \in Threads, ThreadStep(t), Owners, Ending, SideShape,
         Elsewhere(t), \A u \in Threads : OldIsa(u), Relied, WeakFlag,
         Conserved, Bounded
  PROVE  Ending'
<1> USE ConstantsAssumption DEF Goto, Home, Unlock, UnlockIf, Counted,
       AfterRetain, Deallocate, DeallocateIf, objVars, lifeVars, localVars,
       lockVars, TypeOK, Alive, Owners, InCritical, Ending, Away, Gone
<1>p0. Total \in Nat /\ Cardinality(Retaining) \in Nat
  BY CountTypes
<1>1. CASE BeginRetain(t) \/ BeginRelease(t) \/ BeginChangeIsa(t)
           \/ BeginRetainCount(t) \/ BeginStoreWeak(t) \/ BeginLoadWeak(t)
           \/ ClearWeak(t)
  BY <1>1, <1>p0 DEF BeginRetain, BeginRelease, BeginChangeIsa,
     BeginRetainCount, BeginStoreWeak, rootIsDeallocating, BeginLoadWeak,
     ClearWeak
<1>2. CASE RetainLoad(t) \/ RetainDeallocating(t) \/ rootRetain_overflow(t)
           \/ RetainLock(t) \/ RetainStoreFails(t) \/ RetainAddExtra(t)
  BY <1>2, <1>p0 DEF RetainLoad, RetainDeallocating, rootRetain_overflow,
     RetainLive, Overflows, RetainLock, RetainStoreFails, RetainReady,
     RetainMarksLocked, RetainAddExtra
<1>3. CASE RetainRaw(t)
  BY <1>3, <1>p0, RetainedFields DEF RetainRaw
<1>4. CASE TryRetainRaw(t)
  <2>1. ~isa.nonpointer /\ isa' = isa /\ lock = t /\ weakRef
    BY <1>4 DEF TryRetainRaw, OldIsa, WeakFlag
  <2>2. CASE Alive
    BY <1>4, <2>2 DEF TryRetainRaw
  <2>3. CASE ~Alive
    <3>1. side.deallocating /\ ~Gone
      BY <2>1, <2>3
    <3>2. UNCHANGED <<side, refs, deallocator, freed, weakRef, old>>
      BY <1>4, <3>1 DEF TryRetainRaw
    <3> QED BY <1>4, <2>1, <2>3, <3>1, <3>2 DEF TryRetainRaw
  <2> QED BY <2>2, <2>3
<1>5. CASE RetainStore(t)
  <2>1. Alive
    BY <1>5 DEF RetainStore, RetainReady, RetainLive, WeakFlag
  <2>2. UNCHANGED <<deallocator, freed>> /\ pc'[t] \notin {"dealloc", "da_free"}
    BY <1>5, <2>1, ConstantsAssumption DEF RetainStore, RetainReady, RetainLive
  <2> QED BY <2>1, <2>2, ConstantsAssumption DEF Elsewhere
<1>6. CASE ReleaseLoad(t) \/ ReleaseDeallocating(t) \/ ReleaseStoreFails(t)
           \/ rootRelease_underflow(t) \/ ReleaseLock(t)
           \/ ReleaseStoreBorrowedFails(t) \/ ReleasePutBack(t)
  BY <1>6, <1>p0 DEF ReleaseLoad, ReleaseDeallocating, ReleaseStoreFails,
     ReleaseReady, rootRelease_underflow, Underflows, ReleaseLock,
     ReleaseStoreBorrowedFails, ReleasePutBack
<1>7. CASE ReleaseRaw(t)
  <2>1. ~isa.nonpointer /\ isa' = isa
    BY <1>7 DEF ReleaseRaw, OldIsa
  <2>2. CASE Alive /\ SideLastReference(side)
    <3>1. Count = 1 /\ InTransit = 0 /\ ~Pinned(side)
      BY <1>7, <2>1, <2>2 DEF ReleaseRaw, SideLastReference, Count, InTransit,
         Carried, Moving, Pinned
    <3>2. Total = 1 /\ Releases(t)
      BY <1>7, <2>2, <3>1, <1>p0 DEF Conserved, ReleaseRaw, Releases
    <3>3. refs = 0 /\ \A u \in Threads \ {t} : Away(u)
      <4>1. /\ refs = 0
            /\ \A u \in Threads \ {t} : Away(u) \/ pc[u] = "rt_add"
        BY <2>2, <3>2, LastRelease
      <4>2. \A u \in Threads : pc[u] # "rt_add"
        BY <2>1 DEF OldIsa, Moving
      <4> QED BY <4>1, <4>2
    <3>4. side'.deallocating
      BY <1>7, <2>2, ReleasedFields DEF ReleaseRaw
    <3>5. deallocator' = t /\ pc'[t] = "dealloc" /\ UNCHANGED <<freed, refs, try>>
      BY <1>7, <2>2 DEF ReleaseRaw
    <3> QED BY <2>1, <2>2, <3>3, <3>4, <3>5, ConstantsAssumption DEF Elsewhere
  <2>3. CASE Alive /\ ~SideLastReference(side)
    BY <1>7, <2>3, ConstantsAssumption DEF ReleaseRaw
  <2>4. CASE ~Alive
    <3>1. t = deallocator /\ side.deallocating
      BY <1>7, <2>1, <2>4 DEF ReleaseRaw
    <3>2. side'.deallocating /\ deallocator' = t /\ pc'[t] = "dealloc" /\ UNCHANGED <<freed, refs, try>>
      BY <1>7, <3>1, ReleasedFields DEF ReleaseRaw, SideLastReference
    <3>3. UNCHANGED weakRef /\ ~freed /\ pc[t] = "rl_cas"
      BY <1>7, <2>4, <3>1 DEF ReleaseRaw
    <3> QED BY <2>1, <2>4, <3>1, <3>2, <3>3, ConstantsAssumption DEF Elsewhere
  <2> QED BY <2>2, <2>3, <2>4
<1>8. CASE ReleaseStore(t)
  <2>1. Alive
    BY <1>8 DEF ReleaseStore, ReleaseReady, IsDeallocating
  <2>2. CASE IsDeallocating(isa')
    <3>1. /\ isa.nonpointer /\ isa'.nonpointer /\ side' = side
          /\ isa.extra_rc = 1 /\ ~isa.has_sidetable_rc
      BY <1>8, <2>2 DEF ReleaseStore, ReleaseReady, IsDeallocating, IsaWord, RC_MAX
    <3>2. Count = 1 /\ InTransit = 0 /\ ~Pinned(side)
      BY <2>1, <3>1 DEF SideShape, NoEntry, Count, InTransit, Carried, Moving,
         OldIsa
    <3>3. Total = 1 /\ Releases(t)
      BY <1>8, <2>1, <3>2, <1>p0 DEF Conserved, ReleaseStore, ReleaseReady, Releases
    <3>4. refs = 0 /\ \A u \in Threads \ {t} : Away(u)
      <4>1. /\ refs = 0
            /\ \A u \in Threads \ {t} : Away(u) \/ pc[u] = "rt_add"
        BY <2>1, <3>3, LastRelease
      <4>2. \A u \in Threads : pc[u] # "rt_add"
        BY <3>1 DEF OldIsa, Moving
      <4> QED BY <4>1, <4>2
    <3>5. deallocator' = t /\ pc'[t] = "dealloc" /\ UNCHANGED <<freed, refs, try>>
      BY <1>8, <2>2 DEF ReleaseStore
    <3> QED BY <2>1, <2>2, <3>1, <3>4, <3>5, ConstantsAssumption DEF Elsewhere
  <2>3. CASE ~IsDeallocating(isa')
    BY <1>8, <2>1, <2>3, ConstantsAssumption DEF ReleaseStore
  <2> QED BY <2>2, <2>3
<1>9. CASE ReleaseBorrow(t)
  <2>1. lock = t /\ isa.nonpointer /\ isa.has_sidetable_rc /\ Alive
    BY <1>9 DEF ReleaseBorrow, Underflows, OldIsa, IsDeallocating
  <2>2. side.rc > 0
    BY <1>9, <2>1 DEF ReleaseBorrow, Underflows, SideShape, HalfMoving, Moving
  <2>3. pc'[t] = "rl_put1" /\ UNCHANGED <<deallocator, freed>>
    BY <1>9, <2>2 DEF ReleaseBorrow
  <2> QED BY <2>1, <2>3, ConstantsAssumption DEF Elsewhere
<1>10. CASE ReleaseStoreBorrowed(t)
  <2>1. Alive
    BY <1>10 DEF ReleaseStoreBorrowed
  <2>2. ~IsDeallocating(isa')
    BY <1>10, ConstantsAssumption DEF ReleaseStoreBorrowed, Borrowed,
       IsDeallocating, IsaWord
  <2>3. pc'[t] = "idle" /\ UNCHANGED <<deallocator, freed>>
    BY <1>10, <2>1, <2>2, ConstantsAssumption DEF ReleaseStoreBorrowed
  <2> QED BY <2>1, <2>3, ConstantsAssumption DEF Elsewhere
<1>11. CASE ChangeIsaLoad(t) \/ ChangeIsaLock(t) \/ ChangeIsaStore(t)
           \/ ChangeIsaStoreFails(t) \/ ChangeIsaMove(t)
  BY <1>11, <1>p0 DEF ChangeIsaLoad, ChangeIsaLock, ChangeIsaStore,
     ChangeIsaReady, ChangeIsaStoreFails, ChangeIsaMove
<1>12. CASE RetainCountRead(t) \/ RetainCountSide(t) \/ StoreWeakLoad(t)
           \/ SetWeaklyReferenced(t) \/ SetWeaklyReferencedFails(t)
           \/ LoadWeakUnlock(t) \/ Free(t)
  BY <1>12, <1>p0 DEF RetainCountRead, RetainCountSide, StoreWeakLoad,
     SetWeaklyReferenced, SetWeaklyReferencedFails, LoadWeakUnlock, Free
<1>13. CASE rootDealloc_fast(t)
  <2>1. t = deallocator /\ ~Alive
    BY <1>13, ConstantsAssumption DEF rootDealloc_fast
  <2>2. side = NoEntry /\ ~Flagged
    BY <1>13 DEF rootDealloc_fast, SideShape, Flagged
  <2>3. ~FlagComing
    BY <2>1 DEF FlagComing
  <2>4. ~weakRef
    BY <2>2, <2>3 DEF WeakFlag
  <2> QED BY <1>13, <2>1, <2>2, <2>4 DEF rootDealloc_fast
<1>14. CASE clearDeallocating(t)
  <2>1. t = deallocator /\ ~Alive /\ ~Gone
    BY <1>14, ConstantsAssumption DEF clearDeallocating
  <2>2. ~FlagComing
    BY <2>1 DEF FlagComing
  <2>3. isa.nonpointer => ~isa.has_sidetable_rc /\ side = NoEntry
    BY <2>1 DEF SideShape, IsDeallocating
  <2>4. ~weakRef' /\ side' = NoEntry
    BY <1>14, <2>2, <2>3 DEF clearDeallocating, WeakFlag, Flagged
  <2> QED BY <1>14, <2>1, <2>4 DEF clearDeallocating
<1> QED BY <1>1, <1>2, <1>3, <1>4, <1>5, <1>6, <1>7, <1>8, <1>9, <1>10, <1>11,
       <1>12, <1>13, <1>14 DEF ThreadStep, Begin, RetainStep, ReleaseStep,
       ChangeIsaStep, OtherStep

\* No step loses or invents a count.
LEMMA ConservedStep ==
  ASSUME TypeOK, NEW t \in Threads, ThreadStep(t), Owners, Ending, SideShape,
         Elsewhere(t), \A u \in Threads : OldIsa(u), TypeOK', Conserved
  PROVE  Conserved'
<1> USE ConstantsAssumption DEF Goto, Home, Unlock, UnlockIf, Counted,
       AfterRetain, Deallocate, DeallocateIf, objVars, lifeVars, localVars,
       lockVars, TypeOK, Owners, InCritical, Alive
<1> SUFFICES ASSUME Alive', ~Pinned(side')
             PROVE  Total' >= 1 /\ Count' + InTransit' = Total'
  BY DEF Conserved
<1>live. /\ t # deallocator /\ deallocator = NoThread /\ ~freed
         /\ pc[t] \notin {"dealloc", "da_free"}
  BY ConstantsAssumption DEF Elsewhere, Alive, Ending
<1>count. /\ Total \in Nat
          /\ Total' = Total + (refs' - refs) + (IF (Releases(t))' THEN 1 ELSE 0)
                                             - (IF Releases(t) THEN 1 ELSE 0)
  BY Counting
<1>types. /\ isa.extra_rc \in Nat /\ isa'.extra_rc \in Nat
          /\ side.rc \in Nat /\ side'.rc \in Nat
          /\ RC_HALF \in Nat /\ RC_HALF >= 2
  BY DEF IsaWord, Entry
<1>transit. /\ InTransit \in Int /\ InTransit' \in Int
            /\ lock = t => InTransit = Carried(t)
            /\ lock' = t => InTransit' = (Carried(t))'
            /\ lock = NoThread => InTransit = 0
            /\ lock' = NoThread => InTransit' = 0
            /\ Carried(t) = 0 /\ (Carried(t))' = 0
                 /\ (lock' = lock \/ (lock \in {t, NoThread} /\ lock' \in {t, NoThread}))
                 => InTransit' = InTransit
  BY Transit
<1>step. /\ Total \in Nat /\ InTransit \in Int /\ Count \in Nat
         /\ ~Pinned(side) => Total >= 1 /\ Count + InTransit = Total
  BY <1>live, <1>count, <1>transit, <1>types DEF Conserved, Count
<1>1. CASE BeginRetain(t)
  <2>1. Total' = Total /\ UNCHANGED <<isa, side>>
    BY <1>1, <1>count, <1>live DEF BeginRetain, Releases
  <2>2. Carried(t) = 0 /\ (Carried(t))' = 0
    BY <1>1 DEF BeginRetain, Carried, Moving
  <2>3. InTransit' = InTransit
    BY <1>1, <2>2, <1>transit DEF BeginRetain
  <2> QED BY <1>step, <2>1, <2>3 DEF Count
<1>2. CASE BeginRelease(t)
  <2>1. /\ refs' = refs - 1 /\ pc[t] = "idle" /\ pc'[t] = "rl_load"
        /\ UNCHANGED <<isa, side, lock>>
    BY <1>2, <1>live DEF BeginRelease
  <2>2. Total' = Total
    BY <1>count, <1>live, <2>1 DEF Releases
  <2>3. InTransit' = InTransit
    BY <1>transit, <2>1 DEF Carried, Moving
  <2> QED BY <1>step, <2>1, <2>2, <2>3 DEF Count
<1>3. CASE BeginChangeIsa(t)
  <2>1. Total' = Total /\ UNCHANGED <<isa, side>>
    BY <1>3, <1>count, <1>live DEF BeginChangeIsa, Releases
  <2>2. Carried(t) = 0 /\ (Carried(t))' = 0
    BY <1>3 DEF BeginChangeIsa, Carried, Moving
  <2>3. InTransit' = InTransit
    BY <1>3, <2>2, <1>transit DEF BeginChangeIsa
  <2> QED BY <1>step, <2>1, <2>3 DEF Count
<1>4. CASE BeginRetainCount(t)
  <2>1. Total' = Total /\ UNCHANGED <<isa, side>>
    BY <1>4, <1>count, <1>live DEF BeginRetainCount, Releases
  <2>2. Carried(t) = 0 /\ (Carried(t))' = 0
    BY <1>4 DEF BeginRetainCount, Carried, Moving
  <2>3. InTransit' = InTransit
    BY <1>4, <2>2, <1>transit DEF BeginRetainCount
  <2> QED BY <1>step, <2>1, <2>3 DEF Count
<1>5. CASE BeginStoreWeak(t)
  <2>1. Total' = Total /\ UNCHANGED <<isa, side>>
    BY <1>5, <1>count, <1>live DEF BeginStoreWeak, rootIsDeallocating, Releases
  <2>2. Carried(t) = 0 /\ (Carried(t))' = 0
    BY <1>5 DEF BeginStoreWeak, rootIsDeallocating, Carried, Moving
  <2>3. InTransit' = InTransit
    BY <1>5, <2>2, <1>transit DEF BeginStoreWeak, rootIsDeallocating
  <2> QED BY <1>step, <2>1, <2>3 DEF Count
<1>6. CASE BeginLoadWeak(t)
  <2>1. Total' = Total /\ UNCHANGED <<isa, side>>
    BY <1>6, <1>count, <1>live DEF BeginLoadWeak, Releases
  <2>2. Carried(t) = 0 /\ (Carried(t))' = 0
    BY <1>6 DEF BeginLoadWeak, Carried, Moving
  <2>3. InTransit' = InTransit
    BY <1>6, <2>2, <1>transit DEF BeginLoadWeak
  <2> QED BY <1>step, <2>1, <2>3 DEF Count
<1>7. CASE ClearWeak(t)
  <2>1. Total' = Total /\ UNCHANGED <<isa, side>>
    BY <1>7, <1>count, <1>live DEF ClearWeak, Releases
  <2>2. Carried(t) = 0 /\ (Carried(t))' = 0
    BY <1>7 DEF ClearWeak, Carried, Moving
  <2>3. InTransit' = InTransit
    BY <1>7, <2>2, <1>transit DEF ClearWeak
  <2> QED BY <1>step, <2>1, <2>3 DEF Count
<1>8. CASE RetainLoad(t)
  <2>1. Total' = Total /\ UNCHANGED <<isa, side>>
    BY <1>8, <1>count, <1>live DEF RetainLoad, Releases
  <2>2. Carried(t) = 0 /\ (Carried(t))' = 0
    BY <1>8 DEF RetainLoad, Carried, Moving
  <2>3. InTransit' = InTransit
    BY <1>8, <2>2, <1>transit DEF RetainLoad
  <2> QED BY <1>step, <2>1, <2>3 DEF Count
<1>9. CASE RetainRaw(t)
  <2>1. Total' = Total + 1
    BY <1>9, <1>count, <1>live DEF RetainRaw, Releases
  <2>2. ~isa.nonpointer /\ isa' = isa
    BY <1>9 DEF RetainRaw, OldIsa
  <2>3. ~Pinned(side) /\ side'.rc = side.rc + 1
    BY <1>9, RetainedFields DEF RetainRaw, Pinned
  <2>4. Count' = Count + 1
    BY <1>types, <2>2, <2>3 DEF Count
  <2>5. Carried(t) = 0 /\ (Carried(t))' = 0
    BY <1>9 DEF RetainRaw, Carried, Moving
  <2>6. InTransit' = InTransit
    BY <1>9, <2>5, <1>transit DEF RetainRaw
  <2> QED BY <1>step, <2>1, <2>3, <2>4, <2>6
<1>10. CASE TryRetainRaw(t)
  <2>1. ~side.deallocating
    BY <1>live DEF SideShape
  <2>2. Total' = Total + 1
    BY <1>10, <2>1, <1>count, <1>live DEF TryRetainRaw, Releases
  <2>3. ~isa.nonpointer /\ isa' = isa
    BY <1>10 DEF TryRetainRaw, OldIsa
  <2>4. ~Pinned(side) /\ side'.rc = side.rc + 1
    BY <1>10, <2>1, RetainedFields DEF TryRetainRaw, Pinned
  <2>5. Count' = Count + 1
    BY <1>types, <2>3, <2>4 DEF Count
  <2>6. Carried(t) = 0 /\ (Carried(t))' = 0
    BY <1>10 DEF TryRetainRaw, Carried, Moving
  <2>7. InTransit' = InTransit
    BY <1>10, <2>6, <1>transit DEF TryRetainRaw
  <2> QED BY <1>step, <2>2, <2>4, <2>5, <2>7
<1>11. CASE RetainDeallocating(t)
  <2>1. Total' = Total /\ UNCHANGED <<isa, side>>
    BY <1>11, <1>count, <1>live DEF RetainDeallocating, Releases
  <2>2. Carried(t) = 0 /\ (Carried(t))' = 0
    BY <1>11 DEF RetainDeallocating, Carried, Moving
  <2>3. InTransit' = InTransit
    BY <1>11, <2>2, <1>transit DEF RetainDeallocating
  <2> QED BY <1>step, <2>1, <2>3 DEF Count
<1>12. CASE rootRetain_overflow(t)
  <2>1. Total' = Total /\ UNCHANGED <<isa, side>>
    BY <1>12, <1>count, <1>live DEF rootRetain_overflow, RetainLive, Overflows,
       Releases
  <2>2. Carried(t) = 0 /\ (Carried(t))' = 0
    BY <1>12 DEF rootRetain_overflow, RetainLive, Overflows, Carried, Moving
  <2>3. InTransit' = InTransit
    BY <1>12, <2>2, <1>transit DEF rootRetain_overflow, RetainLive, Overflows
  <2> QED BY <1>step, <2>1, <2>3 DEF Count
<1>13. CASE RetainLock(t)
  <2>1. Total' = Total /\ UNCHANGED <<isa, side>>
    BY <1>13, <1>count, <1>live DEF RetainLock, RetainLive, Overflows, Releases
  <2>2. Carried(t) = 0 /\ (Carried(t))' = 0
    BY <1>13 DEF RetainLock, RetainLive, Overflows, Carried, Moving
  <2>3. InTransit' = InTransit
    BY <1>13, <2>2, <1>transit DEF RetainLock, RetainLive, Overflows
  <2> QED BY <1>step, <2>1, <2>3 DEF Count
<1>14. CASE RetainStore(t)
  <2>1. Total' = Total + 1 /\ side' = side
    BY <1>14, <1>count, <1>live DEF RetainStore, RetainReady, RetainLive, Releases
  <2>2. CASE Overflows(t)
    <3>1. /\ isa.nonpointer /\ isa'.nonpointer
          /\ isa.extra_rc = RC_MAX /\ isa'.extra_rc = RC_HALF
      BY <1>14, <2>2 DEF RetainStore, RetainReady, RetainLive, Overflows, IsaWord
    <3>2. lock = t /\ lock' = t /\ pc[t] = "rt_cas" /\ pc'[t] = "rt_add"
      BY <1>14, <2>2 DEF RetainStore, RetainReady, RetainLive
    <3>3. InTransit = 0 /\ InTransit' = RC_HALF
      BY <3>2, <1>transit DEF Carried, Moving
    <3>4. Count' = Count - RC_HALF + 1
      BY <1>types, <2>1, <3>1 DEF Count, RC_MAX
    <3> QED BY <1>step, <1>types, <2>1, <3>3, <3>4
  <2>3. CASE ~Overflows(t)
    <3>1. isa.nonpointer /\ isa'.nonpointer /\ isa'.extra_rc = isa.extra_rc + 1
      BY <1>14, <2>3 DEF RetainStore, RetainReady, RetainLive, IsaWord
    <3>2. Count' = Count + 1
      BY <1>types, <2>1, <3>1 DEF Count
    <3>3. Carried(t) = 0 /\ (Carried(t))' = 0
      BY <1>14, <2>3 DEF RetainStore, RetainReady, RetainLive, Carried, Moving
    <3>4. InTransit' = InTransit
      BY <1>14, <2>3, <3>3, <1>transit DEF RetainStore, RetainReady, RetainLive
    <3> QED BY <1>step, <2>1, <3>2, <3>4
  <2> QED BY <2>2, <2>3
<1>15. CASE RetainStoreFails(t)
  <2>1. Total' = Total /\ UNCHANGED <<isa, side>>
    BY <1>15, <1>count, <1>live DEF RetainStoreFails, RetainReady, RetainLive,
       Overflows, RetainMarksLocked, Releases
  <2>2. Carried(t) = 0 /\ (Carried(t))' = 0
    BY <1>15 DEF RetainStoreFails, RetainReady, RetainLive, Overflows,
       RetainMarksLocked, Carried, Moving
  <2>3. InTransit' = InTransit
    BY <1>15, <2>2, <1>transit DEF RetainStoreFails, RetainReady, RetainLive,
       Overflows, RetainMarksLocked
  <2> QED BY <1>step, <2>1, <2>3 DEF Count
<1>16. CASE RetainAddExtra(t)
  <2>1. Total' = Total /\ isa' = isa
    BY <1>16, <1>count, <1>live DEF RetainAddExtra, Releases
  <2>2. InTransit = RC_HALF /\ InTransit' = 0
    BY <1>16, <1>transit DEF RetainAddExtra, Carried, Moving
  <2>3. ~Pinned(side) /\ side'.rc = side.rc + RC_HALF
    <3>1. isa.nonpointer /\ ~Pinned(side)
      BY <1>16, <1>live DEF RetainAddExtra, OldIsa, SideShape, Moving
    <3> QED BY <1>16, <3>1, AddedFields DEF RetainAddExtra
  <2>4. Count' = Count + RC_HALF
    BY <1>types, <2>1, <2>3 DEF Count
  <2> QED BY <1>step, <1>types, <2>1, <2>2, <2>3, <2>4
<1>17. CASE ReleaseLoad(t)
  <2>1. Total' = Total /\ UNCHANGED <<isa, side>>
    BY <1>17, <1>count, <1>live DEF ReleaseLoad, Releases
  <2>2. Carried(t) = 0 /\ (Carried(t))' = 0
    BY <1>17 DEF ReleaseLoad, Carried, Moving
  <2>3. InTransit' = InTransit
    BY <1>17, <2>2, <1>transit DEF ReleaseLoad
  <2> QED BY <1>step, <2>1, <2>3 DEF Count
<1>18. CASE ReleaseRaw(t)
  <2>1. ~SideLastReference(side)
    BY <1>18, <1>live, ConstantsAssumption DEF ReleaseRaw
  <2>2. Total' = Total - 1
    BY <1>18, <2>1, <1>count, <1>live DEF ReleaseRaw, Releases
  <2>3. ~isa.nonpointer /\ isa' = isa
    BY <1>18 DEF ReleaseRaw, OldIsa
  <2>4. side.rc > 0
    BY <2>1, <1>live, <1>types DEF SideLastReference, SideShape
  <2>5. ~Pinned(side) /\ side'.rc = side.rc - 1
    BY <1>18, <2>1, <2>4, ReleasedFields DEF ReleaseRaw, Pinned
  <2>6. Count' = Count - 1 /\ Count' >= 1
    BY <1>types, <2>3, <2>4, <2>5 DEF Count
  <2>7. pc[t] = "rl_cas" /\ pc'[t] = "idle" /\ lock \in {t, NoThread} /\ lock' = NoThread
    BY <1>18, <2>1, <1>live DEF ReleaseRaw
  <2>8. InTransit = 0 /\ InTransit' = 0
    BY <2>7, <1>transit DEF Carried, Moving
  <2> QED BY <1>step, <2>2, <2>5, <2>6, <2>8
<1>19. CASE ReleaseDeallocating(t)
  BY <1>19, <1>live DEF ReleaseDeallocating, OldIsa
<1>20. CASE ReleaseStore(t)
  <2>1. ~IsDeallocating(isa') /\ side' = side
    BY <1>20, <1>live, ConstantsAssumption DEF ReleaseStore
  <2>2. Total' = Total - 1
    BY <1>20, <2>1, <1>count, <1>live DEF ReleaseStore, ReleaseReady, Releases
  <2>3. /\ isa.nonpointer /\ isa'.nonpointer
        /\ isa'.extra_rc = isa.extra_rc - 1
        /\ isa'.has_sidetable_rc = isa.has_sidetable_rc
    BY <1>20 DEF ReleaseStore, ReleaseReady, IsaWord
  <2>4. Carried(t) = 0 /\ (Carried(t))' = 0
    BY <1>20, <2>1, <1>live DEF ReleaseStore, ReleaseReady, Carried, Moving
  <2>5. InTransit' = InTransit
    BY <1>20, <2>1, <2>4, <1>live, <1>transit DEF ReleaseStore, ReleaseReady
  <2>6. InTransit \in {0, RC_HALF}
    BY <2>3 DEF OldIsa, InTransit, Carried
  <2>7. isa'.extra_rc > 0 \/ side.rc > 0 \/ InTransit = RC_HALF
    BY <2>1, <2>3, <1>types DEF IsDeallocating, SideShape, HalfMoving,
       InTransit, Carried
  <2>8. Count' = Count - 1 /\ Count' + InTransit >= 1
    BY <1>types, <2>1, <2>3, <2>6, <2>7 DEF Count
  <2>9. ~Pinned(side)
    BY <2>1
  <2> QED BY <1>step, <2>2, <2>5, <2>8, <2>9
<1>21. CASE ReleaseStoreFails(t)
  <2>1. Total' = Total /\ UNCHANGED <<isa, side>>
    BY <1>21, <1>count, <1>live DEF ReleaseStoreFails, ReleaseReady, Releases
  <2>2. Carried(t) = 0 /\ (Carried(t))' = 0
    BY <1>21 DEF ReleaseStoreFails, ReleaseReady, Carried, Moving
  <2>3. InTransit' = InTransit
    BY <1>21, <2>2, <1>transit DEF ReleaseStoreFails, ReleaseReady
  <2> QED BY <1>step, <2>1, <2>3 DEF Count
<1>22. CASE rootRelease_underflow(t)
  <2>1. Total' = Total /\ UNCHANGED <<isa, side>>
    BY <1>22, <1>count, <1>live DEF rootRelease_underflow, Underflows, Releases
  <2>2. Carried(t) = 0 /\ (Carried(t))' = 0
    BY <1>22 DEF rootRelease_underflow, Underflows, Carried, Moving
  <2>3. InTransit' = InTransit
    BY <1>22, <2>2, <1>transit DEF rootRelease_underflow, Underflows
  <2> QED BY <1>step, <2>1, <2>3 DEF Count
<1>23. CASE ReleaseLock(t)
  <2>1. Total' = Total /\ UNCHANGED <<isa, side>>
    BY <1>23, <1>count, <1>live DEF ReleaseLock, Underflows, Releases
  <2>2. Carried(t) = 0 /\ (Carried(t))' = 0
    BY <1>23 DEF ReleaseLock, Underflows, Carried, Moving
  <2>3. InTransit' = InTransit
    BY <1>23, <2>2, <1>transit DEF ReleaseLock, Underflows
  <2> QED BY <1>step, <2>1, <2>3 DEF Count
<1>24. CASE ReleaseBorrow(t)
  <2>1. lock = t /\ isa.nonpointer /\ isa.has_sidetable_rc /\ isa' = isa /\ pc[t] = "rl_cas"
    BY <1>24 DEF ReleaseBorrow, Underflows, OldIsa
  <2>2. side.rc > 0
    BY <2>1 DEF SideShape, HalfMoving, Moving
  <2>3. side.rc >= RC_HALF /\ ~Pinned(side)
    BY <1>live, <2>1, <2>2, Halved DEF SideShape
  <2>4. /\ side' = sidetable_subExtraRC(side, RC_HALF)
        /\ pc'[t] = "rl_put1" /\ lock' = t
    BY <1>24, <2>1, <2>2 DEF ReleaseBorrow
  <2>5. Count' = Count - RC_HALF
    BY <1>types, <2>1, <2>3, <2>4, SubtractedFields DEF Count
  <2>6. Total' = Total
    BY <1>24, <2>2, <1>count, <1>live DEF ReleaseBorrow, Underflows, Releases
  <2>7. InTransit = 0 /\ InTransit' = RC_HALF
    BY <2>1, <2>4, <1>transit DEF Carried, Moving
  <2> QED BY <1>step, <1>types, <2>3, <2>5, <2>6, <2>7
<1>25. CASE ReleaseStoreBorrowed(t)
  <2>1. Total' = Total - 1
    BY <1>25, <1>count, <1>live, ConstantsAssumption DEF ReleaseStoreBorrowed,
       Releases
  <2>2. /\ isa.nonpointer /\ isa'.nonpointer
        /\ isa'.extra_rc = isa.extra_rc + (RC_HALF - 1)
    BY <1>25 DEF ReleaseStoreBorrowed, Borrowed, OldIsa, IsaWord
  <2>3. side'.rc = side.rc
    BY <1>25 DEF ReleaseStoreBorrowed, sidetable_clearExtraRC, NoEntry
  <2>4. Count' = Count + RC_HALF - 1 /\ Count' >= 1 /\ ~Pinned(side)
    BY <1>types, <2>2, <2>3 DEF Count, Pinned
  <2>5. pc'[t] = "idle" /\ lock = t /\ lock' = NoThread
    BY <1>25, <1>live, ConstantsAssumption DEF ReleaseStoreBorrowed
  <2>6. InTransit = RC_HALF /\ InTransit' = 0
    BY <1>25, <2>5, <1>transit DEF ReleaseStoreBorrowed, Carried, Moving
  <2> QED BY <1>step, <1>types, <2>1, <2>4, <2>6
<1>26. CASE ReleaseStoreBorrowedFails(t)
  <2>1. Total' = Total /\ UNCHANGED <<isa, side>>
    BY <1>26, <1>count, <1>live DEF ReleaseStoreBorrowedFails, Releases
  <2>2. lock = t /\ lock' = t /\ Carried(t) = RC_HALF /\ (Carried(t))' = RC_HALF
    BY <1>26 DEF ReleaseStoreBorrowedFails, Carried, Moving
  <2>3. InTransit' = InTransit
    BY <2>2, <1>transit
  <2> QED BY <1>step, <2>1, <2>3 DEF Count
<1>27. CASE ReleasePutBack(t)
  <2>1. Total' = Total /\ isa' = isa
    BY <1>27, <1>count, <1>live DEF ReleasePutBack, Releases
  <2>2. InTransit = RC_HALF /\ InTransit' = 0
    BY <1>27, <1>transit DEF ReleasePutBack, Carried, Moving
  <2>3. ~Pinned(side) /\ side'.rc = side.rc + RC_HALF
    <3>1. isa.nonpointer /\ ~Pinned(side)
      BY <1>27, <1>live DEF ReleasePutBack, OldIsa, SideShape, Moving
    <3> QED BY <1>27, <3>1, AddedFields DEF ReleasePutBack
  <2>4. Count' = Count + RC_HALF
    BY <1>types, <2>1, <2>3 DEF Count
  <2> QED BY <1>step, <1>types, <2>1, <2>2, <2>3, <2>4
<1>28. CASE ChangeIsaLoad(t)
  <2>1. Total' = Total /\ UNCHANGED <<isa, side>>
    BY <1>28, <1>count, <1>live DEF ChangeIsaLoad, Releases
  <2>2. Carried(t) = 0 /\ (Carried(t))' = 0
    BY <1>28 DEF ChangeIsaLoad, Carried, Moving
  <2>3. InTransit' = InTransit
    BY <1>28, <2>2, <1>transit DEF ChangeIsaLoad
  <2> QED BY <1>step, <2>1, <2>3 DEF Count
<1>29. CASE ChangeIsaLock(t)
  <2>1. Total' = Total /\ UNCHANGED <<isa, side>>
    BY <1>29, <1>count, <1>live DEF ChangeIsaLock, Releases
  <2>2. Carried(t) = 0 /\ (Carried(t))' = 0
    BY <1>29 DEF ChangeIsaLock, Carried, Moving
  <2>3. InTransit' = InTransit
    BY <1>29, <2>2, <1>transit DEF ChangeIsaLock
  <2> QED BY <1>step, <2>1, <2>3 DEF Count
<1>30. CASE ChangeIsaStore(t)
  <2>1. /\ Total' = Total /\ side' = side /\ isa = old[t] /\ old' = old
        /\ ~isa'.nonpointer
    BY <1>30, <1>count, <1>live DEF ChangeIsaStore, ChangeIsaReady, Releases, RawIsa
  <2>2. CASE old[t].nonpointer
    <3>1. lock = t /\ lock' = t /\ pc[t] = "ci_cas" /\ pc'[t] = "ci_move"
      BY <1>30, <2>2 DEF ChangeIsaStore, ChangeIsaReady
    <3>2. InTransit = 0 /\ InTransit' = isa.extra_rc - 1
      BY <3>1, <2>1, <1>transit DEF Carried, Moving
    <3>3. Count' = Count - isa.extra_rc + 1
      BY <1>types, <2>1, <2>2 DEF Count
    <3> QED BY <1>step, <1>types, <2>1, <3>2, <3>3
  <2>3. CASE ~old[t].nonpointer
    <3>1. Carried(t) = 0 /\ (Carried(t))' = 0
      BY <1>30, <2>3 DEF ChangeIsaStore, ChangeIsaReady, Carried, Moving
    <3>2. InTransit' = InTransit
      BY <1>30, <2>3, <3>1, <1>transit DEF ChangeIsaStore, ChangeIsaReady
    <3>3. Count' = Count
      BY <1>types, <2>1, <2>3 DEF Count
    <3> QED BY <1>step, <2>1, <3>2, <3>3
  <2> QED BY <2>2, <2>3
<1>31. CASE ChangeIsaStoreFails(t)
  <2>1. Total' = Total /\ UNCHANGED <<isa, side>>
    BY <1>31, <1>count, <1>live DEF ChangeIsaStoreFails, ChangeIsaReady, Releases
  <2>2. Carried(t) = 0 /\ (Carried(t))' = 0
    BY <1>31 DEF ChangeIsaStoreFails, ChangeIsaReady, Carried, Moving
  <2>3. InTransit' = InTransit
    BY <1>31, <2>2, <1>transit DEF ChangeIsaStoreFails, ChangeIsaReady
  <2> QED BY <1>step, <2>1, <2>3 DEF Count
<1>32. CASE ChangeIsaMove(t)
  <2>1. Total' = Total /\ isa' = isa /\ ~isa.nonpointer
    BY <1>32, <1>count, <1>live DEF ChangeIsaMove, Releases, OldIsa
  <2>2. InTransit = old[t].extra_rc - 1 /\ InTransit' = 0
    BY <1>32, <1>transit DEF ChangeIsaMove, Carried, Moving
  <2>3. old[t].extra_rc > 0 /\ side'.rc = side.rc + old[t].extra_rc - 1
    BY <1>32, MovedFields DEF ChangeIsaMove
  <2>4. ~Pinned(side)
    BY <2>3, <1>types, ConstantsAssumption DEF Pinned, IsaWord
  <2>5. Count' = Count + old[t].extra_rc - 1 /\ old[t].extra_rc \in Nat
    BY <1>types, <2>1, <2>3 DEF Count, IsaWord
  <2> QED BY <1>step, <2>1, <2>2, <2>4, <2>5
<1>33. CASE RetainCountRead(t)
  <2>1. Total' = Total /\ UNCHANGED <<isa, side>>
    BY <1>33, <1>count, <1>live DEF RetainCountRead, Releases
  <2>2. Carried(t) = 0 /\ (Carried(t))' = 0
    BY <1>33 DEF RetainCountRead, Carried, Moving
  <2>3. InTransit' = InTransit
    BY <1>33, <2>2, <1>transit DEF RetainCountRead
  <2> QED BY <1>step, <2>1, <2>3 DEF Count
<1>34. CASE RetainCountSide(t)
  <2>1. Total' = Total /\ UNCHANGED <<isa, side>>
    BY <1>34, <1>count, <1>live DEF RetainCountSide, Releases
  <2>2. Carried(t) = 0 /\ (Carried(t))' = 0
    BY <1>34 DEF RetainCountSide, Carried, Moving
  <2>3. InTransit' = InTransit
    BY <1>34, <2>2, <1>transit DEF RetainCountSide
  <2> QED BY <1>step, <2>1, <2>3 DEF Count
<1>35. CASE StoreWeakLoad(t)
  <2>1. Total' = Total /\ UNCHANGED <<isa, side>>
    BY <1>35, <1>count, <1>live DEF StoreWeakLoad, Releases
  <2>2. Carried(t) = 0 /\ (Carried(t))' = 0
    BY <1>35 DEF StoreWeakLoad, Carried, Moving
  <2>3. InTransit' = InTransit
    BY <1>35, <2>2, <1>transit DEF StoreWeakLoad
  <2> QED BY <1>step, <2>1, <2>3 DEF Count
<1>36. CASE SetWeaklyReferenced(t)
  <2>1. Total' = Total
    BY <1>36, <1>count, <1>live DEF SetWeaklyReferenced, Releases
  <2>2. /\ isa'.nonpointer = isa.nonpointer /\ isa'.extra_rc = isa.extra_rc
        /\ side'.rc = side.rc
    <3>1. CASE old[t].nonpointer
      BY <1>36, <3>1 DEF SetWeaklyReferenced, IsaWord
    <3>2. CASE ~old[t].nonpointer
      BY <1>36, <3>2, ZenonT(60) DEF SetWeaklyReferenced, Entry
    <3> QED BY <3>1, <3>2
  <2>3. Count' = Count /\ ~Pinned(side)
    BY <2>2 DEF Count, Pinned
  <2>4. Carried(t) = 0 /\ (Carried(t))' = 0
    BY <1>36 DEF SetWeaklyReferenced, Carried, Moving
  <2>5. InTransit' = InTransit
    BY <1>36, <2>4, <1>transit DEF SetWeaklyReferenced
  <2> QED BY <1>step, <2>1, <2>3, <2>5
<1>37. CASE SetWeaklyReferencedFails(t)
  <2>1. Total' = Total /\ UNCHANGED <<isa, side>>
    BY <1>37, <1>count, <1>live DEF SetWeaklyReferencedFails, Releases
  <2>2. Carried(t) = 0 /\ (Carried(t))' = 0
    BY <1>37 DEF SetWeaklyReferencedFails, Carried, Moving
  <2>3. InTransit' = InTransit
    BY <1>37, <2>2, <1>transit DEF SetWeaklyReferencedFails
  <2> QED BY <1>step, <2>1, <2>3 DEF Count
<1>38. CASE LoadWeakUnlock(t)
  <2>1. Total' = Total /\ UNCHANGED <<isa, side>>
    BY <1>38, <1>count, <1>live DEF LoadWeakUnlock, Releases
  <2>2. Carried(t) = 0 /\ (Carried(t))' = 0
    BY <1>38 DEF LoadWeakUnlock, Carried, Moving
  <2>3. InTransit' = InTransit
    BY <1>38, <2>2, <1>transit DEF LoadWeakUnlock
  <2> QED BY <1>step, <2>1, <2>3 DEF Count
<1>39. CASE rootDealloc_fast(t)
  BY <1>39, <1>live DEF rootDealloc_fast
<1>40. CASE clearDeallocating(t)
  BY <1>40, <1>live DEF clearDeallocating
<1>41. CASE Free(t)
  BY <1>41, <1>live DEF Free
<1> QED BY <1>1, <1>2, <1>3, <1>4, <1>5, <1>6, <1>7, <1>8, <1>9, <1>10, <1>11,
       <1>12, <1>13, <1>14, <1>15, <1>16, <1>17, <1>18, <1>19, <1>20, <1>21,
       <1>22, <1>23, <1>24, <1>25, <1>26, <1>27, <1>28, <1>29, <1>30, <1>31,
       <1>32, <1>33, <1>34, <1>35, <1>36, <1>37, <1>38, <1>39, <1>40,
       <1>41 DEF ThreadStep, Begin, RetainStep, ReleaseStep, ChangeIsaStep,
       OtherStep

-----------------------------------------------------------------------------
(* The inductive invariant.                                                *)

IInv ==
  /\ TypeOK /\ Owners /\ SideShape /\ \A u \in Threads : OldIsa(u)
  /\ Conserved /\ Bounded /\ Relied /\ WeakFlag /\ Ending

LEMMA InitInvariant == Init => IInv
<1> SUFFICES ASSUME Init PROVE IInv
  OBVIOUS
<1> USE ConstantsAssumption
<1>1. TypeOK
  BY InitType
<1>2. \A t \in Threads : pc[t] = "idle"
  BY DEF Init
<1>3. /\ side = NoEntry /\ ~weakRef /\ lock = NoThread
      /\ deallocator = NoThread /\ ~freed /\ refs = 1
  BY DEF Init
<1>4. \/ isa.nonpointer /\ isa.extra_rc = 1 /\ ~isa.has_sidetable_rc
      \/ ~isa.nonpointer
  BY DEF Init, initIsa, RawIsa
<1>5. side.rc = 0 /\ ~side.deallocating /\ ~side.weakly_referenced
  BY <1>3 DEF NoEntry
<1>6. Releasing = {} /\ Retaining = {} /\ Using = {}
  BY <1>2 DEF Releasing, Retaining, Using
<1>7. Total = 1 /\ Cardinality(Retaining) = 0
  BY <1>3, <1>6, FS_EmptySet DEF Total
<1>8. Owners
  BY <1>2 DEF Owners, InCritical
<1>9. SideShape
  BY <1>3, <1>4, <1>5, Halved DEF SideShape, Pinned
<1>10. \A u \in Threads : OldIsa(u)
  BY <1>2 DEF OldIsa, Moving
<1>11. Conserved
  BY <1>3, <1>4, <1>5, <1>7 DEF Conserved, Count, InTransit
<1>12. Bounded /\ Relied /\ WeakFlag
  BY <1>2, <1>3, <1>6, <1>7 DEF Bounded, Relied, WeakFlag
<1>13. Ending
  BY <1>2, <1>3 DEF Ending, Alive
<1> QED BY <1>1, <1>8, <1>9, <1>10, <1>11, <1>12, <1>13 DEF IInv

LEMMA StepInvariant ==
  ASSUME IInv, NEW t \in Threads, ThreadStep(t)
  PROVE  IInv' /\ Elsewhere(t)
<1> USE DEF IInv
<1>1. TypeOK'
  BY TypeStep
<1>2. Elsewhere(t)
  BY Locality
<1>3. refs' \in Nat
  BY <1>1 DEF TypeOK
<1>4. Owners'
  BY OwnersStep
<1>5. SideShape'
  BY <1>2, SideShapeStep
<1>6. \A u \in Threads : OldIsa(u)'
  BY <1>2, OldIsaStep
<1>7. Conserved'
  BY <1>1, <1>2, ConservedStep
<1>8. Bounded' /\ Relied' /\ WeakFlag'
  BY <1>2, <1>3, BoundedStep, ReliedStep, WeakFlagStep
<1>9. Ending'
  BY <1>2, EndingStep
<1> QED BY <1>1, <1>2, <1>4, <1>5, <1>6, <1>7, <1>8, <1>9

\* Every reachable state satisfies the invariant.
THEOREM Invariance == Spec => []IInv
<1>1. IInv /\ [Next]_vars => IInv'
  <2> SUFFICES ASSUME IInv, [Next]_vars PROVE IInv'
    OBVIOUS
  <2>1. CASE UNCHANGED vars
    BY <2>1 DEF IInv, TypeOK, Owners, InCritical, SideShape, OldIsa, Conserved,
       Bounded, Relied, WeakFlag, Flagged, FlagComing, Ending, Away, Gone, Alive,
       Moving, HalfMoving, Carried, InTransit, Count, Total, Releasing, Retaining,
       Using, vars, objVars, lifeVars, localVars, lockVars
  <2>2. ASSUME NEW t \in Threads, ThreadStep(t) PROVE IInv'
    BY <2>2, StepInvariant
  <2> QED BY <2>1, <2>2 DEF Next
<1> QED BY InitInvariant, <1>1, PTL DEF Spec

-----------------------------------------------------------------------------
(* What the invariant says of the object.                                  *)

\* Whenever nobody is inside the side table's lock, the isa word and the side table
\* hold as many counts as there are references (rootRetain, rootRelease, changeIsa).
THEOREM CountsAreReferences == Spec => []CountsConserved
<1>1. IInv => CountsConserved
  <2> SUFFICES ASSUME IInv, lock = NoThread, deallocator = NoThread, ~Pinned(side)
               PROVE  rootRetainCount = Total
    BY DEF CountsConserved
  <2>1. Count + InTransit = Total /\ InTransit = 0
    BY DEF IInv, Conserved, Alive, InTransit
  <2>2. isa.nonpointer /\ ~isa.has_sidetable_rc => side.rc = 0
    BY DEF IInv, SideShape, NoEntry
  <2>3. isa.extra_rc \in Nat /\ side.rc \in Nat
    BY DEF IInv, TypeOK, IsaWord, Entry
  <2>4. rootRetainCount = Count
    BY <2>2, <2>3 DEF rootRetainCount, Count
  <2>5. Count \in Nat
    BY <2>3 DEF Count
  <2> QED BY <2>1, <2>4, <2>5
<1> QED BY Invariance, <1>1, PTL

\* Nobody is inside an object that was freed, and nothing is left of it in the weak
\* and the side table (rootDealloc, clearDeallocating).
THEOREM FreedObjectsGone == Spec => []FreedClean
<1>1. IInv => FreedClean
  <2> SUFFICES ASSUME IInv, freed
               PROVE  /\ \A t \in Threads : pc[t] \in {"idle", "lw_unlock"}
                      /\ ~weakRef /\ side = NoEntry
    BY DEF FreedClean, NoUseAfterFree, NothingLeftBehind
  <2>1. ~Alive /\ Gone
    BY DEF IInv, Ending, Gone
  <2>2. ~weakRef /\ side = NoEntry
    BY <2>1 DEF IInv, Ending
  <2>3. ASSUME NEW t \in Threads
        PROVE  pc[t] \in {"idle", "lw_unlock"}
    BY <2>1, <2>2, <2>3 DEF IInv, Ending, Away, WeakFlag
  <2> QED BY <2>2, <2>3
<1> QED BY Invariance, <1>1, PTL

-----------------------------------------------------------------------------
(* RefCount implements Lifetime.                                           *)

\* What a step does to the references of an object that lives.
CountStep ==
  /\ Total' \in {Total - 1, Total, Total + 1}
  /\ Total' = Total - 1 /\ ~Pinned(side) => ~Pinned(side')
  /\ ~Alive' => Total' = Total - 1

LEMMA LiveCount ==
  ASSUME TypeOK, NEW t \in Threads, ThreadStep(t), Owners, Ending, SideShape,
         Alive, Elsewhere(t), \A u \in Threads : OldIsa(u), refs' \in Nat
  PROVE  CountStep
<1> USE ConstantsAssumption DEF Goto, Home, Unlock, UnlockIf, Counted,
       AfterRetain, Deallocate, DeallocateIf, objVars, lifeVars, localVars,
       lockVars, TypeOK, Owners, InCritical, Alive, CountStep
<1>live. /\ t # deallocator /\ deallocator = NoThread /\ ~freed
         /\ pc[t] \notin {"dealloc", "da_free"}
  BY ConstantsAssumption DEF Ending
<1>count. /\ Total \in Nat
          /\ Total' = Total + (refs' - refs) + (IF (Releases(t))' THEN 1 ELSE 0)
                                             - (IF Releases(t) THEN 1 ELSE 0)
  BY Counting
<1>same. ASSUME NEW d \in {0, 1}, refs' = refs + d, deallocator' = deallocator,
                (Releases(t))' <=> Releases(t)
         PROVE  CountStep
  <2>1. Total \in Nat /\ Total' = Total + d
    BY <1>same, <1>count
  <2>2. Alive'
    BY <1>live, <1>same
  <2> QED BY <2>1, <2>2
<1>1. CASE BeginRetain(t) \/ BeginChangeIsa(t) \/ BeginRetainCount(t)
           \/ BeginStoreWeak(t) \/ BeginLoadWeak(t) \/ ClearWeak(t)
  <2>1. refs' = refs /\ deallocator' = deallocator /\ ((Releases(t))' <=> Releases(t))
    BY <1>1, <1>live DEF BeginRetain, Releases,
       BeginChangeIsa, BeginRetainCount, BeginStoreWeak, rootIsDeallocating,
       BeginLoadWeak, ClearWeak
  <2> QED BY <1>same, <2>1
<1>2. CASE BeginRelease(t)
  <2>1. /\ refs' = refs - 1 /\ pc[t] = "idle" /\ pc'[t] = "rl_load"
        /\ deallocator' = deallocator
    BY <1>2, <1>live DEF BeginRelease
  <2> QED BY <1>live, <1>count, <2>1 DEF Releases
<1>3. CASE RetainLoad(t) \/ RetainDeallocating(t) \/ rootRetain_overflow(t)
           \/ RetainLock(t) \/ RetainStoreFails(t) \/ RetainAddExtra(t)
  <2>1. refs' = refs /\ deallocator' = deallocator /\ ((Releases(t))' <=> Releases(t))
    BY <1>3, <1>live DEF RetainLoad, Releases,
       RetainDeallocating, rootRetain_overflow, RetainLive, Overflows,
       RetainLock, RetainStoreFails, RetainReady, RetainMarksLocked,
       RetainAddExtra
  <2> QED BY <1>same, <2>1
<1>4. CASE RetainRaw(t)
  BY <1>4, <1>live, <1>count DEF RetainRaw, Releases
<1>5. CASE TryRetainRaw(t)
  <2>1. refs' = refs + 1 /\ deallocator' = deallocator /\ pc[t] = "rt_cas"
        /\ pc'[t] = "lw_unlock"
    BY <1>5, <1>live DEF TryRetainRaw, SideShape
  <2>2. (Releases(t))' <=> Releases(t)
    BY <2>1 DEF Releases
  <2> QED BY <1>same, <2>1, <2>2
<1>6. CASE RetainStore(t)
  BY <1>6, <1>live, <1>count DEF RetainStore, RetainReady, RetainLive, Releases
<1>7. CASE ReleaseLoad(t) \/ ReleaseStoreFails(t) \/ rootRelease_underflow(t)
           \/ ReleaseLock(t) \/ ReleaseStoreBorrowedFails(t)
           \/ ReleasePutBack(t)
  <2>1. refs' = refs /\ deallocator' = deallocator /\ ((Releases(t))' <=> Releases(t))
    BY <1>7, <1>live DEF ReleaseLoad, Releases,
       ReleaseStoreFails, ReleaseReady, rootRelease_underflow, Underflows,
       ReleaseLock, ReleaseStoreBorrowedFails, ReleasePutBack
  <2> QED BY <1>same, <2>1
<1>8. CASE ReleaseRaw(t)
  <2>1. Total' = Total - 1
    BY <1>8, <1>live, <1>count, ConstantsAssumption DEF ReleaseRaw, Releases
  <2>2. ~Pinned(side) => ~Pinned(side')
    BY <1>8, <1>live, ReleasedFields DEF ReleaseRaw, Pinned, SideShape,
       SideLastReference, Entry
  <2> QED BY <1>count, <2>1, <2>2
<1>9. CASE ReleaseDeallocating(t)
  BY <1>9, <1>live DEF ReleaseDeallocating, OldIsa
<1>10. CASE ReleaseStore(t)
  <2>1. Total' = Total - 1
    BY <1>10, <1>live, <1>count, ConstantsAssumption DEF ReleaseStore,
       ReleaseReady, Releases
  <2>2. side' = side
    BY <1>10 DEF ReleaseStore
  <2> QED BY <1>count, <2>1, <2>2
<1>11. CASE ReleaseBorrow(t)
  <2>1. lock = t /\ isa.nonpointer /\ isa.has_sidetable_rc /\ pc[t] = "rl_cas"
    BY <1>11 DEF ReleaseBorrow, Underflows, OldIsa
  <2>2. side.rc > 0
    BY <2>1 DEF SideShape, HalfMoving, Moving
  <2>3. refs' = refs /\ deallocator' = deallocator /\ ((Releases(t))' <=> Releases(t))
    BY <1>11, <2>2, <1>live DEF ReleaseBorrow, Underflows, Releases
  <2> QED BY <1>same, <2>3
<1>12. CASE ReleaseStoreBorrowed(t)
  <2>1. Total' = Total - 1
    BY <1>12, <1>live, <1>count, ConstantsAssumption DEF ReleaseStoreBorrowed,
       Releases
  <2>2. side'.rc = side.rc
    BY <1>12 DEF ReleaseStoreBorrowed, sidetable_clearExtraRC, NoEntry
  <2> QED BY <1>count, <2>1, <2>2 DEF Pinned
<1>13. CASE ChangeIsaLoad(t) \/ ChangeIsaLock(t) \/ ChangeIsaStore(t)
           \/ ChangeIsaStoreFails(t) \/ ChangeIsaMove(t)
  <2>1. refs' = refs /\ deallocator' = deallocator /\ ((Releases(t))' <=> Releases(t))
    BY <1>13, <1>live DEF ChangeIsaLoad, Releases,
       ChangeIsaLock, ChangeIsaStore, ChangeIsaReady, ChangeIsaStoreFails,
       ChangeIsaMove
  <2> QED BY <1>same, <2>1
<1>14. CASE RetainCountRead(t) \/ RetainCountSide(t) \/ StoreWeakLoad(t)
           \/ SetWeaklyReferenced(t) \/ SetWeaklyReferencedFails(t)
           \/ LoadWeakUnlock(t)
  <2>1. refs' = refs /\ deallocator' = deallocator /\ ((Releases(t))' <=> Releases(t))
    BY <1>14, <1>live DEF RetainCountRead, Releases,
       RetainCountSide, StoreWeakLoad, SetWeaklyReferenced,
       SetWeaklyReferencedFails, LoadWeakUnlock
  <2> QED BY <1>same, <2>1
<1>15. CASE rootDealloc_fast(t)
  BY <1>15, <1>live DEF rootDealloc_fast
<1>16. CASE clearDeallocating(t)
  BY <1>16, <1>live DEF clearDeallocating
<1>17. CASE Free(t)
  BY <1>17, <1>live DEF Free
<1> QED BY <1>1, <1>2, <1>3, <1>4, <1>5, <1>6, <1>7, <1>8, <1>9, <1>10, <1>11,
       <1>12, <1>13, <1>14, <1>15, <1>16, <1>17 DEF ThreadStep, Begin,
       RetainStep, ReleaseStep, ChangeIsaStep, OtherStep

\* ... and of an object that has none.
LEMMA EndedCount == TypeOK /\ Ending /\ ~Alive => Total = 0 /\ deallocator \in Threads
<1> SUFFICES ASSUME TypeOK, Ending, ~Alive
             PROVE  Total = 0 /\ deallocator \in Threads
  OBVIOUS
<1>1. deallocator \in Threads /\ refs = 0
  BY DEF TypeOK, Alive, Ending
<1>2. Releasing = {}
  BY <1>1 DEF Releasing, Ending, Away
<1> QED BY <1>1, <1>2, FS_EmptySet DEF Total

LEMMA EndedCountNext ==
  (TypeOK /\ Ending /\ ~Alive)' => (Total = 0 /\ deallocator \in Threads)'
BY EndedCount, PTL

LEMMA LifetimeStep ==
  ASSUME IInv, NEW t \in Threads, ThreadStep(t)
  PROVE  [Life!Next \/ Pinned(side)]_<<Total, Phase>>
<1>1. IInv' /\ Elsewhere(t)
  BY StepInvariant
<1>2. CASE ~Alive
  <2>1. deallocator' = deallocator
    BY <1>1, <1>2, EndedCount, ConstantsAssumption DEF IInv, Elsewhere, Alive
  <2>2. Total' = 0 /\ Total = 0
    BY <1>1, <1>2, <2>1, EndedCount, EndedCountNext DEF IInv, Alive
  <2>3. Phase' = Phase \/ (Phase = "deallocating" /\ Phase' = "freed")
    BY <1>1, <1>2, <2>1 DEF Phase, Elsewhere, Alive, IInv, TypeOK
  <2> QED BY <2>2, <2>3 DEF Life!Next, Life!Free
<1>3. CASE Alive /\ ~Pinned(side)
  <2>1. CountStep /\ Total \in Nat /\ Total >= 1
    <3>1. refs' \in Nat
      BY <1>1 DEF IInv, TypeOK
    <3>2. CountStep
      BY <1>1, <1>3, <3>1, LiveCount DEF IInv
    <3>3. Total \in Nat /\ Total >= 1
      BY <1>3, CountTypes DEF IInv, Conserved
    <3> QED BY <3>2, <3>3
  <2>2. Phase = "alive"
    BY <1>3 DEF Phase, Alive, IInv, Ending
  <2>3. CASE ~Alive'
    <3>1. Total' = 0
      BY <1>1, <2>3, EndedCountNext DEF IInv
    <3>2. Total = 1
      BY <2>1, <2>3, <3>1 DEF CountStep
    <3>3. Phase' = "deallocating"
      BY <1>1, <1>3, <2>3, ConstantsAssumption DEF Phase, Alive, Elsewhere, IInv, Ending, TypeOK
    <3> QED BY <2>2, <3>1, <3>2, <3>3 DEF Life!Next, Life!Release
  <2>4. CASE Alive'
    <3>1. Phase' = "alive"
      BY <1>1, <2>4 DEF Phase, Alive, IInv, Ending
    <3>2. Total' = Total - 1 => Total # 1
      BY <1>1, <1>3, <2>1, <2>4 DEF CountStep, IInv, Conserved
    <3> QED BY <2>1, <2>2, <3>1, <3>2 DEF CountStep, Life!Next, Life!Retain, Life!Release
  <2> QED BY <2>3, <2>4
<1> QED BY <1>2, <1>3

\* Each retain, successful weak load and release takes effect at one instant, and the
\* release of the last reference, and no other, makes the object deallocate, unless
\* the count is pinned (rootRetain, rootRelease, changeIsa, rootDealloc).
THEOREM LifetimeImplemented == Spec => ImplementsLifetime
<1>1. Init => Life!Init
  <2> SUFFICES ASSUME Init PROVE Total = 1 /\ Phase = "alive"
    BY DEF Life!Init
  <2>1. Releasing = {}
    BY DEF Init, Releasing
  <2> QED BY <2>1, FS_EmptySet DEF Init, Total, Phase
<1>2. IInv /\ [Next]_vars => [Life!Next \/ Pinned(side)]_<<Total, Phase>>
  <2> SUFFICES ASSUME IInv, [Next]_vars
               PROVE  [Life!Next \/ Pinned(side)]_<<Total, Phase>>
    OBVIOUS
  <2>1. CASE UNCHANGED vars
    BY <2>1 DEF Total, Phase, Releasing, vars, objVars, lifeVars, localVars, lockVars
  <2>2. ASSUME NEW t \in Threads, ThreadStep(t)
        PROVE  [Life!Next \/ Pinned(side)]_<<Total, Phase>>
    BY <2>2, LifetimeStep
  <2> QED BY <2>1, <2>2 DEF Next
<1> QED BY Invariance, <1>1, <1>2, PTL DEF Spec, ImplementsLifetime

=============================================================================
