-------------------------- MODULE MethodCacheProofs -------------------------
(***************************************************************************)
(* Lookups without a lock answer truly, read allocated memory only and     *)
(* forward only what no resolver would add: theorems about MethodCache for *)
(* any threads, classes, methods and sizes of caches.                      *)
(***************************************************************************)
EXTENDS MethodCache, FiniteSetTheorems, WellFoundedInduction, TLAPS

Imps == Implementations \cup {forward_imp}
Addresses == Arrays \cup {emptyBuckets}
Bucket == {NoBucket} \cup [sel : Selectors, imp : Imps]
Tables == UNION {[0 .. n - 1 -> Bucket] : n \in Nat}
Call == [at : {"idle", "load", "probe", "slow", "resolve", "fill", "insert", "flush",
               "collect", "dispose", "done"},
         cls : Classes \cup {nil}, sel : Selectors \cup {none}, imp : Imps \cup {none},
         buckets : Addresses, mask : Nat, i : Nat, wrapped : BOOLEAN,
         resolver : BOOLEAN, tries : {0, 1, 2},
         flush : SUBSET Classes, then : {"idle", "insert", "flush"}]

\* Types of everything that MethodCache keeps.
CacheTypeOK ==
  /\ methods \in [Classes -> [Selectors -> Implementations \cup {none}]]
  /\ settled \in [Classes -> [Selectors -> Implementations \cup {none}]]
  /\ cache \in [Classes -> [buckets : Addresses, mask : Nat, occupied : Nat]]
  /\ memory \in [Addresses -> Tables]
  /\ garbage \in [Addresses -> Nat]
  /\ runtimeLock \in Threads \cup {NoThread}
  /\ call \in [Threads -> Call]
  /\ restartable \in BOOLEAN
  /\ begun \in Nat /\ changes \in Nat
  /\ possible \in [Threads -> SUBSET Imps]

Table(c) == memory[cache[c].buckets]
Full(b) == {i \in DOMAIN b : b[i] # NoBucket}

\* mask and buckets of a class belong together, and no two classes share an array
MasksFit ==
  /\ memory[emptyBuckets] = [i \in 0 .. MAX_CACHE_SIZE - 1 |-> NoBucket]
  /\ \A c \in Classes :
       /\ cache[c].mask < MAX_CACHE_SIZE
       /\ cache[c].buckets # emptyBuckets => DOMAIN Table(c) = 0 .. cache[c].mask
  /\ \A c, d \in Classes : c # d /\ cache[c].buckets = cache[d].buckets =>
       cache[c].buckets = emptyBuckets

\* each cache is a table that can be searched
TableOK(c) ==
  /\ cache[c].occupied = Cardinality(Full(Table(c)))
  /\ \A i, j \in Full(Table(c)) : Table(c)[i].sel = Table(c)[j].sel => i = j
  /\ \A i \in Full(Table(c)) : Reachable(c, i)

\* what is cached was true when the last change was complete, and a forward entry is
\* in a cache only when the class's resolver has nothing to add
EntriesOK(c) ==
  \A i \in Full(Table(c)) :
    /\ Table(c)[i].imp = Inherited(settled)[c][Table(c)[i].sel]
    /\ Table(c)[i].imp = forward_imp => Resolves[c][Table(c)[i].sel] = none

\* who has runtimeLock, and what for
Filling(t) ==
  \/ call[t].at \in {"fill", "insert"}
  \/ call[t].at \in {"collect", "dispose"} /\ call[t].then = "insert"
Changing(t) ==
  \/ call[t].at = "flush"
  \/ call[t].at \in {"collect", "dispose"} /\ call[t].then = "flush"
LockOK ==
  /\ \A t \in Threads : runtimeLock = t <=> Filling(t) \/ Changing(t)
  /\ (\A t \in Threads : ~Changing(t)) => methods = settled

\* a lookup is under way
Active(t) == call[t].cls # nil
Shape(t) ==
  LET k == call[t] IN
  /\ k.at = "idle" => ~Active(t)
  /\ k.at \in {"load", "probe", "slow", "resolve", "fill", "insert", "done"} => Active(t)
  /\ k.at \in {"collect", "dispose"} => k.then \in {"insert", "flush"}
  /\ Filling(t) => Active(t)
  /\ Changing(t) => (Active(t) <=> k.tries = 2)
  /\ Active(t) => k.cls \in Classes /\ k.sel \in Selectors
  /\ ~Active(t) => possible[t] = {}
  /\ Active(t) => Inherited(settled)[k.cls][k.sel] \in possible[t]

\* the resolver has been asked, and has added what it has to add
Asked(t) ==
  LET k == call[t] IN
  Active(t) /\ ~k.resolver /\ k.at # "resolve" =>
    Resolves[k.cls][k.sel] = none \/ methods[k.cls][k.sel] # none

\* what a lookup is about to put into the cache, and where there is room for it
FillOK(t) ==
  LET k == call[t] IN
  Filling(t) =>
    /\ k.imp = Inherited(methods)[k.cls][k.sel]
    /\ k.imp = forward_imp => Resolves[k.cls][k.sel] = none
    /\ k.at # "fill" => cache[k.cls].buckets # emptyBuckets /\ Usable(k.cls, k.sel) # {}

\* the caches that a change has emptied, or need not empty
ChangeOK(t) ==
  Changing(t) =>
    \A c \in Classes \ call[t].flush : \A i \in Full(Table(c)) :
      Table(c)[i].imp = Inherited(methods)[c][Table(c)[i].sel]

\* what a reader without a lock has loaded: of its class, or kept by it from being freed
ReaderOK(t) ==
  LET k == call[t]
      b == memory[k.buckets] IN
  k.at = "probe" =>
    /\ k.mask < MAX_CACHE_SIZE /\ k.i \in 0 .. k.mask
    /\ k.buckets # emptyBuckets => DOMAIN b = 0 .. k.mask
    /\ k.buckets \in {emptyBuckets, cache[k.cls].buckets} \/ garbage[k.buckets] > 0
    /\ \A i \in DOMAIN b : b[i].sel = k.sel =>
         b[i].imp \in possible[t] /\ (b[i].imp = forward_imp => Resolves[k.cls][k.sel] = none)

\* nothing is freed while a reader may be in it
DisposeOK ==
  \A t, u \in Threads :
    At(t, "probe") /\ At(u, "dispose") => garbage[call[t].buckets] = 0

AnswerOK(t) ==
  At(t, "done") =>
    /\ call[t].imp \in possible[t]
    /\ call[t].imp = forward_imp => Resolves[call[t].cls][call[t].sel] = none

ThreadOK(t) ==
  Shape(t) /\ Asked(t) /\ FillOK(t) /\ ChangeOK(t) /\ ReaderOK(t) /\ AnswerOK(t)

\* The inductive invariant.
IInv ==
  /\ CacheTypeOK
  /\ MasksFit /\ GarbageSound
  /\ \A c \in Classes : TableOK(c) /\ EntriesOK(c)
  /\ LockOK /\ DisposeOK
  /\ \A t \in Threads : ThreadOK(t)

-----------------------------------------------------------------------------
(* Hierarchies.                                                            *)

USE DEF Imps, Addresses

\* one step up, for some of the classes
Solves(f, A, own) ==
  f = [c \in A |-> [s \in Selectors |->
         IF own[c][s] # none THEN own[c][s]
         ELSE IF Superclass[c] = nil THEN forward_imp
         ELSE f[Superclass[c]][s]]]

Upward(A) == A \in SUBSET Classes /\ \A c \in A : Superclass[c] = nil \/ Superclass[c] \in A

\* Two functions that go one step up at a time agree where both are defined.
LEMMA UpFromAgree ==
  ASSUME NEW own, NEW A, NEW B, NEW f, NEW g,
         Upward(A), Upward(B), Solves(f, A, own), Solves(g, B, own)
  PROVE  \A c \in A \cap B : f[c] = g[c]
<1> DEFINE T == {c \in A \cap B : f[c] # g[c]}
<1>1. SUFFICES ASSUME T # {} PROVE FALSE
  OBVIOUS
<1>2. T \in SUBSET Classes
  BY DEF Upward
<1>3. PICK c \in T : Superclass[c] \notin T
  BY <1>1, <1>2, MethodCacheAssumption
<1>4. Superclass[c] = nil \/ f[Superclass[c]] = g[Superclass[c]]
  BY <1>3 DEF Upward
<1>5. /\ f[c] = [s \in Selectors |->
                   IF own[c][s] # none THEN own[c][s]
                   ELSE IF Superclass[c] = nil THEN forward_imp ELSE f[Superclass[c]][s]]
      /\ g[c] = [s \in Selectors |->
                   IF own[c][s] # none THEN own[c][s]
                   ELSE IF Superclass[c] = nil THEN forward_imp ELSE g[Superclass[c]][s]]
  BY <1>3 DEF Solves
<1>6. f[c] = g[c]
  BY <1>4, <1>5
<1> QED BY <1>3, <1>6

\* Every class is in the domain of such a function, which has the classes above it.
LEMMA UpFromSome ==
  ASSUME NEW own
  PROVE  \A c \in Classes : \E A, f : Upward(A) /\ c \in A /\ Solves(f, A, own)
<1> DEFINE Good(c) == \E A, f : Upward(A) /\ c \in A /\ Solves(f, A, own)
<1> DEFINE T == {c \in Classes : ~Good(c)}
<1>1. SUFFICES ASSUME T # {} PROVE FALSE
  OBVIOUS
<1>2. PICK c \in T : Superclass[c] \notin T
  <2>1. T \in SUBSET Classes
    OBVIOUS
  <2> HIDE DEF T
  <2> QED BY <1>1, <2>1, MethodCacheAssumption
<1>3. c \in Classes
  OBVIOUS
<1>4. CASE Superclass[c] = nil
  <2> DEFINE f == [d \in {c} |-> [s \in Selectors |-> IF own[c][s] # none THEN own[c][s] ELSE forward_imp]]
  <2>1. Upward({c})
    BY <1>3, <1>4 DEF Upward
  <2>2. Solves(f, {c}, own)
    BY <1>4 DEF Solves
  <2> QED BY <2>1, <2>2
<1>5. CASE Superclass[c] # nil
  <2>1. Superclass[c] \in Classes
    BY <1>3, <1>5, MethodCacheAssumption
  <2>2. Good(Superclass[c])
    BY <1>2, <2>1
  <2>3. PICK A, f : Upward(A) /\ Superclass[c] \in A /\ Solves(f, A, own)
    BY <2>2
  <2>4. c \notin A
    BY <2>3
  <2> DEFINE g == [d \in A \cup {c} |->
                     IF d = c THEN [s \in Selectors |-> IF own[c][s] # none THEN own[c][s]
                                                        ELSE f[Superclass[c]][s]]
                     ELSE f[d]]
  <2>5. Upward(A \cup {c})
    BY <1>3, <2>3 DEF Upward
  <2>6. \A d \in A : g[d] = f[d]
    BY <2>4
  <2>7. \A d \in A \cup {c} : g[d] = [s \in Selectors |->
          IF own[d][s] # none THEN own[d][s]
          ELSE IF Superclass[d] = nil THEN forward_imp
          ELSE g[Superclass[d]][s]]
    <3> SUFFICES ASSUME NEW d \in A \cup {c}
                 PROVE  g[d] = [s \in Selectors |->
                          IF own[d][s] # none THEN own[d][s]
                          ELSE IF Superclass[d] = nil THEN forward_imp
                          ELSE g[Superclass[d]][s]]
      OBVIOUS
    <3>1. CASE d = c
      <4>1. g[Superclass[c]] = f[Superclass[c]]
        BY <2>3, <2>6
      <4>2. g[c] = [s \in Selectors |-> IF own[c][s] # none THEN own[c][s] ELSE f[Superclass[c]][s]]
        OBVIOUS
      <4> HIDE DEF g
      <4> QED BY <3>1, <4>1, <4>2, <1>5
    <3>2. CASE d # c
      <4>1. d \in A
        BY <3>2
      <4>2. f[d] = [s \in Selectors |->
          IF own[d][s] # none THEN own[d][s]
          ELSE IF Superclass[d] = nil THEN forward_imp
          ELSE f[Superclass[d]][s]]
        BY <4>1, <2>3 DEF Solves
      <4>3. Superclass[d] = nil \/ g[Superclass[d]] = f[Superclass[d]]
        BY <4>1, <2>3, <2>6 DEF Upward
      <4>4. g[d] = f[d]
        BY <4>1, <2>6
      <4> HIDE DEF g
      <4> QED BY <4>2, <4>3, <4>4
    <3> QED BY <3>1, <3>2
  <2>8. Solves(g, A \cup {c}, own)
    <3>1. g = [d \in A \cup {c} |-> g[d]]
      OBVIOUS
    <3> HIDE DEF g
    <3> QED BY <3>1, <2>7 DEF Solves
  <2> HIDE DEF g
  <2> QED BY <2>5, <2>8
<1> QED BY <1>4, <1>5

\* UpFrom is what its definition says.
LEMMA UpFromDef ==
  ASSUME NEW own
  PROVE  Solves(UpFrom(own), Classes, own)
<1> DEFINE P(c) == CHOOSE x : Upward(x[1]) /\ c \in x[1] /\ Solves(x[2], x[1], own)
           F == [c \in Classes |-> P(c)[2][c]]
<1>1. ASSUME NEW c \in Classes
      PROVE  Upward(P(c)[1]) /\ c \in P(c)[1] /\ Solves(P(c)[2], P(c)[1], own)
  <2>1. PICK A, f : Upward(A) /\ c \in A /\ Solves(f, A, own)
    BY UpFromSome
  <2>2. LET x == <<A, f>> IN Upward(x[1]) /\ c \in x[1] /\ Solves(x[2], x[1], own)
    BY <2>1
  <2> QED BY <2>2
<1>2. ASSUME NEW c \in Classes
      PROVE  F[c] = [s \in Selectors |->
                       IF own[c][s] # none THEN own[c][s]
                       ELSE IF Superclass[c] = nil THEN forward_imp
                       ELSE F[Superclass[c]][s]]
  <2>1. Upward(P(c)[1]) /\ c \in P(c)[1] /\ Solves(P(c)[2], P(c)[1], own)
    BY <1>1
  <2>2. P(c)[2][c] = [s \in Selectors |->
                       IF own[c][s] # none THEN own[c][s]
                       ELSE IF Superclass[c] = nil THEN forward_imp
                       ELSE P(c)[2][Superclass[c]][s]]
    <3> HIDE DEF P
    <3> QED BY <2>1 DEF Solves
  <2>3. CASE Superclass[c] = nil
    <3> HIDE DEF P
    <3> QED BY <2>2, <2>3
  <2>4. CASE Superclass[c] # nil
    <3> DEFINE d == Superclass[c]
    <3>1. d \in Classes /\ d \in P(c)[1]
      <4> HIDE DEF P
      <4> QED BY <2>1, <2>4, MethodCacheAssumption DEF Upward
    <3>2. Upward(P(d)[1]) /\ d \in P(d)[1] /\ Solves(P(d)[2], P(d)[1], own)
      BY <3>1, <1>1
    <3>3. P(c)[2][d] = P(d)[2][d]
      <4> HIDE DEF P
      <4> QED BY <2>1, <3>1, <3>2, UpFromAgree
    <3> HIDE DEF P
    <3> QED BY <2>2, <2>4, <3>1, <3>3
  <2> QED BY <2>3, <2>4
<1>3. Solves(F, Classes, own)
  <2>1. F = [c \in Classes |-> F[c]]
    OBVIOUS
  <2> HIDE DEF F
  <2> QED BY <1>2, <2>1 DEF Solves
<1>4. UpFrom(own) = CHOOSE f : Solves(f, Classes, own)
  BY DEF UpFrom, Solves
<1> HIDE DEF F
<1> QED BY <1>3, <1>4

\* One step up, at a class.
LEMMA InheritedAt ==
  ASSUME NEW own, NEW c \in Classes, NEW s \in Selectors
  PROVE  UpFrom(own)[c][s] = IF own[c][s] # none THEN own[c][s]
                             ELSE IF Superclass[c] = nil THEN forward_imp
                             ELSE UpFrom(own)[Superclass[c]][s]
<1>1. Solves(UpFrom(own), Classes, own)
  BY UpFromDef
<1> HIDE DEF UpFrom
<1> DEFINE F == UpFrom(own)
<1>2. F = [d \in Classes |-> [r \in Selectors |->
         IF own[d][r] # none THEN own[d][r]
         ELSE IF Superclass[d] = nil THEN forward_imp
         ELSE F[Superclass[d]][r]]]
  BY <1>1 DEF Solves
<1> HIDE DEF F
<1>3. F[c][s] = IF own[c][s] # none THEN own[c][s]
                ELSE IF Superclass[c] = nil THEN forward_imp
                ELSE F[Superclass[c]][s]
  BY <1>2
<1> QED BY <1>3 DEF F

MethodTables == [Classes -> [Selectors -> Implementations \cup {none}]]

\* Whatever a class inherits is an implementation, or forwarding.
LEMMA InheritedType ==
  ASSUME NEW table \in MethodTables, NEW s \in Selectors
  PROVE  \A c \in Classes : Inherited(table)[c][s] \in Imps
<1> DEFINE T == {c \in Classes : Inherited(table)[c][s] \notin Imps}
<1>1. SUFFICES ASSUME T # {} PROVE FALSE
  OBVIOUS
<1>2. PICK c \in T : Superclass[c] \notin T
  <2>1. T \in SUBSET Classes
    OBVIOUS
  <2> HIDE DEF T
  <2> QED BY <1>1, <2>1, MethodCacheAssumption
<1>3. Superclass[c] = nil \/ Inherited(table)[Superclass[c]][s] \in Imps
  BY <1>2, MethodCacheAssumption
<1>4. table[c][s] \in Implementations \cup {none}
  BY DEF MethodTables
<1>5. Inherited(table)[c][s] = IF table[c][s] # none THEN table[c][s]
                                ELSE IF Superclass[c] = nil THEN forward_imp
                                ELSE Inherited(table)[Superclass[c]][s]
  BY InheritedAt DEF Inherited
<1>6. Inherited(table)[c][s] \in Imps
  BY <1>3, <1>4, <1>5
<1> QED BY <1>6

\* A class below is reached from above.
LEMMA SubtreeUp ==
  ASSUME NEW c \in Classes
  PROVE  /\ c \in Subtree(c)
         /\ \A d \in Classes : Superclass[d] \in Subtree(c) => d \in Subtree(c)
BY DEF Subtree

\* What changes when a class's method is set: that of the classes below it, and, if the
\* method replaces one, of those only that inherited it.
LEMMA InheritedChange ==
  ASSUME NEW table \in MethodTables, NEW c \in Classes, NEW s \in Selectors,
         NEW imp \in Implementations,
         NEW r \in Selectors
  PROVE  LET new == [table EXCEPT ![c][s] = imp] IN
         \A d \in Classes :
           \/ Inherited(new)[d][r] = Inherited(table)[d][r]
           \/ /\ r = s /\ d \in Subtree(c)
              /\ table[c][s] = none \/ Inherited(table)[d][s] = table[c][s]
<1> DEFINE new == [table EXCEPT ![c][s] = imp]
           Good(d) == \/ Inherited(new)[d][r] = Inherited(table)[d][r]
                      \/ /\ r = s /\ d \in Subtree(c)
                         /\ table[c][s] = none \/ Inherited(table)[d][s] = table[c][s]
           T == {d \in Classes : ~Good(d)}
<1>1. SUFFICES ASSUME T # {} PROVE FALSE
  OBVIOUS
<1>2. PICK d \in T : Superclass[d] \notin T
  <2>1. T \in SUBSET Classes
    OBVIOUS
  <2> HIDE DEF T
  <2> QED BY <1>1, <2>1, MethodCacheAssumption
<1>3. d \in Classes /\ ~Good(d)
  OBVIOUS
<1>4. Superclass[d] = nil \/ (Superclass[d] \in Classes /\ Good(Superclass[d]))
  BY <1>2, MethodCacheAssumption
<1>5. /\ Inherited(table)[d][r] = IF table[d][r] # none THEN table[d][r]
                                  ELSE IF Superclass[d] = nil THEN forward_imp
                                  ELSE Inherited(table)[Superclass[d]][r]
      /\ Inherited(new)[d][r] = IF new[d][r] # none THEN new[d][r]
                                ELSE IF Superclass[d] = nil THEN forward_imp
                                ELSE Inherited(new)[Superclass[d]][r]
  <2> HIDE DEF new, T
  <2> QED BY ONLY InheritedAt, <1>3, r \in Selectors DEF Inherited
<1>6. new[d][r] = IF d = c /\ r = s THEN imp ELSE table[d][r]
  BY <1>3 DEF MethodTables
<1> HIDE DEF new, T
<1>7. CASE d = c /\ r = s
  <2>1. d \in Subtree(c)
    BY <1>7, SubtreeUp
  <2> QED BY <1>7, <1>3, <1>5, <2>1
<1>8. CASE ~(d = c /\ r = s)
  <2>1. table[d][r] = none /\ Superclass[d] # nil
    BY <1>8, <1>3, <1>5, <1>6
  <2>2. r = s /\ Superclass[d] \in Subtree(c)
        /\ (table[c][s] = none \/ Inherited(table)[Superclass[d]][s] = table[c][s])
    BY <1>8, <1>3, <1>4, <1>5, <1>6, <2>1
  <2>3. d \in Subtree(c)
    BY <1>3, <2>2, SubtreeUp
  <2> QED BY <1>3, <1>5, <2>1, <2>2, <2>3
<1> QED BY <1>7, <1>8

-----------------------------------------------------------------------------
(* Steps that leave methods and the heap alone.                            *)

Kept == UNCHANGED <<methods, settled, cache, memory, garbage>>

\* A call is replaced by another.
LEMMA GoOnFacts ==
  ASSUME call \in [Threads -> Call], NEW t \in Threads, NEW k \in Call, GoOn(t, k)
  PROVE  /\ call' \in [Threads -> Call] /\ call'[t] = k
         /\ \A u \in Threads \ {t} : call'[u] = call[u]
BY DEF GoOn

\* What is said of a thread stays true while nothing that it is about changes.
LEMMA ThreadKept ==
  ASSUME Kept, NEW u \in Threads, ThreadOK(u),
         call'[u] = call[u], possible'[u] = possible[u]
  PROVE  ThreadOK(u)'
<1>1. (Active(u) <=> Active(u)') /\ (Filling(u) <=> Filling(u)') /\ (Changing(u) <=> Changing(u)')
  BY DEF Active, Filling, Changing
<1>2. Shape(u)'
  BY <1>1 DEF ThreadOK, Shape, Kept
<1>3. Asked(u)'
  BY <1>1 DEF ThreadOK, Asked, Kept
<1>4. FillOK(u)'
  BY <1>1 DEF ThreadOK, FillOK, Kept, Usable
<1>5. ChangeOK(u)'
  BY <1>1 DEF ThreadOK, ChangeOK, Kept, Table, Full
<1>6. ReaderOK(u)'
  BY DEF ThreadOK, ReaderOK, Kept
<1>7. AnswerOK(u)'
  BY DEF ThreadOK, AnswerOK, Kept, At
<1> QED BY <1>2, <1>3, <1>4, <1>5, <1>6, <1>7 DEF ThreadOK

\* So does what is said of the heap.
LEMMA HeapKept ==
  ASSUME UNCHANGED <<settled, cache, memory, garbage>>,
         MasksFit, GarbageSound, \A c \in Classes : TableOK(c) /\ EntriesOK(c)
  PROVE  MasksFit' /\ GarbageSound' /\ \A c \in Classes : TableOK(c)' /\ EntriesOK(c)'
<1>1. MasksFit' /\ GarbageSound'
  BY DEF MasksFit, GarbageSound, Table
<1>2. ASSUME NEW c \in Classes
      PROVE  TableOK(c)' /\ EntriesOK(c)'
  <2>1. TableOK(c) /\ EntriesOK(c)
    OBVIOUS
  <2>2. TableOK(c)'
    BY <2>1 DEF TableOK, Table, Full, Reachable
  <2>3. EntriesOK(c)'
    BY <2>1 DEF EntriesOK, Table, Full
  <2> QED BY <2>2, <2>3
<1> QED BY <1>1, <1>2

\* A step of one thread that changes its own call only.
LEMMA QuietStep ==
  ASSUME IInv, Kept, NEW t \in Threads,
         \A u \in Threads \ {t} : call'[u] = call[u] /\ possible'[u] = possible[u],
         CacheTypeOK', LockOK', DisposeOK', ThreadOK(t)'
  PROVE  IInv'
<1>1. MasksFit' /\ GarbageSound' /\ \A c \in Classes : TableOK(c)' /\ EntriesOK(c)'
  BY HeapKept DEF IInv, Kept
<1>2. \A u \in Threads : ThreadOK(u)'
  BY ThreadKept DEF IInv
<1> QED BY <1>1, <1>2 DEF IInv

\* A quiet step of a thread without the lock leaves the lock as it is.
LEMMA LockKept ==
  ASSUME LockOK, Kept, UNCHANGED runtimeLock, NEW t \in Threads,
         \A u \in Threads \ {t} : call'[u] = call[u],
         ~Filling(t), ~Changing(t), ~Filling(t)', ~Changing(t)'
  PROVE  LockOK'
<1>1. \A u \in Threads : (Filling(u) <=> Filling(u)') /\ (Changing(u) <=> Changing(u)')
  <2> SUFFICES ASSUME NEW u \in Threads
               PROVE  (Filling(u) <=> Filling(u)') /\ (Changing(u) <=> Changing(u)')
    OBVIOUS
  <2>1. CASE u = t
    BY <2>1
  <2>2. CASE u # t
    BY <2>2 DEF Filling, Changing
  <2> QED BY <2>1, <2>2
<1> QED BY <1>1 DEF LockOK, Kept

\* In a bucket of an array of the heap there is an implementation for a selector.
LEMMA BucketFacts ==
  ASSUME CacheTypeOK, NEW q \in Addresses, NEW i \in DOMAIN memory[q]
  PROVE  /\ memory[q][i] \in Bucket
         /\ memory[q][i].sel \in Selectors => memory[q][i].imp \in Imps /\ memory[q][i] # NoBucket
         /\ memory[q][i] = NoBucket => memory[q][i].sel = none
         /\ memory[q][i] # NoBucket => memory[q][i].sel \in Selectors
<1>1. memory[q] \in Tables
  BY DEF CacheTypeOK
<1>2. memory[q][i] \in Bucket
  BY <1>1 DEF Tables
<1> QED BY <1>2, MethodCacheAssumption DEF Bucket, NoBucket

LEMMA IdleType == Idle \in Call /\ Idle.at = "idle" /\ Idle.cls = nil
BY DEF Idle, Call

\* A lookup begins.
LEMMA BeginLookupStep ==
  ASSUME IInv, NEW t \in Threads, NEW m \in Lookups, BeginLookup(t, m[1], m[2])
  PROVE  IInv'
<1> DEFINE c == m[1]  s == m[2]
           k == [Idle EXCEPT !.at = "load", !.cls = c, !.sel = s, !.resolver = TRUE]
<1>1. c \in Classes /\ s \in Selectors
  BY MethodCacheAssumption
<1>2. k \in Call /\ k.at = "load" /\ k.cls = c /\ k.sel = s /\ k.resolver
  BY <1>1 DEF Idle, Call
<1>3. call[t].at = "idle" /\ GoOn(t, k) /\ UNCHANGED runtimeLock
      /\ UNCHANGED <<restartable, changes>> /\ begun' = begun + 1
      /\ possible' = [possible EXCEPT ![t] = {Inherited(settled)[c][s]}]
  BY DEF BeginLookup, At
<1>4. Kept
  BY DEF BeginLookup, heap, Kept
<1> HIDE DEF k, c, s
<1>5. CacheTypeOK
  BY DEF IInv
<1>6. call' \in [Threads -> Call] /\ call'[t] = k /\ \A u \in Threads \ {t} : call'[u] = call[u]
  BY <1>2, <1>3, <1>5, GoOnFacts DEF CacheTypeOK
<1>7. Inherited(settled)[c][s] \in Imps
  BY <1>1, <1>5, InheritedType DEF CacheTypeOK, MethodTables
<1>8. CacheTypeOK'
  BY <1>3, <1>4, <1>5, <1>6, <1>7 DEF CacheTypeOK, Kept
<1>9. LockOK'
  BY <1>2, <1>3, <1>4, <1>6, LockKept DEF IInv, Filling, Changing
<1>10. DisposeOK'
  BY <1>2, <1>4, <1>6 DEF IInv, DisposeOK, At, Kept
<1>11. possible'[t] = {Inherited(settled)[c][s]} /\ \A u \in Threads \ {t} : possible'[u] = possible[u]
  BY <1>3, <1>5 DEF CacheTypeOK
<1>12. ThreadOK(t)'
  <2>1. c # nil
    BY <1>1, MethodCacheAssumption
  <2>2. Shape(t)'
    BY <1>1, <1>2, <1>4, <1>6, <1>11, <2>1 DEF Shape, Active, Filling, Changing, Kept
  <2>3. Asked(t)' /\ FillOK(t)' /\ ChangeOK(t)' /\ ReaderOK(t)' /\ AnswerOK(t)'
    BY <1>2, <1>6 DEF Asked, FillOK, ChangeOK, ReaderOK, AnswerOK, Filling, Changing, At
  <2> QED BY <2>2, <2>3 DEF ThreadOK
<1> QED BY <1>4, <1>6, <1>8, <1>9, <1>10, <1>11, <1>12, QuietStep

\* A lookup has been answered.
LEMMA ReturnStep ==
  ASSUME IInv, NEW t \in Threads, Return(t)
  PROVE  IInv'
<1>1. call[t].at = "done" /\ GoOn(t, Idle) /\ UNCHANGED runtimeLock
      /\ UNCHANGED <<restartable, begun, changes>>
      /\ possible' = [possible EXCEPT ![t] = {}]
  BY DEF Return, At
<1>2. Kept
  BY DEF Return, heap, Kept
<1>3. CacheTypeOK
  BY DEF IInv
<1>4. call' \in [Threads -> Call] /\ call'[t] = Idle /\ \A u \in Threads \ {t} : call'[u] = call[u]
  BY <1>1, <1>3, GoOnFacts, IdleType DEF CacheTypeOK
<1>5. CacheTypeOK'
  BY <1>1, <1>2, <1>3, <1>4 DEF CacheTypeOK, Kept
<1>6. LockOK'
  BY <1>1, <1>2, <1>4, IdleType, LockKept DEF IInv, Filling, Changing
<1>7. DisposeOK'
  BY <1>2, <1>4, IdleType DEF IInv, DisposeOK, At, Kept
<1>8. possible'[t] = {} /\ \A u \in Threads \ {t} : possible'[u] = possible[u]
  BY <1>1, <1>3 DEF CacheTypeOK
<1>9. ThreadOK(t)'
  <2>1. Shape(t)'
    BY <1>4, <1>8, IdleType DEF Shape, Active, Filling, Changing
  <2>2. Asked(t)' /\ FillOK(t)' /\ ChangeOK(t)' /\ ReaderOK(t)' /\ AnswerOK(t)'
    BY <1>4, IdleType DEF Asked, Active, FillOK, ChangeOK, ReaderOK, AnswerOK, Filling, Changing, At
  <2> QED BY <2>1, <2>2 DEF ThreadOK
<1> QED BY <1>2, <1>4, <1>5, <1>6, <1>7, <1>8, <1>9, QuietStep

LEMMA HashType ==
  ASSUME NEW s \in Selectors, NEW mask \in Nat
  PROVE  cache_hash(s, mask) \in 0 .. mask
BY MethodCacheAssumption DEF cache_hash

\* A reader loads buckets and mask.
LEMMA LoadStep ==
  ASSUME IInv, NEW t \in Threads, Load(t)
  PROVE  IInv'
<1> DEFINE k == call[t]
           word == cache[k.cls]
           n == [k EXCEPT !.at = "probe", !.buckets = word.buckets, !.mask = word.mask,
                          !.i = cache_hash(k.sel, word.mask), !.wrapped = FALSE]
<1>1. k.at = "load" /\ GoOn(t, n) /\ UNCHANGED <<runtimeLock, restartable, begun, changes, possible>>
  BY DEF Load, At, rest
<1>2. Kept
  BY DEF Load, heap, rest, Kept
<1>3. CacheTypeOK /\ MasksFit /\ GarbageSound /\ ThreadOK(t)
  BY DEF IInv
<1>4. k \in Call
  BY <1>3 DEF CacheTypeOK
<1>5. Active(t) /\ k.cls \in Classes /\ k.sel \in Selectors
      /\ Inherited(settled)[k.cls][k.sel] \in possible[t]
  BY <1>1, <1>3 DEF ThreadOK, Shape
<1>6. word \in [buckets : Addresses, mask : Nat, occupied : Nat]
  BY <1>3, <1>5 DEF CacheTypeOK
<1>7. cache_hash(k.sel, word.mask) \in 0 .. word.mask
  BY <1>5, <1>6, HashType
<1>8. n \in Call /\ n.at = "probe" /\ n.buckets = word.buckets /\ n.mask = word.mask
      /\ n.i \in 0 .. word.mask /\ n.cls = k.cls /\ n.sel = k.sel /\ n.resolver = k.resolver
  <2>1. word.buckets \in Addresses /\ word.mask \in Nat /\ cache_hash(k.sel, word.mask) \in Nat
    BY <1>6, <1>7
  <2> HIDE DEF k, word, Addresses, Imps
  <2>2. n \in Call
    BY <1>4, <2>1 DEF Call
  <2> QED BY <1>4, <1>7, <2>2 DEF Call
<1> HIDE DEF n
<1>9. call' \in [Threads -> Call] /\ call'[t] = n /\ \A u \in Threads \ {t} : call'[u] = call[u]
  BY <1>1, <1>3, <1>8, GoOnFacts DEF CacheTypeOK
<1>10. CacheTypeOK'
  BY <1>1, <1>2, <1>3, <1>9 DEF CacheTypeOK, Kept
<1>11. LockOK'
  BY <1>1, <1>2, <1>8, <1>9, LockKept DEF IInv, Filling, Changing
<1>12. garbage[word.buckets] = 0
  BY <1>3, <1>5, <1>6 DEF GarbageSound, CacheTypeOK
<1>13. DisposeOK'
  BY <1>2, <1>8, <1>9, <1>12 DEF IInv, DisposeOK, At, Kept
<1>14. ThreadOK(t)'
  <2>1. Shape(t)' /\ Asked(t)'
    BY <1>1, <1>2, <1>3, <1>5, <1>8, <1>9 DEF ThreadOK, Shape, Asked, Active, Filling, Changing, Kept
  <2>2. FillOK(t)' /\ ChangeOK(t)' /\ AnswerOK(t)'
    BY <1>8, <1>9 DEF FillOK, ChangeOK, AnswerOK, Filling, Changing, At
  <2>3. ReaderOK(t)'
    <3> DEFINE b == memory[word.buckets]
    <3>1. word.mask < MAX_CACHE_SIZE /\ (word.buckets # emptyBuckets => DOMAIN b = 0 .. word.mask)
      BY <1>3, <1>5 DEF MasksFit, Table
    <3>2. ASSUME NEW i \in DOMAIN b, b[i].sel = k.sel
          PROVE  b[i].imp \in possible[t] /\ (b[i].imp = forward_imp => Resolves[k.cls][k.sel] = none)
      <4>1. b[i] # NoBucket
        BY <1>3, <1>5, <1>6, <3>2, BucketFacts
      <4>2. EntriesOK(k.cls)
        BY <1>5 DEF IInv
      <4> QED BY <1>5, <3>2, <4>1, <4>2 DEF EntriesOK, Full, Table
    <3> QED BY <1>2, <1>1, <1>8, <1>9, <3>1, <3>2 DEF ReaderOK, Kept
  <2> QED BY <2>1, <2>2, <2>3 DEF ThreadOK
<1> QED BY <1>1, <1>2, <1>9, <1>10, <1>11, <1>13, <1>14, QuietStep

LEMMA MissFacts ==
  ASSUME NEW k \in Call
  PROVE  /\ Miss(k) \in Call /\ Miss(k).at = "slow"
         /\ Miss(k).cls = k.cls /\ Miss(k).sel = k.sel /\ Miss(k).resolver = k.resolver
         /\ Miss(k).tries = k.tries
BY DEF Miss, Call

LEMMA AnswerFacts ==
  ASSUME NEW k \in Call, NEW imp \in Imps
  PROVE  /\ Answer(k, imp) \in Call /\ Answer(k, imp).at \in {"load", "done"}
         /\ Answer(k, imp).at = "done" => Answer(k, imp).imp = imp
         /\ Answer(k, imp).cls = k.cls /\ Answer(k, imp).sel = k.sel
         /\ Answer(k, imp).resolver = k.resolver
<1> DEFINE m == Miss(k)
<1>1. m \in Call /\ m.at = "slow" /\ m.cls = k.cls /\ m.sel = k.sel /\ m.resolver = k.resolver
  BY MissFacts
<1> HIDE DEF m
<1>2. Answer(k, imp) = IF k.tries = 2 THEN [m EXCEPT !.at = "load", !.tries = 1, !.imp = none]
                       ELSE [m EXCEPT !.at = "done", !.tries = 0, !.imp = imp]
  BY DEF Answer, m
<1> HIDE DEF Imps, Addresses
<1>3. CASE k.tries = 2
  <2> DEFINE n == [m EXCEPT !.at = "load", !.tries = 1, !.imp = none]
  <2>1. n \in Call
    BY <1>1 DEF Call
  <2>2. n.at = "load" /\ n.cls = m.cls /\ n.sel = m.sel /\ n.resolver = m.resolver
    BY <1>1 DEF Call
  <2>3. Answer(k, imp) = n
    BY <1>2, <1>3
  <2> HIDE DEF n
  <2> QED BY <1>1, <2>1, <2>2, <2>3
<1>4. CASE k.tries # 2
  <2> DEFINE n == [m EXCEPT !.at = "done", !.tries = 0, !.imp = imp]
  <2>1. n \in Call
    BY <1>1 DEF Call
  <2>2. n.at = "done" /\ n.imp = imp /\ n.cls = m.cls /\ n.sel = m.sel /\ n.resolver = m.resolver
    BY <1>1 DEF Call
  <2>3. Answer(k, imp) = n
    BY <1>2, <1>4
  <2> HIDE DEF n
  <2> QED BY <1>1, <2>1, <2>2, <2>3
<1> QED BY <1>3, <1>4

\* A lookup goes on.
LEMMA StillActive ==
  ASSUME NEW t \in Threads, Shape(t), Asked(t), Active(t), call[t].at # "resolve",
         UNCHANGED <<methods, settled>>, possible'[t] = possible[t],
         call'[t].cls = call[t].cls, call'[t].sel = call[t].sel,
         call'[t].resolver = call[t].resolver,
         call'[t].at \in {"load", "probe", "slow", "done"}
  PROVE  Shape(t)' /\ Asked(t)' /\ FillOK(t)' /\ ChangeOK(t)'
<1>1. Shape(t)' /\ Asked(t)'
  BY DEF Shape, Asked, Active, Filling, Changing
<1>2. FillOK(t)' /\ ChangeOK(t)'
  BY DEF FillOK, ChangeOK, Filling, Changing
<1> QED BY <1>1, <1>2

\* A reader is within its array.
LEMMA ReaderIn ==
  ASSUME IInv, NEW t \in Threads, At(t, "probe")
  PROVE  call[t].buckets \in Addresses /\ call[t].i \in DOMAIN memory[call[t].buckets]
<1>1. call[t] \in Call
  BY DEF IInv, CacheTypeOK
<1>2. ReaderOK(t) /\ MasksFit
  BY DEF IInv, ThreadOK
<1>3. call[t].buckets \in Addresses /\ call[t].mask \in Nat /\ call[t].i \in 0 .. call[t].mask
  BY <1>1, <1>2 DEF ReaderOK, Call, At
<1>4. CASE call[t].buckets = emptyBuckets
  BY <1>2, <1>3, <1>4, MethodCacheAssumption DEF ReaderOK, MasksFit, At
<1>5. CASE call[t].buckets # emptyBuckets
  BY <1>2, <1>3, <1>5 DEF ReaderOK, At
<1> QED BY <1>3, <1>4, <1>5

\* A reader goes to another slot of the array, or to its slow path.
LEMMA NextProbeFacts ==
  ASSUME NEW k \in Call, k.i \in 0 .. k.mask, k.sel \in Selectors
  PROVE  /\ Next_Probe(k) \in Call /\ Next_Probe(k).cls = k.cls /\ Next_Probe(k).sel = k.sel
         /\ Next_Probe(k).resolver = k.resolver
         /\ \/ Next_Probe(k).at = "slow"
            \/ /\ Next_Probe(k).at = k.at /\ Next_Probe(k).buckets = k.buckets
               /\ Next_Probe(k).mask = k.mask /\ Next_Probe(k).i \in 0 .. k.mask
<1>1. k.i \in Nat /\ k.mask \in Nat /\ cache_hash(k.sel, k.mask) \in 0 .. k.mask
  BY HashType DEF Call
<1> DEFINE first == cache_hash(k.sel, k.mask)
           n == Next_Probe(k)
<1>2. first \in Nat
  BY <1>1
<1> HIDE DEF first, Imps, Addresses
<1>3. \/ k.i > 0 /\ n = [k EXCEPT !.i = k.i - 1]
      \/ n = [k EXCEPT !.i = k.mask, !.wrapped = TRUE]
      \/ k.i > first + 1 /\ n = [k EXCEPT !.i = k.i - 1]
      \/ n = Miss(k)
  BY DEF Next_Probe, first
<1> HIDE DEF n
<1>4. CASE k.i > 0 /\ n = [k EXCEPT !.i = k.i - 1]
  <2>1. k.i - 1 \in Nat /\ k.i - 1 \in 0 .. k.mask
    BY <1>1, <1>4
  <2>2. n \in Call
    BY <1>4, <2>1 DEF Call
  <2> QED BY <1>4, <2>1, <2>2 DEF n, Call
<1>5. CASE n = [k EXCEPT !.i = k.mask, !.wrapped = TRUE]
  <2>1. n \in Call
    BY <1>1, <1>5 DEF Call
  <2> QED BY <1>1, <1>5, <2>1 DEF n, Call
<1>6. CASE k.i > first + 1 /\ n = [k EXCEPT !.i = k.i - 1]
  <2>1. k.i > 0
    BY <1>1, <1>2, <1>6
  <2> QED BY <1>4, <1>6, <2>1
<1>7. CASE n = Miss(k)
  BY <1>7, MissFacts DEF n
<1> QED BY <1>3, <1>4, <1>5, <1>6, <1>7

\* A reader looks at one bucket.
LEMMA ProbeStep ==
  ASSUME IInv, NEW t \in Threads, Probe(t)
  PROVE  IInv'
<1> DEFINE k == call[t]
           b == memory[k.buckets][k.i]
           n == IF b.sel = k.sel THEN Answer(k, b.imp)
                ELSE IF b = NoBucket THEN Miss(k)
                ELSE Next_Probe(k)
<1>1. k.at = "probe" /\ GoOn(t, n) /\ UNCHANGED <<runtimeLock, restartable, begun, changes, possible>>
  BY DEF Probe, At, rest
<1>2. Kept
  BY DEF Probe, heap, rest, Kept
<1>3. CacheTypeOK /\ ThreadOK(t)
  BY DEF IInv
<1>4. k \in Call
  BY <1>3 DEF CacheTypeOK
<1>5. Active(t) /\ k.cls \in Classes /\ k.sel \in Selectors
  BY <1>1, <1>3 DEF ThreadOK, Shape
<1>6. k.buckets \in Addresses /\ k.i \in DOMAIN memory[k.buckets]
  BY <1>1, ReaderIn DEF At
<1>7. b.sel = k.sel =>
        b.imp \in Imps /\ b.imp \in possible[t]
        /\ (b.imp = forward_imp => Resolves[k.cls][k.sel] = none)
  BY <1>1, <1>3, <1>5, <1>6, BucketFacts DEF ThreadOK, ReaderOK
<1>8. k.i \in 0 .. k.mask
  BY <1>1, <1>3 DEF ThreadOK, ReaderOK
<1>9. /\ n \in Call /\ n.cls = k.cls /\ n.sel = k.sel /\ n.resolver = k.resolver
      /\ \/ n.at \in {"slow", "load"}
         \/ n.at = "done" /\ b.sel = k.sel /\ n.imp = b.imp
         \/ n.at = "probe" /\ n.buckets = k.buckets /\ n.mask = k.mask /\ n.i \in 0 .. k.mask
  <2> HIDE DEF b, k
  <2>1. CASE b.sel = k.sel
    <3>1. n = Answer(k, b.imp)
      BY <2>1
    <3> HIDE DEF n
    <3> QED BY <1>4, <1>7, <2>1, <3>1, AnswerFacts
  <2>2. CASE b.sel # k.sel /\ b = NoBucket
    <3>1. n = Miss(k)
      BY <2>2
    <3> HIDE DEF n
    <3> QED BY <1>4, <3>1, MissFacts
  <2>3. CASE b.sel # k.sel /\ b # NoBucket
    <3>1. n = Next_Probe(k)
      BY <2>3
    <3> HIDE DEF n
    <3> QED BY <1>1, <1>4, <1>5, <1>8, <3>1, NextProbeFacts
  <2> QED BY <2>1, <2>2, <2>3
<1> HIDE DEF n
<1>10. call' \in [Threads -> Call] /\ call'[t] = n /\ \A u \in Threads \ {t} : call'[u] = call[u]
  BY <1>1, <1>3, <1>9, GoOnFacts DEF CacheTypeOK
<1>11. CacheTypeOK'
  BY <1>1, <1>2, <1>3, <1>10 DEF CacheTypeOK, Kept
<1>12. LockOK'
  BY <1>1, <1>2, <1>9, <1>10, LockKept DEF IInv, Filling, Changing
<1>13. DisposeOK'
  BY <1>1, <1>2, <1>9, <1>10 DEF IInv, DisposeOK, At, Kept
<1>14. ThreadOK(t)'
  <2>1. Shape(t)' /\ Asked(t)' /\ FillOK(t)' /\ ChangeOK(t)'
    BY <1>1, <1>2, <1>3, <1>5, <1>9, <1>10, StillActive DEF ThreadOK, Kept
  <2>2. ReaderOK(t)'
    BY <1>1, <1>2, <1>3, <1>9, <1>10 DEF ThreadOK, ReaderOK, Kept
  <2>3. AnswerOK(t)'
    BY <1>1, <1>2, <1>7, <1>9, <1>10 DEF AnswerOK, At, Kept
  <2> QED BY <2>1, <2>2, <2>3 DEF ThreadOK
<1> QED BY <1>1, <1>2, <1>10, <1>11, <1>12, <1>13, <1>14, QuietStep

-----------------------------------------------------------------------------
(* The holder of runtimeLock looks a method up.                            *)

\* What the holder of the lock finds in a cache is what the class inherits; and it
\* finds what is there.
LEMMA CachedIs ==
  ASSUME CacheTypeOK, NEW c \in Classes, NEW s \in Selectors, EntriesOK(c)
  PROVE  /\ Cached(c, s) \in {none, Inherited(settled)[c][s]}
         /\ (\E i \in Full(Table(c)) : Table(c)[i].sel = s) => Cached(c, s) = Inherited(settled)[c][s]
<1> DEFINE b == Table(c)
           found == {i \in DOMAIN b : b[i].sel = s}
           i == CHOOSE i \in found : TRUE
<1>1. Cached(c, s) = IF found = {} THEN none ELSE b[i].imp
  BY DEF Cached, Table
<1>2. CASE found = {}
  BY <1>1, <1>2 DEF Full
<1>3. CASE found # {}
  <2>1. i \in found
    BY <1>3
  <2>2. cache[c].buckets \in Addresses
    BY DEF CacheTypeOK
  <2>3. b[i] # NoBucket
    BY <2>1, <2>2, BucketFacts DEF Table
  <2>4. b[i].imp = Inherited(settled)[c][s]
    BY <2>1, <2>3 DEF EntriesOK, Full
  <2> QED BY <1>1, <1>3, <2>4
<1> QED BY <1>2, <1>3

\* A search that asks the caches of superclasses finds what the class inherits.
LEMMA SearchIs ==
  ASSUME CacheTypeOK, methods = settled, \A c \in Classes : EntriesOK(c), NEW s \in Selectors
  PROVE  \A c \in Classes : Search[c][s] = Inherited(methods)[c][s]
<1> DEFINE T == {c \in Classes : Search[c][s] # Inherited(methods)[c][s]}
           own == [c \in Classes |-> [r \in Selectors |->
                     IF methods[c][r] # none \/ Superclass[c] = nil THEN methods[c][r]
                     ELSE Cached(Superclass[c], r)]]
<1>1. SUFFICES ASSUME T # {} PROVE FALSE
  OBVIOUS
<1>2. PICK c \in T : Superclass[c] \notin T
  <2>1. T \in SUBSET Classes
    OBVIOUS
  <2> HIDE DEF T
  <2> QED BY <1>1, <2>1, MethodCacheAssumption
<1>3. c \in Classes /\ Search[c][s] # Inherited(methods)[c][s]
  OBVIOUS
<1>4. \/ Superclass[c] = nil
      \/ Superclass[c] \in Classes /\ Search[Superclass[c]][s] = Inherited(methods)[Superclass[c]][s]
  <2>1. Superclass[c] \in Classes \cup {nil}
    BY <1>3, MethodCacheAssumption
  <2> QED BY <1>2, <2>1
<1>5. own[c][s] = IF methods[c][s] # none \/ Superclass[c] = nil THEN methods[c][s]
                  ELSE Cached(Superclass[c], s)
  BY <1>3
<1>6. Search = UpFrom(own)
  BY DEF Search
<1> HIDE DEF own, T
<1>7. /\ Search[c][s] = IF own[c][s] # none THEN own[c][s]
                        ELSE IF Superclass[c] = nil THEN forward_imp
                        ELSE Search[Superclass[c]][s]
      /\ Inherited(methods)[c][s] = IF methods[c][s] # none THEN methods[c][s]
                                    ELSE IF Superclass[c] = nil THEN forward_imp
                                    ELSE Inherited(methods)[Superclass[c]][s]
  BY ONLY InheritedAt, <1>3, <1>6, s \in Selectors DEF Inherited
<1>8. Superclass[c] # nil =>
        Cached(Superclass[c], s) \in {none, Inherited(methods)[Superclass[c]][s]}
  BY <1>4, CachedIs
<1> QED BY <1>3, <1>4, <1>5, <1>7, <1>8

\* The lock is taken, and dropped again when the resolver is to be asked.
LEMMA LookUpStep ==
  ASSUME IInv, NEW t \in Threads, LookUp(t)
  PROVE  IInv'
<1> DEFINE k == call[t]
           imp == Search[k.cls][k.sel]
           ask == [k EXCEPT !.at = "resolve", !.resolver = FALSE]
           fill == [k EXCEPT !.at = "fill", !.imp = imp]
<1>1. /\ k.at = "slow" /\ runtimeLock = NoThread
      /\ UNCHANGED <<restartable, begun, changes, possible>>
      /\ \/ GoOn(t, ask) /\ UNCHANGED runtimeLock
         \/ ~AsksResolver(k, imp) /\ GoOn(t, fill) /\ runtimeLock' = t
  BY DEF LookUp, At, rest
<1>2. Kept
  BY DEF LookUp, heap, rest, Kept
<1>3. CacheTypeOK /\ LockOK /\ ThreadOK(t) /\ \A c \in Classes : EntriesOK(c)
  BY DEF IInv
<1>4. k \in Call
  BY <1>3 DEF CacheTypeOK
<1>5. Active(t) /\ k.cls \in Classes /\ k.sel \in Selectors
      /\ Inherited(settled)[k.cls][k.sel] \in possible[t]
  BY <1>1, <1>3 DEF ThreadOK, Shape
<1>6. (\A u \in Threads : ~Filling(u) /\ ~Changing(u)) /\ methods = settled
  BY <1>1, <1>3, MethodCacheAssumption DEF LockOK
<1>7. imp = Inherited(methods)[k.cls][k.sel] /\ imp \in Imps
  BY <1>3, <1>5, <1>6, SearchIs, InheritedType DEF CacheTypeOK, MethodTables
<1> HIDE DEF imp
<1>8. CASE GoOn(t, ask) /\ UNCHANGED runtimeLock
  <2>1. ask \in Call /\ ask.at = "resolve" /\ ask.cls = k.cls /\ ask.sel = k.sel
    BY <1>4 DEF Call
  <2> HIDE DEF ask
  <2>2. call' \in [Threads -> Call] /\ call'[t] = ask /\ \A u \in Threads \ {t} : call'[u] = call[u]
    BY <1>3, <1>8, <2>1, GoOnFacts DEF CacheTypeOK
  <2>3. CacheTypeOK'
    BY <1>1, <1>2, <1>3, <1>8, <2>2 DEF CacheTypeOK, Kept
  <2>4. LockOK'
    BY <1>1, <1>2, <1>3, <1>8, <2>1, <2>2, LockKept DEF Filling, Changing
  <2>5. DisposeOK'
    BY <1>2, <2>1, <2>2 DEF IInv, DisposeOK, At, Kept
  <2>6. ThreadOK(t)'
    <3>1. Shape(t)' /\ Asked(t)'
      BY <1>1, <1>2, <1>3, <1>5, <2>1, <2>2
      DEF ThreadOK, Shape, Asked, Active, Filling, Changing, Kept
    <3>2. FillOK(t)' /\ ChangeOK(t)' /\ ReaderOK(t)' /\ AnswerOK(t)'
      BY <2>1, <2>2 DEF FillOK, ChangeOK, ReaderOK, AnswerOK, Filling, Changing, At
    <3> QED BY <3>1, <3>2 DEF ThreadOK
  <2> QED BY <1>1, <1>2, <2>2, <2>3, <2>4, <2>5, <2>6, QuietStep
<1>9. CASE ~AsksResolver(k, imp) /\ GoOn(t, fill) /\ runtimeLock' = t
  <2>1. fill \in Call /\ fill.at = "fill" /\ fill.cls = k.cls /\ fill.sel = k.sel
        /\ fill.imp = imp /\ fill.resolver = k.resolver
    <3>1. imp \in Imps \cup {none}
      BY <1>7
    <3> HIDE DEF Imps, Addresses
    <3>2. fill \in Call
      BY <1>4, <3>1 DEF Call
    <3> QED BY <1>4, <3>2 DEF Call
  <2> HIDE DEF fill
  <2>2. call' \in [Threads -> Call] /\ call'[t] = fill /\ \A u \in Threads \ {t} : call'[u] = call[u]
    BY <1>3, <1>9, <2>1, GoOnFacts DEF CacheTypeOK
  <2>3. CacheTypeOK'
    BY <1>1, <1>2, <1>3, <1>9, <2>2 DEF CacheTypeOK, Kept
  <2>4. Filling(t)' /\ ~Changing(t)' /\ \A u \in Threads \ {t} : ~Filling(u)' /\ ~Changing(u)'
    BY <1>6, <2>1, <2>2 DEF Filling, Changing
  <2>5. LockOK'
    BY <1>2, <1>6, <1>9, <2>4, MethodCacheAssumption DEF LockOK, Kept
  <2>6. DisposeOK'
    BY <1>2, <2>1, <2>2 DEF IInv, DisposeOK, At, Kept
  <2>7. ThreadOK(t)'
    <3>1. Shape(t)' /\ Asked(t)'
      BY <1>1, <1>2, <1>3, <1>5, <2>1, <2>2, <2>4
      DEF ThreadOK, Shape, Asked, Active, Kept
    <3>2. imp = forward_imp => Resolves[k.cls][k.sel] = none
      <4> SUFFICES ASSUME imp = forward_imp PROVE Resolves[k.cls][k.sel] = none
        OBVIOUS
      <4>1. ~k.resolver
        BY <1>9 DEF AsksResolver
      <4>2. Resolves[k.cls][k.sel] = none \/ methods[k.cls][k.sel] # none
        BY <1>1, <1>3, <1>5, <4>1 DEF ThreadOK, Asked
      <4>3. methods[k.cls][k.sel] # none => imp = methods[k.cls][k.sel]
        BY <1>5, <1>7, InheritedAt DEF Inherited
      <4>4. methods[k.cls][k.sel] # forward_imp
        <5>1. methods[k.cls][k.sel] \in Implementations \cup {none}
          BY <1>3, <1>5 DEF CacheTypeOK
        <5> QED BY <5>1, MethodCacheAssumption
      <4> QED BY <4>2, <4>3, <4>4
    <3>3. FillOK(t)'
      BY <1>2, <1>7, <2>1, <2>2, <3>2 DEF FillOK, Kept
    <3>4. ChangeOK(t)' /\ ReaderOK(t)' /\ AnswerOK(t)'
      BY <2>1, <2>2, <2>4 DEF ChangeOK, ReaderOK, AnswerOK, At
    <3> QED BY <3>1, <3>3, <3>4 DEF ThreadOK
  <2> QED BY <1>1, <1>2, <2>2, <2>3, <2>5, <2>6, <2>7, QuietStep
<1> QED BY <1>1, <1>8, <1>9

-----------------------------------------------------------------------------
(* Methods change.                                                         *)

\* A method is set and caches are to be emptied: every entry that the change makes
\* wrong is in one of them.
LEMMA ChangeStep ==
  ASSUME IInv, NEW t \in Threads, NEW c \in Classes, NEW s \in Selectors,
         NEW imp \in Implementations, NEW k \in Call, Change(t, c, s, imp, k),
         UNCHANGED <<settled, cache, memory, garbage, restartable, possible>>,
         begun' \in Nat, changes' \in Nat,
         \/ call[t].at = "idle" /\ k.cls = nil /\ k.tries # 2
         \/ /\ call[t].at = "resolve" /\ k.tries = 2
            /\ k.cls = call[t].cls /\ k.cls = c /\ k.sel = call[t].sel /\ k.sel = s
  PROVE  IInv'
<1> DEFINE n == [k EXCEPT !.at = "flush", !.flush = ToFlush(c, s)]
<1>1. CacheTypeOK /\ LockOK /\ ThreadOK(t) /\ \A d \in Classes : EntriesOK(d)
  BY DEF IInv
<1>2. /\ runtimeLock = NoThread /\ runtimeLock' = t
      /\ methods' = [methods EXCEPT ![c][s] = imp] /\ GoOn(t, n)
  BY DEF Change
<1>3. (\A u \in Threads : ~Filling(u) /\ ~Changing(u)) /\ methods = settled
  BY <1>1, <1>2, MethodCacheAssumption DEF LockOK
<1>4. ToFlush(c, s) \in SUBSET Classes
  BY DEF ToFlush, Subtree
<1>5. n \in Call /\ n.at = "flush" /\ n.flush = ToFlush(c, s)
      /\ n.cls = k.cls /\ n.sel = k.sel /\ n.tries = k.tries
  <2> HIDE DEF Imps, Addresses
  <2>1. n \in Call
    BY <1>4 DEF Call
  <2> QED BY <2>1 DEF Call
<1> HIDE DEF n
<1>6. call' \in [Threads -> Call] /\ call'[t] = n /\ \A u \in Threads \ {t} : call'[u] = call[u]
  BY <1>1, <1>2, <1>5, GoOnFacts DEF CacheTypeOK
<1>7. methods' \in MethodTables /\ methods \in MethodTables
  BY <1>1, <1>2 DEF CacheTypeOK, MethodTables
<1>8. CacheTypeOK'
  BY <1>1, <1>2, <1>6, <1>7 DEF CacheTypeOK, MethodTables
<1>9. MasksFit' /\ GarbageSound' /\ \A d \in Classes : TableOK(d)' /\ EntriesOK(d)'
  BY HeapKept DEF IInv
<1>10. Changing(t)' /\ ~Filling(t)' /\ \A u \in Threads \ {t} : ~Filling(u)' /\ ~Changing(u)'
  BY <1>3, <1>5, <1>6 DEF Filling, Changing
<1>11. LockOK'
  BY <1>2, <1>10, MethodCacheAssumption DEF LockOK
<1>12. DisposeOK'
  BY <1>5, <1>6 DEF IInv, DisposeOK, At
<1>13. imp # none
  BY MethodCacheAssumption
<1>14. \A d \in Classes, r \in Selectors : methods[d][r] # none => methods'[d][r] # none
  BY <1>2, <1>7, <1>13 DEF MethodTables
<1>15. methods'[c][s] = imp
  BY <1>2, <1>7 DEF MethodTables
<1>16. ASSUME NEW u \in Threads \ {t}
       PROVE  ThreadOK(u)'
  <2>1. ThreadOK(u) /\ call'[u] = call[u] /\ possible'[u] = possible[u]
    BY <1>6 DEF IInv
  <2>2. Shape(u)'
    BY <2>1 DEF ThreadOK, Shape, Active, Filling, Changing
  <2>3. Asked(u)'
    BY <1>14, <2>1 DEF ThreadOK, Asked, Active, Shape
  <2>4. FillOK(u)' /\ ChangeOK(u)'
    BY <1>10 DEF FillOK, ChangeOK
  <2>5. ReaderOK(u)' /\ AnswerOK(u)'
    BY <2>1 DEF ThreadOK, ReaderOK, AnswerOK, At
  <2> QED BY <2>2, <2>3, <2>4, <2>5 DEF ThreadOK
<1>17. ThreadOK(t)'
  <2>1. Shape(t)'
    BY <1>1, <1>5, <1>6, <1>10 DEF ThreadOK, Shape, Active, Filling
  <2>2. Asked(t)'
    <3>1. Active(t)' => methods'[n.cls][n.sel] # none
      BY <1>5, <1>6, <1>13, <1>15 DEF Active
    <3> QED BY <1>6, <3>1 DEF Asked
  <2>3. ChangeOK(t)'
    <3>1. ASSUME NEW d \in Classes \ ToFlush(c, s), NEW i \in Full(Table(d))
          PROVE  Table(d)[i].imp = Inherited(methods')[d][Table(d)[i].sel]
      <4> DEFINE r == Table(d)[i].sel
      <4>1. r \in Selectors /\ Table(d)[i].imp = Inherited(methods)[d][r]
        <5>1. cache[d].buckets \in Addresses
          BY <1>1 DEF CacheTypeOK
        <5>2. Table(d)[i].sel \in Selectors
          BY <1>1, <5>1, BucketFacts DEF Full, Table
        <5> QED BY <1>1, <1>3, <5>2 DEF EntriesOK
      <4>2. r = s => Cached(d, s) = Inherited(methods)[d][s]
        BY <1>1, <1>3, CachedIs
      <4> HIDE DEF r
      <4>3. \/ Inherited(methods')[d][r] = Inherited(methods)[d][r]
            \/ /\ r = s /\ d \in Subtree(c)
               /\ methods[c][s] = none \/ Inherited(methods)[d][s] = methods[c][s]
        <5> DEFINE new == [methods EXCEPT ![c][s] = imp]
        <5>1. r \in Selectors /\ methods \in MethodTables
          BY <1>7, <4>1
        <5>2. \/ Inherited(new)[d][r] = Inherited(methods)[d][r]
              \/ /\ r = s /\ d \in Subtree(c)
                 /\ methods[c][s] = none \/ Inherited(methods)[d][s] = methods[c][s]
          BY ONLY <5>1, InheritedChange, c \in Classes, d \in Classes, s \in Selectors,
                  imp \in Implementations
        <5>3. methods' = new
          BY <1>2
        <5> HIDE DEF new
        <5> QED BY <5>2, <5>3
      <4>4. ~(r = s /\ d \in Subtree(c)
              /\ (methods[c][s] = none \/ Inherited(methods)[d][s] = methods[c][s]))
        BY <4>2 DEF ToFlush
      <4> QED BY <4>1, <4>3, <4>4 DEF r
    <3> QED BY <1>5, <1>6, <3>1 DEF ChangeOK, Table, Full
  <2>4. FillOK(t)' /\ ReaderOK(t)' /\ AnswerOK(t)'
    BY <1>5, <1>6, <1>10 DEF FillOK, ReaderOK, AnswerOK, At
  <2> QED BY <2>1, <2>2, <2>3, <2>4 DEF ThreadOK
<1> QED BY <1>8, <1>9, <1>11, <1>12, <1>16, <1>17 DEF IInv

\* A program adds or replaces a method.
LEMMA ChangeMethodStep ==
  ASSUME IInv, NEW t \in Threads, NEW p \in Programs, ChangeMethod(t, p[1], p[2], p[3])
  PROVE  IInv'
<1>1. p[1] \in Classes /\ p[2] \in Selectors /\ p[3] \in Implementations
  BY MethodCacheAssumption
<1>2. call[t].at = "idle" /\ Change(t, p[1], p[2], p[3], Idle) /\ changes' = changes + 1
      /\ UNCHANGED <<settled, cache, memory, garbage, restartable, possible, begun>>
  BY DEF ChangeMethod, At, heap
<1>3. Idle \in Call /\ Idle.cls = nil /\ Idle.tries # 2
  BY DEF Idle, Call
<1>4. begun' \in Nat /\ changes' \in Nat
  BY <1>2 DEF IInv, CacheTypeOK
<1> QED BY <1>1, <1>2, <1>3, <1>4, ChangeStep

\* A resolver has answered.
LEMMA ResolveStep ==
  ASSUME IInv, NEW t \in Threads, Resolve(t)
  PROVE  IInv'
<1> DEFINE k == call[t]
           imp == Resolves[k.cls][k.sel]
           n == [k EXCEPT !.at = "load", !.tries = 2]
           m == [k EXCEPT !.tries = 2]
<1>1. CacheTypeOK /\ ThreadOK(t)
  BY DEF IInv
<1>2. k \in Call
  BY <1>1 DEF CacheTypeOK
<1>3. /\ k.at = "resolve"
      /\ UNCHANGED <<settled, cache, memory, garbage, restartable, possible, begun, changes>>
      /\ \/ imp # none /\ Change(t, k.cls, k.sel, imp, m)
         \/ /\ imp = none \/ methods[k.cls][k.sel] # none
            /\ GoOn(t, n) /\ UNCHANGED <<methods, runtimeLock>>
  BY DEF Resolve, At, heap, rest
<1>4. begun' \in Nat /\ changes' \in Nat
  BY <1>1, <1>3 DEF CacheTypeOK
<1>5. Active(t) /\ k.cls \in Classes /\ k.sel \in Selectors
      /\ Inherited(settled)[k.cls][k.sel] \in possible[t]
  BY <1>1, <1>3 DEF ThreadOK, Shape
<1>6. imp \in Implementations \cup {none}
  <2>1. Resolves \in [Classes -> [Selectors -> Implementations \cup {none}]]
    BY MethodCacheAssumption
  <2> QED BY <1>5, <2>1
<1>7. m \in Call /\ m.cls = k.cls /\ m.sel = k.sel /\ m.tries = 2
  BY <1>2 DEF Call
<1>8. n \in Call /\ n.at = "load" /\ n.cls = k.cls /\ n.sel = k.sel
  BY <1>2 DEF Call
<1> HIDE DEF m, n
<1>9. CASE imp # none /\ Change(t, k.cls, k.sel, imp, m)
  <2> HIDE DEF imp
  <2> QED BY <1>3, <1>4, <1>5, <1>6, <1>7, <1>9, ChangeStep
<1>10. CASE /\ imp = none \/ methods[k.cls][k.sel] # none
            /\ GoOn(t, n) /\ UNCHANGED <<methods, runtimeLock>>
  <2>1. Kept
    BY <1>3, <1>10 DEF Kept
  <2>2. call' \in [Threads -> Call] /\ call'[t] = n /\ \A u \in Threads \ {t} : call'[u] = call[u]
    BY <1>1, <1>8, <1>10, GoOnFacts DEF CacheTypeOK
  <2>3. CacheTypeOK'
    BY <1>1, <1>3, <1>10, <2>2 DEF CacheTypeOK
  <2>4. LockOK'
    BY <1>3, <1>8, <1>10, <2>1, <2>2, LockKept DEF IInv, Filling, Changing
  <2>5. DisposeOK'
    BY <2>1, <1>8, <2>2 DEF IInv, DisposeOK, At, Kept
  <2>6. ThreadOK(t)'
    <3>1. Shape(t)'
      BY <1>3, <1>5, <1>8, <2>1, <2>2, <1>1 DEF ThreadOK, Shape, Active, Filling, Changing, Kept
    <3>2. Asked(t)'
      BY <1>8, <1>10, <2>2 DEF Asked
    <3>3. FillOK(t)' /\ ChangeOK(t)' /\ ReaderOK(t)' /\ AnswerOK(t)'
      BY <1>8, <2>2 DEF FillOK, ChangeOK, ReaderOK, AnswerOK, Filling, Changing, At
    <3> QED BY <3>1, <3>2, <3>3 DEF ThreadOK
  <2> QED BY <1>3, <2>1, <2>2, <2>3, <2>4, <2>5, <2>6, QuietStep
<1> QED BY <1>3, <1>9, <1>10

-----------------------------------------------------------------------------
(* Steps of the thread that holds the lock: garbage is collected.          *)

\* A thread that collects garbage goes on with what it collects it for.
SameCall(k, n) ==
  /\ n.cls = k.cls /\ n.sel = k.sel /\ n.imp = k.imp /\ n.resolver = k.resolver
  /\ n.tries = k.tries /\ n.flush = k.flush /\ n.then = k.then
SameFor(k, n) == SameCall(k, n) /\ n.at \in {"dispose", k.then}

LEMMA CollectorShape ==
  ASSUME NEW t \in Threads, Shape(t), call[t].at \in {"collect", "dispose"},
         SameFor(call[t], call'[t])
  PROVE  /\ Filling(t) <=> Filling(t)'
         /\ Changing(t) <=> Changing(t)'
         /\ Active(t) <=> Active(t)'
         /\ call'[t].at \in {"dispose", "insert", "flush"}
BY DEF Shape, SameCall, SameFor, Filling, Changing, Active

LEMMA CollectorKept ==
  ASSUME NEW t \in Threads, ThreadOK(t), call[t].at \in {"collect", "dispose"},
         SameFor(call[t], call'[t]),
         UNCHANGED <<methods, settled, cache>>, possible'[t] = possible[t],
         \A c \in Classes : Table(c)' = Table(c)
  PROVE  ThreadOK(t)'
<1>1. /\ Filling(t) <=> Filling(t)'
      /\ Changing(t) <=> Changing(t)'
      /\ Active(t) <=> Active(t)'
      /\ call'[t].at \in {"dispose", "insert", "flush"}
  BY CollectorShape DEF ThreadOK
<1>2. Shape(t)'
  <2> DEFINE k == call[t]  n == call'[t]
  <2>1. /\ n.cls = k.cls /\ n.sel = k.sel /\ n.tries = k.tries /\ n.then = k.then
        /\ k.then \in {"insert", "flush"}
    BY DEF SameCall, SameFor, ThreadOK, Shape
  <2>2. /\ Active(t) => k.cls \in Classes /\ k.sel \in Selectors
                        /\ Inherited(settled)[k.cls][k.sel] \in possible[t]
        /\ ~Active(t) => possible[t] = {}
        /\ Filling(t) => Active(t)
        /\ Changing(t) => (Active(t) <=> k.tries = 2)
    BY DEF ThreadOK, Shape
  <2>3. Filling(t)' <=> n.at = "insert" \/ (n.at = "dispose" /\ n.then = "insert")
    BY <1>1 DEF Filling
  <2> HIDE DEF k, n
  <2>4. /\ n.at = "idle" => ~Active(t)'
        /\ n.at \in {"load", "probe", "slow", "resolve", "fill", "insert", "done"} => Active(t)'
        /\ n.at \in {"collect", "dispose"} => n.then \in {"insert", "flush"}
        /\ Filling(t)' => Active(t)'
        /\ Changing(t)' => (Active(t)' <=> n.tries = 2)
        /\ Active(t)' => n.cls \in Classes /\ n.sel \in Selectors
        /\ ~Active(t)' => possible'[t] = {}
        /\ Active(t)' => Inherited(settled)[n.cls][n.sel] \in possible'[t]
    BY <1>1, <2>1, <2>2, <2>3 DEF n
  <2> QED BY <2>4 DEF n, Shape
<1>3. Asked(t)'
  BY <1>1 DEF ThreadOK, Asked, SameCall, SameFor
<1>4. FillOK(t)'
  <2>1. Filling(t) => Usable(call[t].cls, call[t].sel)' = Usable(call[t].cls, call[t].sel)
    BY DEF ThreadOK, Shape, Usable, Table, SameCall, SameFor
  <2> QED BY <1>1, <2>1 DEF ThreadOK, FillOK, SameCall, SameFor, Shape
<1>5. ChangeOK(t)'
  BY <1>1 DEF ThreadOK, ChangeOK, SameCall, SameFor, Full
<1>6. ReaderOK(t)' /\ AnswerOK(t)'
  BY <1>1 DEF ReaderOK, AnswerOK, At
<1> QED BY <1>2, <1>3, <1>4, <1>5, <1>6 DEF ThreadOK

LEMMA LockSame ==
  ASSUME LockOK, UNCHANGED <<methods, settled, runtimeLock>>,
         \A u \in Threads : (Filling(u) <=> Filling(u)') /\ (Changing(u) <=> Changing(u)')
  PROVE  LockOK'
BY DEF LockOK

\* Readers are sent to their slow path, or are found to be in none of the caches.
LEMMA CollectStep ==
  ASSUME IInv, NEW t \in Threads, Collect(t)
  PROVE  IInv'
<1> DEFINE k == call[t]
<1>1. CacheTypeOK /\ LockOK /\ ThreadOK(t)
  BY DEF IInv
<1>2. k.at = "collect" /\ UNCHANGED <<runtimeLock, restartable, begun, changes, possible>>
  BY DEF Collect, At, rest
<1>3. Kept
  BY DEF Collect, heap, rest, Kept
<1>4. k \in Call /\ k.then \in {"insert", "flush"}
  BY <1>1, <1>2 DEF CacheTypeOK, ThreadOK, Shape
<1>5. ASSUME NEW x \in {"dispose", "insert", "flush"}, x \in {"dispose", k.then}
      PROVE  LET n == [k EXCEPT !.at = x] IN n \in Call /\ n.at = x /\ SameFor(k, n)
  <2> DEFINE n == [k EXCEPT !.at = x]
  <2> HIDE DEF Imps, Addresses
  <2>1. n \in Call
    BY <1>4 DEF Call
  <2> QED BY <1>4, <1>5, <2>1 DEF Call, SameCall, SameFor
<1>6. /\ call' \in [Threads -> Call]
      /\ SameFor(k, call'[t]) /\ call'[t].at \in {"dispose", "insert", "flush"}
      /\ \A u \in Threads \ {t} :
           \/ call'[u] = call[u]
           \/ At(u, "probe") /\ call'[u] = Miss(call[u])
      /\ call'[t].at = "dispose" => \A u \in Threads : call'[u].at # "probe"
  <2>1. CASE restartable
    <3> DEFINE n == [k EXCEPT !.at = "dispose"]
    <3>1. call' = [u \in Threads |-> IF u = t THEN n
                                     ELSE IF u \in InCritical THEN Miss(call[u]) ELSE call[u]]
      BY <2>1 DEF Collect
    <3>2. n \in Call /\ n.at = "dispose" /\ SameFor(k, n)
      BY <1>5
    <3> HIDE DEF n
    <3>3. \A u \in Threads : call[u] \in Call /\ Miss(call[u]) \in Call /\ Miss(call[u]).at = "slow"
      BY <1>1, MissFacts DEF CacheTypeOK
    <3>4. call'[t] = n
      BY <3>1
    <3>5. \A u \in Threads \ {t} :
            call'[u] = IF At(u, "probe") THEN Miss(call[u]) ELSE call[u]
      BY <3>1 DEF InCritical
    <3>6. call' \in [Threads -> Call]
      BY <3>1, <3>2, <3>3
    <3>7. \A u \in Threads : call'[u].at # "probe"
      BY <3>2, <3>3, <3>4, <3>5 DEF At
    <3> QED BY <3>2, <3>4, <3>5, <3>6, <3>7
  <2>2. CASE ~restartable
    <3> DEFINE x == IF InCritical = {} THEN "dispose" ELSE k.then
               n == [k EXCEPT !.at = x]
    <3>1. GoOn(t, n)
      BY <2>2 DEF Collect
    <3>2. x \in {"dispose", "insert", "flush"} /\ x \in {"dispose", k.then}
          /\ (x = "dispose" => InCritical = {})
      BY <1>4
    <3> HIDE DEF x
    <3>3. n \in Call /\ n.at = x /\ SameFor(k, n)
      BY <1>5, <3>2
    <3> HIDE DEF n
    <3>4. call' \in [Threads -> Call] /\ call'[t] = n /\ \A u \in Threads \ {t} : call'[u] = call[u]
      BY <1>1, <3>1, <3>3, GoOnFacts DEF CacheTypeOK
    <3> QED BY <3>2, <3>3, <3>4 DEF InCritical, At
  <2> QED BY <2>1, <2>2
<1>7. CacheTypeOK'
  BY <1>1, <1>2, <1>3, <1>6 DEF CacheTypeOK, Kept
<1>8. MasksFit' /\ GarbageSound' /\ \A c \in Classes : TableOK(c)' /\ EntriesOK(c)'
  BY <1>3, HeapKept DEF IInv, Kept
<1>9. /\ Filling(t) <=> Filling(t)'
      /\ Changing(t) <=> Changing(t)'
  BY <1>1, <1>2, <1>6, CollectorShape DEF ThreadOK
<1>10. ThreadOK(t)'
  BY <1>1, <1>2, <1>3, <1>6, CollectorKept DEF Kept, Table
<1>11. ASSUME NEW u \in Threads \ {t}
       PROVE  /\ ThreadOK(u)'
              /\ Filling(u) <=> Filling(u)'
              /\ Changing(u) <=> Changing(u)'
  <2>1. ThreadOK(u) /\ possible'[u] = possible[u]
    BY <1>2 DEF IInv
  <2>2. CASE call'[u] = call[u]
    BY <1>3, <2>1, <2>2, ThreadKept DEF Filling, Changing
  <2>3. CASE At(u, "probe") /\ call'[u] = Miss(call[u])
    <3>1. call[u] \in Call
      BY <1>1 DEF CacheTypeOK
    <3>2. call'[u].at = "slow" /\ call'[u].cls = call[u].cls /\ call'[u].sel = call[u].sel
          /\ call'[u].resolver = call[u].resolver
      BY <2>3, <3>1, MissFacts
    <3>3. Shape(u) /\ Asked(u) /\ Active(u) /\ call[u].at = "probe"
      BY <2>1, <2>3 DEF ThreadOK, Shape, At
    <3>4. Shape(u)' /\ Asked(u)' /\ FillOK(u)' /\ ChangeOK(u)'
      BY <1>3, <2>1, <3>2, <3>3, StillActive DEF Kept
    <3>5. ReaderOK(u)' /\ AnswerOK(u)'
      BY <3>2 DEF ReaderOK, AnswerOK, At
    <3> QED BY <3>2, <3>3, <3>4, <3>5 DEF ThreadOK, Filling, Changing
  <2> QED BY <1>6, <2>2, <2>3
<1>12. LockOK'
  <2>1. \A u \in Threads : (Filling(u) <=> Filling(u)') /\ (Changing(u) <=> Changing(u)')
    BY <1>9, <1>11
  <2> QED BY <1>1, <1>2, <1>3, <2>1, LockSame DEF Kept
<1>13. DisposeOK'
  <2>1. \A u \in Threads \ {t} : call'[u].at = "dispose" => call[u].at = "dispose" /\ call'[u] = call[u]
    BY <1>1, <1>6, MissFacts DEF CacheTypeOK
  <2>2. \A u \in Threads : call'[u].at = "probe" => call[u].at = "probe" /\ call'[u].buckets = call[u].buckets
    BY <1>1, <1>6, MissFacts DEF CacheTypeOK
  <2> QED BY <1>3, <1>6, <2>1, <2>2 DEF IInv, DisposeOK, At, Kept
<1> QED BY <1>7, <1>8, <1>10, <1>11, <1>12, <1>13 DEF IInv

\* Only one thread holds the lock.
LEMMA Alone ==
  ASSUME LockOK, NEW t \in Threads, Filling(t) \/ Changing(t)
  PROVE  runtimeLock = t /\ \A u \in Threads \ {t} : ~Filling(u) /\ ~Changing(u)
BY DEF LockOK

\* What is said of another thread depends on the heap only where it reads it.
LEMMA OtherKept ==
  ASSUME NEW u \in Threads, ThreadOK(u), ~Filling(u), ~Changing(u),
         call'[u] = call[u], possible'[u] = possible[u], UNCHANGED <<methods, settled>>,
         ReaderOK(u)'
  PROVE  ThreadOK(u)' /\ ~Filling(u)' /\ ~Changing(u)'
<1>1. (Active(u) <=> Active(u)') /\ ~Filling(u)' /\ ~Changing(u)'
  BY DEF Active, Filling, Changing
<1>2. Shape(u)'
  BY <1>1 DEF ThreadOK, Shape
<1>3. Asked(u)'
  BY <1>1 DEF ThreadOK, Asked
<1>4. FillOK(u)' /\ ChangeOK(u)'
  BY <1>1 DEF FillOK, ChangeOK
<1>5. AnswerOK(u)'
  BY DEF ThreadOK, AnswerOK, At
<1> QED BY <1>1, <1>2, <1>3, <1>4, <1>5 DEF ThreadOK

LEMMA ReaderStays ==
  ASSUME NEW u \in Threads, ReaderOK(u), call'[u] = call[u], possible'[u] = possible[u],
         At(u, "probe") =>
           /\ memory'[call[u].buckets] = memory[call[u].buckets]
           /\ \/ call[u].buckets \in {emptyBuckets, cache'[call[u].cls].buckets}
              \/ garbage'[call[u].buckets] > 0
  PROVE  ReaderOK(u)'
BY DEF ReaderOK, At

\* A cache that is what it was is as good as it was.
LEMMA TableKept ==
  ASSUME NEW c \in Classes, TableOK(c), EntriesOK(c),
         UNCHANGED settled, cache'[c] = cache[c], Table(c)' = Table(c)
  PROVE  TableOK(c)' /\ EntriesOK(c)'
<1>1. TableOK(c)'
  BY DEF TableOK, Table, Full, Reachable
<1>2. EntriesOK(c)'
  BY DEF EntriesOK, Full
<1> QED BY <1>1, <1>2

LEMMA NoTable == << >> \in Tables /\ DOMAIN << >> = {}
<1>1. << >> \in [0 .. 0 - 1 -> Bucket]
  BY 0 .. 0 - 1 = {}
<1> QED BY <1>1 DEF Tables

\* What is garbage is freed.
LEMMA DisposeStep ==
  ASSUME IInv, NEW t \in Threads, Dispose(t)
  PROVE  IInv'
<1> DEFINE k == call[t]
           n == [k EXCEPT !.at = k.then]
<1>1. CacheTypeOK /\ LockOK /\ ThreadOK(t) /\ MasksFit /\ GarbageSound /\ DisposeOK
  BY DEF IInv
<1>2. /\ k.at = "dispose" /\ GoOn(t, n)
      /\ UNCHANGED <<methods, settled, cache, runtimeLock, restartable, begun, changes, possible>>
      /\ memory' = [p \in DOMAIN memory |-> IF garbage[p] > 0 THEN << >> ELSE memory[p]]
      /\ garbage' = [p \in DOMAIN garbage |-> 0]
  BY DEF Dispose, At, rest
<1>3. k \in Call /\ k.then \in {"insert", "flush"}
  BY <1>1, <1>2 DEF CacheTypeOK, ThreadOK, Shape
<1>4. n \in Call /\ n.at = k.then /\ SameFor(k, n)
  <2> HIDE DEF Imps, Addresses
  <2>1. n \in Call
    BY <1>3 DEF Call
  <2> QED BY <1>3, <2>1 DEF Call, SameCall, SameFor
<1> HIDE DEF n
<1>5. call' \in [Threads -> Call] /\ call'[t] = n /\ \A u \in Threads \ {t} : call'[u] = call[u]
  BY <1>1, <1>2, <1>4, GoOnFacts DEF CacheTypeOK
<1>6. /\ memory' \in [Addresses -> Tables] /\ garbage' = [p \in Addresses |-> 0]
      /\ \A p \in Addresses : garbage[p] = 0 => memory'[p] = memory[p]
  <2>1. memory \in [Addresses -> Tables] /\ garbage \in [Addresses -> Nat]
    BY <1>1 DEF CacheTypeOK
  <2> HIDE DEF Tables, Addresses
  <2> QED BY <1>2, <2>1, NoTable
<1>7. CacheTypeOK'
  BY <1>1, <1>2, <1>5, <1>6 DEF CacheTypeOK
<1>8. garbage[emptyBuckets] = 0 /\ \A c \in Classes : garbage[cache[c].buckets] = 0
  BY <1>1 DEF GarbageSound, CacheTypeOK
<1>9. memory'[emptyBuckets] = memory[emptyBuckets] /\ \A c \in Classes : Table(c)' = Table(c)
  BY <1>1, <1>2, <1>6, <1>8 DEF Table, CacheTypeOK
<1>10. MasksFit'
  BY <1>1, <1>2, <1>9 DEF MasksFit
<1>11. GarbageSound'
  BY <1>6 DEF GarbageSound
<1>12. \A c \in Classes : TableOK(c)' /\ EntriesOK(c)'
  BY <1>2, <1>9, TableKept DEF IInv
<1>13. /\ Filling(t) \/ Changing(t)
       /\ Filling(t) <=> Filling(t)'
       /\ Changing(t) <=> Changing(t)'
  <2>1. Filling(t) \/ Changing(t)
    BY <1>2, <1>3 DEF Filling, Changing
  <2> QED BY <1>1, <1>2, <1>4, <1>5, <2>1, CollectorShape DEF ThreadOK
<1>14. ThreadOK(t)'
  BY <1>1, <1>2, <1>4, <1>5, <1>9, CollectorKept
<1>15. ASSUME NEW u \in Threads \ {t}
       PROVE  ThreadOK(u)' /\ ~Filling(u)' /\ ~Changing(u)'
  <2>1. ThreadOK(u) /\ ~Filling(u) /\ ~Changing(u)
    BY <1>1, <1>13, Alone DEF IInv
  <2>2. At(u, "probe") =>
          /\ memory'[call[u].buckets] = memory[call[u].buckets]
          /\ call[u].buckets \in {emptyBuckets, cache'[call[u].cls].buckets}
    <3>1. At(u, "probe") => call[u].buckets \in Addresses /\ garbage[call[u].buckets] = 0
      BY <1>1, <1>2, ReaderIn DEF DisposeOK, At
    <3> QED BY <1>2, <1>6, <2>1, <3>1 DEF ThreadOK, ReaderOK, At
  <2>3. ReaderOK(u)'
    BY <1>2, <1>5, <2>1, <2>2, ReaderStays DEF ThreadOK
  <2> QED BY <1>2, <1>5, <2>1, <2>3, OtherKept
<1>16. LockOK'
  <2>1. \A u \in Threads : (Filling(u) <=> Filling(u)') /\ (Changing(u) <=> Changing(u)')
    BY <1>1, <1>13, <1>15, Alone
  <2> QED BY <1>1, <1>2, <2>1, LockSame
<1>17. DisposeOK'
  <2>1. \A u \in Threads : At(u, "probe")' => garbage'[call'[u].buckets] = 0
    <3>1. \A u \in Threads : call'[u].buckets \in Addresses
      BY <1>5 DEF Call
    <3> QED BY <1>6, <3>1
  <2> QED BY <2>1 DEF DisposeOK
<1> QED BY <1>7, <1>10, <1>11, <1>12, <1>14, <1>15, <1>16, <1>17 DEF IInv

\* A change is complete: every entry that is left agrees with it.
LEMMA SettleStep ==
  ASSUME IInv, NEW t \in Threads, Settle(t)
  PROVE  IInv'
<1> DEFINE k == call[t]
           m == [k EXCEPT !.at = "load", !.then = "idle"]
           n == IF k.tries = 2 THEN m ELSE Idle
           now(u) == Inherited(methods)[call[u].cls][call[u].sel]
<1>1. CacheTypeOK /\ LockOK /\ ThreadOK(t) /\ MasksFit /\ GarbageSound /\ DisposeOK
  BY DEF IInv
<1>2. /\ k.at = "flush" /\ k.flush = {} /\ GoOn(t, n)
      /\ UNCHANGED <<methods, cache, memory, garbage, restartable, begun, changes>>
      /\ runtimeLock' = NoThread /\ settled' = methods
  BY DEF Settle, At, heap
<1>3. possible' = [u \in Threads |-> IF possible[u] = {} THEN {} ELSE possible[u] \cup {now(u)}]
  BY DEF Settle
<1>4. k \in Call
  BY <1>1 DEF CacheTypeOK
<1>5. Changing(t) /\ ~Filling(t)
  BY <1>2 DEF Changing, Filling
<1>6. Active(t) <=> k.tries = 2
  BY <1>1, <1>5 DEF ThreadOK, Shape
<1>7. n \in Call /\ n.at \in {"idle", "load"}
      /\ \/ ~Active(t) /\ n.at = "idle" /\ n.cls = nil
         \/ /\ Active(t) /\ n.at = "load" /\ n.cls = k.cls /\ n.sel = k.sel
            /\ n.resolver = k.resolver
  <2>1. CASE Active(t)
    <3>1. n = m
      BY <1>6, <2>1
    <3>2. m \in Call
      BY <1>4 DEF Call
    <3>3. m.at = "load" /\ m.cls = k.cls /\ m.sel = k.sel /\ m.resolver = k.resolver
      BY <1>4 DEF Call
    <3> HIDE DEF n, m
    <3> QED BY <2>1, <3>1, <3>2, <3>3
  <2>2. CASE ~Active(t)
    <3>1. n = Idle
      BY <1>6, <2>2
    <3> HIDE DEF n
    <3> QED BY <2>2, <3>1, IdleType
  <2> QED BY <2>1, <2>2
<1> HIDE DEF n
<1>8. call' \in [Threads -> Call] /\ call'[t] = n /\ \A u \in Threads \ {t} : call'[u] = call[u]
  BY <1>1, <1>2, <1>7, GoOnFacts DEF CacheTypeOK
<1>9. \A u \in Threads :
        /\ Shape(u) => (Active(u) => now(u) \in Imps)
        /\ Shape(u) => (possible[u] = {} <=> ~Active(u))
  BY <1>1, InheritedType DEF Shape, CacheTypeOK, MethodTables
<1>10. \A u \in Threads : Shape(u)
  BY DEF IInv, ThreadOK
<1>11. possible' \in [Threads -> SUBSET Imps]
       /\ \A u \in Threads : possible'[u] = IF possible[u] = {} THEN {} ELSE possible[u] \cup {now(u)}
  <2> HIDE DEF now
  <2>1. \A u \in Threads : possible[u] \in SUBSET Imps
    BY <1>1 DEF CacheTypeOK
  <2> QED BY <1>3, <1>9, <1>10, <2>1
<1>12. CacheTypeOK'
  BY <1>1, <1>2, <1>8, <1>11 DEF CacheTypeOK
<1>13. MasksFit' /\ GarbageSound'
  BY <1>1, <1>2 DEF MasksFit, GarbageSound, Table
<1>14. ASSUME NEW c \in Classes
       PROVE  TableOK(c)' /\ EntriesOK(c)'
  <2>1. TableOK(c) /\ EntriesOK(c)
    BY DEF IInv
  <2>2. TableOK(c)'
    BY <1>2, <2>1 DEF TableOK, Table, Full, Reachable
  <2>3. \A i \in Full(Table(c)) : Table(c)[i].imp = Inherited(methods)[c][Table(c)[i].sel]
    BY <1>1, <1>2, <1>5 DEF ThreadOK, ChangeOK
  <2>4. EntriesOK(c)'
    BY <1>2, <2>1, <2>3 DEF EntriesOK, Table, Full
  <2> QED BY <2>2, <2>4
<1>15. \A u \in Threads : ~Filling(u)' /\ ~Changing(u)'
  BY <1>1, <1>5, <1>7, <1>8, Alone DEF Filling, Changing
<1>16. LockOK'
  BY <1>2, <1>15, MethodCacheAssumption DEF LockOK
<1>17. DisposeOK'
  BY <1>1, <1>2, <1>7, <1>8 DEF DisposeOK, At
<1>18. ASSUME NEW u \in Threads \ {t}
       PROVE  ThreadOK(u)'
  <2>1. ThreadOK(u) /\ call'[u] = call[u] /\ Shape(u)
    BY <1>8 DEF IInv, ThreadOK
  <2>2. /\ ~Active(u) => possible'[u] = {}
        /\ Active(u) => possible'[u] = possible[u] \cup {now(u)}
    BY <1>9, <1>11, <2>1
  <2>3. Active(u)' <=> Active(u)
    BY <2>1 DEF Active
  <2>4. Shape(u)'
    BY <1>2, <1>15, <2>1, <2>2, <2>3 DEF Shape
  <2>5. Asked(u)'
    BY <1>2, <2>1, <2>3 DEF ThreadOK, Asked
  <2>6. FillOK(u)' /\ ChangeOK(u)'
    BY <1>15 DEF FillOK, ChangeOK
  <2>7. possible[u] \subseteq possible'[u]
    BY <1>11
  <2>8. ReaderOK(u)' /\ AnswerOK(u)'
    BY <1>2, <2>1, <2>7 DEF ThreadOK, ReaderOK, AnswerOK, At
  <2> QED BY <2>4, <2>5, <2>6, <2>8 DEF ThreadOK
<1>19. ThreadOK(t)'
  <2>1. /\ ~Active(t) => possible'[t] = {}
        /\ Active(t) => possible'[t] = possible[t] \cup {now(t)}
    BY <1>9, <1>10, <1>11
  <2>2. Active(t)' <=> Active(t)
    BY <1>7, <1>8 DEF Active
  <2>3. Shape(t)'
    BY <1>2, <1>7, <1>8, <1>10, <1>15, <2>1, <2>2 DEF Shape
  <2>4. Asked(t)'
    BY <1>1, <1>2, <1>7, <1>8, <2>2 DEF ThreadOK, Asked
  <2>5. FillOK(t)' /\ ChangeOK(t)'
    BY <1>15 DEF FillOK, ChangeOK
  <2>6. ReaderOK(t)' /\ AnswerOK(t)'
    BY <1>7, <1>8 DEF ReaderOK, AnswerOK, At
  <2> QED BY <2>3, <2>4, <2>5, <2>6 DEF ThreadOK
<1> QED BY <1>12, <1>13, <1>14, <1>16, <1>17, <1>18, <1>19 DEF IInv

\* The arrays of the heap are finite.
LEMMA FullFinite ==
  ASSUME CacheTypeOK, NEW q \in Addresses
  PROVE  /\ IsFiniteSet(DOMAIN memory[q])
         /\ IsFiniteSet(Full(memory[q]))
         /\ Cardinality(Full(memory[q])) = 0 <=> Full(memory[q]) = {}
<1>1. PICK n \in Nat : memory[q] \in [0 .. n - 1 -> Bucket]
  BY DEF CacheTypeOK, Tables
<1>2. DOMAIN memory[q] = 0 .. n - 1
  BY <1>1
<1>3. IsFiniteSet(0 .. n - 1)
  BY FS_Interval
<1>4. Full(memory[q]) \subseteq DOMAIN memory[q]
  BY DEF Full
<1>5. IsFiniteSet(Full(memory[q]))
  BY <1>2, <1>3, <1>4, FS_Subset
<1> QED BY <1>2, <1>3, <1>5, FS_EmptySet

\* There is nothing in the shared empty buckets.
LEMMA EmptyIsEmpty ==
  ASSUME CacheTypeOK, MasksFit
  PROVE  Full(memory[emptyBuckets]) = {}
BY MethodCacheAssumption DEF MasksFit, Full

\* Buckets become garbage, and are collected at once or not.
LEMMA CollectFreeFacts ==
  ASSUME CacheTypeOK, NEW t \in Threads, NEW p \in Addresses, NEW k \in Call,
         k.then \in {"insert", "flush"}, collect_free(t, p, k)
  PROVE  /\ garbage' \in [Addresses -> Nat] /\ garbage'[p] = garbage[p] + 1
         /\ \A q \in Addresses \ {p} : garbage'[q] = garbage[q]
         /\ call' \in [Threads -> Call] /\ \A u \in Threads \ {t} : call'[u] = call[u]
         /\ SameCall(k, call'[t]) /\ call'[t].at \in {k.then, "collect"}
<1> DEFINE x == IF Garbage(p) < garbage_threshold THEN k.then ELSE "collect"
           n == [k EXCEPT !.at = x]
<1>1. x \in {"insert", "flush", "collect"} /\ x \in {k.then, "collect"}
  OBVIOUS
<1>2. GoOn(t, n) /\ garbage' = [garbage EXCEPT ![p] = @ + 1]
  BY DEF collect_free
<1> HIDE DEF x
<1>3. n \in Call /\ n.at = x /\ SameCall(k, n)
  <2> HIDE DEF Imps, Addresses
  <2>1. n \in Call
    BY <1>1 DEF Call
  <2> QED BY <2>1 DEF Call, SameCall
<1> HIDE DEF n
<1>4. call' \in [Threads -> Call] /\ call'[t] = n /\ \A u \in Threads \ {t} : call'[u] = call[u]
  BY <1>2, <1>3, GoOnFacts DEF CacheTypeOK
<1>5. /\ garbage' \in [Addresses -> Nat] /\ garbage'[p] = garbage[p] + 1
      /\ \A q \in Addresses \ {p} : garbage'[q] = garbage[q]
  <2>1. garbage \in [Addresses -> Nat]
    BY DEF CacheTypeOK
  <2> HIDE DEF Addresses
  <2> QED BY <1>2, <2>1
<1> QED BY <1>1, <1>3, <1>4, <1>5

\* The holder of the lock goes on holding it, for the same; nobody disposes of garbage.
LEMMA HolderGoesOn ==
  ASSUME LockOK, NEW t \in Threads, Filling(t) \/ Changing(t),
         UNCHANGED <<methods, settled, runtimeLock>>,
         \A u \in Threads \ {t} : call'[u] = call[u],
         Filling(t) <=> Filling(t)', Changing(t) <=> Changing(t)',
         Shape(t), \A u \in Threads : Shape(u), call'[t].at # "dispose"
  PROVE  LockOK' /\ DisposeOK'
<1>1. \A u \in Threads \ {t} : ~Filling(u) /\ ~Changing(u)
  BY Alone
<1>2. \A u \in Threads : (Filling(u) <=> Filling(u)') /\ (Changing(u) <=> Changing(u)')
  BY <1>1 DEF Filling, Changing
<1>3. LockOK'
  BY <1>2, LockSame
<1>4. \A u \in Threads : call'[u].at # "dispose"
  BY <1>1 DEF Shape, Filling, Changing
<1> QED BY <1>3, <1>4 DEF DisposeOK, At

\* One cache is emptied.
LEMMA FlushStep ==
  ASSUME IInv, NEW t \in Threads, NEW c \in Classes, Flush(t, c)
  PROVE  IInv'
<1> DEFINE k == [call[t] EXCEPT !.flush = @ \ {c}]
           m == [k EXCEPT !.then = "flush"]
           p == cache[c].buckets
<1>1. CacheTypeOK /\ LockOK /\ ThreadOK(t) /\ MasksFit /\ GarbageSound /\ DisposeOK
      /\ TableOK(c) /\ EntriesOK(c)
  BY DEF IInv
<1>2. /\ call[t].at = "flush" /\ c \in call[t].flush
      /\ UNCHANGED <<methods, settled, memory, runtimeLock, restartable, begun, changes, possible>>
      /\ \/ /\ cache[c].occupied > 0
            /\ setBucketsAndMask(c, emptyBuckets, cache[c].mask)
            /\ collect_free(t, p, m)
         \/ /\ ~(cache[c].occupied > 0)
            /\ GoOn(t, k) /\ UNCHANGED <<cache, garbage>>
  BY DEF Flush, At, rest
<1>3. call[t] \in Call /\ Changing(t) /\ ~Filling(t) /\ Shape(t)
  BY <1>1, <1>2 DEF CacheTypeOK, Changing, Filling, ThreadOK
<1>4. k \in Call /\ k.at = "flush" /\ k.flush = call[t].flush \ {c}
      /\ k.cls = call[t].cls /\ k.sel = call[t].sel
      /\ k.resolver = call[t].resolver /\ k.tries = call[t].tries
  <2>1. call[t].flush \ {c} \in SUBSET Classes
    BY <1>3 DEF Call
  <2> HIDE DEF Imps, Addresses
  <2>2. k \in Call
    BY <1>3, <2>1 DEF Call
  <2> QED BY <1>2, <1>3, <2>2 DEF Call
<1>5. m \in Call /\ m.then = "flush" /\ m.flush = call[t].flush \ {c}
      /\ m.cls = call[t].cls /\ m.sel = call[t].sel
      /\ m.resolver = call[t].resolver /\ m.tries = call[t].tries
  BY <1>4 DEF Call
<1> HIDE DEF m, k
<1>6. cache[c] \in [buckets : Addresses, mask : Nat, occupied : Nat] /\ p \in Addresses
  BY <1>1 DEF CacheTypeOK
<1> HIDE DEF p
<1>7. \A u \in Threads : ThreadOK(u) /\ Shape(u)
  BY DEF IInv, ThreadOK
<1>8. \A u \in Threads \ {t} : ~Filling(u) /\ ~Changing(u)
  BY <1>1, <1>3, Alone
<1>9. cache[c].occupied = Cardinality(Full(memory[p]))
  BY <1>1 DEF TableOK, Table, p
<1>10. CASE ~(cache[c].occupied > 0)
  <2>1. GoOn(t, k) /\ UNCHANGED <<cache, garbage>> /\ Kept
    BY <1>2, <1>10 DEF Kept
  <2>2. call' \in [Threads -> Call] /\ call'[t] = k /\ \A u \in Threads \ {t} : call'[u] = call[u]
    BY <1>1, <1>4, <2>1, GoOnFacts DEF CacheTypeOK
  <2>3. CacheTypeOK'
    BY <1>1, <1>2, <2>1, <2>2 DEF CacheTypeOK
  <2>4. Changing(t)' /\ ~Filling(t)'
    BY <1>4, <2>2 DEF Changing, Filling
  <2>5. LockOK' /\ DisposeOK'
    BY <1>1, <1>2, <1>3, <1>4, <1>7, <2>2, <2>4, HolderGoesOn
  <2>6. Full(Table(c)) = {}
    BY <1>1, <1>6, <1>9, <1>10, FullFinite DEF Table, p
  <2>7. ThreadOK(t)'
    <3>1. Active(t)' <=> Active(t)
      BY <1>4, <2>2 DEF Active
    <3>2. Shape(t)'
      BY <1>2, <1>3, <1>4, <2>2, <2>4, <3>1 DEF Shape
    <3>3. Asked(t)'
      BY <1>1, <1>2, <1>4, <2>2, <3>1 DEF ThreadOK, Asked
    <3>4. ChangeOK(t)'
      BY <1>1, <1>2, <1>3, <1>4, <2>1, <2>2, <2>6 DEF ThreadOK, ChangeOK, Table, Full
    <3>5. FillOK(t)' /\ ReaderOK(t)' /\ AnswerOK(t)'
      BY <1>4, <2>2, <2>4 DEF FillOK, ReaderOK, AnswerOK, At
    <3> QED BY <3>2, <3>3, <3>4, <3>5 DEF ThreadOK
  <2> QED BY <1>2, <2>1, <2>2, <2>3, <2>5, <2>7, QuietStep
<1>11. CASE cache[c].occupied > 0
  <2>1. /\ setBucketsAndMask(c, emptyBuckets, cache[c].mask)
        /\ collect_free(t, p, m)
    BY <1>2, <1>11
  <2>2. /\ garbage' \in [Addresses -> Nat] /\ garbage'[p] = garbage[p] + 1
        /\ \A q \in Addresses \ {p} : garbage'[q] = garbage[q]
        /\ call' \in [Threads -> Call] /\ \A u \in Threads \ {t} : call'[u] = call[u]
        /\ SameCall(m, call'[t]) /\ call'[t].at \in {"flush", "collect"}
    BY <1>1, <1>5, <1>6, <2>1, CollectFreeFacts
  <2>3. /\ cache' \in [Classes -> [buckets : Addresses, mask : Nat, occupied : Nat]]
        /\ cache'[c] = [buckets |-> emptyBuckets, mask |-> cache[c].mask, occupied |-> 0]
        /\ \A d \in Classes \ {c} : cache'[d] = cache[d]
    BY <1>1, <1>6, <2>1 DEF CacheTypeOK, setBucketsAndMask
  <2>4. CacheTypeOK'
    BY <1>1, <1>2, <2>2, <2>3 DEF CacheTypeOK
  <2>5. p # emptyBuckets /\ garbage[p] = 0 /\ DOMAIN memory[p] # {}
    <3>1. Full(memory[p]) # {}
      BY <1>1, <1>6, <1>9, <1>11, FullFinite
    <3>2. garbage[p] = 0
      BY <1>1, <1>6 DEF GarbageSound, CacheTypeOK, p
    <3> QED BY <1>1, <3>1, <3>2, EmptyIsEmpty DEF Full
  <2>6. \A d \in Classes : cache'[d].buckets # p
    BY <1>1, <1>6, <2>3, <2>5 DEF MasksFit, p
  <2>7. MasksFit'
    <3>1. \A d \in Classes : cache'[d].mask = cache[d].mask
                             /\ (cache'[d].buckets = cache[d].buckets \/ cache'[d].buckets = emptyBuckets)
      BY <1>6, <2>3
    <3>2. \A d \in Classes : cache'[d].buckets # emptyBuckets => cache'[d] = cache[d]
      BY <1>6, <2>3
    <3> QED BY <1>1, <1>2, <3>1, <3>2 DEF MasksFit, Table
  <2>8. GarbageSound'
    <3>1. DOMAIN garbage' = Addresses /\ DOMAIN garbage = Addresses
      BY <1>1, <2>2 DEF CacheTypeOK
    <3>2. ASSUME NEW q \in Addresses, garbage'[q] > 0
          PROVE  /\ garbage'[q] = 1 /\ q # emptyBuckets /\ DOMAIN memory[q] # {}
                 /\ \A d \in Classes : cache'[d].buckets # q
      <4>1. CASE q = p
        BY <2>2, <2>5, <2>6, <4>1
      <4>2. CASE q # p
        <5>1. garbage[q] > 0 /\ garbage'[q] = garbage[q]
          BY <2>2, <3>2, <4>2
        <5>2. /\ garbage[q] = 1 /\ q # emptyBuckets /\ DOMAIN memory[q] # {}
              /\ \A d \in Classes : cache[d].buckets # q
          BY <1>1, <3>1, <5>1 DEF GarbageSound
        <5> QED BY <2>3, <5>1, <5>2
      <4> QED BY <4>1, <4>2
    <3> QED BY <1>2, <3>1, <3>2 DEF GarbageSound
  <2>9. Full(Table(c))' = {}
    BY <1>1, <1>2, <2>3, EmptyIsEmpty DEF Table, Full
  <2>10. ASSUME NEW d \in Classes
         PROVE  TableOK(d)' /\ EntriesOK(d)'
    <3>1. CASE d = c
      <4>1. cache'[c].occupied = Cardinality(Full(Table(c))')
        BY <2>3, <2>9, FS_EmptySet
      <4> QED BY <2>9, <3>1, <4>1 DEF TableOK, EntriesOK, Full, Table
    <3>2. CASE d # c
      <4>1. cache'[d] = cache[d] /\ Table(d)' = Table(d) /\ TableOK(d) /\ EntriesOK(d)
        BY <1>2, <2>3, <3>2 DEF Table, IInv
      <4> QED BY <1>2, <4>1, TableKept
    <3> QED BY <3>1, <3>2
  <2>11. /\ call'[t].cls = call[t].cls /\ call'[t].sel = call[t].sel
         /\ call'[t].resolver = call[t].resolver /\ call'[t].tries = call[t].tries
         /\ call'[t].flush = call[t].flush \ {c} /\ call'[t].then = "flush"
    BY <1>5, <2>2 DEF SameCall
  <2>12. Changing(t)' /\ ~Filling(t)'
    BY <2>2, <2>11 DEF Changing, Filling
  <2>13. LockOK' /\ DisposeOK'
    BY <1>1, <1>2, <1>3, <1>7, <2>2, <2>12, HolderGoesOn
  <2>14. ThreadOK(t)'
    <3>1. Active(t)' <=> Active(t)
      BY <2>11 DEF Active
    <3>2. Shape(t)'
      BY <1>2, <1>3, <2>2, <2>11, <2>12, <3>1 DEF Shape
    <3>3. Asked(t)'
      BY <1>1, <1>2, <2>11, <3>1 DEF ThreadOK, Asked
    <3>4. ChangeOK(t)'
      <4>1. \A d \in Classes \ call[t].flush : \A i \in Full(Table(d)) :
              Table(d)[i].imp = Inherited(methods)[d][Table(d)[i].sel]
        BY <1>1, <1>3 DEF ThreadOK, ChangeOK
      <4>2. ASSUME NEW d \in Classes \ call'[t].flush, NEW i \in Full(Table(d))'
            PROVE  Table(d)'[i].imp = Inherited(methods)[d][Table(d)'[i].sel]
        <5>1. d # c /\ d \notin call[t].flush
          BY <2>9, <2>11, <4>2
        <5>2. Table(d)' = Table(d) /\ i \in Full(Table(d))
          BY <1>2, <2>3, <4>2, <5>1 DEF Table, Full
        <5> QED BY <4>1, <5>1, <5>2
      <4> QED BY <1>2, <4>2 DEF ChangeOK
    <3>5. FillOK(t)' /\ ReaderOK(t)' /\ AnswerOK(t)'
      BY <2>2, <2>12 DEF FillOK, ReaderOK, AnswerOK, At
    <3> QED BY <3>2, <3>3, <3>4, <3>5 DEF ThreadOK
  <2>15. ASSUME NEW u \in Threads \ {t}
         PROVE  ThreadOK(u)'
    <3>1. At(u, "probe") =>
            \/ call[u].buckets \in {emptyBuckets, cache'[call[u].cls].buckets}
            \/ garbage'[call[u].buckets] > 0
      <4>1. SUFFICES ASSUME At(u, "probe"),
                            call[u].buckets # emptyBuckets
                     PROVE  \/ call[u].buckets = cache'[call[u].cls].buckets
                            \/ garbage'[call[u].buckets] > 0
        OBVIOUS
      <4>2. call[u].buckets \in Addresses /\ call[u].cls \in Classes
        BY <1>7, <4>1, ReaderIn DEF Shape, At
      <4>3. call[u].buckets = cache[call[u].cls].buckets \/ garbage[call[u].buckets] > 0
        BY <1>7, <4>1 DEF ThreadOK, ReaderOK, At
      <4>4. garbage[p] \in Nat /\ garbage'[p] > 0
        BY <1>1, <1>6, <2>2 DEF CacheTypeOK
      <4>5. CASE call[u].buckets = p
        BY <4>4, <4>5
      <4>6. CASE call[u].buckets # p
        BY <2>2, <2>3, <4>2, <4>3, <4>6 DEF p
      <4> QED BY <4>5, <4>6
    <3>2. ReaderOK(u)'
      BY <1>2, <1>7, <2>2, <3>1, ReaderStays DEF ThreadOK
    <3> QED BY <1>2, <1>7, <1>8, <2>2, <3>2, OtherKept
  <2> QED BY <2>4, <2>7, <2>8, <2>10, <2>13, <2>14, <2>15 DEF IInv
<1> QED BY <1>10, <1>11, <1>6

-----------------------------------------------------------------------------
(* Slots of a cache.                                                       *)

\* Every slot is at a distance of its own from the one that is hashed to.
LEMMA DistanceFacts ==
  ASSUME NEW s \in Selectors, NEW mask \in Nat
  PROVE  /\ \A i \in 0 .. mask : Distance(s, mask, i) \in Nat
         /\ \A i, j \in 0 .. mask : Distance(s, mask, i) = Distance(s, mask, j) => i = j
<1> DEFINE h == cache_hash(s, mask)
           m == mask + 1
           D(i) == (h + m - i) % m
<1>1. h \in 0 .. mask /\ m \in Nat /\ m > 0
  BY HashType
<1>2. \A i \in 0 .. mask : Distance(s, mask, i) = (h + mask + 1 - i) % m
  BY DEF Distance
<1>3. \A i \in 0 .. mask : h + mask + 1 - i = h + m - i
  BY <1>1
<1> HIDE DEF h
<1>4. ASSUME NEW i \in 0 .. mask
      PROVE  \/ i > h /\ D(i) = h + m - i
             \/ i <= h /\ D(i) = h - i
  <2>1. CASE i > h
    <3>1. h + m - i \in Nat /\ h + m - i < m
      BY <1>1, <2>1
    <3> QED BY <1>1, <2>1, <3>1
  <2>2. CASE i <= h
    <3>1. h - i \in Nat /\ h - i < m /\ h + m - i = (h - i) + m
      BY <1>1, <2>2
    <3> QED BY <1>1, <2>2, <3>1
  <2> QED BY <1>1, <2>1, <2>2
<1> HIDE DEF D
<1>5. \A i \in 0 .. mask : D(i) \in Nat
  BY <1>1, <1>4
<1>6. \A i, j \in 0 .. mask : D(i) = D(j) => i = j
  BY <1>1, <1>4
<1>7. \A i \in 0 .. mask : Distance(s, mask, i) = D(i)
  BY <1>2, <1>3 DEF D
<1> QED BY <1>5, <1>6, <1>7

\* A slot that can be used, when there is one, has a nearest.
LEMMA NearestUsable ==
  ASSUME NEW c \in Classes, NEW s \in Selectors, cache[c].mask \in Nat, Usable(c, s) # {}
  PROVE  LET i == CHOOSE i \in Usable(c, s) : \A j \in Usable(c, s) :
                    Distance(s, cache[c].mask, i) <= Distance(s, cache[c].mask, j)
         IN  /\ i \in Usable(c, s)
             /\ \A j \in Usable(c, s) : Distance(s, cache[c].mask, i) <= Distance(s, cache[c].mask, j)
<1> DEFINE U == Usable(c, s)
           D(i) == Distance(s, cache[c].mask, i)
           T == {D(i) : i \in U}
<1>1. \A i \in U : D(i) \in Nat
  BY DistanceFacts DEF Usable
<1> HIDE DEF U, D
<1>2. U # {}
  BY DEF U
<1>3. T \subseteq Nat /\ T # {}
  BY <1>1, <1>2
<1>4. \E x \in T : \A y \in T : ~(<<y, x>> \in OpToRel(<, Nat))
  <2> HIDE DEF T
  <2> QED BY <1>3, WFMin, NatLessThanWellFounded
<1>5. PICK x \in T : \A y \in T : x <= y
  <2> HIDE DEF T
  <2>1. PICK x \in T : \A y \in T : ~(<<y, x>> \in OpToRel(<, Nat))
    BY <1>4
  <2>2. \A y \in T : ~(<<y, x>> \in {z \in Nat \X Nat : z[1] < z[2]})
    BY <2>1, Zenon DEF OpToRel
  <2>3. ASSUME NEW y \in T
        PROVE  ~(y < x)
    <3>1. <<y, x>> \in Nat \X Nat
      BY <1>3
    <3> QED BY <2>2, <3>1
  <2> QED BY <1>3, <2>3
<1>7. PICK i \in U : D(i) = x
  OBVIOUS
<1>8. \A j \in U : D(i) <= D(j)
  BY <1>5, <1>7
<1>9. \E j \in U : \A l \in U : D(j) <= D(l)
  BY <1>8
<1> QED BY <1>9 DEF U, D

-----------------------------------------------------------------------------
(* Steps of the thread that holds the lock: a cache is filled.             *)

\* The capacity of a cache, and what is made of it.
LEMMA Sizes ==
  ASSUME CacheTypeOK, MasksFit, NEW c \in Classes
  PROVE  /\ capacity(c) \in 0 .. MAX_CACHE_SIZE
         /\ Grown(capacity(c)) \in 1 .. MAX_CACHE_SIZE
<1>1. cache[c].mask \in Nat /\ cache[c].mask < MAX_CACHE_SIZE
  BY DEF CacheTypeOK, MasksFit
<1>2. MAX_CACHE_SIZE \in Nat /\ MAX_CACHE_SIZE > 0 /\ INIT_CACHE_SIZE \in Nat /\ INIT_CACHE_SIZE > 0
  BY MethodCacheAssumption
<1>3. capacity(c) \in 0 .. MAX_CACHE_SIZE
  BY <1>1, <1>2 DEF capacity
<1>4. ASSUME NEW n \in 0 .. MAX_CACHE_SIZE
      PROVE  Grown(n) \in 1 .. MAX_CACHE_SIZE
  BY <1>2 DEF Grown
<1> QED BY <1>3, <1>4

\* A cache that has buckets of its own, and fewer occupied than there are, has a slot.
LEMMA RoomLeft ==
  ASSUME CacheTypeOK, MasksFit, NEW c \in Classes, TableOK(c), NEW s \in Selectors,
         ~isConstantEmptyCache(c), Fits(c)
  PROVE  cache[c].buckets # emptyBuckets /\ Usable(c, s) # {}
<1> DEFINE occupied == cache[c].occupied
           mask == cache[c].mask
<1>1. occupied \in Nat /\ mask \in Nat /\ cache[c].buckets \in Addresses
  BY DEF CacheTypeOK
<1>2. occupied = Cardinality(Full(Table(c)))
  BY DEF TableOK
<1>3. cache[c].buckets # emptyBuckets
  BY <1>2, EmptyIsEmpty, FS_EmptySet DEF isConstantEmptyCache, Table
<1>4. DOMAIN Table(c) = 0 .. mask
  BY <1>3 DEF MasksFit
<1>5. occupied < mask + 1
  <2>1. \A n \in Nat : cache_fill_ratio(n) <= n
    BY DEF cache_fill_ratio
  <2>2. capacity(c) \in Nat /\ capacity(c) <= mask + 1
    BY <1>1 DEF capacity
  <2>3. occupied + 1 <= capacity(c)
    <3>1. CASE occupied + 1 <= cache_fill_ratio(capacity(c))
      <4>1. cache_fill_ratio(capacity(c)) \in Int /\ cache_fill_ratio(capacity(c)) <= capacity(c)
        BY <2>1, <2>2 DEF cache_fill_ratio
      <4> QED BY <1>1, <2>2, <3>1, <4>1
    <3> QED BY <3>1 DEF Fits
  <2> QED BY <1>1, <2>2, <2>3
<1>6. Cardinality(0 .. mask) = mask + 1
  BY <1>1, FS_Interval
<1>7. Full(Table(c)) # DOMAIN Table(c)
  BY <1>1, <1>2, <1>4, <1>5, <1>6
<1>8. PICK i \in 0 .. mask : Table(c)[i] = NoBucket
  BY <1>4, <1>7 DEF Full
<1>9. i \in Usable(c, s)
  BY <1>8 DEF Usable, Table, NoBucket
<1> QED BY <1>3, <1>9

\* A class is given new buckets, that nobody has; the old ones are garbage.
LEMMA RoomHeap ==
  ASSUME IInv, NEW c \in Classes, NEW p \in Arrays, DOMAIN memory[p] = {},
         NEW n \in 1 .. MAX_CACHE_SIZE,
         memory' = [memory EXCEPT ![p] = [i \in 0 .. n - 1 |-> NoBucket]],
         setBucketsAndMask(c, p, n - 1), UNCHANGED settled,
         garbage' \in [Addresses -> Nat],
         \A q \in Addresses \ {cache[c].buckets} : garbage'[q] = garbage[q],
         \/ cache[c].buckets = emptyBuckets /\ garbage' = garbage
         \/ /\ cache[c].buckets # emptyBuckets
            /\ garbage'[cache[c].buckets] = garbage[cache[c].buckets] + 1
  PROVE  /\ cache' \in [Classes -> [buckets : Addresses, mask : Nat, occupied : Nat]]
         /\ memory' \in [Addresses -> Tables]
         /\ MasksFit' /\ GarbageSound'
         /\ \A d \in Classes : TableOK(d)' /\ EntriesOK(d)'
         /\ cache'[c].buckets = p
         /\ \A s \in Selectors : Usable(c, s)' # {}
         /\ \A q \in Addresses : DOMAIN memory[q] # {} => memory'[q] = memory[q]
         /\ \A d \in Classes \ {c} : cache'[d] = cache[d]
<1> DEFINE new == [i \in 0 .. n - 1 |-> NoBucket]
           old == cache[c].buckets
<1>1. CacheTypeOK /\ MasksFit /\ GarbageSound
  BY DEF IInv
<1>2. p # emptyBuckets
  BY MethodCacheAssumption
<1>3. n - 1 \in Nat /\ n \in Nat /\ n - 1 < MAX_CACHE_SIZE
  BY MethodCacheAssumption
<1>4. new \in Tables /\ DOMAIN new = 0 .. n - 1 /\ 0 \in 0 .. n - 1
  BY <1>3 DEF Tables, Bucket
<1>5. /\ cache' \in [Classes -> [buckets : Addresses, mask : Nat, occupied : Nat]]
      /\ cache'[c] = [buckets |-> p, mask |-> n - 1, occupied |-> 0]
      /\ \A d \in Classes \ {c} : cache'[d] = cache[d]
  BY <1>1, <1>3 DEF CacheTypeOK, setBucketsAndMask
<1>6. /\ memory' \in [Addresses -> Tables] /\ memory'[p] = new
      /\ \A q \in Addresses \ {p} : memory'[q] = memory[q]
  <2>1. memory \in [Addresses -> Tables] /\ p \in Addresses
    BY <1>1 DEF CacheTypeOK
  <2> HIDE DEF new, Tables, Addresses
  <2> QED BY <1>4, <2>1 DEF new
<1>7. \A d \in Classes : cache[d].buckets \in Addresses /\ cache[d].mask \in Nat
  BY <1>1 DEF CacheTypeOK
<1>8. \A d \in Classes : cache[d].buckets # p /\ DOMAIN Table(d) # {}
  <2>1. \A d \in Classes : DOMAIN Table(d) # {}
    <3> SUFFICES ASSUME NEW d \in Classes PROVE DOMAIN Table(d) # {}
      OBVIOUS
    <3>1. CASE cache[d].buckets = emptyBuckets
      <4>1. Table(d) = [i \in 0 .. MAX_CACHE_SIZE - 1 |-> NoBucket]
        BY <1>1, <3>1 DEF MasksFit, Table
      <4>2. 0 \in 0 .. MAX_CACHE_SIZE - 1
        BY MethodCacheAssumption
      <4> QED BY <4>1, <4>2
    <3>2. CASE cache[d].buckets # emptyBuckets
      <4>1. DOMAIN Table(d) = 0 .. cache[d].mask
        BY <1>1, <3>2 DEF MasksFit
      <4> QED BY <1>7, <4>1
    <3> QED BY <3>1, <3>2
  <2> QED BY <2>1 DEF Table
<1>9. \A d \in Classes \ {c} : Table(d)' = Table(d)
  BY <1>5, <1>6, <1>7, <1>8 DEF Table
<1>10. Table(c)' = new
  BY <1>5, <1>6 DEF Table
<1> HIDE DEF new
<1>11. MasksFit'
  <2>1. memory'[emptyBuckets] = memory[emptyBuckets]
    BY <1>2, <1>6
  <2>2. ASSUME NEW d \in Classes
        PROVE  /\ cache'[d].mask < MAX_CACHE_SIZE
               /\ cache'[d].buckets # emptyBuckets => DOMAIN Table(d)' = 0 .. cache'[d].mask
    <3>1. CASE d = c
      BY <1>3, <1>4, <1>5, <1>10, <3>1
    <3>2. CASE d # c
      BY <1>1, <1>5, <1>9, <3>2 DEF MasksFit
    <3> QED BY <3>1, <3>2
  <2>3. ASSUME NEW d \in Classes, NEW e \in Classes, d # e, cache'[d].buckets = cache'[e].buckets
        PROVE  cache'[d].buckets = emptyBuckets
    <3>1. d # c /\ e # c
      BY <1>5, <1>8, <2>3
    <3>2. cache[d].buckets = cache[e].buckets /\ cache'[d].buckets = cache[d].buckets
      BY <1>5, <2>3, <3>1
    <3> QED BY <1>1, <2>3, <3>2 DEF MasksFit
  <2> QED BY <1>1, <2>1, <2>2, <2>3 DEF MasksFit
<1>12. GarbageSound'
  <2>1. garbage[p] = 0 /\ garbage[old] = 0
    BY <1>1, <1>7 DEF GarbageSound, CacheTypeOK
  <2>2. ASSUME NEW q \in Addresses, garbage'[q] > 0
        PROVE  /\ garbage'[q] = 1 /\ q # emptyBuckets /\ DOMAIN memory'[q] # {}
               /\ \A d \in Classes : cache'[d].buckets # q
    <3>1. CASE q = old
      <4>1. old # emptyBuckets /\ garbage'[q] = 1
        BY <2>1, <2>2, <3>1
      <4>2. memory'[q] = memory[q] /\ DOMAIN memory[q] # {}
        BY <1>6, <1>8, <3>1 DEF Table
      <4>3. \A d \in Classes : cache'[d].buckets # q
        BY <1>1, <1>5, <1>8, <3>1, <4>1 DEF MasksFit
      <4> QED BY <3>1, <4>1, <4>2, <4>3
    <3>2. CASE q # old
      <4>1. garbage[q] = garbage'[q] /\ garbage[q] > 0
        BY <2>2, <3>2
      <4>2. /\ garbage[q] = 1 /\ q # emptyBuckets /\ DOMAIN memory[q] # {}
            /\ \A d \in Classes : cache[d].buckets # q
        BY <1>1, <4>1 DEF GarbageSound, CacheTypeOK
      <4>3. q # p
        BY <2>1, <4>1
      <4> QED BY <1>5, <1>6, <4>1, <4>2, <4>3
    <3> QED BY <3>1, <3>2
  <2> QED BY <2>2 DEF GarbageSound
<1>13. ASSUME NEW d \in Classes
       PROVE  TableOK(d)' /\ EntriesOK(d)'
  <2>1. CASE d = c
    <3>1. Full(Table(c))' = {}
      BY <1>10 DEF new, Full
    <3>2. cache'[c].occupied = Cardinality(Full(Table(c))')
      BY <1>5, <3>1, FS_EmptySet
    <3> QED BY <2>1, <3>1, <3>2 DEF TableOK, EntriesOK, Full
  <2>2. CASE d # c
    <3>1. cache'[d] = cache[d] /\ Table(d)' = Table(d) /\ TableOK(d) /\ EntriesOK(d)
      BY <1>5, <1>9, <2>2 DEF IInv
    <3> QED BY <3>1, TableKept
  <2> QED BY <2>1, <2>2
<1>14. \A s \in Selectors : 0 \in Usable(c, s)'
  BY <1>3, <1>4, <1>5, <1>6 DEF Usable, new, NoBucket
<1>15. \A q \in Addresses : DOMAIN memory[q] # {} => memory'[q] = memory[q]
  BY <1>6
<1> QED BY <1>5, <1>6, <1>11, <1>12, <1>13, <1>14, <1>15

\* What a filling thread is about to cache goes on being right while it makes room.
LEMMA FillerKept ==
  ASSUME NEW t \in Threads, ThreadOK(t), Filling(t), ~Changing(t), call[t].at # "done",
         UNCHANGED <<methods, settled>>, possible'[t] = possible[t],
         call'[t].cls = call[t].cls, call'[t].sel = call[t].sel, call'[t].imp = call[t].imp,
         call'[t].resolver = call[t].resolver,
         \/ call'[t].at = "insert"
         \/ call'[t].at = "collect" /\ call'[t].then = "insert",
         cache'[call[t].cls].buckets # emptyBuckets,
         Usable(call[t].cls, call[t].sel)' # {}
  PROVE  ThreadOK(t)' /\ Filling(t)' /\ ~Changing(t)'
<1>1. Active(t) /\ Active(t)' /\ Filling(t)' /\ ~Changing(t)'
  BY DEF ThreadOK, Shape, Active, Filling, Changing
<1>2. Shape(t)'
  BY <1>1 DEF ThreadOK, Shape
<1>3. Asked(t)'
  BY <1>1 DEF ThreadOK, Asked, Filling
<1>4. FillOK(t)'
  BY <1>1 DEF ThreadOK, FillOK
<1>5. ChangeOK(t)' /\ ReaderOK(t)' /\ AnswerOK(t)'
  BY <1>1 DEF ChangeOK, ReaderOK, AnswerOK, At
<1> QED BY <1>1, <1>2, <1>3, <1>4, <1>5 DEF ThreadOK

\* There is room, or a new array of buckets.
LEMMA MakeRoomStep ==
  ASSUME IInv, NEW t \in Threads, MakeRoom(t)
  PROVE  IInv'
<1> DEFINE k == call[t]
<1>0. PICK c \in Classes : c = k.cls
  BY DEF MakeRoom, At, IInv, ThreadOK, Shape
<1> DEFINE old == cache[c].buckets
           n == IF isConstantEmptyCache(c) /\ capacity(c) # 0 THEN capacity(c) ELSE Grown(capacity(c))
           ready == [k EXCEPT !.at = "insert"]
           m == [k EXCEPT !.then = "insert"]
<1>1. CacheTypeOK /\ LockOK /\ ThreadOK(t) /\ MasksFit /\ GarbageSound /\ DisposeOK
  BY DEF IInv
<1>2. /\ k.at = "fill"
      /\ UNCHANGED <<methods, settled, runtimeLock, restartable, begun, changes, possible>>
      /\ \/ /\ ~isConstantEmptyCache(c) /\ Fits(c)
            /\ GoOn(t, ready) /\ UNCHANGED <<cache, memory, garbage>>
         \/ \E p \in Lowest :
              /\ memory' = [memory EXCEPT ![p] = [i \in 0 .. n - 1 |-> NoBucket]]
              /\ setBucketsAndMask(c, p, n - 1)
              /\ \/ isConstantEmptyCache(c) /\ GoOn(t, ready) /\ UNCHANGED garbage
                 \/ ~isConstantEmptyCache(c) /\ collect_free(t, old, m)
  BY <1>0 DEF MakeRoom, At, rest, heap
<1>3. k \in Call /\ Filling(t) /\ ~Changing(t) /\ Shape(t)
  BY <1>1, <1>2 DEF CacheTypeOK, Filling, Changing, ThreadOK
<1>4. k.cls = c /\ k.sel \in Selectors
  BY <1>0, <1>3 DEF Shape
<1>5. ready \in Call /\ ready.at = "insert" /\ ready.cls = c /\ ready.sel = k.sel
      /\ ready.imp = k.imp /\ ready.resolver = k.resolver
  BY <1>3, <1>4 DEF Call
<1>6. m \in Call /\ m.then = "insert" /\ m.cls = c /\ m.sel = k.sel
      /\ m.imp = k.imp /\ m.resolver = k.resolver
  BY <1>3, <1>4 DEF Call
<1> HIDE DEF ready, m, n
<1>7. \A u \in Threads : ThreadOK(u) /\ Shape(u)
  BY DEF IInv, ThreadOK
<1>8. \A u \in Threads \ {t} : ~Filling(u) /\ ~Changing(u)
  BY <1>1, <1>3, Alone
<1>9. CASE /\ ~isConstantEmptyCache(c) /\ Fits(c)
           /\ GoOn(t, ready) /\ UNCHANGED <<cache, memory, garbage>>
  <2>1. Kept
    BY <1>2, <1>9 DEF Kept
  <2>2. call' \in [Threads -> Call] /\ call'[t] = ready /\ \A u \in Threads \ {t} : call'[u] = call[u]
    BY <1>1, <1>5, <1>9, GoOnFacts DEF CacheTypeOK
  <2>3. CacheTypeOK'
    BY <1>1, <1>2, <1>9, <2>2 DEF CacheTypeOK
  <2>4. cache[c].buckets # emptyBuckets /\ Usable(c, k.sel) # {}
    BY <1>1, <1>4, <1>9, RoomLeft DEF IInv
  <2>5. ThreadOK(t)' /\ Filling(t)' /\ ~Changing(t)'
    <3>1. Usable(c, k.sel)' # {}
      BY <1>5, <1>9, <2>2, <2>4 DEF Usable
    <3> QED BY <1>1, <1>2, <1>3, <1>4, <1>5, <1>9, <2>2, <2>4, <3>1, FillerKept
  <2>6. LockOK' /\ DisposeOK'
    BY <1>1, <1>2, <1>3, <1>5, <1>7, <2>2, <2>5, HolderGoesOn
  <2> QED BY <1>2, <2>1, <2>2, <2>3, <2>5, <2>6, QuietStep
<1>10. ASSUME NEW p \in Lowest,
              memory' = [memory EXCEPT ![p] = [i \in 0 .. n - 1 |-> NoBucket]],
              setBucketsAndMask(c, p, n - 1),
              \/ isConstantEmptyCache(c) /\ GoOn(t, ready) /\ UNCHANGED garbage
              \/ ~isConstantEmptyCache(c) /\ collect_free(t, old, m)
       PROVE  IInv'
  <2>1. p \in Arrays /\ DOMAIN memory[p] = {}
    BY DEF Lowest, Unallocated
  <2>2. n \in 1 .. MAX_CACHE_SIZE
    BY <1>1, <1>4, Sizes DEF n
  <2>3. old \in Addresses /\ cache[c].occupied = Cardinality(Full(memory[old]))
    BY <1>1, <1>4 DEF CacheTypeOK, IInv, TableOK, Table
  <2>4. ~isConstantEmptyCache(c) => old # emptyBuckets
    BY <1>1, <2>3, EmptyIsEmpty, FS_EmptySet DEF isConstantEmptyCache
  <2>5. /\ garbage' \in [Addresses -> Nat]
        /\ \A q \in Addresses \ {old} : garbage'[q] = garbage[q]
        /\ \/ old = emptyBuckets /\ garbage' = garbage
           \/ old # emptyBuckets /\ garbage'[old] = garbage[old] + 1
        /\ call' \in [Threads -> Call] /\ \A u \in Threads \ {t} : call'[u] = call[u]
        /\ call'[t].cls = c /\ call'[t].sel = k.sel
        /\ call'[t].imp = k.imp /\ call'[t].resolver = k.resolver
        /\ \/ call'[t].at = "insert"
           \/ call'[t].at = "collect" /\ call'[t].then = "insert"
    <3>1. CASE isConstantEmptyCache(c) /\ GoOn(t, ready) /\ UNCHANGED garbage
      <4>1. call' \in [Threads -> Call] /\ call'[t] = ready /\ \A u \in Threads \ {t} : call'[u] = call[u]
        BY <1>1, <1>5, <3>1, GoOnFacts DEF CacheTypeOK
      <4>2. old = emptyBuckets /\ garbage \in [Addresses -> Nat]
        BY <1>1, <3>1 DEF isConstantEmptyCache, CacheTypeOK
      <4> HIDE DEF k, old
      <4> QED BY <1>5, <3>1, <4>1, <4>2
    <3>2. CASE ~isConstantEmptyCache(c) /\ collect_free(t, old, m)
      <4>1. /\ garbage' \in [Addresses -> Nat] /\ garbage'[old] = garbage[old] + 1
            /\ \A q \in Addresses \ {old} : garbage'[q] = garbage[q]
            /\ call' \in [Threads -> Call] /\ \A u \in Threads \ {t} : call'[u] = call[u]
            /\ SameCall(m, call'[t]) /\ call'[t].at \in {"insert", "collect"}
        BY <1>1, <1>6, <2>3, <3>2, CollectFreeFacts
      <4> HIDE DEF k, old
      <4> QED BY <1>6, <2>4, <3>2, <4>1 DEF SameCall
    <3> QED BY <1>10, <3>1, <3>2
  <2>6. /\ cache' \in [Classes -> [buckets : Addresses, mask : Nat, occupied : Nat]]
        /\ memory' \in [Addresses -> Tables]
        /\ MasksFit' /\ GarbageSound'
        /\ \A d \in Classes : TableOK(d)' /\ EntriesOK(d)'
        /\ cache'[c].buckets = p
        /\ \A s \in Selectors : Usable(c, s)' # {}
        /\ \A q \in Addresses : DOMAIN memory[q] # {} => memory'[q] = memory[q]
        /\ \A d \in Classes \ {c} : cache'[d] = cache[d]
    <3> HIDE DEF k
    <3> QED BY <1>2, <1>4, <1>10, <2>1, <2>2, <2>5, RoomHeap
  <2>7. CacheTypeOK'
    BY <1>1, <1>2, <2>5, <2>6 DEF CacheTypeOK
  <2>8. ThreadOK(t)' /\ Filling(t)' /\ ~Changing(t)'
    <3>1. p # emptyBuckets
      BY <2>1, MethodCacheAssumption
    <3>2. Usable(k.cls, k.sel)' # {}
      <4>1. PICK s \in Selectors : s = k.sel
        BY <1>4
      <4>2. call'[t].cls = c /\ call'[t].sel = s
        BY <2>5, <4>1
      <4>3. Usable(c, s)' # {}
        BY <2>6
      <4> QED BY <4>2, <4>3 DEF Usable
    <3> QED BY <1>1, <1>2, <1>3, <1>4, <2>5, <2>6, <3>1, <3>2, FillerKept
  <2>9. LockOK' /\ DisposeOK'
    BY <1>1, <1>2, <1>3, <1>7, <2>5, <2>8, HolderGoesOn
  <2>10. ASSUME NEW u \in Threads \ {t}
         PROVE  ThreadOK(u)'
    <3>1. At(u, "probe") =>
            /\ memory'[call[u].buckets] = memory[call[u].buckets]
            /\ \/ call[u].buckets \in {emptyBuckets, cache'[call[u].cls].buckets}
               \/ garbage'[call[u].buckets] > 0
      <4> SUFFICES ASSUME At(u, "probe")
                   PROVE  /\ memory'[call[u].buckets] = memory[call[u].buckets]
                          /\ \/ call[u].buckets \in {emptyBuckets, cache'[call[u].cls].buckets}
                             \/ garbage'[call[u].buckets] > 0
        OBVIOUS
      <4>1. /\ call[u].buckets \in Addresses /\ DOMAIN memory[call[u].buckets] # {}
            /\ call[u].cls \in Classes
        BY <1>7, ReaderIn DEF Shape, At
      <4>2. \/ call[u].buckets \in {emptyBuckets, cache[call[u].cls].buckets}
            \/ garbage[call[u].buckets] > 0
        BY <1>7 DEF ThreadOK, ReaderOK, At
      <4>3. garbage[old] \in Nat
        BY <1>1, <2>3 DEF CacheTypeOK
      <4>4. CASE call[u].buckets = old
        BY <2>5, <2>6, <4>1, <4>3, <4>4
      <4>5. CASE call[u].buckets # old
        <5> HIDE DEF k
        <5> QED BY <2>5, <2>6, <4>1, <4>2, <4>5
      <4> QED BY <4>4, <4>5
    <3>2. ReaderOK(u)'
      BY <1>2, <1>7, <2>5, <3>1, ReaderStays DEF ThreadOK
    <3> QED BY <1>2, <1>7, <1>8, <2>5, <3>2, OtherKept
  <2> QED BY <2>6, <2>7, <2>8, <2>9, <2>10 DEF IInv
<1> QED BY <1>2, <1>9, <1>10

\* a bucket that is to be written, and the write
Writable(c, p, i, s, imp) ==
  /\ p = cache[c].buckets /\ p # emptyBuckets /\ i \in Usable(c, s)
  /\ \A j \in Usable(c, s) : Distance(s, cache[c].mask, i) <= Distance(s, cache[c].mask, j)
  /\ memory[p][i].sel = none
  /\ imp = Inherited(settled)[c][s]
  /\ imp = forward_imp => Resolves[c][s] = none
Written(c, p, i, s, imp) ==
  /\ memory' = [memory EXCEPT ![p][i] = [sel |-> s, imp |-> imp]]
  /\ cache' = [cache EXCEPT ![c].occupied = @ + 1]
  /\ UNCHANGED <<garbage, settled>>

\* every cache is sound after it, and nothing else has changed
SoundAfter(p, i, s, imp) ==
  /\ cache' \in [Classes -> [buckets : Addresses, mask : Nat, occupied : Nat]]
  /\ memory' \in [Addresses -> Tables]
  /\ MasksFit' /\ GarbageSound'
  /\ \A d \in Classes : TableOK(d)' /\ EntriesOK(d)'
  /\ \A d \in Classes : cache'[d].buckets = cache[d].buckets
  /\ \A q \in Addresses \ {p} : memory'[q] = memory[q]
  /\ DOMAIN memory'[p] = DOMAIN memory[p]
  /\ memory'[p][i] = [sel |-> s, imp |-> imp]
  /\ \A j \in DOMAIN memory[p] \ {i} : memory'[p][j] = memory[p][j]

\* A bucket is written: the nearest that can be used, so that the table can still be
\* searched, and the selector is in it once.
LEMMA InsertHeap ==
  ASSUME IInv, NEW c \in Classes, NEW s \in Selectors, NEW imp \in Imps,
         NEW p \in Addresses, NEW i, Writable(c, p, i, s, imp), Written(c, p, i, s, imp)
  PROVE  SoundAfter(p, i, s, imp)
<1> DEFINE b == memory[p]
           mask == cache[c].mask
           e == [sel |-> s, imp |-> imp]
           nb == [b EXCEPT ![i] = e]
           D(j) == Distance(s, mask, j)
<1>0. /\ UNCHANGED <<garbage, settled>>
      /\ p = cache[c].buckets /\ p # emptyBuckets /\ i \in Usable(c, s)
      /\ memory[p][i].sel = none /\ imp = Inherited(settled)[c][s]
      /\ imp = forward_imp => Resolves[c][s] = none
  BY DEF Written, Writable
<1>1. CacheTypeOK /\ MasksFit /\ GarbageSound /\ TableOK(c) /\ EntriesOK(c)
  BY DEF IInv
<1>2. mask \in Nat /\ cache[c].occupied \in Nat
  BY <1>1 DEF CacheTypeOK
<1>3. DOMAIN b = 0 .. mask /\ Table(c) = b
  BY <1>0, <1>1 DEF MasksFit, Table
<1>4. i \in 0 .. mask
  BY <1>0 DEF Usable
<1>5. b[i] = NoBucket
  BY <1>0, <1>1, <1>3, <1>4, BucketFacts, MethodCacheAssumption
<1>6. e \in Bucket /\ e # NoBucket /\ e.sel = s /\ e.imp = imp
  BY MethodCacheAssumption DEF Bucket, NoBucket
<1>7. b \in Tables /\ memory \in [Addresses -> Tables]
  BY <1>1 DEF CacheTypeOK
<1> HIDE DEF e
<1>8. nb \in Tables /\ DOMAIN nb = 0 .. mask /\ nb[i] = e
      /\ \A j \in (0 .. mask) \ {i} : nb[j] = b[j]
  <2>1. PICK n \in Nat : b \in [0 .. n - 1 -> Bucket]
    BY <1>7 DEF Tables
  <2> HIDE DEF b, Bucket
  <2>2. nb \in [0 .. n - 1 -> Bucket]
    BY <1>6, <2>1
  <2> QED BY <1>3, <1>4, <2>1, <2>2 DEF Tables
<1>9. /\ memory' \in [Addresses -> Tables] /\ memory'[p] = nb
      /\ \A q \in Addresses \ {p} : memory'[q] = memory[q]
  <2>1. memory' = [memory EXCEPT ![p] = nb]
    BY DEF e, Written
  <2> HIDE DEF nb, Addresses, Tables
  <2> QED BY <1>7, <1>8, <2>1
<1>10. /\ cache' \in [Classes -> [buckets : Addresses, mask : Nat, occupied : Nat]]
       /\ cache'[c].occupied = cache[c].occupied + 1
       /\ \A d \in Classes : cache'[d].buckets = cache[d].buckets /\ cache'[d].mask = cache[d].mask
       /\ \A d \in Classes \ {c} : cache'[d] = cache[d]
  BY <1>1 DEF CacheTypeOK, Written
<1> HIDE DEF nb
<1>11. Table(c)' = nb
  BY <1>0, <1>9, <1>10 DEF Table
<1>12. \A d \in Classes \ {c} : cache[d].buckets # p /\ Table(d)' = Table(d)
  <2>1. \A d \in Classes \ {c} : cache[d].buckets # p
    BY <1>0, <1>1 DEF MasksFit
  <2>2. \A d \in Classes : cache[d].buckets \in Addresses
    BY <1>1 DEF CacheTypeOK
  <2> QED BY <1>9, <1>10, <2>1, <2>2 DEF Table
<1>13. MasksFit'
  <2>1. memory'[emptyBuckets] = memory[emptyBuckets]
    BY <1>0, <1>9
  <2>2. ASSUME NEW d \in Classes
        PROVE  /\ cache'[d].mask < MAX_CACHE_SIZE
               /\ cache'[d].buckets # emptyBuckets => DOMAIN Table(d)' = 0 .. cache'[d].mask
    <3>1. CASE d = c
      BY <1>1, <1>8, <1>10, <1>11, <3>1 DEF MasksFit
    <3>2. CASE d # c
      BY <1>1, <1>10, <1>12, <3>2 DEF MasksFit
    <3> QED BY <3>1, <3>2
  <2> QED BY <1>1, <1>10, <2>1, <2>2 DEF MasksFit
<1>14. GarbageSound'
  <2>1. \A q \in Addresses : DOMAIN memory'[q] = DOMAIN memory[q]
    BY <1>3, <1>8, <1>9
  <2>2. DOMAIN garbage = Addresses
    BY <1>1 DEF CacheTypeOK
  <2> QED BY <1>0, <1>1, <1>10, <2>1, <2>2 DEF GarbageSound
<1>15. Full(nb) = Full(b) \cup {i} /\ i \notin Full(b)
  BY <1>3, <1>4, <1>5, <1>6, <1>8 DEF Full
<1>16. /\ cache[c].occupied = Cardinality(Full(b))
       /\ \A j, l \in Full(b) : b[j].sel = b[l].sel => j = l
       /\ \A j \in Full(b) : \A l \in 0 .. mask :
            Distance(b[j].sel, mask, l) < Distance(b[j].sel, mask, j) => b[l] # NoBucket
  BY <1>0, <1>1, <1>3 DEF TableOK, Reachable, Table
<1>17. \A j \in 0 .. mask : b[j].sel \in {none, s} => D(i) <= D(j)
  BY <1>0, <1>3 DEF Usable, Writable
<1>18. \A j \in Full(b) : j \in 0 .. mask /\ b[j].sel \in Selectors
  BY <1>1, <1>3, BucketFacts DEF Full
<1>19. \A j \in 0 .. mask : D(j) \in Nat
  BY <1>2, DistanceFacts
<1>20. \A j \in Full(b) : b[j].sel # s
  <2> SUFFICES ASSUME NEW j \in Full(b), b[j].sel = s PROVE FALSE
    OBVIOUS
  <2>1. D(i) <= D(j) /\ j \in 0 .. mask /\ j # i
    BY <1>15, <1>17, <1>18
  <2>2. D(i) # D(j)
    BY <1>2, <1>4, <2>1, DistanceFacts
  <2>3. D(i) < D(j)
    BY <1>4, <1>19, <2>1, <2>2
  <2> QED BY <1>4, <1>5, <1>16, <2>3
<1>21. TableOK(c)'
  <2>1. cache'[c].occupied = Cardinality(Full(nb))
    <3>1. IsFiniteSet(Full(b))
      BY <1>1, FullFinite
    <3> DEFINE F == Full(b)
    <3>2. IsFiniteSet(F) /\ i \notin F /\ Full(nb) = F \cup {i} /\ cache[c].occupied = Cardinality(F)
      BY <1>15, <1>16, <3>1
    <3> HIDE DEF F
    <3>3. Cardinality(F \cup {i}) = Cardinality(F) + 1
      BY <3>2, FS_AddElement
    <3> QED BY <1>10, <3>2, <3>3
  <2>2. ASSUME NEW j \in Full(nb), NEW l \in Full(nb), nb[j].sel = nb[l].sel
        PROVE  j = l
    BY <1>6, <1>8, <1>15, <1>16, <1>18, <1>20, <2>2
  <2>3. ASSUME NEW j \in Full(nb), NEW l \in 0 .. mask,
               Distance(nb[j].sel, mask, l) < Distance(nb[j].sel, mask, j)
        PROVE  nb[l] # NoBucket
    <3>1. CASE l = i
      BY <1>6, <1>8, <3>1
    <3>2. CASE l # i
      <4>1. nb[l] = b[l]
        BY <1>8, <3>2
      <4>2. CASE j = i
        <5>1. D(l) < D(i)
          BY <1>6, <1>8, <2>3, <4>2
        <5>2. b[l].sel # none
          BY <1>4, <1>17, <1>19, <5>1
        <5> QED BY <4>1, <5>2 DEF NoBucket
      <4>3. CASE j # i
        <5>1. j \in Full(b) /\ nb[j] = b[j]
          BY <1>8, <1>15, <1>18, <4>3
        <5> QED BY <1>16, <2>3, <4>1, <5>1
      <4> QED BY <4>2, <4>3
    <3> QED BY <3>1, <3>2
  <2>4. /\ cache'[c].occupied = Cardinality(Full(Table(c))')
        /\ \A j, l \in Full(Table(c))' : Table(c)'[j].sel = Table(c)'[l].sel => j = l
        /\ \A j \in Full(Table(c))' : Reachable(c, j)'
    <3>1. Full(Table(c))' = Full(nb) /\ memory'[cache'[c].buckets] = nb /\ cache'[c].mask = mask
      BY <1>0, <1>9, <1>10, <1>11 DEF Full
    <3>2. \A j \in Full(nb) : Reachable(c, j)'
      BY <1>8, <2>3, <3>1 DEF Reachable
    <3> QED BY <1>11, <2>1, <2>2, <3>1, <3>2
  <2> QED BY <2>4 DEF TableOK
<1>22. EntriesOK(c)'
  <2>1. \A j \in Full(b) : /\ b[j].imp = Inherited(settled)[c][b[j].sel]
                           /\ b[j].imp = forward_imp => Resolves[c][b[j].sel] = none
    BY <1>1, <1>3 DEF EntriesOK
  <2>2. \A j \in Full(nb) : /\ nb[j].imp = Inherited(settled)[c][nb[j].sel]
                            /\ nb[j].imp = forward_imp => Resolves[c][nb[j].sel] = none
    BY <1>0, <1>6, <1>8, <1>15, <1>18, <2>1, SMTT(20)
  <2> QED BY <1>0, <1>11, <2>2 DEF EntriesOK, Full
<1>23. \A d \in Classes \ {c} : TableOK(d)' /\ EntriesOK(d)'
  BY <1>0, <1>10, <1>12, TableKept DEF IInv
<1> QED BY <1>3, <1>8, <1>9, <1>10, <1>13, <1>14, <1>21, <1>22, <1>23 DEF e, SoundAfter

\* An implementation is put into the cache, and is the answer.
LEMMA InsertStep ==
  ASSUME IInv, NEW t \in Threads, Insert(t)
  PROVE  IInv'
<1> DEFINE k == call[t]
<1>1. CacheTypeOK /\ LockOK /\ ThreadOK(t) /\ MasksFit /\ GarbageSound /\ DisposeOK
  BY DEF IInv
<1>2. k.at = "insert"
  BY DEF Insert, At
<1>3. k \in Call /\ Filling(t) /\ ~Changing(t) /\ Shape(t)
  BY <1>1, <1>2 DEF CacheTypeOK, Filling, Changing, ThreadOK
<1>4. PICK c \in Classes, s \in Selectors : k.cls = c /\ k.sel = s
  BY <1>3 DEF Shape
<1>5. PICK p \in Addresses : p = cache[c].buckets
  BY <1>1 DEF CacheTypeOK
<1> DEFINE nearest == CHOOSE i \in Usable(c, s) : \A j \in Usable(c, s) :
                  Distance(s, cache[c].mask, i) <= Distance(s, cache[c].mask, j)
           m == [k EXCEPT !.then = "idle"]
           n == Answer(m, k.imp)
<1>6. /\ Usable(c, s) # {}
      /\ IF memory[p][nearest].sel = none
           THEN /\ memory' = [memory EXCEPT ![p][nearest] = [sel |-> s, imp |-> k.imp]]
                /\ cache' = [cache EXCEPT ![c].occupied = @ + 1]
           ELSE UNCHANGED <<memory, cache>>
      /\ runtimeLock' = NoThread /\ GoOn(t, n)
      /\ UNCHANGED <<methods, settled, garbage, restartable, begun, changes, possible>>
  BY <1>4, <1>5 DEF Insert, rest
<1>7. PICK i \in Usable(c, s) :
        /\ i = nearest
        /\ \A j \in Usable(c, s) : Distance(s, cache[c].mask, i) <= Distance(s, cache[c].mask, j)
  <2>1. cache[c].mask \in Nat
    BY <1>1 DEF CacheTypeOK
  <2> QED BY <1>6, <2>1, NearestUsable
<1> HIDE DEF nearest
<1>8. \A u \in Threads \ {t} : ~Filling(u) /\ ~Changing(u)
  BY <1>1, <1>3, Alone
<1>9. methods = settled
  BY <1>1, <1>3, <1>8 DEF LockOK
<1>10. /\ k.imp = Inherited(settled)[c][s] /\ k.imp \in Imps /\ k.imp \in possible[t]
       /\ k.imp = forward_imp => Resolves[c][s] = none
       /\ p # emptyBuckets
  <2>1. /\ k.imp = Inherited(settled)[c][s]
        /\ k.imp = forward_imp => Resolves[c][s] = none
        /\ p # emptyBuckets
    BY <1>1, <1>2, <1>3, <1>4, <1>5, <1>9 DEF ThreadOK, FillOK
  <2>2. k.imp \in Imps
    BY <1>1, <2>1, InheritedType DEF CacheTypeOK, MethodTables
  <2>3. k.imp \in possible[t]
    BY <1>2, <1>3, <1>4, <2>1 DEF Shape
  <2> QED BY <2>1, <2>2, <2>3
<1>11. m \in Call /\ m.cls = c /\ m.sel = s /\ m.resolver = k.resolver
  BY <1>3, <1>4 DEF Call
<1> HIDE DEF m
<1>12. /\ n \in Call /\ n.at \in {"load", "done"} /\ (n.at = "done" => n.imp = k.imp)
       /\ n.cls = c /\ n.sel = s /\ n.resolver = k.resolver
  BY <1>10, <1>11, AnswerFacts
<1> HIDE DEF n
<1>13. call' \in [Threads -> Call] /\ call'[t] = n /\ \A u \in Threads \ {t} : call'[u] = call[u]
  BY <1>1, <1>6, <1>12, GoOnFacts DEF CacheTypeOK
<1> DEFINE written == memory[p][i].sel = none
<1>14. /\ cache' \in [Classes -> [buckets : Addresses, mask : Nat, occupied : Nat]]
       /\ memory' \in [Addresses -> Tables]
       /\ MasksFit' /\ GarbageSound'
       /\ \A d \in Classes : TableOK(d)' /\ EntriesOK(d)'
       /\ \A d \in Classes : cache'[d].buckets = cache[d].buckets
       /\ \A q \in Addresses \ {p} : memory'[q] = memory[q]
       /\ DOMAIN memory'[p] = DOMAIN memory[p]
       /\ \A j \in DOMAIN memory[p] :
            \/ memory'[p][j] = memory[p][j]
            \/ memory'[p][j] = [sel |-> s, imp |-> k.imp]
  <2>1. CASE written
    <3>1. PICK imp \in Imps : imp = k.imp
      BY <1>10
    <3>2. Writable(c, p, i, s, imp) /\ Written(c, p, i, s, imp)
      BY <1>5, <1>6, <1>7, <1>10, <2>1, <3>1 DEF Writable, Written
    <3>3. SoundAfter(p, i, s, k.imp)
      BY <3>1, <3>2, InsertHeap
    <3> HIDE DEF k
    <3> QED BY <3>3 DEF SoundAfter
  <2>2. CASE ~written
    <3>1. UNCHANGED <<memory, cache, garbage, settled>>
      BY <1>6, <1>7, <2>2
    <3>2. MasksFit' /\ GarbageSound' /\ \A d \in Classes : TableOK(d)' /\ EntriesOK(d)'
      BY <3>1, HeapKept DEF IInv
    <3> QED BY <1>1, <3>1, <3>2 DEF CacheTypeOK
  <2> QED BY <2>1, <2>2
<1> HIDE DEF written
<1>15. CacheTypeOK'
  BY <1>1, <1>6, <1>13, <1>14, MethodCacheAssumption DEF CacheTypeOK
<1>16. \A u \in Threads : ~Filling(u)' /\ ~Changing(u)'
  BY <1>8, <1>12, <1>13 DEF Filling, Changing
<1>17. LockOK'
  BY <1>6, <1>9, <1>16, MethodCacheAssumption DEF LockOK
<1>18. DisposeOK'
  BY <1>1, <1>6, <1>12, <1>13 DEF DisposeOK, At
<1>19. ThreadOK(t)'
  <2>1. Shape(t)' /\ Asked(t)' /\ FillOK(t)' /\ ChangeOK(t)'
    <3>1. Asked(t) /\ Active(t)
      BY <1>1, <1>2, <1>3 DEF ThreadOK, Shape
    <3> QED BY <1>2, <1>3, <1>4, <1>6, <1>12, <1>13, <3>1, StillActive
  <2>2. ReaderOK(t)'
    BY <1>12, <1>13 DEF ReaderOK
  <2>3. AnswerOK(t)'
    BY <1>4, <1>6, <1>10, <1>12, <1>13 DEF AnswerOK, At
  <2> QED BY <2>1, <2>2, <2>3 DEF ThreadOK
<1>20. ASSUME NEW u \in Threads \ {t}
       PROVE  ThreadOK(u)'
  <2>1. ThreadOK(u) /\ ReaderOK(u) /\ Shape(u) /\ call'[u] = call[u] /\ possible'[u] = possible[u]
    BY <1>6, <1>13 DEF IInv, ThreadOK
  <2>2. ReaderOK(u)'
    <3> SUFFICES ASSUME At(u, "probe") PROVE ReaderOK(u)'
      BY <2>1 DEF ReaderOK, At
    <3>1. call[u].buckets \in Addresses /\ call[u].cls \in Classes
      BY <2>1, ReaderIn DEF Shape, At
    <3>2. CASE call[u].buckets # p
      <4>1. /\ memory'[call[u].buckets] = memory[call[u].buckets]
            /\ \/ call[u].buckets \in {emptyBuckets, cache'[call[u].cls].buckets}
               \/ garbage'[call[u].buckets] > 0
        BY <1>6, <1>14, <2>1, <3>1, <3>2 DEF ReaderOK, At
      <4> QED BY <2>1, <4>1, ReaderStays
    <3>3. CASE call[u].buckets = p
      <4>1. garbage[p] = 0
        BY <1>1, <1>5 DEF GarbageSound, CacheTypeOK
      <4>2. cache[call[u].cls].buckets = p
        BY <1>10, <2>1, <3>3, <4>1 DEF ReaderOK, At
      <4>3. call[u].cls = c
        BY <1>1, <1>10, <1>5, <3>1, <4>2 DEF MasksFit
      <4>4. ASSUME NEW j \in DOMAIN memory'[p], memory'[p][j].sel = call[u].sel
            PROVE  /\ memory'[p][j].imp \in possible[u]
                   /\ memory'[p][j].imp = forward_imp => Resolves[call[u].cls][call[u].sel] = none
        <5>1. CASE memory'[p][j] = memory[p][j]
          BY <1>14, <2>1, <3>3, <4>4, <5>1 DEF ReaderOK, At
        <5>2. CASE memory'[p][j] = [sel |-> s, imp |-> k.imp]
          <6>1. call[u].sel = s /\ memory'[p][j].imp = k.imp
            BY <4>4, <5>2
          <6>2. Inherited(settled)[c][s] \in possible[u]
            BY <2>1, <4>3, <6>1 DEF Shape, At
          <6> QED BY <1>10, <4>3, <6>1, <6>2
        <5> QED BY <1>14, <4>4, <5>1, <5>2
      <4>5. /\ call[u].mask < MAX_CACHE_SIZE /\ call[u].i \in 0 .. call[u].mask
            /\ DOMAIN memory'[p] = 0 .. call[u].mask
        BY <1>10, <1>14, <2>1, <3>3 DEF ReaderOK, At
      <4>6. p = cache'[call[u].cls].buckets
        BY <1>14, <3>1, <4>2
      <4> QED BY <2>1, <3>3, <4>4, <4>5, <4>6 DEF ReaderOK
    <3> QED BY <3>2, <3>3
  <2> QED BY <1>6, <1>8, <2>1, <2>2, OtherKept
<1> QED BY <1>14, <1>15, <1>17, <1>18, <1>19, <1>20 DEF IInv

-----------------------------------------------------------------------------
(* Theorems.                                                               *)

\* Nothing is cached, nobody looks anything up.
LEMMA CacheInitial == CacheInit => IInv
<1> SUFFICES ASSUME CacheInit PROVE IInv
  OBVIOUS
<1> DEFINE empty == [i \in 0 .. MAX_CACHE_SIZE - 1 |-> NoBucket]
<1>1. MAX_CACHE_SIZE \in Nat /\ MAX_CACHE_SIZE > 0
  BY MethodCacheAssumption
<1>2. empty \in Tables /\ DOMAIN empty = 0 .. MAX_CACHE_SIZE - 1
  <2>1. empty \in [0 .. MAX_CACHE_SIZE - 1 -> Bucket]
    BY DEF Bucket
  <2> QED BY <1>1, <2>1 DEF Tables
<1>3. memory = [p \in Addresses |-> IF p = emptyBuckets THEN empty ELSE << >>]
  BY DEF CacheInit
<1> HIDE DEF empty
<1>4. memory \in [Addresses -> Tables] /\ memory[emptyBuckets] = empty
  <2> HIDE DEF Tables
  <2> QED BY <1>2, <1>3, NoTable
<1>5. \A c \in Classes : cache[c] = [buckets |-> emptyBuckets, mask |-> 0, occupied |-> 0]
  BY DEF CacheInit
<1>6. \A t \in Threads : call[t] = Idle
  BY DEF CacheInit
<1>7. CacheTypeOK
  <2>1. cache \in [Classes -> [buckets : Addresses, mask : Nat, occupied : Nat]]
    BY DEF CacheInit
  <2>2. call \in [Threads -> Call]
    BY IdleType DEF CacheInit
  <2>3. methods \in MethodTables /\ settled \in MethodTables
    BY MethodCacheAssumption DEF CacheInit, MethodTables
  <2>4. garbage \in [Addresses -> Nat] /\ possible \in [Threads -> SUBSET Imps]
    BY DEF CacheInit
  <2> QED BY <1>4, <2>1, <2>2, <2>3, <2>4 DEF CacheInit, CacheTypeOK, MethodTables
<1>8. MasksFit
  BY <1>1, <1>4, <1>5 DEF MasksFit, empty
<1>9. GarbageSound
  BY DEF GarbageSound, CacheInit
<1>10. ASSUME NEW c \in Classes
       PROVE  TableOK(c) /\ EntriesOK(c)
  <2>1. Full(Table(c)) = {}
    BY <1>5, <1>7, <1>8, EmptyIsEmpty DEF Table
  <2>2. cache[c].occupied = Cardinality(Full(Table(c)))
    BY <1>5, <2>1, FS_EmptySet
  <2> QED BY <2>1, <2>2 DEF TableOK, EntriesOK
<1>11. \A t \in Threads : ~Filling(t) /\ ~Changing(t)
  BY <1>6, IdleType DEF Filling, Changing
<1>12. LockOK
  BY <1>11, MethodCacheAssumption DEF LockOK, CacheInit
<1>13. DisposeOK
  BY <1>6, IdleType DEF DisposeOK, At
<1>14. ASSUME NEW t \in Threads
       PROVE  ThreadOK(t)
  <2>1. possible[t] = {}
    BY DEF CacheInit
  <2>2. Shape(t)
    BY <1>6, <1>11, <2>1, IdleType DEF Shape, Active
  <2>3. Asked(t) /\ FillOK(t) /\ ChangeOK(t) /\ ReaderOK(t) /\ AnswerOK(t)
    BY <1>6, <1>11, IdleType DEF Asked, Active, FillOK, ChangeOK, ReaderOK, AnswerOK, At
  <2> QED BY <2>2, <2>3 DEF ThreadOK
<1> QED BY <1>7, <1>8, <1>9, <1>10, <1>12, <1>13, <1>14 DEF IInv

\* A step that changes nothing.
LEMMA Stutter ==
  ASSUME IInv, UNCHANGED cacheVars
  PROVE  IInv'
<1>1. /\ UNCHANGED <<methods, settled, cache, memory, garbage>>
      /\ UNCHANGED <<runtimeLock, call, restartable, begun, changes, possible>>
  BY DEF cacheVars, heap, rest
<1>2. CacheTypeOK'
  BY <1>1 DEF IInv, CacheTypeOK
<1>3. MasksFit' /\ GarbageSound' /\ \A c \in Classes : TableOK(c)' /\ EntriesOK(c)'
  BY <1>1, HeapKept DEF IInv
<1>4. LockOK' /\ DisposeOK'
  BY <1>1 DEF IInv, LockOK, DisposeOK, At, Filling, Changing
<1>5. \A t \in Threads : ThreadOK(t)'
  BY <1>1, ThreadKept DEF IInv, Kept
<1> QED BY <1>2, <1>3, <1>4, <1>5 DEF IInv

\* The inductive invariant holds from the start, whatever is looked up and changed.
THEOREM CacheInvariance == CacheSpec => []IInv
<1>1. CacheInit => IInv
  BY CacheInitial
<1>2. IInv /\ [CacheNext]_cacheVars => IInv'
  <2> SUFFICES ASSUME IInv, [CacheNext]_cacheVars PROVE IInv'
    OBVIOUS
  <2>1. ASSUME NEW t \in Threads, NEW m \in Lookups, BeginLookup(t, m[1], m[2]) PROVE IInv'
    BY <2>1, BeginLookupStep
  <2>2. ASSUME NEW t \in Threads, NEW p \in Programs, ChangeMethod(t, p[1], p[2], p[3]) PROVE IInv'
    BY <2>2, ChangeMethodStep
  <2>3. ASSUME NEW t \in Threads, Step(t) PROVE IInv'
    BY <2>3, LoadStep, ProbeStep, LookUpStep, ResolveStep, MakeRoomStep, InsertStep,
       FlushStep, SettleStep, CollectStep, DisposeStep, ReturnStep DEF Step
  <2>4. CASE UNCHANGED cacheVars
    BY <2>4, Stutter
  <2> QED BY <2>1, <2>2, <2>3, <2>4 DEF CacheNext
<1> QED BY <1>1, <1>2, PTL DEF CacheSpec

\* lookUpImpOrForward and CacheLookup never answer with an implementation that a change
\* which was complete before the call had already replaced, however many classes,
\* methods, readers, changes and sizes of caches there are.
THEOREM NeverStale == CacheSpec => []NoStaleImplementation
<1>1. IInv => NoStaleImplementation
  BY DEF IInv, ThreadOK, AnswerOK, NoStaleImplementation
<1> QED BY <1>1, CacheInvariance, PTL

\* CacheLookup reads allocated buckets only, collectNolock frees what is in no cache and
\* once, and cache_t::insert finds a slot, in tables that can be searched.
THEOREM MemoryIsSound == CacheSpec => []MemorySound
<1>1. IInv => MemorySound
  <2> SUFFICES ASSUME IInv PROVE MemorySound
    OBVIOUS
  <2>1. ReadsAllocated
    BY ReaderIn DEF ReadsAllocated
  <2>2. GarbageSound
    BY DEF IInv
  <2>3. CachesSound
    <3>1. \A i \in DOMAIN memory[emptyBuckets] : memory[emptyBuckets][i] = NoBucket
      BY DEF IInv, MasksFit
    <3>2. \A c, d \in Classes : c # d /\ cache[c].buckets = cache[d].buckets =>
            cache[c].buckets = emptyBuckets
      BY DEF IInv, MasksFit
    <3>3. ASSUME NEW c \in Classes
          PROVE  LET b == memory[cache[c].buckets]
                     full == {i \in DOMAIN b : b[i] # NoBucket}
                 IN /\ cache[c].occupied = Cardinality(full)
                    /\ \A i, j \in full : b[i].sel = b[j].sel => i = j
                    /\ \A i \in full : Reachable(c, i)
      <4>1. TableOK(c)
        BY DEF IInv
      <4> QED BY <4>1 DEF TableOK, Table, Full
    <3>4. \A t \in Threads : At(t, "insert") => Usable(call[t].cls, call[t].sel) # {}
      BY DEF IInv, ThreadOK, FillOK, Filling, At
    <3> QED BY <3>1, <3>2, <3>3, <3>4 DEF CachesSound
  <2> QED BY <2>1, <2>2, <2>3 DEF MemorySound
<1> QED BY <1>1, CacheInvariance, PTL

\* lookUpImpOrForward answers with forwarding only when the class's resolver has nothing
\* to add: no forward:: entry of a cache is taken for the end of a search.
THEOREM ResolverIsAsked == CacheSpec => []ForwardedOnlyUnresolved
<1>1. IInv => ForwardedOnlyUnresolved
  BY DEF IInv, ThreadOK, AnswerOK, ForwardedOnlyUnresolved
<1> QED BY <1>1, CacheInvariance, PTL
=============================================================================
