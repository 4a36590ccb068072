----------------------- MODULE AssociatedObjectsProofs -----------------------
(***************************************************************************)
(* Every reference to an associated value is released once, and no         *)
(* association outlives its object: theorems about AssociatedObjects for   *)
(* any threads, keys and values.                                           *)
(***************************************************************************)
EXTENDS AssociatedObjects, FiniteSetTheorems, TLAPS

Association == [key : Keys, value : Values \cup {nil}, policy : Policies]
Thread == [pc : {"idle", "set", "first", "release"}, new : Association \cup {nil},
           pending : Seq(Association), mine : SUBSET Values, pool : Seq(Values)]

\* Types of everything that AssociatedObjects keeps.
AssocTypeOK ==
  /\ refs \in UNION {[A -> Association] : A \in SUBSET Keys}
  /\ has_assoc \in BOOLEAN
  /\ dealloc \in {"no", "begun"}
  /\ rc \in [Values -> Int]
  /\ th \in [Threads -> Thread]
  /\ released \in Seq(Keys)

\* the table is a map from keys to values
TableOK == \A k \in DOMAIN refs : refs[k].key = k /\ refs[k].value # nil

\* what is pending is released before the thread calls again, nobody sets an
\* association of an object that is deallocated, and bounds are kept
ThreadOK(t) ==
  /\ th[t].pc = "set" => th[t].new \in Association
  /\ th[t].pending # <<>> => th[t].pc \in {"first", "release"}
  /\ dealloc = "begun" => th[t].pc \in {"idle", "release"}
  /\ Len(th[t].pending) <= Cardinality(Keys) /\ Len(th[t].pool) <= MaxPool

\* an object with associations is marked, or will be by whoever made the first
Marked ==
  DOMAIN refs # {} =>
    dealloc = "no" /\ (has_assoc \/ \E t \in Threads : th[t].pc = "first")

Later(a) == a.key \in SystemKeys

\* one thread releases what -dealloc took out, the system's associations last
InOrder ==
  /\ dealloc = "no" => released = <<>>
  /\ \A i, j \in DOMAIN released :
       i < j /\ released[i] \in SystemKeys => released[j] \in SystemKeys
  /\ dealloc = "begun" =>
       /\ \A t, u \in Threads : th[t].pending # <<>> /\ th[u].pending # <<>> => t = u
       /\ \A t \in Threads : \A i, j \in DOMAIN th[t].pending :
            i < j /\ Later(th[t].pending[i]) => Later(th[t].pending[j])
       /\ (\E i \in DOMAIN released : released[i] \in SystemKeys) =>
            \A t \in Threads : \A j \in DOMAIN th[t].pending : Later(th[t].pending[j])

\* The inductive invariant.
IInv ==
  /\ AssocTypeOK /\ TableOK /\ Marked /\ InOrder
  /\ \A t \in Threads : ThreadOK(t)
  /\ ReferencesExact

-----------------------------------------------------------------------------
(* Sequences, finite sets and what is counted.                             *)

\* A sequence of a finite set's elements has each of them once.
LEMMA SeqsOfSet ==
  ASSUME NEW S, IsFiniteSet(S), NEW s \in SetToSeqs(S)
  PROVE  /\ s \in Seq(S) /\ Len(s) = Cardinality(S)
         /\ \A i, j \in DOMAIN s : i # j => s[i] # s[j]
         /\ \A x \in S : \E i \in DOMAIN s : s[i] = x
<1> DEFINE D == 1 .. Cardinality(S)
<1>1. Cardinality(S) \in Nat
  BY FS_CardinalityType
<1>2. s \in [D -> S] /\ \A i, j \in D : i # j => s[i] # s[j]
  BY DEF SetToSeqs
<1>3. s \in Seq(S) /\ Len(s) = Cardinality(S) /\ DOMAIN s = D
  BY <1>1, <1>2
<1>4. s \in Injection(D, S)
  BY <1>2 DEF Injection, IsInjective
<1>5. Cardinality(D) = Cardinality(S)
  BY <1>1, FS_Interval, SMT
<1>6. s \in Surjection(D, S)
  <2> HIDE DEF D
  <2> QED BY <1>4, <1>5, FS_Injection
<1>7. \A x \in S : \E i \in D : s[i] = x
  BY <1>6 DEF Surjection
<1> QED BY <1>2, <1>3, <1>7

\* A part of the table, as a set of associations.
LEMMA Associations ==
  ASSUME NEW f, NEW D \in SUBSET Keys, D \subseteq DOMAIN f
  PROVE  /\ IsFiniteSet(D) /\ IsFiniteSet({f[k] : k \in D})
         /\ Cardinality({f[k] : k \in D}) <= Cardinality(D)
         /\ Cardinality(D) <= Cardinality(Keys)
         /\ Cardinality(D) \in Nat /\ Cardinality(Keys) \in Nat
<1> DEFINE T == {f[k] : k \in D}
           g == [k \in D |-> f[k]]
<1>1. IsFiniteSet(D) /\ Cardinality(D) <= Cardinality(Keys)
  BY FS_Subset, AssociatedObjectsAssumption
<1>2. g \in Surjection(D, T)
  BY DEF Surjection
<1>3. IsFiniteSet(T) /\ Cardinality(T) <= Cardinality(D)
  <2> HIDE DEF T, g
  <2> QED BY <1>1, <1>2, FS_Surjection
<1> QED BY <1>1, <1>3, FS_CardinalityType, AssociatedObjectsAssumption

\* What is counted is finite.
LEMMA Counted ==
  ASSUME AssocTypeOK, NEW v
  PROVE  /\ IsFiniteSet(Owners(v)) /\ IsFiniteSet(Setting(v))
         /\ IsFiniteSet(Autoreleased(v)) /\ IsFiniteSet(TakenOut(v))
         /\ IsFiniteSet(InTable(v))
         /\ Cardinality(Owners(v)) \in Nat /\ Cardinality(Setting(v)) \in Nat
         /\ Cardinality(Autoreleased(v)) \in Nat /\ Cardinality(TakenOut(v)) \in Nat
         /\ Cardinality(InTable(v)) \in Nat
<1>1. IsFiniteSet(Threads) /\ IsFiniteSet(Keys) /\ MaxPool \in Nat /\ Cardinality(Keys) \in Nat
  BY AssociatedObjectsAssumption, FS_CardinalityType
<1>2. IsFiniteSet(1 .. MaxPool) /\ IsFiniteSet(1 .. Cardinality(Keys))
  BY <1>1, FS_Interval
<1>3. IsFiniteSet(Threads \X (1 .. MaxPool)) /\ IsFiniteSet(Threads \X (1 .. Cardinality(Keys)))
  BY <1>1, <1>2, FS_Product
<1>4. DOMAIN refs \subseteq Keys
  BY DEF AssocTypeOK
<1>5. /\ Owners(v) \subseteq Threads /\ Setting(v) \subseteq Threads
      /\ Autoreleased(v) \subseteq Threads \X (1 .. MaxPool)
      /\ TakenOut(v) \subseteq Threads \X (1 .. Cardinality(Keys))
      /\ InTable(v) \subseteq Keys
  BY <1>4 DEF Owners, Setting, Autoreleased, TakenOut, InTable
<1>6. /\ IsFiniteSet(Owners(v)) /\ IsFiniteSet(Setting(v))
      /\ IsFiniteSet(Autoreleased(v)) /\ IsFiniteSet(TakenOut(v))
      /\ IsFiniteSet(InTable(v))
  BY <1>1, <1>3, <1>5, FS_Subset
<1> QED BY <1>6, FS_CardinalityType

\* the change of a count, by what may be one of the things counted
One(b) == IF b THEN 1 ELSE 0

Same(v, w) == IF v = w THEN 1 ELSE 0

LEMMA Plus ==
  ASSUME NEW S, NEW x, x \notin S, IsFiniteSet(S), NEW b \in BOOLEAN,
         NEW T, T = IF b THEN S \cup {x} ELSE S
  PROVE  Cardinality(T) = Cardinality(S) + One(b)
<1>1. CASE b
  BY <1>1, FS_AddElement DEF One
<1>2. CASE ~b
  BY <1>2, FS_CardinalityType DEF One
<1> QED BY <1>1, <1>2

LEMMA Minus ==
  ASSUME NEW S, NEW x, IsFiniteSet(S), NEW b \in BOOLEAN, b <=> x \in S,
         NEW T, T = S \ {x}
  PROVE  Cardinality(T) = Cardinality(S) - One(b)
<1>1. CASE b
  BY <1>1, FS_RemoveElement DEF One
<1>2. CASE ~b
  BY <1>2, FS_RemoveElement, FS_CardinalityType DEF One
<1> QED BY <1>1, <1>2

LEMMA Apart ==
  ASSUME NEW S, NEW T, NEW U, IsFiniteSet(S), IsFiniteSet(T), S \cap T = {}, U = S \cup T
  PROVE  /\ Cardinality(U) = Cardinality(S) + Cardinality(T)
         /\ Cardinality(S) \in Nat /\ Cardinality(T) \in Nat
<1>1. Cardinality(U) = Cardinality(S) + Cardinality(T) - Cardinality(S \cap T)
  BY FS_Union
<1>2. Cardinality(S \cap T) = 0 /\ Cardinality(S) \in Nat /\ Cardinality(T) \in Nat
  BY FS_EmptySet, FS_CardinalityType
<1> QED BY <1>1, <1>2

-----------------------------------------------------------------------------
(* What a step of one thread changes of what is counted.                   *)

LEMMA MineKept ==
  ASSUME NEW t \in Threads, NEW n \in Thread, AssocTypeOK,
         th' = [th EXCEPT ![t] = n], n.mine = th[t].mine, NEW v
  PROVE  Owners(v)' = Owners(v)
BY DEF AssocTypeOK, Owners

LEMMA SettingKept ==
  ASSUME NEW t \in Threads, NEW n \in Thread, AssocTypeOK,
         th' = [th EXCEPT ![t] = n], n.pc # "set", th[t].pc # "set", NEW v
  PROVE  Setting(v)' = Setting(v)
BY DEF AssocTypeOK, Setting

LEMMA PoolKept ==
  ASSUME NEW t \in Threads, NEW n \in Thread, AssocTypeOK,
         th' = [th EXCEPT ![t] = n], n.pool = th[t].pool, NEW v
  PROVE  Autoreleased(v)' = Autoreleased(v)
BY DEF AssocTypeOK, Autoreleased

LEMMA PendingKept ==
  ASSUME NEW t \in Threads, NEW n \in Thread, AssocTypeOK,
         th' = [th EXCEPT ![t] = n], n.pending = th[t].pending, NEW v
  PROVE  TakenOut(v)' = TakenOut(v)
BY DEF AssocTypeOK, TakenOut

\* A thread gives up its own reference.
LEMMA MineLost ==
  ASSUME NEW t \in Threads, NEW n \in Thread, AssocTypeOK, NEW w, w \in th[t].mine,
         th' = [th EXCEPT ![t] = n], n.mine = th[t].mine \ {w}, NEW v
  PROVE  Cardinality(Owners(v)') = Cardinality(Owners(v)) - Same(v, w)
<1>1. IsFiniteSet(Owners(v))
  BY Counted
<1>2. CASE v = w
  <2>1. t \in Owners(v) /\ Owners(v)' = Owners(v) \ {t}
    BY <1>2 DEF AssocTypeOK, Owners
  <2> QED BY <1>1, <1>2, <2>1, FS_RemoveElement DEF Same
<1>3. CASE v # w
  <2>1. Owners(v)' = Owners(v)
    BY <1>3 DEF AssocTypeOK, Owners
  <2> QED BY <1>3, <2>1, Counted DEF Same
<1> QED BY <1>2, <1>3

\* A call begins, or ends, to make an association.
LEMMA SettingBegun ==
  ASSUME NEW t \in Threads, NEW n \in Thread, AssocTypeOK,
         th' = [th EXCEPT ![t] = n], th[t].pc # "set", n.pc = "set", NEW v
  PROVE  Cardinality(Setting(v)') = Cardinality(Setting(v)) + One(Holds(n.new, v))
<1>1. t \notin Setting(v) /\ IsFiniteSet(Setting(v))
  BY Counted DEF Setting
<1>2. Setting(v)' = IF Holds(n.new, v) THEN Setting(v) \cup {t} ELSE Setting(v)
  BY DEF AssocTypeOK, Setting
<1>3. Holds(n.new, v) \in BOOLEAN
  BY DEF Holds, Retained
<1> QED BY <1>1, <1>2, <1>3, Plus

LEMMA SettingEnded ==
  ASSUME NEW t \in Threads, NEW n \in Thread, AssocTypeOK,
         th' = [th EXCEPT ![t] = n], th[t].pc = "set", n.pc # "set", NEW v
  PROVE  Cardinality(Setting(v)') = Cardinality(Setting(v)) - One(Holds(th[t].new, v))
<1>1. IsFiniteSet(Setting(v)) /\ (t \in Setting(v) <=> Holds(th[t].new, v))
  BY Counted DEF Setting
<1>2. Setting(v)' = Setting(v) \ {t}
  BY DEF AssocTypeOK, Setting
<1>3. Holds(th[t].new, v) \in BOOLEAN
  BY DEF Holds, Retained
<1> QED BY <1>1, <1>2, <1>3, Minus

\* A pool gets a reference, or lets go the last it got.
LEMMA PoolGrows ==
  ASSUME NEW t \in Threads, NEW n \in Thread, AssocTypeOK, NEW w \in Values,
         th' = [th EXCEPT ![t] = n], n.pool = Append(th[t].pool, w),
         Len(th[t].pool) < MaxPool, NEW v
  PROVE  Cardinality(Autoreleased(v)') = Cardinality(Autoreleased(v)) + Same(v, w)
<1> DEFINE l == Len(th[t].pool)
           p == <<t, l + 1>>
<1>1. MaxPool \in Nat /\ l \in Nat /\ th[t].pool \in Seq(Values)
  BY AssociatedObjectsAssumption DEF AssocTypeOK, Thread
<1>2. p \in Threads \X (1 .. MaxPool)
  BY <1>1
<1>3. p \notin Autoreleased(v) /\ IsFiniteSet(Autoreleased(v))
  <2>1. l + 1 \notin DOMAIN th[t].pool
    BY <1>1
  <2>2. p[1] = t /\ p[2] = l + 1
    OBVIOUS
  <2> HIDE DEF p, l
  <2> QED BY <2>1, <2>2, Counted DEF Autoreleased
<1>4. /\ DOMAIN n.pool = 1 .. l + 1 /\ n.pool[l + 1] = w
      /\ \A i \in 1 .. l : n.pool[i] = th[t].pool[i]
      /\ DOMAIN th[t].pool = 1 .. l
  BY <1>1
<1>5. Autoreleased(v)' = IF v = w THEN Autoreleased(v) \cup {p} ELSE Autoreleased(v)
  <2>1. /\ th'[t] = n /\ \A u \in Threads : u # t => th'[u] = th[u]
    BY DEF AssocTypeOK
  <2>2. ASSUME NEW q \in Threads \X (1 .. MaxPool)
        PROVE  q \in Autoreleased(v)' <=> q \in Autoreleased(v) \/ (v = w /\ q = p)
    <3>1. CASE q[1] = t
      <4>1. q = <<t, q[2]>> /\ q[2] \in 1 .. MaxPool
        BY <3>1, <1>1
      <4>2. q \in Autoreleased(v) <=> q[2] \in 1 .. l /\ th[t].pool[q[2]] = v
        BY <1>4, <3>1 DEF Autoreleased
      <4>3. q \in Autoreleased(v)' <=> q[2] \in 1 .. l + 1 /\ n.pool[q[2]] = v
        BY <1>4, <2>1, <3>1 DEF Autoreleased
      <4>4. q = p <=> q[2] = l + 1
        BY <4>1
      <4>5. q[2] \in 1 .. l + 1 <=> q[2] \in 1 .. l \/ q[2] = l + 1
        BY <1>1, <4>1
      <4> HIDE DEF l, p
      <4> QED BY <1>1, <1>4, <4>2, <4>3, <4>4, <4>5
    <3>2. CASE q[1] # t
      BY <2>1, <3>2 DEF Autoreleased
    <3> QED BY <3>1, <3>2
  <2> QED BY <2>2, <1>2 DEF Autoreleased
<1> HIDE DEF p
<1> QED
  <2>1. Cardinality(Autoreleased(v)') = Cardinality(Autoreleased(v)) + One(v = w)
    BY <1>3, <1>5, Plus
  <2> QED BY <2>1, Zenon DEF One, Same

LEMMA PoolShrinks ==
  ASSUME NEW t \in Threads, NEW n \in Thread, AssocTypeOK, th[t].pool # <<>>,
         th' = [th EXCEPT ![t] = n], n.pool = Front(th[t].pool),
         Len(th[t].pool) <= MaxPool, NEW v
  PROVE  Cardinality(Autoreleased(v)') = Cardinality(Autoreleased(v)) - Same(v, Last(th[t].pool))
<1> DEFINE l == Len(th[t].pool)
           p == <<t, l>>
<1>1. MaxPool \in Nat /\ l \in Nat /\ l > 0 /\ th[t].pool \in Seq(Values)
  BY AssociatedObjectsAssumption DEF AssocTypeOK, Thread
<1>2. p \in Threads \X (1 .. MaxPool)
  BY <1>1
<1>3. DOMAIN th[t].pool = 1 .. l /\ Last(th[t].pool) = th[t].pool[l]
  BY <1>1 DEF Last
<1>4. (v = Last(th[t].pool) <=> p \in Autoreleased(v)) /\ IsFiniteSet(Autoreleased(v))
  <2>1. l \in DOMAIN th[t].pool /\ p[1] = t /\ p[2] = l
    BY <1>1
  <2> HIDE DEF p, l
  <2> QED BY <1>2, <1>3, <2>1, Counted DEF Autoreleased
<1>5. /\ DOMAIN n.pool = 1 .. l - 1
      /\ \A i \in 1 .. l - 1 : n.pool[i] = th[t].pool[i]
  BY <1>1 DEF Front
<1>6. Autoreleased(v)' = Autoreleased(v) \ {p}
  <2>1. /\ th'[t] = n /\ \A u \in Threads : u # t => th'[u] = th[u]
    BY DEF AssocTypeOK
  <2>2. ASSUME NEW q \in Threads \X (1 .. MaxPool)
        PROVE  q \in Autoreleased(v)' <=> q \in Autoreleased(v) /\ q # p
    <3>1. CASE q[1] = t
      <4>1. q = <<t, q[2]>> /\ q[2] \in 1 .. MaxPool
        BY <3>1, <1>1
      <4>2. q \in Autoreleased(v) <=> q[2] \in 1 .. l /\ th[t].pool[q[2]] = v
        BY <1>3, <3>1 DEF Autoreleased
      <4>3. q \in Autoreleased(v)' <=> q[2] \in 1 .. l - 1 /\ n.pool[q[2]] = v
        BY <1>5, <2>1, <3>1 DEF Autoreleased
      <4>4. q = p <=> q[2] = l
        BY <4>1
      <4>5. q[2] \in 1 .. l - 1 <=> q[2] \in 1 .. l /\ q[2] # l
        BY <1>1, <4>1
      <4> HIDE DEF l, p
      <4> QED BY <1>5, <4>2, <4>3, <4>4, <4>5
    <3>2. CASE q[1] # t
      BY <2>1, <3>2 DEF Autoreleased
    <3> QED BY <3>1, <3>2
  <2> QED BY <2>2, <1>2 DEF Autoreleased
<1> HIDE DEF p, l
<1> QED
  <2>1. CASE v = Last(th[t].pool)
    <3>1. Cardinality(Autoreleased(v) \ {p}) = Cardinality(Autoreleased(v)) - 1
      BY <1>4, <2>1, FS_RemoveElement
    <3> QED BY <1>6, <2>1, <3>1 DEF Same
  <2>2. CASE v # Last(th[t].pool)
    <3>1. Autoreleased(v)' = Autoreleased(v)
      BY <1>4, <1>6, <2>2
    <3> QED BY <2>2, <3>1, Counted DEF Same
  <2> QED BY <2>1, <2>2

\* The next association that was taken out is let go; the others move up by one.
LEMMA PendingShrinks ==
  ASSUME NEW t \in Threads, NEW n \in Thread, AssocTypeOK, th[t].pending # <<>>,
         th' = [th EXCEPT ![t] = n], n.pending = Tail(th[t].pending),
         Len(th[t].pending) <= Cardinality(Keys), NEW v
  PROVE  Cardinality(TakenOut(v)') = Cardinality(TakenOut(v)) - One(Holds(Head(th[t].pending), v))
<1> DEFINE s == th[t].pending
           l == Len(s)
           p == <<t, 1>>
           R == TakenOut(v) \ {p}
           g == [q \in R |-> IF q[1] = t THEN <<t, q[2] - 1>> ELSE q]
           N == Cardinality(Keys)
<1>1. N \in Nat /\ l \in Nat /\ l > 0 /\ l <= N /\ s \in Seq(Association)
  BY AssociatedObjectsAssumption, FS_CardinalityType DEF AssocTypeOK, Thread
<1>2. /\ DOMAIN s = 1 .. l /\ Head(s) = s[1]
      /\ DOMAIN n.pending = 1 .. l - 1
      /\ \A i \in 1 .. l - 1 : n.pending[i] = s[i + 1]
  BY <1>1
<1>3. th'[t] = n /\ \A u \in Threads : u # t => th'[u] = th[u]
  BY DEF AssocTypeOK
<1>4. IsFiniteSet(TakenOut(v)) /\ IsFiniteSet(R)
  BY Counted, FS_RemoveElement
<1>5. Holds(Head(s), v) <=> p \in TakenOut(v)
  <2>1. p \in Threads \X (1 .. N) /\ p[1] = t /\ p[2] = 1 /\ 1 \in DOMAIN s
    BY <1>1, <1>2
  <2> HIDE DEF p
  <2> QED BY <2>1, <1>2 DEF TakenOut
<1>6. \A q : q \in TakenOut(v) <=>
        q \in Threads \X (1 .. N) /\ q[2] \in DOMAIN th[q[1]].pending /\ Holds(th[q[1]].pending[q[2]], v)
  BY DEF TakenOut
<1>7. \A q : q \in TakenOut(v)' <=>
        q \in Threads \X (1 .. N) /\ q[2] \in DOMAIN th'[q[1]].pending /\ Holds(th'[q[1]].pending[q[2]], v)
  BY DEF TakenOut, Holds, Retained
<1>8. ASSUME NEW q \in R
      PROVE  g[q] \in TakenOut(v)'
  <2>0. q = <<q[1], q[2]>> /\ q[1] \in Threads /\ q[2] \in 1 .. N
    BY <1>6
  <2>1. CASE q[1] = t
    <3>1. q[2] \in 2 .. l /\ Holds(s[q[2]], v)
      BY <1>1, <1>2, <1>6, <2>0, <2>1
    <3>2. g[q] = <<t, q[2] - 1>> /\ q[2] - 1 \in 1 .. l - 1 /\ q[2] - 1 \in 1 .. N
      BY <2>1, <3>1, <1>1
    <3>3. n.pending[q[2] - 1] = s[q[2]]
      BY <1>2, <3>1, <3>2
    <3> QED
      <4> DEFINE j == q[2] - 1
      <4>1. g[q][1] = t /\ g[q][2] = j /\ g[q] \in Threads \X (1 .. N)
        BY <3>2
      <4>2. th'[g[q][1]] = n /\ g[q][2] \in DOMAIN n.pending /\ n.pending[g[q][2]] = s[q[2]]
        BY <1>2, <1>3, <3>2, <3>3, <4>1
      <4> HIDE DEF j, g, s, l, N
      <4> QED BY <1>7, <3>1, <4>1, <4>2
  <2>2. CASE q[1] # t
    <3>1. g[q] = q
      BY <2>2
    <3> HIDE DEF g
    <3> QED BY <1>3, <1>6, <1>7, <2>0, <2>2, <3>1
  <2> QED BY <2>1, <2>2
<1>9. ASSUME NEW q \in R, NEW r \in R, g[q] = g[r]
      PROVE  q = r
  <2>1. /\ q = <<q[1], q[2]>> /\ q[2] \in Nat
        /\ r = <<r[1], r[2]>> /\ r[2] \in Nat
    BY <1>6, <1>1
  <2>2. g[q] = (IF q[1] = t THEN <<t, q[2] - 1>> ELSE q) /\ g[r] = (IF r[1] = t THEN <<t, r[2] - 1>> ELSE r)
    OBVIOUS
  <2> HIDE DEF R, g
  <2>3. CASE q[1] = t /\ r[1] = t
    <3>1. g[q] = <<t, q[2] - 1>> /\ g[r] = <<t, r[2] - 1>>
      BY <2>2, <2>3
    <3>2. <<t, q[2] - 1>> = <<t, r[2] - 1>>
      BY <1>9, <3>1
    <3>3. q[2] - 1 = r[2] - 1
      BY <3>2
    <3> QED BY <2>1, <2>3, <3>3
  <2>4. CASE q[1] # t /\ r[1] # t
    BY <1>9, <2>2, <2>4
  <2>5. CASE q[1] = t /\ r[1] # t
    <3>1. g[q] = <<t, q[2] - 1>> /\ g[r] = r
      BY <2>2, <2>5
    <3>2. <<t, q[2] - 1>> = <<r[1], r[2]>>
      BY <1>9, <2>1, <3>1
    <3> QED BY <2>5, <3>2
  <2>6. CASE q[1] # t /\ r[1] = t
    <3>1. g[r] = <<t, r[2] - 1>> /\ g[q] = q
      BY <2>2, <2>6
    <3>2. <<t, r[2] - 1>> = <<q[1], q[2]>>
      BY <1>9, <2>1, <3>1
    <3> QED BY <2>6, <3>2
  <2> QED BY <2>3, <2>4, <2>5, <2>6
<1>10. ASSUME NEW r \in TakenOut(v)'
       PROVE  \E q \in R : g[q] = r
  <2>0. r = <<r[1], r[2]>> /\ r[1] \in Threads /\ r[2] \in 1 .. N
    BY <1>7
  <2>1. CASE r[1] = t
    <3>1. r[2] \in 1 .. l - 1 /\ Holds(s[r[2] + 1], v)
      <4>1. r[2] \in DOMAIN n.pending /\ Holds(n.pending[r[2]], v)
        BY <1>3, <1>7, <2>1
      <4> HIDE DEF s, l
      <4> QED BY <1>2, <4>1
    <3> DEFINE q == <<t, r[2] + 1>>
    <3>2. q[1] = t /\ q[2] = r[2] + 1 /\ q \in Threads \X (1 .. N) /\ q[2] \in DOMAIN s /\ q # p
      BY <1>1, <1>2, <3>1, <2>0
    <3>3. q \in R
      <4> HIDE DEF q, p
      <4> QED BY <1>6, <3>1, <3>2
    <3>4. g[q] = r
      BY <3>3, <2>0, <2>1
    <3> QED BY <3>3, <3>4
  <2>2. CASE r[1] # t
    <3>1. r \in R
      BY <1>3, <1>6, <1>7, <2>0, <2>2
    <3>2. g[r] = r
      BY <2>2, <3>1
    <3> QED BY <3>1, <3>2
  <2> QED BY <2>1, <2>2
<1>11. g \in Bijection(R, TakenOut(v)')
  <2>1. g \in [R -> TakenOut(v)']
    BY <1>8
  <2> HIDE DEF g, R
  <2> QED BY <1>9, <1>10, <2>1 DEF Bijection, Injection, Surjection, IsInjective
<1>12. Cardinality(TakenOut(v)') = Cardinality(R)
  <2> HIDE DEF g, R
  <2> QED BY <1>4, <1>11, FS_Bijection DEF ExistsBijection
<1>13. Holds(Head(s), v) \in BOOLEAN
  BY DEF Holds, Retained
<1> HIDE DEF s, p
<1> QED BY <1>4, <1>5, <1>12, <1>13, Minus DEF s

\* associations that are taken out, each once
Lists(s, K) ==
  /\ s \in Seq(Association) /\ Len(s) <= Cardinality(Keys)
  /\ \A i \in DOMAIN s : s[i].key \in K /\ s[i] = refs[s[i].key]
  /\ \A i, j \in DOMAIN s : i # j => s[i] # s[j]
  /\ \A k \in K : \E i \in DOMAIN s : s[i] = refs[k]
Among(K, v) == {k \in K : Holds(refs[k], v)}

LEMMA PendingFilled ==
  ASSUME NEW t \in Threads, NEW n \in Thread, AssocTypeOK, TableOK, th[t].pending = <<>>,
         th' = [th EXCEPT ![t] = n], NEW K \in SUBSET DOMAIN refs, Lists(n.pending, K), NEW v
  PROVE  Cardinality(TakenOut(v)') = Cardinality(TakenOut(v)) + Cardinality(Among(K, v))
<1> DEFINE s == n.pending
           N == Cardinality(Keys)
           B == {q \in {t} \X (1 .. N) : q[2] \in DOMAIN s /\ Holds(s[q[2]], v)}
           g == [q \in B |-> s[q[2]].key]
<1>1. N \in Nat /\ Len(s) \in Nat /\ Len(s) <= N /\ DOMAIN s = 1 .. Len(s)
  BY AssociatedObjectsAssumption, FS_CardinalityType DEF Lists
<1>2. th'[t] = n /\ \A u \in Threads : u # t => th'[u] = th[u]
  BY DEF AssocTypeOK
<1>3. TakenOut(v)' = TakenOut(v) \cup B /\ TakenOut(v) \cap B = {}
  <2>1. DOMAIN th[t].pending = {}
    OBVIOUS
  <2>2. ASSUME NEW q
        PROVE  /\ q \in TakenOut(v)' <=> q \in TakenOut(v) \/ q \in B
               /\ ~(q \in TakenOut(v) /\ q \in B)
    <3>1. CASE q[1] = t
      BY <1>2, <2>1, <3>1 DEF TakenOut, Holds, Retained
    <3>2. CASE q[1] # t
      BY <1>2, <3>2 DEF TakenOut, Holds, Retained
    <3> QED BY <3>1, <3>2
  <2> HIDE DEF B
  <2> QED BY <2>2
<1>4. IsFiniteSet(B)
  <2>1. IsFiniteSet({t}) /\ IsFiniteSet(1 .. N)
    <3>1. IsFiniteSet({t})
      BY FS_Singleton
    <3> QED BY <1>1, <3>1, FS_Interval
  <2>2. IsFiniteSet({t} \X (1 .. N))
    BY <2>1, FS_Product
  <2> QED BY <2>2, FS_Subset
<1>5. g \in Bijection(B, Among(K, v))
  <2>1. ASSUME NEW q \in B PROVE g[q] \in Among(K, v) /\ q = <<t, q[2]>> /\ q[2] \in DOMAIN s /\ s[q[2]] = refs[g[q]]
    BY DEF Lists, Among
  <2>2. ASSUME NEW q \in B, NEW r \in B, g[q] = g[r] PROVE q = r
    <3> HIDE DEF B, g
    <3> QED BY <2>1, <2>2 DEF Lists
  <2>3. ASSUME NEW k \in Among(K, v) PROVE \E q \in B : g[q] = k
    <3>1. PICK i \in DOMAIN s : s[i] = refs[k]
      BY DEF Lists, Among
    <3>2. <<t, i>> \in B /\ refs[k].key = k
      BY <1>1, <3>1 DEF Among, TableOK
    <3>3. g[<<t, i>>] = k
      BY <3>1, <3>2
    <3> QED BY <3>2, <3>3
  <2>4. g \in [B -> Among(K, v)]
    BY <2>1
  <2> HIDE DEF B, g
  <2> QED BY <2>2, <2>3, <2>4 DEF Bijection, Injection, Surjection, IsInjective
<1>6. Cardinality(Among(K, v)) = Cardinality(B) /\ Cardinality(B) \in Nat
  <2> HIDE DEF B, g
  <2> QED BY <1>4, <1>5, FS_Bijection, FS_CardinalityType DEF ExistsBijection
<1> HIDE DEF B
<1> QED BY <1>3, <1>4, <1>6, Apart, Counted

LEMMA AmongCounted ==
  ASSUME AssocTypeOK, NEW K \in SUBSET DOMAIN refs, NEW v
  PROVE  IsFiniteSet(Among(K, v)) /\ Cardinality(Among(K, v)) \in Nat
<1>1. Among(K, v) \subseteq InTable(v)
  BY DEF Among, InTable
<1> QED BY <1>1, Counted, FS_Subset, FS_CardinalityType

LEMMA TableErased ==
  ASSUME AssocTypeOK, NEW K \in SUBSET DOMAIN refs, refs' = Erased(refs, K), NEW v
  PROVE  Cardinality(InTable(v)') = Cardinality(InTable(v)) - Cardinality(Among(K, v))
<1>1. InTable(v)' \cup Among(K, v) = InTable(v) /\ InTable(v)' \cap Among(K, v) = {}
  BY DEF InTable, Among, Erased, Holds, Retained
<1>2. IsFiniteSet(InTable(v)')
  BY <1>1, Counted, FS_Subset
<1>3. IsFiniteSet(Among(K, v))
  BY AmongCounted
<1>4. Cardinality(InTable(v)) = Cardinality(InTable(v)') + Cardinality(Among(K, v))
  BY <1>1, <1>2, <1>3, Apart
<1> QED BY <1>2, <1>3, <1>4, FS_CardinalityType

LEMMA TableSet ==
  ASSUME AssocTypeOK, NEW k \in Keys, NEW a \in Association, NEW v,
         refs' = [x \in DOMAIN refs \cup {k} |-> IF x = k THEN a ELSE refs[x]]
  PROVE  Cardinality(InTable(v)') =
           Cardinality(InTable(v)) - Cardinality(Among({k} \cap DOMAIN refs, v)) + One(Holds(a, v))
<1> DEFINE A == Among({k} \cap DOMAIN refs, v)
           R == InTable(v) \ {k}
<1>1. R \cup A = InTable(v) /\ R \cap A = {}
  BY DEF InTable, Among
<1>2. IsFiniteSet(R) /\ IsFiniteSet(A) /\ k \notin R
  BY AmongCounted, Counted, FS_RemoveElement
<1>3. Cardinality(InTable(v)) = Cardinality(R) + Cardinality(A)
  <2> HIDE DEF R, A
  <2> QED BY <1>1, <1>2, Apart
<1>4. InTable(v)' = IF Holds(a, v) THEN R \cup {k} ELSE R
  <2>1. DOMAIN refs' = DOMAIN refs \cup {k} /\ refs'[k] = a /\ \A x \in DOMAIN refs : x # k => refs'[x] = refs[x]
    OBVIOUS
  <2>2. InTable(v)' = {x \in DOMAIN refs' : Holds(refs'[x], v)}
    BY DEF InTable, Holds, Retained
  <2> HIDE DEF Holds
  <2> QED BY <2>1, <2>2 DEF InTable
<1>5. Holds(a, v) \in BOOLEAN
  BY DEF Holds, Retained
<1>6. Cardinality(InTable(v)') = Cardinality(R) + One(Holds(a, v))
  <2> HIDE DEF R
  <2> QED BY <1>2, <1>4, <1>5, Plus
<1>7. Cardinality(R) \in Nat /\ Cardinality(A) \in Nat /\ One(Holds(a, v)) \in Nat
  BY <1>2, FS_CardinalityType DEF One
<1> QED BY <1>3, <1>6, <1>7

-----------------------------------------------------------------------------
(* What a step leaves to the other threads.                                *)

LEMMA ThreadsKept ==
  ASSUME AssocTypeOK, NEW t \in Threads, NEW n \in Thread, th' = [th EXCEPT ![t] = n],
         dealloc' = dealloc, \A u \in Threads : ThreadOK(u), ThreadOK(t)'
  PROVE  \A u \in Threads : ThreadOK(u)'
<1> SUFFICES ASSUME NEW u \in Threads, u # t PROVE ThreadOK(u)'
  OBVIOUS
<1>1. th'[u] = th[u]
  BY DEF AssocTypeOK
<1>2. ThreadOK(u)
  OBVIOUS
<1> QED BY <1>1, <1>2 DEF ThreadOK

LEMMA MarkedKept ==
  ASSUME AssocTypeOK, NEW t \in Threads, NEW n \in Thread, th' = [th EXCEPT ![t] = n],
         dealloc' = dealloc, has_assoc' = has_assoc, refs' = refs, Marked,
         th[t].pc = "first" => n.pc = "first"
  PROVE  Marked'
<1>1. \A u \in Threads : th[u].pc = "first" => th'[u].pc = "first"
  BY DEF AssocTypeOK
<1> QED BY <1>1 DEF Marked

LEMMA InOrderKept ==
  ASSUME AssocTypeOK, NEW t \in Threads, NEW n \in Thread, th' = [th EXCEPT ![t] = n],
         dealloc' = dealloc, released' = released, InOrder,
         dealloc = "begun" => n.pending = th[t].pending
  PROVE  InOrder'
<1>1. CASE dealloc = "no"
  BY <1>1 DEF InOrder
<1>2. CASE dealloc = "begun"
  <2>1. \A u \in Threads : th'[u].pending = th[u].pending
    BY <1>2 DEF AssocTypeOK
  <2> QED BY <1>2, <2>1 DEF InOrder, Later
<1> QED BY <1>1, <1>2 DEF AssocTypeOK

LEMMA Fields ==
  ASSUME AssocTypeOK, NEW t \in Threads
  PROVE  /\ th[t] \in Thread
         /\ th[t].pc \in {"idle", "set", "first", "release"}
         /\ th[t].new \in Association \cup {nil} /\ th[t].pending \in Seq(Association)
         /\ th[t].mine \in SUBSET Values /\ th[t].pool \in Seq(Values)
BY DEF AssocTypeOK, Thread

-----------------------------------------------------------------------------
(* The steps.                                                              *)

LEMMA ReleaseStep ==
  ASSUME IInv, NEW t \in Threads, NEW v \in Values, Release(t, v)
  PROVE  IInv'
<1> USE DEF IInv
<1>1. PICK n : n = [th[t] EXCEPT !.mine = @ \ {v}]
  OBVIOUS
<1>2. /\ n \in Thread /\ n.pc = "idle" /\ n.new = th[t].new /\ n.pending = th[t].pending
      /\ n.mine = th[t].mine \ {v} /\ n.pool = th[t].pool /\ th[t].pc = "idle"
  BY <1>1, Fields DEF Release, Thread
<1>3. th' = [th EXCEPT ![t] = n] /\ v \in th[t].mine
  BY <1>1 DEF Release, AssocTypeOK
<1>4. /\ rc' = [rc EXCEPT ![v] = @ + (-1)]
      /\ refs' = refs /\ has_assoc' = has_assoc /\ dealloc' = dealloc /\ released' = released
  BY DEF Release, Changed
<1>5. AssocTypeOK'
  BY <1>2, <1>3, <1>4 DEF AssocTypeOK
<1>6. ThreadOK(t)'
  <2>1. th'[t] = n
    BY <1>3 DEF AssocTypeOK
  <2> QED BY <1>2, <1>4, <2>1 DEF ThreadOK
<1>7. \A u \in Threads : ThreadOK(u)'
  BY <1>2, <1>3, <1>4, <1>6, ThreadsKept
<1>8. Marked' /\ InOrder'
  BY <1>2, <1>3, <1>4, MarkedKept, InOrderKept
<1>9. TableOK'
  BY <1>4 DEF TableOK
<1>10. ReferencesExact'
  <2> SUFFICES ASSUME NEW w \in Values
               PROVE  (rc[w] = Cardinality(Owners(w)) + Cardinality(Setting(w)) + Cardinality(Autoreleased(w))
                         + Cardinality(TakenOut(w)) + Cardinality(InTable(w)))'
    BY DEF ReferencesExact
  <2>1. Cardinality(Owners(w)') = Cardinality(Owners(w)) - Same(w, v)
    <3>1. v \in th[t].mine /\ n \in Thread /\ n.mine = th[t].mine \ {v} /\ AssocTypeOK
      BY <1>2, <1>3
    <3> QED BY <1>3, <3>1, MineLost
  <2>2. Setting(w)' = Setting(w) /\ Autoreleased(w)' = Autoreleased(w) /\ TakenOut(w)' = TakenOut(w)
    BY <1>2, <1>3, SettingKept, PoolKept, PendingKept
  <2>3. InTable(w)' = InTable(w)
    BY <1>4 DEF InTable
  <2>4. rc'[w] = rc[w] - Same(w, v)
    BY <1>4 DEF AssocTypeOK, Same
  <2> QED BY <2>1, <2>2, <2>3, <2>4, Counted DEF ReferencesExact, Same
<1> QED BY <1>5, <1>7, <1>8, <1>9, <1>10

LEMMA DrainStep ==
  ASSUME IInv, NEW t \in Threads, Drain(t)
  PROVE  IInv'
<1> USE DEF IInv
<1>1. PICK n : n = [th[t] EXCEPT !.pool = Front(@)]
  OBVIOUS
<1>2. /\ th[t].pool \in Seq(Values) /\ th[t].pool # <<>> /\ Len(th[t].pool) <= MaxPool
      /\ Front(th[t].pool) \in Seq(Values) /\ Len(Front(th[t].pool)) <= MaxPool
      /\ Last(th[t].pool) \in Values
  <2>1. th[t].pool \in Seq(Values) /\ th[t].pool # <<>> /\ Len(th[t].pool) <= MaxPool
    BY Fields DEF Drain, ThreadOK
  <2> QED BY <2>1, AssociatedObjectsAssumption DEF Front, Last
<1>3. /\ n \in Thread /\ n.pc = "idle" /\ n.new = th[t].new /\ n.pending = th[t].pending
      /\ n.mine = th[t].mine /\ n.pool = Front(th[t].pool) /\ th[t].pc = "idle"
  BY <1>1, <1>2, Fields DEF Drain, Thread
<1>4. th' = [th EXCEPT ![t] = n]
  BY <1>1 DEF Drain, AssocTypeOK
<1>5. /\ rc' = [rc EXCEPT ![Last(th[t].pool)] = @ + (-1)]
      /\ refs' = refs /\ has_assoc' = has_assoc /\ dealloc' = dealloc /\ released' = released
  BY DEF Drain, Changed
<1>6. AssocTypeOK'
  BY <1>2, <1>3, <1>4, <1>5 DEF AssocTypeOK
<1>7. ThreadOK(t)'
  <2>1. th'[t] = n
    BY <1>4 DEF AssocTypeOK
  <2> QED BY <1>2, <1>3, <1>5, <2>1 DEF ThreadOK
<1>8. \A u \in Threads : ThreadOK(u)'
  BY <1>3, <1>4, <1>5, <1>7, ThreadsKept
<1>9. Marked' /\ InOrder'
  BY <1>3, <1>4, <1>5, MarkedKept, InOrderKept
<1>10. TableOK'
  BY <1>5 DEF TableOK
<1>11. ReferencesExact'
  <2> SUFFICES ASSUME NEW w \in Values
               PROVE  (rc[w] = Cardinality(Owners(w)) + Cardinality(Setting(w)) + Cardinality(Autoreleased(w))
                         + Cardinality(TakenOut(w)) + Cardinality(InTable(w)))'
    BY DEF ReferencesExact
  <2>1. Cardinality(Autoreleased(w)') = Cardinality(Autoreleased(w)) - Same(w, Last(th[t].pool))
    BY <1>2, <1>3, <1>4, PoolShrinks
  <2>2. Setting(w)' = Setting(w) /\ Owners(w)' = Owners(w) /\ TakenOut(w)' = TakenOut(w)
    BY <1>3, <1>4, SettingKept, MineKept, PendingKept
  <2>3. InTable(w)' = InTable(w)
    BY <1>5 DEF InTable
  <2>4. rc'[w] = rc[w] - Same(w, Last(th[t].pool))
    BY <1>2, <1>5 DEF AssocTypeOK, Same
  <2> QED BY <2>1, <2>2, <2>3, <2>4, Counted DEF ReferencesExact, Same
<1> QED BY <1>6, <1>8, <1>9, <1>10, <1>11

LEMMA GetStep ==
  ASSUME IInv, NEW t \in Threads, NEW k \in Keys, Get(t, k)
  PROVE  IInv'
<1> USE DEF IInv
<1>1. PICK v : v = refs[k].value
  OBVIOUS
<1>2. /\ v \in Values /\ th[t].pool \in Seq(Values) /\ Len(th[t].pool) < MaxPool
      /\ Append(th[t].pool, v) \in Seq(Values)
  <2>1. k \in DOMAIN refs /\ Len(th[t].pool) < MaxPool
    BY DEF Get
  <2>2. refs[k] \in Association /\ refs[k].value # nil
    BY <2>1 DEF AssocTypeOK, TableOK
  <2> QED BY <1>1, <2>1, <2>2, Fields DEF Association
<1>3. PICK n : n = [th[t] EXCEPT !.pool = Append(@, v)]
  OBVIOUS
<1>4. /\ n \in Thread /\ n.pc = "idle" /\ n.new = th[t].new /\ n.pending = th[t].pending
      /\ n.mine = th[t].mine /\ n.pool = Append(th[t].pool, v) /\ th[t].pc = "idle"
  <2>1. th[t].pc = "idle"
    BY DEF Get, MayCall
  <2>2. \A s \in Seq(Values) : [th[t] EXCEPT !.pool = s] \in Thread
    BY Fields DEF Thread
  <2> QED BY <1>2, <1>3, <2>1, <2>2, Fields DEF Thread
<1>5. th' = [th EXCEPT ![t] = n]
  BY <1>1, <1>3 DEF Get, AssocTypeOK
<1>6. /\ rc' = [rc EXCEPT ![v] = @ + 1]
      /\ refs' = refs /\ has_assoc' = has_assoc /\ dealloc' = dealloc /\ released' = released
  BY <1>1 DEF Get, Changed
<1>7. AssocTypeOK'
  BY <1>2, <1>4, <1>5, <1>6 DEF AssocTypeOK
<1>8. ThreadOK(t)'
  <2>1. th'[t] = n
    BY <1>5 DEF AssocTypeOK
  <2>2. Len(n.pool) <= MaxPool
    BY <1>2, <1>4, AssociatedObjectsAssumption
  <2> QED BY <1>4, <1>6, <2>1, <2>2 DEF ThreadOK
<1>9. \A u \in Threads : ThreadOK(u)'
  BY <1>4, <1>5, <1>6, <1>8, ThreadsKept
<1>10. Marked' /\ InOrder'
  BY <1>4, <1>5, <1>6, MarkedKept, InOrderKept
<1>11. TableOK'
  BY <1>6 DEF TableOK
<1>12. ReferencesExact'
  <2> SUFFICES ASSUME NEW w \in Values
               PROVE  (rc[w] = Cardinality(Owners(w)) + Cardinality(Setting(w)) + Cardinality(Autoreleased(w))
                         + Cardinality(TakenOut(w)) + Cardinality(InTable(w)))'
    BY DEF ReferencesExact
  <2>1. Cardinality(Autoreleased(w)') = Cardinality(Autoreleased(w)) + Same(w, v)
    BY <1>2, <1>4, <1>5, PoolGrows
  <2>2. Setting(w)' = Setting(w) /\ Owners(w)' = Owners(w) /\ TakenOut(w)' = TakenOut(w)
    BY <1>4, <1>5, SettingKept, MineKept, PendingKept
  <2>3. InTable(w)' = InTable(w)
    BY <1>6 DEF InTable
  <2>4. rc'[w] = rc[w] + Same(w, v)
    BY <1>2, <1>6 DEF AssocTypeOK, Same
  <2> QED BY <2>1, <2>2, <2>3, <2>4, Counted DEF ReferencesExact, Same
<1> QED BY <1>7, <1>9, <1>10, <1>11, <1>12

LEMMA SetBeginStep ==
  ASSUME IInv, NEW t \in Threads, NEW k \in Keys, NEW v \in Values \cup {nil},
         NEW policy \in Policies, SetBegin(t, k, v, policy)
  PROVE  IInv'
<1> USE DEF IInv
<1>1. PICK a : a = [key |-> k, value |-> v, policy |-> policy]
  OBVIOUS
<1>2. a \in Association /\ a.value = v
  BY <1>1 DEF Association
<1>3. PICK n : n = [th[t] EXCEPT !.pc = "set", !.new = a]
  OBVIOUS
<1>4. /\ n \in Thread /\ n.pc = "set" /\ n.new = a /\ n.pending = th[t].pending
      /\ n.mine = th[t].mine /\ n.pool = th[t].pool /\ th[t].pc = "idle" /\ dealloc = "no"
  BY <1>2, <1>3, Fields DEF SetBegin, MayCall, Thread
<1>5. th' = [th EXCEPT ![t] = n]
  BY <1>1, <1>3 DEF SetBegin, AssocTypeOK
<1>6. /\ rc' = IF Retained(a) THEN [rc EXCEPT ![v] = @ + 1] ELSE rc
      /\ refs' = refs /\ has_assoc' = has_assoc /\ dealloc' = dealloc /\ released' = released
  BY <1>1 DEF SetBegin, Changed
<1>7. AssocTypeOK'
  BY <1>2, <1>4, <1>5, <1>6 DEF AssocTypeOK, Retained
<1>8. ThreadOK(t)'
  <2>1. th'[t] = n
    BY <1>5 DEF AssocTypeOK
  <2>2. th[t].pending = <<>>
    BY <1>4 DEF ThreadOK
  <2> QED BY <1>2, <1>4, <1>6, <2>1, <2>2 DEF ThreadOK
<1>9. \A u \in Threads : ThreadOK(u)'
  BY <1>4, <1>5, <1>6, <1>8, ThreadsKept
<1>10. Marked' /\ InOrder'
  BY <1>4, <1>5, <1>6, MarkedKept, InOrderKept
<1>11. TableOK'
  BY <1>6 DEF TableOK
<1>12. ReferencesExact'
  <2> SUFFICES ASSUME NEW w \in Values
               PROVE  (rc[w] = Cardinality(Owners(w)) + Cardinality(Setting(w)) + Cardinality(Autoreleased(w))
                         + Cardinality(TakenOut(w)) + Cardinality(InTable(w)))'
    BY DEF ReferencesExact
  <2>1. Cardinality(Setting(w)') = Cardinality(Setting(w)) + One(Holds(a, w))
    BY <1>4, <1>5, SettingBegun
  <2>2. Autoreleased(w)' = Autoreleased(w) /\ Owners(w)' = Owners(w) /\ TakenOut(w)' = TakenOut(w)
    BY <1>4, <1>5, PoolKept, MineKept, PendingKept
  <2>3. InTable(w)' = InTable(w)
    BY <1>6 DEF InTable
  <2>4. rc'[w] = rc[w] + One(Holds(a, w))
    BY <1>2, <1>6 DEF AssocTypeOK, One, Holds, Retained
  <2> QED BY <2>1, <2>2, <2>3, <2>4, Counted DEF ReferencesExact, One
<1> QED BY <1>7, <1>9, <1>10, <1>11, <1>12

\* A table without associations.
LEMMA EmptyTable ==
  ASSUME AssocTypeOK
  PROVE  refs = <<>> <=> DOMAIN refs = {}
<1>1. refs = [k \in DOMAIN refs |-> refs[k]]
  BY DEF AssocTypeOK
<1>2. <<>> = [k \in {} |-> refs[k]]
  OBVIOUS
<1> QED BY <1>1, <1>2

LEMMA SetLockedStep ==
  ASSUME IInv, NEW t \in Threads, SetLocked(t)
  PROVE  IInv'
<1> USE DEF IInv
<1>1. PICK a : a = th[t].new
  OBVIOUS
<1>2. PICK old : old = Old(a.key)
  OBVIOUS
<1>3. PICK K : K = {a.key} \cap DOMAIN refs
  OBVIOUS
<1>4. /\ a \in Association /\ a.key \in Keys /\ K \in SUBSET DOMAIN refs
      /\ dealloc = "no" /\ th[t].pc = "set" /\ th[t].pending = <<>>
  BY <1>1, <1>3 DEF SetLocked, ThreadOK, Association, AssocTypeOK
<1>5. Cardinality(Keys) \in Nat /\ Cardinality(Keys) >= 1
  <2>1. Keys # {} /\ IsFiniteSet(Keys)
    BY <1>4, AssociatedObjectsAssumption
  <2> QED BY <2>1, FS_EmptySet, FS_CardinalityType
<1>6. Lists(old, K) /\ old \in Seq(Association) /\ Len(old) <= Cardinality(Keys)
  <2>1. CASE a.key \in DOMAIN refs
    <3>1. old = <<refs[a.key]>> /\ K = {a.key} /\ refs[a.key] \in Association /\ refs[a.key].key = a.key
      BY <1>2, <1>3, <2>1 DEF Old, AssocTypeOK, TableOK
    <3>2. old \in Seq(Association) /\ Len(old) = 1 /\ DOMAIN old = {1} /\ old[1] = refs[a.key]
      BY <3>1
    <3>3. /\ \A i \in DOMAIN old : old[i].key \in K /\ old[i] = refs[old[i].key]
          /\ \A i, j \in DOMAIN old : i # j => old[i] # old[j]
          /\ \A k \in K : \E i \in DOMAIN old : old[i] = refs[k]
      <4> HIDE DEF IInv
      <4> QED BY <3>1, <3>2
    <3>4. Len(old) <= Cardinality(Keys)
      BY <1>5, <3>2
    <3> QED BY <3>2, <3>3, <3>4 DEF Lists
  <2>2. CASE a.key \notin DOMAIN refs
    <3>1. old = <<>> /\ K = {}
      BY <1>2, <1>3, <2>2 DEF Old
    <3>2. old \in Seq(Association) /\ Len(old) = 0 /\ DOMAIN old = {}
      BY <3>1
    <3> HIDE DEF IInv
    <3> QED BY <1>5, <3>1, <3>2 DEF Lists
  <2> QED BY <2>1, <2>2
<1>7. PICK pc \in {"first", "release"} :
        pc = IF a.value # nil /\ refs = <<>> THEN "first" ELSE "release"
  OBVIOUS
<1>8. PICK n : n = [th[t] EXCEPT !.pc = pc, !.new = nil, !.pending = old]
  OBVIOUS
<1>9. /\ n \in Thread /\ n.pc = pc /\ n.pending = old
      /\ n.mine = th[t].mine /\ n.pool = th[t].pool
  BY <1>6, <1>7, <1>8, Fields DEF Thread
<1>10. th' = [th EXCEPT ![t] = n]
  BY <1>1, <1>2, <1>7, <1>8 DEF SetLocked, AssocTypeOK
<1>11. /\ rc' = rc /\ has_assoc' = has_assoc /\ dealloc' = dealloc /\ released' = released
       /\ a.value = nil => refs' = Erased(refs, {a.key})
       /\ a.value # nil =>
            refs' = [k \in DOMAIN refs \cup {a.key} |-> IF k = a.key THEN a ELSE refs[k]]
  BY <1>1 DEF SetLocked
<1>12. /\ \A k \in DOMAIN refs' : k \in DOMAIN refs \/ (k = a.key /\ a.value # nil)
       /\ \A k \in DOMAIN refs' : refs'[k] = IF k = a.key THEN a ELSE refs[k]
       /\ \A k \in DOMAIN refs' : k = a.key => a.value # nil
       /\ refs' = [k \in DOMAIN refs' |-> refs'[k]]
  BY <1>11 DEF Erased
<1>13. AssocTypeOK'
  <2>1. refs' \in [DOMAIN refs' -> Association] /\ DOMAIN refs' \in SUBSET Keys
    BY <1>4, <1>12 DEF AssocTypeOK
  <2> QED BY <1>9, <1>10, <1>11, <2>1 DEF AssocTypeOK
<1>14. ThreadOK(t)'
  <2>1. th'[t] = n
    BY <1>10 DEF AssocTypeOK
  <2>2. Len(th[t].pool) <= MaxPool
    BY DEF ThreadOK
  <2> QED BY <1>4, <1>6, <1>7, <1>9, <1>11, <2>1, <2>2 DEF ThreadOK
<1>15. \A u \in Threads : ThreadOK(u)'
  BY <1>9, <1>10, <1>11, <1>14, ThreadsKept
<1>16. InOrder'
  BY <1>4, <1>9, <1>10, <1>11, InOrderKept
<1>17. Marked'
  <2>1. ASSUME DOMAIN refs' # {}, DOMAIN refs # {}
        PROVE  has_assoc \/ \E u \in Threads : th'[u].pc = "first"
    <3>1. CASE has_assoc
      BY <3>1
    <3>2. ASSUME NEW u \in Threads, th[u].pc = "first"
          PROVE  th'[u].pc = "first"
      BY <1>4, <1>10, <3>2 DEF AssocTypeOK
    <3> QED BY <2>1, <3>1, <3>2 DEF Marked
  <2>2. ASSUME DOMAIN refs' # {}, DOMAIN refs = {}
        PROVE  \E u \in Threads : th'[u].pc = "first"
    <3>1. a.value # nil /\ refs = <<>>
      BY <1>12, <2>2, EmptyTable
    <3>2. th'[t].pc = "first"
      BY <1>7, <1>9, <1>10, <3>1 DEF AssocTypeOK
    <3> QED BY <3>2
  <2> QED BY <1>4, <1>11, <2>1, <2>2 DEF Marked
<1>18. TableOK'
  BY <1>12 DEF TableOK
<1>19. ReferencesExact'
  <2> SUFFICES ASSUME NEW w \in Values
               PROVE  (rc[w] = Cardinality(Owners(w)) + Cardinality(Setting(w)) + Cardinality(Autoreleased(w))
                         + Cardinality(TakenOut(w)) + Cardinality(InTable(w)))'
    BY DEF ReferencesExact
  <2>1. Cardinality(Setting(w)') = Cardinality(Setting(w)) - One(Holds(a, w))
    BY <1>1, <1>4, <1>7, <1>9, <1>10, SettingEnded
  <2>2. Autoreleased(w)' = Autoreleased(w) /\ Owners(w)' = Owners(w)
    BY <1>9, <1>10, PoolKept, MineKept
  <2>3. Cardinality(TakenOut(w)') = Cardinality(TakenOut(w)) + Cardinality(Among(K, w))
    BY <1>4, <1>6, <1>9, <1>10, PendingFilled
  <2>4. Cardinality(InTable(w)') = Cardinality(InTable(w)) - Cardinality(Among(K, w)) + One(Holds(a, w))
    <3>1. CASE a.value = nil
      <4>1. Erased(refs, {a.key}) = Erased(refs, K)
        BY <1>3 DEF Erased
      <4>2. Cardinality(InTable(w)') = Cardinality(InTable(w)) - Cardinality(Among(K, w))
        BY <1>4, <1>11, <3>1, <4>1, TableErased
      <4>3. One(Holds(a, w)) = 0
        BY <3>1 DEF One, Holds, Retained
      <4>4. Cardinality(InTable(w)) \in Nat /\ Cardinality(Among(K, w)) \in Nat
        BY <1>4, Counted, AmongCounted
      <4> QED BY <4>2, <4>3, <4>4
    <3>2. CASE a.value # nil
      BY <1>3, <1>4, <1>11, <3>2, TableSet
    <3> QED BY <3>1, <3>2
  <2>5. Cardinality(Among(K, w)) \in Nat /\ One(Holds(a, w)) \in Nat
    BY <1>4, AmongCounted DEF One
  <2> QED BY <1>11, <2>1, <2>2, <2>3, <2>4, <2>5, Counted DEF ReferencesExact
<1> QED BY <1>13, <1>15, <1>16, <1>17, <1>18, <1>19

LEMMA SetHasAssociatedObjectsStep ==
  ASSUME IInv, NEW t \in Threads, SetHasAssociatedObjects(t)
  PROVE  IInv'
<1> USE DEF IInv
<1>1. PICK n : n = [th[t] EXCEPT !.pc = "release"]
  OBVIOUS
<1>2. /\ n \in Thread /\ n.pc = "release" /\ n.new = th[t].new /\ n.pending = th[t].pending
      /\ n.mine = th[t].mine /\ n.pool = th[t].pool /\ th[t].pc = "first" /\ dealloc = "no"
  BY <1>1, Fields DEF SetHasAssociatedObjects, Thread, ThreadOK, AssocTypeOK
<1>3. th' = [th EXCEPT ![t] = n]
  BY <1>1 DEF SetHasAssociatedObjects, AssocTypeOK
<1>4. rc' = rc /\ refs' = refs /\ has_assoc' = TRUE /\ dealloc' = dealloc /\ released' = released
  BY DEF SetHasAssociatedObjects
<1>5. AssocTypeOK'
  BY <1>2, <1>3, <1>4 DEF AssocTypeOK
<1>6. ThreadOK(t)'
  <2>1. th'[t] = n
    BY <1>3 DEF AssocTypeOK
  <2> QED BY <1>2, <1>4, <2>1 DEF ThreadOK
<1>7. \A u \in Threads : ThreadOK(u)'
  BY <1>2, <1>3, <1>4, <1>6, ThreadsKept
<1>8. Marked' /\ TableOK' /\ InOrder'
  BY <1>2, <1>3, <1>4, InOrderKept DEF Marked, TableOK
<1>9. ReferencesExact'
  <2> SUFFICES ASSUME NEW w \in Values
               PROVE  (rc[w] = Cardinality(Owners(w)) + Cardinality(Setting(w)) + Cardinality(Autoreleased(w))
                         + Cardinality(TakenOut(w)) + Cardinality(InTable(w)))'
    BY DEF ReferencesExact
  <2>1. Setting(w)' = Setting(w) /\ Autoreleased(w)' = Autoreleased(w)
    BY <1>2, <1>3, SettingKept, PoolKept
  <2>2. Owners(w)' = Owners(w) /\ TakenOut(w)' = TakenOut(w) /\ InTable(w)' = InTable(w)
    BY <1>2, <1>3, <1>4, MineKept, PendingKept DEF InTable
  <2> QED BY <1>4, <2>1, <2>2 DEF ReferencesExact
<1> QED BY <1>5, <1>7, <1>8, <1>9

LEMMA ReleaseValueStep ==
  ASSUME IInv, NEW t \in Threads, ReleaseValue(t)
  PROVE  IInv'
<1> USE DEF IInv
<1>1. CASE th[t].pending = <<>>
  <2>1. PICK n : n = [th[t] EXCEPT !.pc = "idle"]
    OBVIOUS
  <2>2. /\ n \in Thread /\ n.pc = "idle" /\ n.pending = th[t].pending
        /\ n.mine = th[t].mine /\ n.pool = th[t].pool /\ th[t].pc = "release"
    BY <2>1, Fields DEF ReleaseValue, Thread
  <2>3. th' = [th EXCEPT ![t] = n]
    BY <1>1, <2>1 DEF ReleaseValue, AssocTypeOK
  <2>4. rc' = rc /\ refs' = refs /\ has_assoc' = has_assoc /\ dealloc' = dealloc /\ released' = released
    BY <1>1 DEF ReleaseValue
  <2>5. AssocTypeOK'
    BY <2>2, <2>3, <2>4 DEF AssocTypeOK
  <2>6. ThreadOK(t)'
    <3>1. th'[t] = n
      BY <2>3 DEF AssocTypeOK
    <3> QED BY <1>1, <2>2, <2>4, <3>1 DEF ThreadOK
  <2>7. \A u \in Threads : ThreadOK(u)'
    BY <2>2, <2>3, <2>4, <2>6, ThreadsKept
  <2>8. Marked' /\ InOrder' /\ TableOK'
    BY <2>2, <2>3, <2>4, MarkedKept, InOrderKept DEF TableOK
  <2>9. ReferencesExact'
    <3> SUFFICES ASSUME NEW w \in Values
                 PROVE  (rc[w] = Cardinality(Owners(w)) + Cardinality(Setting(w)) + Cardinality(Autoreleased(w))
                           + Cardinality(TakenOut(w)) + Cardinality(InTable(w)))'
      BY DEF ReferencesExact
    <3>1. Setting(w)' = Setting(w) /\ Autoreleased(w)' = Autoreleased(w)
      BY <2>2, <2>3, SettingKept, PoolKept
    <3>2. Owners(w)' = Owners(w) /\ TakenOut(w)' = TakenOut(w) /\ InTable(w)' = InTable(w)
      BY <2>2, <2>3, <2>4, MineKept, PendingKept DEF InTable
    <3> QED BY <2>4, <3>1, <3>2 DEF ReferencesExact
  <2> QED BY <2>5, <2>7, <2>8, <2>9
<1>2. CASE th[t].pending # <<>>
  <2>1. PICK p : p = th[t].pending
    OBVIOUS
  <2>2. PICK a : a = Head(p)
    OBVIOUS
  <2>3. /\ p \in Seq(Association) /\ p # <<>> /\ Len(p) <= Cardinality(Keys)
        /\ Tail(p) \in Seq(Association) /\ Len(Tail(p)) = Len(p) - 1 /\ a = p[1]
        /\ \A i \in DOMAIN Tail(p) : i + 1 \in DOMAIN p /\ Tail(p)[i] = p[i + 1]
        /\ Cardinality(Keys) \in Nat /\ Len(p) \in Nat /\ 1 \in DOMAIN p
    <3>1. p \in Seq(Association) /\ p # <<>> /\ Len(p) <= Cardinality(Keys)
      BY <1>2, <2>1, Fields DEF ThreadOK
    <3> QED BY <2>2, <3>1, AssociatedObjectsAssumption, FS_CardinalityType
  <2>4. a \in Association /\ a.value \in Values \cup {nil} /\ a.key \in Keys
    <3>1. a \in Association
      BY <2>3
    <3> QED BY <3>1 DEF Association
  <2>5. PICK n : n = [th[t] EXCEPT !.pending = Tail(p)]
    OBVIOUS
  <2>6. /\ n \in Thread /\ n.pc = "release" /\ n.pending = Tail(p)
        /\ n.mine = th[t].mine /\ n.pool = th[t].pool /\ th[t].pc = "release"
    BY <2>3, <2>5, Fields DEF ReleaseValue, Thread
  <2>7. th' = [th EXCEPT ![t] = n]
    BY <1>2, <2>1, <2>5 DEF ReleaseValue, AssocTypeOK
  <2>8. /\ rc' = IF Retained(a) THEN [rc EXCEPT ![a.value] = @ + (-1)] ELSE rc
        /\ released' = IF dealloc = "no" THEN released ELSE Append(released, a.key)
        /\ refs' = refs /\ has_assoc' = has_assoc /\ dealloc' = dealloc
    BY <1>2, <2>1, <2>2 DEF ReleaseValue, Changed
  <2>9. AssocTypeOK'
    <3>1. rc' \in [Values -> Int]
      BY <2>4, <2>8 DEF AssocTypeOK, Retained
    <3>2. released' \in Seq(Keys)
      BY <2>4, <2>8 DEF AssocTypeOK
    <3> QED BY <2>6, <2>7, <2>8, <3>1, <3>2 DEF AssocTypeOK
  <2>10. ThreadOK(t)'
    <3>1. th'[t] = n
      BY <2>7 DEF AssocTypeOK
    <3>2. ThreadOK(t) /\ Len(Tail(p)) <= Cardinality(Keys)
      BY <2>3
    <3> QED BY <2>6, <2>8, <3>1, <3>2 DEF ThreadOK
  <2>11. \A u \in Threads : ThreadOK(u)'
    BY <2>6, <2>7, <2>8, <2>10, ThreadsKept
  <2>12. Marked' /\ TableOK'
    BY <2>6, <2>7, <2>8, MarkedKept DEF TableOK
  <2>13. InOrder'
    <3>1. CASE dealloc = "no"
      BY <2>6, <2>7, <2>8, <3>1, InOrderKept
    <3>2. CASE dealloc = "begun"
      <4> DEFINE l == Len(released)
      <4>1. /\ released \in Seq(Keys) /\ l \in Nat /\ released' = Append(released, a.key)
            /\ DOMAIN released' = 1 .. l + 1 /\ released'[l + 1] = a.key
            /\ \A i \in 1 .. l : released'[i] = released[i]
            /\ DOMAIN released = 1 .. l
        BY <2>8, <3>2 DEF AssocTypeOK
      <4>2. th'[t] = n /\ \A u \in Threads : u # t => th'[u].pending = <<>>
        <5>1. \A u \in Threads : u # t => th[u].pending = <<>>
          BY <1>2, <3>2 DEF InOrder
        <5> QED BY <2>7, <5>1 DEF AssocTypeOK
      <4>3. /\ \A i, j \in DOMAIN p : i < j /\ Later(p[i]) => Later(p[j])
            /\ (\E i \in 1 .. l : released[i] \in SystemKeys) => \A j \in DOMAIN p : Later(p[j])
        BY <2>1, <3>2, <4>1 DEF InOrder
      <4>4. \A i, j \in DOMAIN released' :
              i < j /\ released'[i] \in SystemKeys => released'[j] \in SystemKeys
        <5> SUFFICES ASSUME NEW i \in 1 .. l + 1, NEW j \in 1 .. l + 1, i < j, released'[i] \in SystemKeys
                     PROVE  released'[j] \in SystemKeys
          BY <4>1
        <5>1. i \in 1 .. l /\ released[i] \in SystemKeys
          BY <4>1
        <5>2. CASE j = l + 1
          BY <2>3, <4>1, <4>3, <5>1, <5>2 DEF Later
        <5>3. CASE j # l + 1
          <6>1. j \in 1 .. l /\ released'[j] = released[j]
            BY <4>1, <5>3
          <6> QED BY <4>1, <5>1, <6>1 DEF InOrder
        <5> QED BY <5>2, <5>3
      <4>5. \A i, j \in DOMAIN n.pending : i < j /\ Later(n.pending[i]) => Later(n.pending[j])
        <5> SUFFICES ASSUME NEW i \in DOMAIN Tail(p), NEW j \in DOMAIN Tail(p), i < j, Later(Tail(p)[i])
                     PROVE  Later(Tail(p)[j])
          BY <2>6
        <5>1. i \in Nat /\ j \in Nat
          BY <2>3
        <5>2. i + 1 \in DOMAIN p /\ j + 1 \in DOMAIN p /\ i + 1 < j + 1
          BY <2>3, <5>1
        <5>3. Later(p[i + 1]) => Later(p[j + 1])
          BY <4>3, <5>2
        <5> QED BY <2>3, <5>3
      <4>6. ASSUME \E i \in DOMAIN released' : released'[i] \in SystemKeys
            PROVE  \A j \in DOMAIN n.pending : Later(n.pending[j])
        <5> SUFFICES ASSUME NEW j \in DOMAIN Tail(p) PROVE Later(Tail(p)[j])
          BY <2>6
        <5>1. j \in Nat /\ j > 0 /\ j + 1 \in DOMAIN p /\ Tail(p)[j] = p[j + 1]
          BY <2>3
        <5>2. PICK i \in 1 .. l + 1 : released'[i] \in SystemKeys
          BY <4>1, <4>6
        <5>3. CASE i = l + 1
          <6>1. Later(p[1]) /\ 1 < j + 1
            BY <2>3, <4>1, <5>1, <5>2, <5>3 DEF Later
          <6> QED BY <2>3, <4>3, <5>1, <6>1
        <5>4. CASE i # l + 1
          <6>1. i \in 1 .. l /\ released[i] \in SystemKeys
            BY <4>1, <5>2, <5>4
          <6> QED BY <4>3, <5>1, <6>1
        <5> QED BY <5>3, <5>4
      <4>7. \A u \in Threads : u # t => DOMAIN th'[u].pending = {}
        BY <4>2
      <4> HIDE DEF IInv, l
      <4> QED BY <2>8, <3>2, <4>2, <4>4, <4>5, <4>6, <4>7 DEF InOrder, Later
    <3> QED BY <3>1, <3>2 DEF AssocTypeOK
  <2>14. ReferencesExact'
    <3> SUFFICES ASSUME NEW w \in Values
                 PROVE  (rc[w] = Cardinality(Owners(w)) + Cardinality(Setting(w)) + Cardinality(Autoreleased(w))
                           + Cardinality(TakenOut(w)) + Cardinality(InTable(w)))'
      BY DEF ReferencesExact
    <3>1. Setting(w)' = Setting(w) /\ Autoreleased(w)' = Autoreleased(w)
      BY <2>6, <2>7, SettingKept, PoolKept
    <3>2. Owners(w)' = Owners(w) /\ InTable(w)' = InTable(w)
      BY <2>6, <2>7, <2>8, MineKept DEF InTable
    <3>3. Cardinality(TakenOut(w)') = Cardinality(TakenOut(w)) - One(Holds(a, w))
      BY <1>2, <2>1, <2>2, <2>3, <2>6, <2>7, PendingShrinks
    <3>4. rc'[w] = rc[w] - One(Holds(a, w))
      BY <2>4, <2>8 DEF AssocTypeOK, One, Holds, Retained
    <3> QED BY <3>1, <3>2, <3>3, <3>4, Counted DEF ReferencesExact, One
  <2> QED BY <2>9, <2>11, <2>12, <2>13, <2>14
<1> QED BY <1>1, <1>2

\* What is taken out of the table, as a list.
LEMMA ListOf ==
  ASSUME AssocTypeOK, TableOK, NEW K \in SUBSET DOMAIN refs,
         NEW s \in SetToSeqs({refs[k] : k \in K})
  PROVE  Lists(s, K) /\ Len(s) <= Cardinality(K)
<1> DEFINE S == {refs[k] : k \in K}
<1>1. DOMAIN refs \subseteq Keys /\ \A k \in DOMAIN refs : refs[k] \in Association /\ refs[k].key = k
  BY DEF AssocTypeOK, TableOK
<1>2. /\ IsFiniteSet(S) /\ Cardinality(S) <= Cardinality(K) /\ Cardinality(K) <= Cardinality(Keys)
      /\ Cardinality(K) \in Nat /\ Cardinality(Keys) \in Nat /\ Cardinality(S) \in Nat
  BY <1>1, Associations, FS_CardinalityType
<1>3. /\ s \in Seq(S) /\ Len(s) = Cardinality(S)
      /\ \A i, j \in DOMAIN s : i # j => s[i] # s[j]
      /\ \A x \in S : \E i \in DOMAIN s : s[i] = x
  <2>1. s \in SetToSeqs(S)
    OBVIOUS
  <2> HIDE DEF S
  <2> QED BY <1>2, <2>1, SeqsOfSet
<1>4. \A i \in DOMAIN s : s[i] \in S
  <2> HIDE DEF S
  <2> QED BY <1>3
<1>5. \A i \in DOMAIN s : s[i].key \in K /\ s[i] = refs[s[i].key] /\ s[i] \in Association
  BY <1>1, <1>4
<1>6. s \in Seq(Association)
  <2> HIDE DEF S
  <2> QED BY <1>3, <1>5
<1>7. \A k \in K : \E i \in DOMAIN s : s[i] = refs[k]
  BY <1>3
<1> HIDE DEF S
<1> QED BY <1>2, <1>3, <1>5, <1>6, <1>7 DEF Lists

\* Two parts of the table, one after the other.
LEMMA ListsJoined ==
  ASSUME AssocTypeOK, TableOK, NEW K \in SUBSET DOMAIN refs, NEW L \in SUBSET DOMAIN refs,
         K \cap L = {}, NEW s, NEW z, Lists(s, K), Lists(z, L),
         Len(s) <= Cardinality(K), Len(z) <= Cardinality(L)
  PROVE  /\ Lists(s \o z, K \cup L)
         /\ \A i \in DOMAIN (s \o z) :
              IF i <= Len(s) THEN (s \o z)[i].key \in K ELSE (s \o z)[i].key \in L
<1> DEFINE p == s \o z
<1>1. /\ s \in Seq(Association) /\ z \in Seq(Association) /\ p \in Seq(Association)
      /\ Len(s) \in Nat /\ Len(z) \in Nat /\ Len(p) = Len(s) + Len(z)
      /\ DOMAIN s = 1 .. Len(s) /\ DOMAIN z = 1 .. Len(z) /\ DOMAIN p = 1 .. Len(p)
      /\ \A i \in 1 .. Len(s) : p[i] = s[i]
      /\ \A i \in 1 .. Len(z) : p[i + Len(s)] = z[i]
  BY DEF Lists
<1>2. Len(p) <= Cardinality(Keys)
  <2>1. K \cup L \subseteq Keys
    BY DEF AssocTypeOK
  <2>2. IsFiniteSet(K) /\ IsFiniteSet(L) /\ Cardinality(K \cup L) <= Cardinality(Keys)
    BY <2>1, AssociatedObjectsAssumption, FS_Subset
  <2>3. /\ Cardinality(K \cup L) = Cardinality(K) + Cardinality(L)
        /\ Cardinality(K) \in Nat /\ Cardinality(L) \in Nat /\ Cardinality(Keys) \in Nat
    BY <2>2, Apart, AssociatedObjectsAssumption, FS_CardinalityType
  <2> HIDE DEF p
  <2> QED BY <1>1, <2>2, <2>3
<1> HIDE DEF p
<1>3. ASSUME NEW i \in DOMAIN p
      PROVE  IF i <= Len(s) THEN i \in DOMAIN s /\ p[i] = s[i]
             ELSE i - Len(s) \in DOMAIN z /\ p[i] = z[i - Len(s)]
  <2>1. CASE i <= Len(s)
    BY <1>1, <2>1
  <2>2. CASE ~(i <= Len(s))
    <3>1. i \in Nat /\ i - Len(s) \in 1 .. Len(z) /\ i = (i - Len(s)) + Len(s)
      BY <1>1, <2>2
    <3> QED BY <1>1, <2>2, <3>1
  <2> QED BY <2>1, <2>2
<1>4. \A i \in DOMAIN p : IF i <= Len(s) THEN p[i].key \in K ELSE p[i].key \in L
  BY <1>3 DEF Lists
<1>5. \A i \in DOMAIN p : p[i].key \in K \cup L /\ p[i] = refs[p[i].key]
  BY <1>3 DEF Lists
<1>6. ASSUME NEW i \in DOMAIN p, NEW j \in DOMAIN p, i # j
      PROVE  p[i] # p[j]
  <2>1. i \in Nat /\ j \in Nat
    BY <1>1
  <2>2. CASE i <= Len(s) /\ j <= Len(s)
    BY <1>3, <1>6, <2>2 DEF Lists
  <2>3. CASE ~(i <= Len(s)) /\ ~(j <= Len(s))
    <3>1. i - Len(s) # j - Len(s)
      BY <1>1, <1>6, <2>1
    <3> QED BY <1>3, <2>3, <3>1 DEF Lists
  <2>4. CASE (i <= Len(s)) # (j <= Len(s))
    BY <1>4, <2>4
  <2> QED BY <2>2, <2>3, <2>4
<1>7. ASSUME NEW k \in K \cup L
      PROVE  \E i \in DOMAIN p : p[i] = refs[k]
  <2>1. CASE k \in K
    <3>1. PICK i \in DOMAIN s : s[i] = refs[k]
      BY <2>1 DEF Lists
    <3>2. i \in DOMAIN p /\ p[i] = refs[k]
      BY <1>1, <3>1
    <3> QED BY <3>2
  <2>2. CASE k \in L
    <3>1. PICK i \in DOMAIN z : z[i] = refs[k]
      BY <2>2 DEF Lists
    <3>2. i + Len(s) \in DOMAIN p /\ p[i + Len(s)] = refs[k]
      BY <1>1, <3>1
    <3> QED BY <3>2
  <2> QED BY <2>1, <2>2
<1>8. Lists(p, K \cup L)
  BY <1>1, <1>2, <1>5, <1>6, <1>7 DEF Lists
<1> QED BY <1>4, <1>8 DEF p

\* What is counted when associations are taken out of the table.
LEMMA TakenFromTable ==
  ASSUME AssocTypeOK, TableOK, ReferencesExact, NEW t \in Threads, NEW n \in Thread,
         th' = [th EXCEPT ![t] = n], th[t].pc = "idle", n.pc = "release",
         n.mine = th[t].mine, n.pool = th[t].pool, th[t].pending = <<>>,
         NEW K \in SUBSET DOMAIN refs, Lists(n.pending, K), refs' = Erased(refs, K),
         rc' = rc
  PROVE  ReferencesExact'
<1> SUFFICES ASSUME NEW w \in Values
             PROVE  (rc[w] = Cardinality(Owners(w)) + Cardinality(Setting(w)) + Cardinality(Autoreleased(w))
                       + Cardinality(TakenOut(w)) + Cardinality(InTable(w)))'
  BY DEF ReferencesExact
<1>1. Setting(w)' = Setting(w) /\ Autoreleased(w)' = Autoreleased(w) /\ Owners(w)' = Owners(w)
  BY SettingKept, PoolKept, MineKept
<1>2. Cardinality(TakenOut(w)') = Cardinality(TakenOut(w)) + Cardinality(Among(K, w))
  BY PendingFilled
<1>3. Cardinality(InTable(w)') = Cardinality(InTable(w)) - Cardinality(Among(K, w))
  BY TableErased
<1>4. Cardinality(Among(K, w)) \in Nat
  BY AmongCounted
<1> QED BY <1>1, <1>2, <1>3, <1>4, Counted DEF ReferencesExact

LEMMA ErasedType ==
  ASSUME AssocTypeOK, TableOK, NEW K, refs' = Erased(refs, K)
  PROVE  /\ refs' \in UNION {[A -> Association] : A \in SUBSET Keys} /\ TableOK'
         /\ DOMAIN refs' = DOMAIN refs \ K
<1>1. DOMAIN refs \subseteq Keys /\ \A k \in DOMAIN refs : refs[k] \in Association
  BY DEF AssocTypeOK
<1>2. DOMAIN refs' = DOMAIN refs \ K /\ \A k \in DOMAIN refs' : refs'[k] = refs[k]
  BY DEF Erased
<1>3. refs' \in [DOMAIN refs \ K -> Association]
  BY <1>1 DEF Erased
<1> QED BY <1>1, <1>2, <1>3 DEF TableOK

LEMMA RemoveAllStep ==
  ASSUME IInv, NEW t \in Threads, RemoveAll(t)
  PROVE  IInv'
<1> DEFINE K == DOMAIN refs \ SystemKeys
<1>0. AssocTypeOK /\ TableOK /\ Marked /\ InOrder /\ ReferencesExact /\ \A u \in Threads : ThreadOK(u)
  BY DEF IInv
<1>1. PICK s \in SetToSeqs({refs[k] : k \in K}) :
        th' = [th EXCEPT ![t].pc = "release", ![t].pending = s]
  BY DEF RemoveAll
<1>2. K \in SUBSET DOMAIN refs /\ DOMAIN refs \subseteq Keys
  BY <1>0 DEF AssocTypeOK
<1>3. Lists(s, K)
  <2> HIDE DEF K
  <2> QED BY <1>0, <1>1, <1>2, ListOf DEF K
<1>4. PICK n : n = [th[t] EXCEPT !.pc = "release", !.pending = s]
  OBVIOUS
<1>5. s \in Seq(Association) /\ Len(s) <= Cardinality(Keys)
  BY <1>3 DEF Lists
<1>6. /\ n \in Thread /\ n.pc = "release" /\ n.pending = s
      /\ n.mine = th[t].mine /\ n.pool = th[t].pool
  BY <1>0, <1>4, <1>5, Fields DEF Thread
<1>7. th[t].pc = "idle" /\ th[t].pending = <<>> /\ dealloc = "no" /\ has_assoc
  BY <1>0 DEF RemoveAll, MayCall, ThreadOK
<1>8. th' = [th EXCEPT ![t] = n]
  BY <1>0, <1>1, <1>4 DEF AssocTypeOK
<1>9. refs' = Erased(refs, K)
  <2>1. DOMAIN refs \ (Keys \ SystemKeys) = DOMAIN refs \ K
    BY <1>2
  <2>2. refs' = Erased(refs, Keys \ SystemKeys)
    BY DEF RemoveAll
  <2> HIDE DEF K
  <2> QED BY <2>1, <2>2 DEF Erased
<1>10. rc' = rc /\ has_assoc' = has_assoc /\ dealloc' = dealloc /\ released' = released
  BY DEF RemoveAll
<1> HIDE DEF K
<1>11. refs' \in UNION {[A -> Association] : A \in SUBSET Keys} /\ TableOK'
  BY <1>0, <1>9, ErasedType
<1>12. AssocTypeOK'
  BY <1>0, <1>6, <1>8, <1>10, <1>11 DEF AssocTypeOK
<1>13. ThreadOK(t)'
  <2>1. th'[t] = n /\ Len(th[t].pool) <= MaxPool
    BY <1>0, <1>8 DEF AssocTypeOK, ThreadOK
  <2> QED BY <1>5, <1>6, <1>7, <1>10, <2>1 DEF ThreadOK
<1>14. \A u \in Threads : ThreadOK(u)'
  BY <1>0, <1>6, <1>8, <1>10, <1>13, ThreadsKept
<1>15. InOrder' /\ Marked'
  BY <1>0, <1>6, <1>7, <1>8, <1>10, InOrderKept DEF Marked
<1>16. ReferencesExact'
  BY <1>0, <1>2, <1>3, <1>6, <1>7, <1>8, <1>9, <1>10, TakenFromTable
<1> QED BY <1>11, <1>12, <1>14, <1>15, <1>16 DEF IInv

LEMMA DeallocStep ==
  ASSUME IInv, NEW t \in Threads, Dealloc(t)
  PROVE  IInv'
<1> DEFINE K == DOMAIN refs \ SystemKeys
           L == DOMAIN refs \cap SystemKeys
<1>0. AssocTypeOK /\ TableOK /\ Marked /\ InOrder /\ ReferencesExact /\ \A u \in Threads : ThreadOK(u)
  BY DEF IInv
<1>1. \A u \in Threads : th[u].pc = "idle" /\ th[u].pending = <<>>
  BY <1>0 DEF Dealloc, ThreadOK
<1>2. /\ dealloc = "no" /\ dealloc' = "begun" /\ released = <<>>
      /\ rc' = rc /\ has_assoc' = has_assoc /\ released' = released
  BY <1>0 DEF Dealloc, InOrder
<1>3. CASE has_assoc
  <2>1. PICK s \in SetToSeqs({refs[k] : k \in K}), z \in SetToSeqs({refs[k] : k \in L}) :
          th' = [th EXCEPT ![t].pc = "release", ![t].pending = s \o z]
    BY <1>3 DEF Dealloc
  <2>2. refs' = <<>>
    BY <1>3 DEF Dealloc
  <2>3. /\ K \in SUBSET DOMAIN refs /\ L \in SUBSET DOMAIN refs /\ K \cap L = {}
        /\ K \cup L = DOMAIN refs
    OBVIOUS
  <2>4. \A k \in K : k \notin SystemKeys
    OBVIOUS
  <2>5. \A k \in L : k \in SystemKeys
    OBVIOUS
  <2> HIDE DEF K, L
  <2>6. Lists(s, K) /\ Len(s) <= Cardinality(K) /\ Lists(z, L) /\ Len(z) <= Cardinality(L)
    BY <1>0, <2>1, <2>3, ListOf
  <2>7. PICK p : p = s \o z
    OBVIOUS
  <2>8. /\ Lists(p, DOMAIN refs)
        /\ \A i \in DOMAIN p : IF i <= Len(s) THEN p[i].key \in K ELSE p[i].key \in L
    <3>1. /\ Lists(s \o z, K \cup L)
          /\ \A i \in DOMAIN (s \o z) :
               IF i <= Len(s) THEN (s \o z)[i].key \in K ELSE (s \o z)[i].key \in L
      BY <1>0, <2>3, <2>6, ListsJoined
    <3>2. Lists(p, K \cup L)
      BY <2>7, <3>1
    <3>3. Lists(p, DOMAIN refs)
      BY <2>3, <3>2, Zenon
    <3> QED BY <2>7, <3>1, <3>3, Zenon
  <2>9. p \in Seq(Association) /\ Len(p) <= Cardinality(Keys)
    BY <2>8 DEF Lists
  <2>10. PICK n : n = [th[t] EXCEPT !.pc = "release", !.pending = p]
    OBVIOUS
  <2>11. /\ n \in Thread /\ n.pc = "release" /\ n.pending = p
         /\ n.mine = th[t].mine /\ n.pool = th[t].pool
    BY <1>0, <2>9, <2>10, Fields DEF Thread
  <2>12. th' = [th EXCEPT ![t] = n]
    BY <1>0, <2>1, <2>7, <2>10 DEF AssocTypeOK
  <2>13. refs' = Erased(refs, DOMAIN refs)
    BY <2>2 DEF Erased
  <2>14. refs' \in UNION {[A -> Association] : A \in SUBSET Keys} /\ TableOK' /\ DOMAIN refs' = {}
    BY <1>0, <2>13, ErasedType
  <2>15. AssocTypeOK'
    BY <1>0, <1>2, <2>11, <2>12, <2>14 DEF AssocTypeOK
  <2>16. th'[t] = n /\ \A u \in Threads : u # t => th'[u] = th[u]
    BY <1>0, <2>12 DEF AssocTypeOK
  <2>17. ASSUME NEW u \in Threads PROVE ThreadOK(u)'
    <3>1. Len(th[u].pool) <= MaxPool /\ Len(th[u].pending) <= Cardinality(Keys)
      BY <1>0 DEF ThreadOK
    <3>2. CASE u = t
      BY <2>9, <2>11, <2>16, <3>1, <3>2 DEF ThreadOK
    <3>3. CASE u # t
      <4>1. th'[u].pc = "idle" /\ th'[u].pending = <<>> /\ th'[u] = th[u]
        BY <1>1, <2>16, <3>3
      <4> QED BY <3>1, <4>1 DEF ThreadOK
    <3> QED BY <3>2, <3>3
  <2>18. Marked'
    BY <2>14 DEF Marked
  <2>19. ASSUME NEW i \in DOMAIN p, NEW j \in DOMAIN p, i < j, Later(p[i])
         PROVE  Later(p[j])
    <3>1. i \in Int /\ j \in Int /\ Len(s) \in Int
      BY <2>6, <2>9 DEF Lists
    <3>2. ~(i <= Len(s))
      BY <2>4, <2>8, <2>19 DEF Later
    <3>3. ~(j <= Len(s))
      BY <2>19, <3>1, <3>2
    <3> QED BY <2>5, <2>8, <3>3 DEF Later
  <2>20. InOrder'
    <3>1. \A u \in Threads : u # t => th'[u].pending = <<>>
      BY <1>1, <2>16
    <3>2. DOMAIN released' = {}
      BY <1>2
    <3>3. \A u, x \in Threads : th'[u].pending # <<>> /\ th'[x].pending # <<>> => u = x
      BY <3>1
    <3>4. ASSUME NEW u \in Threads
          PROVE  \A i, j \in DOMAIN th'[u].pending :
                   i < j /\ Later(th'[u].pending[i]) => Later(th'[u].pending[j])
      <4>1. CASE u = t
        BY <2>11, <2>16, <2>19, <4>1
      <4>2. CASE u # t
        <5>1. DOMAIN th'[u].pending = {}
          BY <3>1, <4>2
        <5> QED BY <5>1
      <4> QED BY <4>1, <4>2
    <3> QED BY <1>2, <3>2, <3>3, <3>4 DEF InOrder, Later
  <2>21. ReferencesExact'
    <3>1. th[t].pc = "idle" /\ th[t].pending = <<>> /\ Lists(n.pending, DOMAIN refs)
      BY <1>1, <2>8, <2>11
    <3> QED BY <1>0, <1>2, <2>11, <2>12, <2>13, <3>1, TakenFromTable
  <2> QED BY <2>14, <2>15, <2>17, <2>18, <2>20, <2>21 DEF IInv
<1>4. CASE ~has_assoc
  <2>1. refs' = refs /\ th' = th
    BY <1>4 DEF Dealloc
  <2>2. DOMAIN refs = {}
    BY <1>0, <1>1, <1>4 DEF Marked
  <2>3. AssocTypeOK'
    BY <1>0, <1>2, <2>1 DEF AssocTypeOK
  <2>4. TableOK' /\ Marked'
    BY <2>1, <2>2 DEF TableOK, Marked
  <2>5. ASSUME NEW u \in Threads PROVE ThreadOK(u)'
    <3>1. ThreadOK(u) /\ th[u].pc = "idle"
      BY <1>0, <1>1
    <3> QED BY <2>1, <3>1 DEF ThreadOK
  <2>6. InOrder'
    <3>1. \A u \in Threads : th[u].pending = <<>> /\ DOMAIN th[u].pending = {}
      BY <1>1
    <3>2. DOMAIN released' = {}
      BY <1>2
    <3> QED BY <1>2, <2>1, <3>1, <3>2 DEF InOrder, Later
  <2>7. ReferencesExact'
    BY <1>0, <1>2, <2>1
       DEF ReferencesExact, Owners, Setting, Autoreleased, TakenOut, InTable, Holds, Retained
  <2> QED BY <2>3, <2>4, <2>5, <2>6, <2>7 DEF IInv
<1> QED BY <1>3, <1>4 DEF Dealloc

LEMMA AssocInitial == AssocInit => IInv
<1> SUFFICES ASSUME AssocInit PROVE IInv
  OBVIOUS
<1>1. /\ refs = <<>> /\ has_assoc = FALSE /\ dealloc = "no" /\ released = <<>>
      /\ rc = [v \in Values |-> Cardinality(Threads)] /\ th = [t \in Threads |-> Resting]
  BY DEF AssocInit
<1>2. /\ IsFiniteSet(Threads) /\ Cardinality(Threads) \in Nat /\ Cardinality(Keys) \in Nat
      /\ MaxPool \in Nat
  BY AssociatedObjectsAssumption, FS_CardinalityType
<1>3. DOMAIN refs = {}
  BY <1>1
<1>4. refs \in UNION {[A -> Association] : A \in SUBSET Keys}
  <2>1. refs \in [{} -> Association]
    BY <1>1
  <2> QED BY <2>1
<1>5. Resting \in Thread
  BY DEF Resting, Thread
<1>6. AssocTypeOK
  <2>1. has_assoc \in BOOLEAN /\ dealloc \in {"no", "begun"} /\ released \in Seq(Keys)
    <3>1. <<>> \in Seq(Keys)
      OBVIOUS
    <3> QED BY <1>1, <3>1, Zenon
  <2>2. rc \in [Values -> Int]
    BY <1>1, <1>2
  <2>3. th \in [Threads -> Thread]
    BY <1>1, <1>5, Zenon
  <2> QED BY <1>4, <2>1, <2>2, <2>3 DEF AssocTypeOK
<1>7. TableOK /\ Marked
  BY <1>3 DEF TableOK, Marked
<1>8. InOrder
  BY <1>1 DEF InOrder
<1>9. \A t \in Threads :
        /\ th[t].pc = "idle" /\ th[t].pending = <<>> /\ th[t].pool = <<>> /\ th[t].mine = Values
        /\ DOMAIN th[t].pending = {} /\ DOMAIN th[t].pool = {}
  BY <1>1 DEF Resting
<1>10. \A t \in Threads : ThreadOK(t)
  <2> SUFFICES ASSUME NEW t \in Threads PROVE ThreadOK(t)
    OBVIOUS
  <2>1. Len(th[t].pending) = 0 /\ Len(th[t].pool) = 0
    BY <1>9
  <2> QED BY <1>2, <1>9, <2>1 DEF ThreadOK
<1>11. ReferencesExact
  <2> SUFFICES ASSUME NEW v \in Values
               PROVE  rc[v] = Cardinality(Owners(v)) + Cardinality(Setting(v)) + Cardinality(Autoreleased(v))
                                + Cardinality(TakenOut(v)) + Cardinality(InTable(v))
    BY DEF ReferencesExact
  <2>1. Owners(v) = Threads /\ Setting(v) = {}
    BY <1>9 DEF Owners, Setting
  <2>2. Autoreleased(v) = {} /\ TakenOut(v) = {}
    BY <1>9 DEF Autoreleased, TakenOut
  <2>3. InTable(v) = {}
    BY <1>3 DEF InTable
  <2>4. rc[v] = Cardinality(Threads) /\ Cardinality({}) = 0
    BY <1>1, FS_EmptySet
  <2> QED BY <1>2, <2>1, <2>2, <2>3, <2>4
<1> QED BY <1>6, <1>7, <1>8, <1>10, <1>11 DEF IInv

LEMMA AssocStutter ==
  ASSUME IInv, UNCHANGED assocVars
  PROVE  IInv'
<1>0. /\ refs' = refs /\ has_assoc' = has_assoc /\ dealloc' = dealloc /\ rc' = rc /\ th' = th
      /\ released' = released
  BY DEF assocVars
<1>1. AssocTypeOK' /\ TableOK'
  BY <1>0 DEF IInv, AssocTypeOK, TableOK
<1>2. Marked'
  BY <1>0 DEF IInv, Marked
<1>3. InOrder'
  BY <1>0 DEF IInv, InOrder, Later
<1>4. \A t \in Threads : ThreadOK(t)'
  BY <1>0 DEF IInv, ThreadOK
<1>5. \A v : /\ Owners(v)' = Owners(v) /\ Setting(v)' = Setting(v)
             /\ Autoreleased(v)' = Autoreleased(v) /\ TakenOut(v)' = TakenOut(v)
             /\ InTable(v)' = InTable(v)
  BY <1>0 DEF Owners, Setting, Autoreleased, TakenOut, InTable, Holds, Retained
<1>6. ReferencesExact'
  BY <1>0, <1>5 DEF IInv, ReferencesExact
<1> QED BY <1>1, <1>2, <1>3, <1>4, <1>6 DEF IInv

-----------------------------------------------------------------------------
(* The theorems.                                                           *)

\* Every step of objc-references.mm keeps the invariant: what the table, the pending
\* lists of _object_remove_assocations, the pools and the threads hold adds up.
THEOREM AssociatedInvariance == AssocSpec => []IInv
<1>1. IInv /\ [AssocNext]_assocVars => IInv'
  <2> SUFFICES ASSUME IInv, [AssocNext]_assocVars PROVE IInv'
    OBVIOUS
  <2>1. CASE AssocNext
    <3>1. PICK t \in Threads :
            \/ \E v \in Values : Release(t, v)
            \/ Drain(t) \/ SetLocked(t) \/ SetHasAssociatedObjects(t) \/ ReleaseValue(t)
            \/ RemoveAll(t) \/ Dealloc(t)
            \/ \E k \in Keys : Get(t, k)
            \/ \E k \in Keys, v \in Values \cup {nil}, policy \in Policies :
                 SetBegin(t, k, v, policy)
      BY <2>1 DEF AssocNext
    <3>2. CASE \E v \in Values : Release(t, v)
      BY <3>2, ReleaseStep
    <3>3. CASE Drain(t) \/ SetLocked(t) \/ SetHasAssociatedObjects(t)
      BY <3>3, DrainStep, SetLockedStep, SetHasAssociatedObjectsStep
    <3>4. CASE ReleaseValue(t) \/ RemoveAll(t) \/ Dealloc(t)
      BY <3>4, ReleaseValueStep, RemoveAllStep, DeallocStep
    <3>5. CASE \E k \in Keys : Get(t, k)
      BY <3>5, GetStep
    <3>6. CASE \E k \in Keys, v \in Values \cup {nil}, policy \in Policies :
                 SetBegin(t, k, v, policy)
      BY <3>6, SetBeginStep
    <3> QED BY <3>1, <3>2, <3>3, <3>4, <3>5, <3>6
  <2>2. CASE UNCHANGED assocVars
    BY <2>2, AssocStutter
  <2> QED BY <2>1, <2>2
<1> QED BY <1>1, AssocInitial, PTL DEF AssocSpec

\* Whatever interleaving of setters, getters and removers there is, a value's count is
\* the number of references that somebody has to it: acquireValue and
\* releaseHeldValue, which run outside the lock, are paired for every association.
THEOREM ReferencesAccounted == AssocSpec => []ReferencesExact
<1>1. IInv => ReferencesExact
  BY DEF IInv
<1> QED BY <1>1, AssociatedInvariance, PTL

\* objc_object::rootDealloc and objc_destructInstance may look at has_assoc alone to
\* know whether anything is associated, and what -dealloc takes out is released with
\* the system's associations last.
THEOREM EndsWithObject == AssocSpec => []AssociationsEndWithObject
<1>1. IInv => AssociationsEndWithObject
  <2> SUFFICES ASSUME IInv PROVE AssociationsEndWithObject
    OBVIOUS
  <2>1. dealloc = "begun" => refs = <<>>
    <3>1. dealloc = "begun" => DOMAIN refs = {}
      BY DEF IInv, Marked
    <3> QED BY <3>1, EmptyTable DEF IInv
  <2>2. \A i, j \in DOMAIN released :
          i < j /\ released[i] \in SystemKeys => released[j] \in SystemKeys
    BY DEF IInv, InOrder
  <2> QED BY <2>1, <2>2 DEF AssociationsEndWithObject
<1> QED BY <1>1, AssociatedInvariance, PTL
=============================================================================
