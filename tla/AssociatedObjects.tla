-------------------------- MODULE AssociatedObjects --------------------------
(***************************************************************************)
(* Associated objects (objc-references.mm): one table under one lock, from *)
(* an object and a key to a value and a policy. Values are retained before *)
(* the lock is taken and released after it is dropped, since either may    *)
(* run any code. One object is modelled; every thread has a reference to   *)
(* it until the last of them deallocates it.                               *)
(***************************************************************************)
EXTENDS Integers, FiniteSets, Sequences, SequencesExt, Process

CONSTANTS
  Keys, Values, nil,
  SystemKeys,         \* the keys used with OBJC_ASSOCIATION_SYSTEM_OBJECT
  MaxPool             \* bound on what a thread autoreleases

ASSUME AssociatedObjectsAssumption ==
  /\ IsFiniteSet(Threads) /\ IsFiniteSet(Keys)
  /\ nil \notin Values /\ SystemKeys \subseteq Keys /\ MaxPool \in Nat

VARIABLES
  refs,               \* the object's associations: keys -> [key, value, policy]
  has_assoc,          \* its isa's has_assoc
  dealloc,            \* "no", "begun"
  rc,                 \* reference counts of the values
  th,                 \* threads
  released            \* history: the keys whose values -dealloc has let go

assocVars == <<refs, has_assoc, dealloc, rc, th, released>>

\* a policy without OBJC_ASSOCIATION_GETTER_RETAIN is as "retain", but its getter takes
\* no reference
Policies == {"assign", "retain"}

\* new: the association that is being set; pending: those to be released, in order;
\* mine: the values the thread has references to; pool: those it has autoreleased
Resting == [pc |-> "idle", new |-> nil, pending |-> <<>>, mine |-> Values, pool |-> <<>>]

Retained(a) == a.value # nil /\ a.policy # "assign"
Changed(v, d) == rc' = [rc EXCEPT ![v] = @ + d]
MayCall(t) == dealloc = "no" /\ th[t].pc = "idle"

-----------------------------------------------------------------------------
\* the program gives up a reference, or drains a pool
Release(t, v) ==
  /\ th[t].pc = "idle" /\ v \in th[t].mine
  /\ Changed(v, -1) /\ th' = [th EXCEPT ![t].mine = @ \ {v}]
  /\ UNCHANGED <<refs, has_assoc, dealloc, released>>
Drain(t) ==
  /\ th[t].pc = "idle" /\ th[t].pool # <<>>
  /\ Changed(Last(th[t].pool), -1) /\ th' = [th EXCEPT ![t].pool = Front(@)]
  /\ UNCHANGED <<refs, has_assoc, dealloc, released>>

\* _object_get_associative_reference: an atomic getter retains under the lock what it
\* then autoreleases
Get(t, k) ==
  /\ MayCall(t) /\ k \in DOMAIN refs /\ Len(th[t].pool) < MaxPool
  /\ refs[k].policy = "retain"
  /\ Changed(refs[k].value, 1)
  /\ th' = [th EXCEPT ![t].pool = Append(@, refs[k].value)]
  /\ UNCHANGED <<refs, has_assoc, dealloc, released>>

\* _object_set_associative_reference, up to the lock: acquireValue
SetBegin(t, k, v, policy) ==
  /\ MayCall(t) /\ v \in th[t].mine \cup {nil}
  /\ LET a == [key |-> k, value |-> v, policy |-> policy] IN
     /\ th' = [th EXCEPT ![t].pc = "set", ![t].new = a]
     /\ IF Retained(a) THEN Changed(v, 1) ELSE UNCHANGED rc
  /\ UNCHANGED <<refs, has_assoc, dealloc, released>>

Erased(f, ks) == [k \in DOMAIN f \ ks |-> f[k]]
Old(k) == IF k \in DOMAIN refs THEN <<refs[k]>> ELSE <<>>

\* under the lock: the association takes the place of the old one
SetLocked(t) ==
  LET a == th[t].new IN
  /\ th[t].pc = "set"
  /\ refs' = IF a.value = nil THEN Erased(refs, {a.key})
             ELSE [k \in DOMAIN refs \cup {a.key} |-> IF k = a.key THEN a ELSE refs[k]]
  /\ th' = [th EXCEPT ![t].pc = IF a.value # nil /\ refs = <<>> THEN "first" ELSE "release",
                      ![t].new = nil, ![t].pending = Old(a.key)]
  /\ UNCHANGED <<has_assoc, dealloc, rc, released>>

\* isa.has_assoc, which is never cleared, set after the lock is dropped
SetHasAssociatedObjects(t) ==
  /\ th[t].pc = "first"
  /\ has_assoc' = TRUE /\ th' = [th EXCEPT ![t].pc = "release"]
  /\ UNCHANGED <<refs, dealloc, rc, released>>

\* releaseHeldValue of the next association that was taken out
ReleaseValue(t) ==
  /\ th[t].pc = "release"
  /\ IF th[t].pending = <<>>
     THEN th' = [th EXCEPT ![t].pc = "idle"] /\ UNCHANGED <<rc, released>>
     ELSE LET a == Head(th[t].pending) IN
          /\ th' = [th EXCEPT ![t].pending = Tail(@)]
          /\ IF Retained(a) THEN Changed(a.value, -1) ELSE UNCHANGED rc
          /\ released' = IF dealloc = "no" THEN released ELSE Append(released, a.key)
  /\ UNCHANGED <<refs, has_assoc, dealloc>>

\* a slip: the system's associations are taken out and put back, and released too
RemoveAll_AllReleased(t) ==
  /\ MayCall(t) /\ has_assoc
  /\ \E s \in SetToSeqs({refs[k] : k \in DOMAIN refs}) :
       th' = [th EXCEPT ![t].pc = "release", ![t].pending = s]
  /\ refs' = Erased(refs, Keys \ SystemKeys)
  /\ UNCHANGED <<has_assoc, dealloc, rc, released>>

\* a slip: the flag is cleared though the system's associations stay
RemoveAll_ClearsFlag(t) ==
  /\ MayCall(t) /\ has_assoc
  /\ \E s \in SetToSeqs({refs[k] : k \in DOMAIN refs \ SystemKeys}) :
       th' = [th EXCEPT ![t].pc = "release", ![t].pending = s]
  /\ refs' = Erased(refs, Keys \ SystemKeys) /\ has_assoc' = FALSE
  /\ UNCHANGED <<dealloc, rc, released>>

\* objc_removeAssociatedObjects: the system's associations are put back
RemoveAll(t) ==
  /\ MayCall(t) /\ has_assoc
  /\ \E s \in SetToSeqs({refs[k] : k \in DOMAIN refs \ SystemKeys}) :
       th' = [th EXCEPT ![t].pc = "release", ![t].pending = s]
  /\ refs' = Erased(refs, Keys \ SystemKeys)
  /\ UNCHANGED <<has_assoc, dealloc, rc, released>>

\* the last reference to the object is released: objc_destructInstance takes everything
\* out if the isa says that there is something, the system's associations to be
\* released after the others
Dealloc(t) ==
  /\ dealloc = "no" /\ \A u \in Threads : th[u].pc = "idle"
  /\ dealloc' = "begun"
  /\ \/ /\ has_assoc
        /\ \E s \in SetToSeqs({refs[k] : k \in DOMAIN refs \ SystemKeys}),
              later \in SetToSeqs({refs[k] : k \in DOMAIN refs \cap SystemKeys}) :
             th' = [th EXCEPT ![t].pc = "release", ![t].pending = s \o later]
        /\ refs' = <<>>
     \/ ~has_assoc /\ UNCHANGED <<refs, th>>
  /\ UNCHANGED <<has_assoc, rc, released>>

AssocInit ==
  /\ refs = <<>> /\ has_assoc = FALSE /\ dealloc = "no" /\ released = <<>>
  /\ rc = [v \in Values |-> Cardinality(Threads)] /\ th = [t \in Threads |-> Resting]

AssocNext ==
  \E t \in Threads :
    \/ \E v \in Values : Release(t, v)
    \/ Drain(t) \/ SetLocked(t) \/ SetHasAssociatedObjects(t) \/ ReleaseValue(t)
    \/ RemoveAll(t) \/ Dealloc(t)
    \/ \E k \in Keys : Get(t, k)
    \/ \E k \in Keys, v \in Values \cup {nil}, policy \in Policies : SetBegin(t, k, v, policy)

AssocSpec == AssocInit /\ [][AssocNext]_assocVars

-----------------------------------------------------------------------------
Holds(a, v) == Retained(a) /\ a.value = v

\* who has a reference to v: threads, calls that are about to make an association,
\* places in pools, places among associations that were taken out, and the table
Owners(v) == {t \in Threads : v \in th[t].mine}
Setting(v) == {t \in Threads : th[t].pc = "set" /\ Holds(th[t].new, v)}
Autoreleased(v) ==
  {p \in Threads \X (1 .. MaxPool) :
     p[2] \in DOMAIN th[p[1]].pool /\ th[p[1]].pool[p[2]] = v}
TakenOut(v) ==
  {p \in Threads \X (1 .. Cardinality(Keys)) :
     p[2] \in DOMAIN th[p[1]].pending /\ Holds(th[p[1]].pending[p[2]], v)}
InTable(v) == {k \in DOMAIN refs : Holds(refs[k], v)}

\* Every reference to a value is accounted for: it belongs to a thread, to a thread's
\* pool, to an association in the table, or to one that is on its way in or out. Each
\* association that retained its value releases it once, whichever of two racing
\* threads takes it out of the table (acquireValue, releaseHeldValue).
ReferencesExact ==
  \A v \in Values :
    rc[v] = Cardinality(Owners(v)) + Cardinality(Setting(v)) + Cardinality(Autoreleased(v))
              + Cardinality(TakenOut(v)) + Cardinality(InTable(v))

\* An object that is deallocated leaves no association to the next one at its address,
\* which rests on has_assoc though that is set after the lock is dropped
\* (objc_object::rootDealloc); and the associations of OBJC_ASSOCIATION_SYSTEM_OBJECT
\* are released after all others (objc-internal.h).
AssociationsEndWithObject ==
  /\ dealloc = "begun" => refs = <<>>
  /\ \A i, j \in DOMAIN released :
       i < j /\ released[i] \in SystemKeys => released[j] \in SystemKeys
=============================================================================
