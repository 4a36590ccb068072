--------------------------- MODULE WeakReferences ---------------------------
(***************************************************************************)
(* What zeroing weak references promise: a weak variable holds the object  *)
(* last stored in it until that object is deallocated, when every variable *)
(* that holds it becomes nil at once. An object that is deallocating cannot*)
(* be stored. Variables that are no longer alive are never touched.        *)
(***************************************************************************)
EXTENDS Naturals

CONSTANTS Objects, Locations, nil, Dead

VARIABLES
  location,      \* what each weak variable holds; Dead if it is not alive
  deallocating   \* the objects whose -dealloc has begun

vars == <<location, deallocating>>

Init ==
  /\ location \in [Locations -> {nil, Dead}]
  /\ deallocating = {}

Store(l, o) ==
  /\ location' = [location EXCEPT ![l] = IF o \in deallocating THEN nil ELSE o]
  /\ UNCHANGED deallocating

Destroy(l) ==
  /\ location' = [location EXCEPT ![l] = Dead]
  /\ UNCHANGED deallocating

BeginDealloc(o) ==
  /\ o \notin deallocating
  /\ deallocating' = deallocating \cup {o}
  /\ UNCHANGED location

\* the variables are zeroed
Clear(o) ==
  /\ o \in deallocating
  /\ location' = [l \in Locations |-> IF location[l] = o THEN nil ELSE location[l]]
  /\ UNCHANGED deallocating

\* the memory is free, and becomes another object
Reborn(o) ==
  /\ o \in deallocating /\ \A l \in Locations : location[l] # o
  /\ deallocating' = deallocating \ {o}
  /\ UNCHANGED location

Next ==
  \/ \E l \in Locations : Destroy(l) \/ \E o \in Objects \cup {nil} : Store(l, o)
  \/ \E o \in Objects : BeginDealloc(o) \/ Clear(o) \/ Reborn(o)

Spec == Init /\ [][Next]_vars
=============================================================================
