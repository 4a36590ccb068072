---------------------------- MODULE MCLiveness ------------------------------
(***************************************************************************)
(* +initialize and reference counts, which share no state, under fair      *)
(* scheduling. Every behaviour is one of a single part: part says of which,*)
(* and the other stays as it was at the start.                             *)
(***************************************************************************)
EXTENDS ClassInitialize, TLC

CONSTANTS
  t1, t2, OBObject, OFObject, OWAddressEntry, OWController,
  NoThread, RC_HALF, SIDE_PINNED, MaxRefs                     \* RefCount

VARIABLES
  part,
  isa, side, weakRef, lock, crashed, deallocator, freed, refs, nest,
  pc, old, full, locked, try                                  \* RefCount

\* the hierarchy of the deadlock described in objc-initialize.mm:60, cut to what
\* matters: [OBObject initialize] runs OBPostLoader, which inits classes far below it
Hierarchy ==
  OBObject :> NoClass @@ OFObject :> OBObject
    @@ OWAddressEntry :> OFObject @@ OWController :> OFObject
MessagesBelow ==
  OBObject :> {OFObject, OWController} @@ OFObject :> {OWAddressEntry}
    @@ OWAddressEntry :> {} @@ OWController :> {}

Counts == INSTANCE RefCount WITH
  Ops <- {"retain", "release", "storeWeak", "clearWeak", "loadWeak"}

countVars == <<isa, side, weakRef, lock, crashed, deallocator, freed, refs, nest,
               pc, old, full, locked, try>>
partVars == <<part, vars, countVars>>

ClassPart == part = "initialize" /\ UNCHANGED <<part, countVars>>
RefCountPart == part = "refcount" /\ UNCHANGED <<part, vars>>

PartInit ==
  /\ part \in {"refcount", "initialize"}
  /\ Init /\ Counts!Init
  /\ part = "refcount" \/ isa.nonpointer

PartNext == (ClassPart /\ Next) \/ (RefCountPart /\ Counts!Next)

\* the fairness of each part's own FairSpec, and the end of the clients' calls
PartFairness ==
  /\ \A t \in Threads :
       /\ WF_partVars(ClassPart /\ Step(t))
       /\ WF_partVars(RefCountPart /\ ~crashed /\ Counts!CallStep(t))
       /\ SF_partVars(RefCountPart /\ ~crashed /\ Counts!Stores(t))
  /\ <>[][RefCountPart => \E t \in Threads : Counts!CallStep(t)]_partVars

PartSpec == PartInit /\ [][PartNext]_partVars /\ PartFairness

-----------------------------------------------------------------------------
\* Reference counts: every retain, release, weak store and load returns, and an object
\* that lost its last reference is freed (rootRetain, rootRelease, clearDeallocating).
CallsEndAndObjectsGo == Counts!CallsTerminate /\ Counts!DeallocEnds
=============================================================================
