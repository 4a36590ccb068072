----------------------------- MODULE MCObjects ------------------------------
(***************************************************************************)
(* Four parts of libobjc that share no state: @synchronized, weak tables,  *)
(* +load and associated objects. Every behaviour is one of a single part:  *)
(* part says of which, and the others stay as they were at the start.      *)
(***************************************************************************)
EXTENDS Sync, AssociatedObjects, TLC

CONSTANTS
  Dead, w1, w2, w3, l1, l2, l3,         \* WeakTable
  im1, im2, im3, A, B, C, D, E, K1, K2, K3,  \* LoadMethods
  UnmapsPending,
  Parts                                      \* those that a run has

VARIABLES
  part,
  hash, weak_table, location, life, fatal,                            \* WeakTable
  mapped, loaded, prepared, classes, categories, load, called, maps   \* LoadMethods

weakVars == <<hash, weak_table, location, life, fatal>>
loadVars == <<mapped, loaded, prepared, classes, categories, load, called, maps>>

\* three objects, three variables; two inline referrers; a table of two slots that grows
\* to four and is compacted again. The objects are in two clusters that meet and wrap
\* around; so are the variables, or all of them collide at the last slot
Hash(i, j, k, m, n, p) ==
  (w1 :> i @@ l1 :> m) @@ (w2 :> j @@ l2 :> n) @@ (w3 :> k @@ l3 :> p)
Weak == INSTANCE WeakTable WITH
  Objects <- {w1, w2, w3}, Locations <- {l1, l2, l3},
  Hashes <- {Hash(2, 3, 7, 3, 3, 3), Hash(2, 3, 7, 2, 3, 7)},
  WEAK_INLINE_COUNT <- 2, TABLE_INIT <- 2, COMPACT_MIN <- 4,
  COMPACT_LOAD <- 4, COMPACT_BY <- 2, MaxDying <- 1

ASSUME Weak!WeakTableAssumption

\* a chain of classes, one without +load, over three images
Load == INSTANCE LoadMethods WITH
  NULL <- nil, Images <- {im1, im2, im3}, Bundles <- {im2, im3},
  Classes <- {A, B, C, D, E}, Super <- A :> nil @@ E :> A @@ B :> E @@ C :> B @@ D :> C,
  HasLoad <- {A, B, C, D},
  ClassList <- im1 :> <<B, A>> @@ im2 :> <<C>> @@ im3 :> <<D>>,
  AllClasses <- im1 :> {A, B, E} @@ im2 :> {C} @@ im3 :> {D},
  CategoryList <- im1 :> <<K1>> @@ im2 :> <<K2>> @@ im3 :> <<K3>>,
  ClassOf <- K1 :> A @@ K2 :> B @@ K3 :> C, MaxMaps <- 5,
  loadable_classes <- classes, loadable_categories <- categories, call <- load

PartInit ==
  /\ part \in Parts
  /\ Init /\ Weak!Init /\ Load!Init /\ AssocInit
  /\ part = "weak" \/ hash[l3] = 3

\* threads that synchronize may not stop; the others may: an object is deallocated, all
\* images are mapped
PartNext ==
  /\ UNCHANGED part
  /\ \/ part = "sync" /\ Next /\ UNCHANGED <<weakVars, loadVars, assocVars>>
     \/ part = "weak" /\ (Weak!Next \/ UNCHANGED weakVars) /\ UNCHANGED <<vars, loadVars, assocVars>>
     \/ part = "load" /\ (Load!Next \/ UNCHANGED loadVars) /\ UNCHANGED <<vars, weakVars, assocVars>>
     \/ /\ part = "associated" /\ (AssocNext \/ UNCHANGED assocVars)
        /\ UNCHANGED <<vars, weakVars, loadVars>>

PartSpec == PartInit /\ [][PartNext]_<<part, vars, weakVars, loadVars, assocVars>>

Symmetry == Permutations(Values) \cup Permutations(Threads)

-----------------------------------------------------------------------------
\* Weak tables: what is registered, where, and the counters (see WeakTable).
TableSound == part = "weak" => Weak!TableSound
\* Weak tables: they are zeroing weak references (see WeakTable).
ImplementsWeakReferences ==
  Weak!References!Init /\ [][part = "weak" => Weak!References!Next]_weakVars

\* +load: superclasses and classes first, and nobody forgotten (call_load_methods, see
\* LoadMethods).
EachInTurn == part = "load" => Load!EachInTurn
\* +load is sent to nothing of an image that is unmapped (_unload_image, see LoadMethods).
OnlyMapped == part = "load" => Load!OnlyMapped
=============================================================================
