------------------------------ MODULE Lifetime ------------------------------
(***************************************************************************)
(* What reference counting promises its clients: a count of references, an *)
(* object that lives while there are any, -dealloc sent when the last one  *)
(* is given up, and the memory freed after it.                             *)
(***************************************************************************)
EXTENDS Naturals

VARIABLES
  count,   \* references that were made and not yet given up
  phase    \* "alive", "deallocating" or "freed"

lifetime == <<count, phase>>

Init == count = 1 /\ phase = "alive"

\* a strong or a weak load makes a reference only of an object that has one
Retain == /\ phase = "alive" /\ count > 0
          /\ count' = count + 1
          /\ UNCHANGED phase

Release == /\ phase = "alive" /\ count > 0
           /\ count' = count - 1
           /\ phase' = IF count = 1 THEN "deallocating" ELSE "alive"

Free == /\ phase = "deallocating"
        /\ phase' = "freed"
        /\ UNCHANGED count

Next == Retain \/ Release \/ Free

Spec == Init /\ [][Next]_lifetime
=============================================================================
