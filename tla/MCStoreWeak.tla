---------------------------- MODULE MCStoreWeak ----------------------------
(* Instances of StoreWeak for TLC. *)
EXTENDS StoreWeak

CONSTANTS t1, t2, a, b, l1, l2, C, D

\* nil's table comes between the objects'
Tables3 == [x \in Objects \cup {nil} |-> CASE x = a -> 1 [] x = nil -> 2 [] OTHER -> 3]
Isa == [x \in Objects |-> IF x = a THEN C ELSE D]
=============================================================================
