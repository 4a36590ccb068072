---------------------------- MODULE MCRefCount ----------------------------
(* Instances of RefCount for TLC: the operations the clients call.         *)
EXTENDS RefCount, TLC

CONSTANTS t1, t2

Symmetry == Permutations(Threads)

AllOps == Operations
StrongOps == {"retain", "release", "retainCount", "changeIsa"}
WeakOps == {"retain", "release", "storeWeak", "clearWeak", "loadWeak"}
=============================================================================
