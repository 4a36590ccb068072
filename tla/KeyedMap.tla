------------------------------ MODULE KeyedMap ------------------------------
(***************************************************************************)
(* What a table of keys and values promises, whatever it is kept in: at    *)
(* most one value for a key, that of the last call that put or removed it. *)
(***************************************************************************)
CONSTANTS Keys, Values, NoValue

VARIABLE map    \* Keys -> Values, or NoValue

Init == map = [k \in Keys |-> NoValue]

OthersKept(m, n, k) == \A j \in Keys \ {k} : n[j] = m[j]

\* the map was m and is n
Put(m, n, k) == n[k] \in Values /\ OthersKept(m, n, k)
Remove(m, n, k) == n[k] = NoValue /\ OthersKept(m, n, k)
Clear(n) == \A k \in Keys : n[k] = NoValue

Next ==
  \E m \in {map}, n \in {map'} :
    \/ \E k \in Keys : Remove(m, n, k) \/ Put(m, n, k)
    \/ Clear(n)

Spec == Init /\ [][Next]_map
=============================================================================
