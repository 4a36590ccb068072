----------------------------- MODULE SlotMemory -----------------------------
(***************************************************************************)
(* What kxld_array.h guarantees: an array is a memory of slots that starts *)
(* out zeroed and that only writes, clear, deinit, copy and remove change; *)
(* init, resize and reset only say how many of the slots are items.        *)
(***************************************************************************)
EXTENDS Integers

CONSTANTS Arrays, Contents, Zero, MaxItems

VARIABLES mem, nitems

vars == <<mem, nitems>>
Slots == 0 .. MaxItems - 1
Blank == [i \in Slots |-> Zero]

Init == mem = [a \in Arrays |-> Blank] /\ nitems = [a \in Arrays |-> 0]

SetItems(a, n) == nitems' = [nitems EXCEPT ![a] = n] /\ UNCHANGED mem

Write(a, i, c) ==
  i < nitems[a] /\ mem' = [mem EXCEPT ![a][i] = c] /\ UNCHANGED nitems

Erase(a) ==
  mem' = [mem EXCEPT ![a] = Blank] /\ nitems' = [nitems EXCEPT ![a] = 0]

\* the items that follow move down, and the slot of the last is zeroed
Remove(a, r) ==
  LET n == nitems[a] IN
  /\ r < n /\ nitems' = [nitems EXCEPT ![a] = n - 1]
  /\ mem' = [mem EXCEPT ![a] = [i \in Slots |-> IF i < r \/ i >= n THEN @[i]
                                                ELSE IF i = n - 1 THEN Zero ELSE @[i + 1]]]

Copy(a, b) ==
  /\ nitems' = [nitems EXCEPT ![a] = nitems[b]]
  /\ mem' = [mem EXCEPT ![a] = [i \in Slots |-> IF i < nitems[b] THEN mem[b][i] ELSE Zero]]

Next ==
  \E a \in Arrays :
    \/ \E n \in 0 .. MaxItems : SetItems(a, n)
    \/ \E i \in Slots : Remove(a, i) \/ \E c \in Contents : Write(a, i, c)
    \/ Erase(a)
    \/ \E b \in Arrays \ {a} : Copy(a, b)

Spec == Init /\ [][Next]_vars
=============================================================================
