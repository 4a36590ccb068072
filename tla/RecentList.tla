----------------------------- MODULE RecentList -----------------------------
(***************************************************************************)
(* What a cache in order of use promises: a finite list, in which a use    *)
(* brings an item to the front and a new bound drops the items at the end. *)
(***************************************************************************)
EXTENDS Naturals, Sequences, SequencesExt

CONSTANTS Items

VARIABLE list

Init == list = <<>>

Without(l, x) == SelectSeq(l, LAMBDA y : y # x)

Put(l, m) == \E x \in Items \ ToSet(l) : m \in {<<x>> \o l, l \o <<x>>}
TakeOut(l, m) == \E x \in ToSet(l) : m = Without(l, x)
Use(l, m) == \E x \in ToSet(l) : m = <<x>> \o Without(l, x)
KeepFirst(l, m) == \E n \in 0 .. Len(l) : m = SubSeq(l, 1, n)

Step(l, m) == Put(l, m) \/ TakeOut(l, m) \/ Use(l, m) \/ KeepFirst(l, m)
Next == \E l \in {list}, m \in {list'} : Step(l, m)

Spec == Init /\ [][Next]_list
=============================================================================
