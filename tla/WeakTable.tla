----------------------------- MODULE WeakTable -----------------------------
(***************************************************************************)
(* The weak reference table of one side table (objc-weak.mm): an open-     *)
(* addressed table of entries, one for each referenced object, and in each *)
(* entry the addresses of the weak variables that hold it: a few of them   *)
(* inline, more of them in an open-addressed table of its own. Deleting    *)
(* leaves a hole and no tombstone: what a search relies on instead is the  *)
(* largest displacement of any insertion since the table was last rebuilt. *)
(* Every operation runs with the side table's lock held; StoreWeak models  *)
(* who calls them when.                                                    *)
(***************************************************************************)
EXTENDS Naturals, Sequences, FiniteSets, SequencesExt

CONSTANTS
  Objects, Locations,
  nil,                \* also an empty slot of either table
  Dead,
  Hashes,             \* the hash functions considered
  WEAK_INLINE_COUNT,  \* 4
  TABLE_INIT,         \* 64: slots of the first table
  COMPACT_MIN,        \* 1024: slots of the smallest table that is compacted,
  COMPACT_LOAD,       \* 16: when at most one in so many is used,
  COMPACT_BY,         \* 8: to a table so many times smaller
  MaxDying            \* bound: objects in -dealloc at a time

\* what the constants must be
WeakTableAssumption ==
  /\ nil \notin Objects \cup Locations /\ Dead \notin Objects \cup {nil}
  /\ Hashes \subseteq [Objects \cup Locations -> Nat]

VARIABLES
  hash,         \* hash_pointer and w_hash_pointer
  weak_table,
  location,     \* what each weak variable holds; Dead if it is not alive
  life,         \* "live", "deallocating", or "cleared" and soon freed
  fatal         \* bad_weak_table was called

vars == <<hash, weak_table, location, life, fatal>>

\* --- open addressing, the same in both tables -----------------------------

Table(slots, n, maxd) == [slots |-> slots, num |-> n, maxDisplacement |-> maxd]
EmptyTable(size) == Table([i \in 0 .. size - 1 |-> nil], 0, 0)

Size(t) == Cardinality(DOMAIN t.slots)
Probe(t, h, d) == (h + d) % Size(t)
Contents(t) == {t.slots[i] : i \in DOMAIN t.slots} \ {nil}

\* a slot holds an entry, found by its referent, or a referrer
Key(x) == IF x \in Locations THEN x ELSE x.referent
Holds(x, k) == x # nil /\ Key(x) = k

IsFull(t) == \A i \in DOMAIN t.slots : t.slots[i] # nil

\* a slip: the hint is not raised
Insert_ForgetsDisplacement(t, x) ==
  LET h == hash[Key(x)]
      d == CHOOSE d \in 0 .. Size(t) - 1 :
             /\ t.slots[Probe(t, h, d)] = nil
             /\ \A e \in 0 .. d - 1 : t.slots[Probe(t, h, e)] # nil
  IN  Table([t.slots EXCEPT ![Probe(t, h, d)] = x], t.num + 1, t.maxDisplacement)

\* the first empty slot from the hash on
Insert(t, x) ==
  LET h == hash[Key(x)]
      d == CHOOSE d \in 0 .. Size(t) - 1 :
             /\ t.slots[Probe(t, h, d)] = nil
             /\ \A e \in 0 .. d - 1 : t.slots[Probe(t, h, e)] # nil
  IN  Table([t.slots EXCEPT ![Probe(t, h, d)] = x], t.num + 1,
            IF d > t.maxDisplacement THEN d ELSE t.maxDisplacement)

\* how far from its hash a search finds the key
Reachable(t, k) ==
  {d \in 0 .. Size(t) - 1 :
     d <= t.maxDisplacement /\ Holds(t.slots[Probe(t, hash[k], d)], k)}

\* the search comes back to where it began
Wraps(t, k) ==
  /\ Size(t) > 0 /\ t.maxDisplacement >= Size(t) - 1
  /\ \A i \in DOMAIN t.slots : ~Holds(t.slots[i], k)

Rebuilt(t, size) ==
  LET old == SelectSeq([i \in 1 .. Size(t) |-> t.slots[i - 1]], LAMBDA x : x # nil)
  IN  FoldLeft(Insert, EmptyTable(size), old)

\* --- an entry: the referrers of one object --------------------------------

\* inline, refs is an array of WEAK_INLINE_COUNT slots without an order
NewEntry(referent, referrer) ==
  [referent |-> referent, outOfLine |-> FALSE,
   refs |-> Table([i \in 0 .. WEAK_INLINE_COUNT - 1 |-> IF i = 0 THEN referrer ELSE nil],
                  0, 0)]

\* the out-of-line table grows at three quarters
AppendOut(t, l) ==
  IF t.num >= (Size(t) * 3) \div 4
  THEN Insert(Rebuilt(t, 2 * Size(t)), l)
  ELSE Insert(t, l)

append_referrer(e, l) ==
  IF ~e.outOfLine /\ ~IsFull(e.refs)
  THEN LET i == CHOOSE i \in DOMAIN e.refs.slots :
                  /\ e.refs.slots[i] = nil
                  /\ \A j \in 0 .. i - 1 : e.refs.slots[j] # nil
       IN  [e EXCEPT !.refs.slots[i] = l]
  ELSE [e EXCEPT !.outOfLine = TRUE,
                 !.refs = AppendOut(IF e.outOfLine THEN @
                                    ELSE Table(@.slots, WEAK_INLINE_COUNT, 0), l)]

\* a variable that is not there is reported, and nothing is removed
remove_referrer(e, l) ==
  LET found == IF e.outOfLine THEN Reachable(e.refs, l) ELSE {}
  IN  IF ~e.outOfLine
      THEN [e EXCEPT !.refs.slots = [i \in DOMAIN @ |-> IF @[i] = l THEN nil ELSE @[i]]]
      ELSE IF found = {} THEN e
      ELSE [e EXCEPT !.refs = Table([@.slots EXCEPT ![Probe(@, hash[l], Min(found))] = nil],
                                    @.num - 1, @.maxDisplacement)]

\* Out of line with no referrer left, the inline array is read all the same: its
\* first element overlaps the pointer to the table, so that the entry is kept.
IsEmpty(e) == ~e.outOfLine /\ Contents(e.refs) = {}

\* --- the table of entries -------------------------------------------------

weak_grow_maybe(t) ==
  IF t.num >= (Size(t) * 3) \div 4
  THEN Rebuilt(t, IF Size(t) = 0 THEN TABLE_INIT ELSE 2 * Size(t))
  ELSE t

weak_compact_maybe(t) ==
  IF Size(t) >= COMPACT_MIN /\ Size(t) \div COMPACT_LOAD >= t.num
  THEN Rebuilt(t, Size(t) \div COMPACT_BY)
  ELSE t

weak_entry_remove(t, i) ==
  weak_compact_maybe(Table([t.slots EXCEPT ![i] = nil], t.num - 1, t.maxDisplacement))

\* the slots at which weak_entry_for_referent finds o: none, or the nearest
Entries(t, o) ==
  LET ds == IF Size(t) = 0 THEN {} ELSE Reachable(t, o)
  IN  {Probe(t, hash[o], d) : d \in {d \in ds : \A e \in ds : d <= e}}

weak_unregister_no_lock(t, o, l) ==
  IF o = nil \/ Entries(t, o) = {} THEN t
  ELSE LET i == CHOOSE i \in Entries(t, o) : TRUE
           e == remove_referrer(t.slots[i], l)
       IN  IF IsEmpty(e) THEN weak_entry_remove(t, i) ELSE [t EXCEPT !.slots[i] = e]

\* the object can be stored: it is not nil, and not deallocating
MayRegister(o) == o # nil /\ life[o] = "live"

weak_register_no_lock(t, o, l) ==
  IF ~MayRegister(o) THEN t
  ELSE IF Entries(t, o) = {}
  THEN Insert(weak_grow_maybe(t), NewEntry(o, l))
  ELSE LET i == CHOOSE i \in Entries(t, o) : TRUE
       IN  [t EXCEPT !.slots[i] = append_referrer(@, l)]

\* bad_weak_table in a search for o: in the table, or for l in o's entry
BadSearch(t, o, l) ==
  /\ o # nil
  /\ \/ Wraps(t, o)
     \/ \E i \in Entries(t, o) : t.slots[i].outOfLine /\ Wraps(t.slots[i].refs, l)

\* --- the operations, each with the side table's lock held -----------------

\* what storeWeak does between lockTwo and unlockTwo
Store(l, o) ==
  LET old == IF location[l] = Dead THEN nil ELSE location[l]
      t == weak_unregister_no_lock(weak_table, old, l)
  IN  /\ ~fatal
      /\ weak_table' = weak_register_no_lock(t, o, l)
      /\ location' = [location EXCEPT ![l] = IF MayRegister(o) THEN o ELSE nil]
      /\ fatal' = (BadSearch(weak_table, old, l) \/ (MayRegister(o) /\ BadSearch(t, o, l)))
      /\ UNCHANGED <<hash, life>>

\* objc_destroyWeak: the variable goes out of scope
DestroyWeak(l) ==
  /\ ~fatal /\ location[l] # Dead
  /\ weak_table' = weak_unregister_no_lock(weak_table, location[l], l)
  /\ location' = [location EXCEPT ![l] = Dead]
  /\ fatal' = BadSearch(weak_table, location[l], l)
  /\ UNCHANGED <<hash, life>>

Become(o, phase) == life' = [life EXCEPT ![o] = phase]

BeginDealloc(o) ==
  /\ ~fatal /\ life[o] = "live" /\ Become(o, "deallocating")
  /\ Cardinality({p \in Objects : life[p] # "live"}) < MaxDying
  /\ UNCHANGED <<hash, weak_table, location, fatal>>

\* a slip: only the inline referrers are zeroed
Cleared_Inline(e) ==
  [l \in Locations |-> IF ~e.outOfLine /\ l \in Contents(e.refs) /\ location[l] = e.referent
                       THEN nil ELSE location[l]]

\* a variable that holds something else is reported and left alone
Cleared(e) ==
  [l \in Locations |-> IF l \in Contents(e.refs) /\ location[l] = e.referent
                       THEN nil ELSE location[l]]

weak_clear_no_lock(o) ==
  /\ ~fatal /\ life[o] = "deallocating" /\ Become(o, "cleared")
  /\ fatal' = BadSearch(weak_table, o, nil)
  /\ IF Entries(weak_table, o) = {}
     THEN UNCHANGED <<weak_table, location>>
     ELSE \E i \in Entries(weak_table, o) :
            /\ location' = Cleared(weak_table.slots[i])
            /\ weak_table' = weak_entry_remove(weak_table, i)
  /\ UNCHANGED hash

\* the memory is free, and becomes another object
Reborn(o) ==
  /\ ~fatal /\ life[o] = "cleared" /\ Become(o, "live")
  /\ UNCHANGED <<hash, weak_table, location, fatal>>

Init ==
  /\ hash \in Hashes
  /\ weak_table = EmptyTable(0)
  /\ location = [l \in Locations |-> Dead]
  /\ life = [o \in Objects |-> "live"] /\ fatal = FALSE

Next ==
  \/ \E l \in Locations : DestroyWeak(l) \/ \E o \in Objects \cup {nil} : Store(l, o)
  \/ \E o \in Objects : BeginDealloc(o) \/ weak_clear_no_lock(o) \/ Reborn(o)

Spec == Init /\ [][Next]_vars

-----------------------------------------------------------------------------
\* The slots of the table that are entries.
Used == {i \in DOMAIN weak_table.slots : weak_table.slots[i] # nil}
EntryAt(i) == weak_table.slots[i]

\* Every weak variable that holds an object is registered with that object, in
\* one slot of one entry, where a search finds it; and nothing else is
\* registered: not a variable that went out of scope, nor one that now holds
\* something else (weak_unregister_no_lock, weak_register_no_lock).
RegisteredExactly ==
  LET slot(l) == {<<i, j>> \in UNION {{i} \X DOMAIN EntryAt(i).refs.slots : i \in Used} :
                    EntryAt(i).refs.slots[j] = l}
  IN  \A l \in Locations :
        IF location[l] \in {nil, Dead} THEN slot(l) = {}
        ELSE /\ Cardinality(slot(l)) = 1
             /\ \A s \in slot(l) :
                  /\ Entries(weak_table, location[l]) = {s[1]}
                  /\ EntryAt(s[1]).outOfLine => Reachable(EntryAt(s[1]).refs, l) # {}

\* The counters that decide when a table grows or shrinks count its slots
\* (weak_grow_maybe, weak_compact_maybe, append_referrer), and a table is never
\* so full that a search for something absent goes all the way round.
CountsExact ==
  /\ weak_table.num = Cardinality(Used)
  /\ Size(weak_table) > 0 => weak_table.num <= (Size(weak_table) * 3) \div 4
  /\ \A i \in Used : LET refs == EntryAt(i).refs IN
       EntryAt(i).outOfLine =>
         /\ refs.num = Cardinality({j \in DOMAIN refs.slots : refs.slots[j] # nil})
         /\ refs.num <= (Size(refs) * 3) \div 4

\* bad_weak_table is never called: "This may be a runtime bug".
NeverBad == ~fatal

\* The table implements zeroing weak references: in particular no variable holds
\* an object whose memory is reused (weak_clear_no_lock).
References == INSTANCE WeakReferences WITH
  deallocating <- {o \in Objects : life[o] # "live"}
ImplementsWeakReferences == References!Spec

\* The table in three parts: what is registered and where a search finds it, the
\* counters that make it grow, and that no search takes it for a bad one.
TableSound == RegisteredExactly /\ CountsExact /\ NeverBad
=============================================================================
