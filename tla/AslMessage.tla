----------------------------- MODULE AslMessage -----------------------------
(***************************************************************************)
(* A log message of libsystem_asl (asl_msg.c): a chain of pages, each with *)
(* a few slots and a little memory for strings, which is never compacted;  *)
(* only the last string of a page gives its memory back. A string that is  *)
(* longer than a page, or does not fit beside its key, is allocated, and   *)
(* the page has a pointer to it. Messages of ASL_TYPE_MSG only: a query is *)
(* a list of what was added.                                               *)
(***************************************************************************)
EXTENDS Integers, Sequences, FiniteSets, FiniteSetsExt, SequencesExt

CONSTANTS
  Keys, Values, Null, Absent,
  Level, Message,   \* two of the keys: ASL_KEY_LEVEL, ASL_KEY_MSG
  LevelNumber,      \* names and numbers of levels -> numbers
  Debug,            \* "7"
  Stripped,         \* Values -> what is left without newlines at the end, or Null
  KeySize,          \* Keys -> Nat: 0 for the standard keys, which have a number
  Size,             \* Values -> Nat: with the NUL at the end
  PointerSize, ASL_MSG_PAGE_DATA_SIZE, ASL_MSG_KVO_MSG_SLOTS,
  MaxPages,         \* bound on the length of the chain
  MaxCount          \* bound on a page's count: a replaced entry is counted twice

\* keys are never allocated: those of the system are far shorter than a page
AslMessageAssumption ==
  \A k \in Keys : KeySize[k] + PointerSize <= ASL_MSG_PAGE_DATA_SIZE

VARIABLES
  pages,            \* <<>> while there is no message
  strings,          \* pointers -> allocated strings
  corrupt,          \* memory that is not the message's was freed
  asked             \* history: what the calls have set and removed

vars == <<pages, strings, corrupt, asked>>

Slots == 1 .. ASL_MSG_KVO_MSG_SLOTS
None == [page |-> 0, slot |-> 0]

\* a key or value of a slot: the string or pointer it has, and where: a standard key takes
\* no memory. What nothing points to is left out
Piece(at, size, what, extern) == [at |-> at, size |-> size, what |-> what, extern |-> extern]
Free0 == Piece(-1, 0, Absent, FALSE)
FreeSlot == [key |-> Free0, val |-> Free0]

\* _asl_msg_make_page
Page == [slots |-> [s \in Slots |-> FreeSlot], data_size |-> 0, count |-> 0]

\* _asl_msg_slot_key, _asl_msg_slot_val
KeyOf(p, s) == p.slots[s].key.what
ValOf(p, s, h) ==
  LET v == p.slots[s].val
  IN  IF v = Free0 THEN Null ELSE IF v.extern /\ v.what \in DOMAIN h THEN h[v.what] ELSE v.what

\* places in the order of the searches
Before(x, y) == x.page < y.page \/ (x.page = y.page /\ x.slot < y.slot)
First(places) ==
  IF places = {} THEN None
  ELSE CHOOSE x \in places : \A y \in places : x = y \/ Before(x, y)
Places(m) == [page : DOMAIN m, slot : Slots]

\* _asl_msg_index
Index(m, k) == First({x \in Places(m) : KeyOf(m[x.page], x.slot) = k})

\* _asl_msg_resolve_index: the n-th entry, from 0; pages before it are passed by their
\* counts, the others by their slots
ResolveIndex(m, n) ==
  LET pass(acc, i) ==
        LET used == {s \in Slots : KeyOf(m[i], s) # Absent}
            here == {s \in used : acc.sx + Cardinality({t \in used : t < s}) = n}
        IN  IF acc.found # None THEN acc
            ELSE IF n > acc.sx + m[i].count THEN [acc EXCEPT !.sx = @ + m[i].count]
            ELSE [sx |-> acc.sx + Cardinality(used),
                  found |-> First({[page |-> i, slot |-> s] : s \in here})]
  IN  FoldLeft(pass, [sx |-> 0, found |-> None], [i \in DOMAIN m |-> i]).found

-----------------------------------------------------------------------------
(* Values. A string is freed with the slot that points to it.              *)

Pointer(p, s) == IF p.slots[s].val.extern THEN {p.slots[s].val.what} ELSE {}
Freed(h, ps) == [q \in DOMAIN h \ ps |-> h[q]]
NewPointer(h) == Min((1 .. Cardinality(DOMAIN h) + 1) \ DOMAIN h)
Strdup(h, v, extern) == IF extern THEN NewPointer(h) :> v @@ h ELSE h
SizeOf(v, extern) == IF v = Null THEN 0 ELSE IF extern THEN PointerSize ELSE Size[v]

\* memcpy of new to its place in a page's data: what it overwrites is lost
Lost(piece, new) ==
  IF piece.at < new.at + new.size /\ new.at < piece.at + piece.size
  THEN [piece EXCEPT !.what = Null] ELSE piece
Written(slots, new) ==
  [s \in Slots |-> [key |-> Lost(slots[s].key, new), val |-> Lost(slots[s].val, new)]]

\* page p with the piece as slot s's key or value, in memory that is the slot's already or
\* at the end of the data
Stored(p, s, field, new) ==
  [p EXCEPT !.slots = [Written(@, new) EXCEPT ![s][field] = new],
            !.data_size = IF new.at = @ THEN @ + new.size ELSE @]

Val(h, at, v, extern) ==
  Piece(at, SizeOf(v, extern), IF extern THEN NewPointer(h) ELSE v, extern)

\* _asl_msg_new_key_val_op, on pages m and strings h: the first page with a free slot and
\* the room, or a new one. There is no memory for one: status -1
NewKeyVal(m, h, k, v, status) ==
  LET extern == v # Null /\ \/ Size[v] > ASL_MSG_PAGE_DATA_SIZE
                            \/ KeySize[k] > 0 /\ KeySize[k] + Size[v] > ASL_MSG_PAGE_DATA_SIZE
      total == KeySize[k] + SizeOf(v, extern)
      fits == {x \in Places(m) : /\ total <= ASL_MSG_PAGE_DATA_SIZE - m[x.page].data_size
                                 /\ KeyOf(m[x.page], x.slot) = Absent}
      x == IF fits = {} THEN [page |-> Len(m) + 1, slot |-> 1] ELSE First(fits)
      p == IF fits = {} THEN Page ELSE m[x.page]
      keyed == Stored([p EXCEPT !.count = @ + 1], x.slot, "key",
                      Piece(IF KeySize[k] = 0 THEN -1 ELSE p.data_size, KeySize[k], k, FALSE))
      filled == IF v = Null THEN keyed
                ELSE Stored(keyed, x.slot, "val", Val(h, keyed.data_size, v, extern))
  IN  \/ /\ status = 0
         /\ fits # {} \/ Len(m) < MaxPages
         /\ pages' = [i \in DOMAIN m \cup {x.page} |-> IF i = x.page THEN filled ELSE m[i]]
         /\ strings' = Strdup(h, v, extern)
      \/ status = -1 /\ fits = {} /\ pages' = m /\ strings' = h

\* a slip: the memory of any inline value is taken back
IsLast_Inline(p, s) == p.slots[s].val # Free0 /\ ~p.slots[s].val.extern

\* the slot's value is the last string of the page
IsLast(p, s) ==
  LET v == p.slots[s].val IN v # Free0 /\ v.at + v.size = p.data_size

\* _asl_msg_set_kvo for a key that slot x has: v replaces its value, in the place of the
\* old one, at the end of the page, or as a new entry. Then the bits are tested of a k that
\* was never assigned, and what they point to is freed, or nothing; the page's count stays
Replace(k, v, x, status) ==
  LET p == pages[x.page]
      s == x.slot
      old == p.slots[s].val
      h == Freed(strings, Pointer(p, s))
      noVal == [p EXCEPT !.slots[s].val = Free0]
      last == IsLast(p, s)
      q == IF last THEN [noVal EXCEPT !.data_size = @ - old.size] ELSE p
      extern == v # Null /\ Size[v] > ASL_MSG_PAGE_DATA_SIZE
      inPlace == ~last /\ SizeOf(v, extern) <= old.size
      onPage == SizeOf(v, extern) <= ASL_MSG_PAGE_DATA_SIZE - q.data_size
      at == IF inPlace THEN old.at ELSE q.data_size
  IN  \/ /\ v = Null /\ status = 0
         /\ pages' = [pages EXCEPT ![x.page] = noVal] /\ strings' = h
         /\ UNCHANGED corrupt
      \/ /\ v # Null /\ v = ValOf(p, s, strings) /\ status = 0
         /\ UNCHANGED <<pages, strings, corrupt>>
      \/ /\ v # Null /\ v # ValOf(p, s, strings) /\ (inPlace \/ onPage) /\ status = 0
         /\ pages' = [pages EXCEPT ![x.page] = Stored(q, s, "val", Val(h, at, v, extern))]
         /\ strings' = Strdup(h, v, extern)
         /\ UNCHANGED corrupt
      \/ /\ v # Null /\ v # ValOf(p, s, strings) /\ ~inPlace /\ ~onPage /\ p.count < MaxCount
         /\ \/ /\ NewKeyVal([pages EXCEPT ![x.page] = [q EXCEPT !.slots[s] = FreeSlot]],
                            h, k, v, status)
               /\ UNCHANGED corrupt
            \/ corrupt' = TRUE /\ pages' = <<>> /\ strings' = <<>>

-----------------------------------------------------------------------------
\* what asl_msg_set_key_val_op makes of the value: a level is a number, and a message
\* has no newlines at its end
Converted(k, v) ==
  CASE k = Level -> IF v \in DOMAIN LevelNumber THEN LevelNumber[v] ELSE Debug
    [] k = Message /\ v # Null -> Stripped[v]
    [] OTHER -> v

\* _asl_msg_set_kvo; without memory for a new page the key is left without an entry
SetKvo(k, v, status) ==
  LET x == Index(pages, k) IN
  /\ pages # <<>> /\ ~corrupt
  /\ \/ x # None /\ Replace(k, v, x, status)
     \/ x = None /\ NewKeyVal(pages, strings, k, v, status) /\ UNCHANGED corrupt
  /\ asked' = [asked EXCEPT ![k] = IF status = 0 THEN v ELSE Absent]

\* asl_msg_set_key_val_op, with any value
SetKeyVal(k, status) ==
  \E c \in {Converted(k, v) : v \in Values \cup {Null}} : SetKvo(k, c, status)

\* _asl_msg_unset_page_slot, of key k
UnsetPageSlot(x, k) ==
  /\ ~corrupt /\ x # None
  /\ pages' = [pages EXCEPT ![x.page].slots[x.slot] = FreeSlot, ![x.page].count = @ - 1]
  /\ strings' = Freed(strings, Pointer(pages[x.page], x.slot))
  /\ asked' = [asked EXCEPT ![k] = Absent]
  /\ UNCHANGED corrupt

\* asl_msg_unset
Unset(k) == UnsetPageSlot(Index(pages, k), k)

\* asl_msg_unset_index, of whatever entry the index is taken for
UnsetIndex(n) ==
  \E k \in Keys : LET x == ResolveIndex(pages, n) IN
    x # None /\ KeyOf(pages[x.page], x.slot) = k /\ UnsetPageSlot(x, k)

\* asl_msg_new, and the last asl_msg_release (_jump_dealloc)
New == pages = <<>> /\ ~corrupt /\ pages' = <<Page>> /\ UNCHANGED <<strings, corrupt, asked>>
Free ==
  /\ pages # <<>> /\ ~corrupt
  /\ pages' = <<>>
  /\ strings' = Freed(strings, UNION {Pointer(pages[x.page], x.slot) : x \in Places(pages)})
  /\ asked' = [k \in Keys |-> Absent]
  /\ UNCHANGED corrupt

Init == pages = <<>> /\ strings = <<>> /\ corrupt = FALSE /\ asked = [k \in Keys |-> Absent]

Next ==
  \/ New \/ Free
  \/ \E k \in Keys : Unset(k) \/ \E status \in {0, -1} : SetKeyVal(k, status)
  \/ \E n \in 0 .. Cardinality(Keys) - 1 : UnsetIndex(n)

Spec == Init /\ [][Next]_vars

-----------------------------------------------------------------------------
Lookup(k) == LET x == Index(pages, k)
             IN  IF x = None THEN Absent ELSE ValOf(pages[x.page], x.slot, strings)
Extern == {x \in Places(pages) : pages[x.page].slots[x.slot].val.extern}
PointerAt == [x \in Extern |-> pages[x.page].slots[x.slot].val.what]

\* Wherever its strings are, over whatever they were written and whatever was given back,
\* a message is a map: each key has the value of its last call, as converted, and no other
\* ("Most of the code in asl_msg_set_key_val_op is concerned with trying to re-use space
\* in an asl_msg_t page"). The strings allocated are those that slots point to, each from
\* one: none is used after it was freed, freed twice or forgotten. Nothing is said once
\* memory of others is freed.
MessageIsMap ==
  corrupt \/ /\ \A k \in Keys : Lookup(k) = asked[k]
             /\ IsInjective(PointerAt) /\ Range(PointerAt) = DOMAIN strings
=============================================================================
