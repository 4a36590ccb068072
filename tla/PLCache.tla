------------------------------- MODULE PLCache -------------------------------
(***************************************************************************)
(* The DHCP server's cache of property lists (NICache.c): entries in a     *)
(* doubly linked list in order of use, which is written to a file and read *)
(* back when the server starts. The server has one thread, and may stop at *)
(* any point of a write.                                                   *)
(***************************************************************************)
EXTENDS Integers, FiniteSets, Sequences, SequencesExt

CONSTANTS
  Entries, NULL,
  Hosts,               \* property lists: [en, ip], the values of two properties
  CACHE_MIN, CACHE_MAX,
  Sizes,               \* the bounds that the server asks for
  NoFile

VARIABLES
  head, tail, count, max_entries,
  entry,               \* allocated entries -> [pl, next, prev]
  file, tmp,           \* the file, and the one that is being written: property lists
  scan,                \* PLCache_write: the entry it is at, or "idle"
  saved                \* history: what the last write that ended was to write

cache == <<head, tail, count, max_entries>>
vars == <<cache, entry, file, tmp, scan, saved>>

Idle == "idle"
Entry(pl) == [pl |-> pl, next |-> NULL, prev |-> NULL]
\* a write to x.field if x is not NULL
SetNext(f, x, y) == IF x = NULL THEN f ELSE [f EXCEPT ![x].next = y]
SetPrev(f, x, y) == IF x = NULL THEN f ELSE [f EXCEPT ![x].prev = y]

\* the entries from start on, along the pointers of one kind; one too many in a cycle
Walk(start, field) ==
  LET steps == Cardinality(DOMAIN entry)
      follow == [x \in DOMAIN entry \cup {NULL} |-> IF x = NULL THEN NULL ELSE entry[x][field]]
      at[n \in 0 .. steps] == IF n = 0 THEN start ELSE follow[at[n - 1]]
  IN  SelectSeq([n \in 1 .. steps + 1 |-> at[n - 1]], LAMBDA x : x # NULL)
List == Walk(head, "next")
Back == Walk(tail, "prev")
Linked(x) == x \in ToSet(List)

-----------------------------------------------------------------------------
(* The list. Its fields are changed through a record c.                    *)

Cache == [head |-> head, tail |-> tail, count |-> count, entry |-> entry]
Becomes(c) ==
  /\ head' = c.head /\ tail' = c.tail /\ count' = c.count /\ entry' = c.entry

\* PLCache_add
AddEntry(c, x) ==
  [head |-> x, tail |-> IF c.head = NULL THEN x ELSE c.tail, count |-> c.count + 1,
   entry |-> SetPrev([c.entry EXCEPT ![x].next = c.head, ![x].prev = NULL], c.head, x)]

\* PLCache_append
AppendEntry(c, x) ==
  [head |-> IF c.head = NULL THEN x ELSE c.head, tail |-> x, count |-> c.count + 1,
   entry |-> SetNext([c.entry EXCEPT ![x].next = NULL, ![x].prev = c.tail], c.tail, x)]

\* a slip: the last entry is taken for one in the middle
RemoveEntry_NotTail(c, x) ==
  LET e == c.entry[x] IN
  [head |-> IF x = c.head THEN e.next ELSE c.head, tail |-> c.tail, count |-> c.count - 1,
   entry |-> [SetPrev(SetNext(c.entry, e.prev, e.next), e.next, e.prev)
                EXCEPT ![x].next = NULL, ![x].prev = NULL]]

\* PLCache_remove
RemoveEntry(c, x) ==
  LET e == c.entry[x] IN
  [head |-> IF x = c.head THEN e.next ELSE c.head,
   tail |-> IF x = c.tail THEN e.prev ELSE c.tail, count |-> c.count - 1,
   entry |-> [SetPrev(SetNext(c.entry, e.prev, e.next), e.next, e.prev)
                EXCEPT ![x].next = NULL, ![x].prev = NULL]]

\* a slip: the entry is put at the other end
MakeHead_Last(c, x) == IF x = c.head THEN c ELSE AppendEntry(RemoveEntry(c, x), x)

\* PLCache_make_head
MakeHead(c, x) == IF x = c.head THEN c ELSE AddEntry(RemoveEntry(c, x), x)

Without(f, xs) == [x \in DOMAIN f \ xs |-> f[x]]

\* PLCache_set_max: the entries over the bound are freed, from the tail on
SetMax(n) ==
  LET m == IF n < CACHE_MIN THEN CACHE_MIN ELSE n
      num == count - m
      last == IF num < Len(Back) THEN Back[num + 1] ELSE NULL
  IN  /\ max_entries' = m
      /\ \/ num <= 0 /\ Becomes(Cache)
         \/ /\ num > 0
            /\ Becomes([head |-> IF last = NULL THEN NULL ELSE head, tail |-> last, count |-> m,
                        entry |-> SetNext(Without(entry, ToSet(SubSeq(Back, 1, num))), last, NULL)])

-----------------------------------------------------------------------------
(* Calls.                                                                  *)

KeepFiles == UNCHANGED <<file, tmp, scan, saved>>

\* PLCacheEntry_create, and PLCacheEntry_free of an entry that is not in the list
Create(x, pl) ==
  /\ x \notin DOMAIN entry
  /\ entry' = [y \in DOMAIN entry \cup {x} |-> IF y = x THEN Entry(pl) ELSE entry[y]]
  /\ UNCHANGED cache
FreeEntry(x) ==
  /\ x \in DOMAIN entry /\ ~Linked(x)
  /\ entry' = Without(entry, {x}) /\ UNCHANGED cache

Insert(x) ==
  /\ x \in DOMAIN entry /\ ~Linked(x)
  /\ Becomes(AddEntry(Cache, x)) \/ Becomes(AppendEntry(Cache, x))
  /\ UNCHANGED max_entries
Take(x) == Linked(x) /\ Becomes(RemoveEntry(Cache, x)) /\ UNCHANGED max_entries

\* the property lists in the order of the list
Lists == LET list == List IN [i \in DOMAIN list |-> entry[list[i]].pl]

\* the addresses that the lookups offer to the caller's function for value v: the one
\* whose place is that of v, modulo their number
Offered(pl, v) == {pl.ip[((n - 1) % Len(pl.ip)) + 1] : n \in {k \in DOMAIN pl.en : pl.en[k] = v}}

Values(f) == UNION {ToSet(pl[f]) : pl \in Hosts}

\* the first of the matching places of the list becomes the head
Find(matches) ==
  \E i \in matches :
    /\ \A j \in matches : i <= j
    /\ Becomes(MakeHead(Cache, List[i]))
    /\ UNCHANGED max_entries

\* PLCache_lookup_ip, and PLCache_lookup_prop with make_head
LookupIp(ip) == LET pls == Lists IN Find({i \in DOMAIN pls : ip \in ToSet(pls[i].ip)})
\* PLCache_lookup_hw and PLCache_lookup_identifier: accepted are the addresses for which
\* the caller's function returns TRUE
LookupHw(v, accepted) ==
  LET pls == Lists IN
  Find({i \in DOMAIN pls : /\ pls[i].en # <<>> /\ pls[i].ip # <<>>
                          /\ Offered(pls[i], v) \cap accepted # {}})

\* PLCache_free leaves a cache of zeroes, PLCache_init makes it usable again
FreeCache ==
  /\ Becomes([head |-> NULL, tail |-> NULL, count |-> 0, entry |-> Without(entry, ToSet(List))])
  /\ max_entries' = CACHE_MAX

-----------------------------------------------------------------------------
(* The file.                                                               *)

\* only the first value of a property is written
FirstValues(pl) == [f \in DOMAIN pl |-> SubSeq(pl[f], 1, 1)]

\* PLCache_write opens another file, writes one entry after the other to it, and renames
\* it. It writes what List holds: the server does nothing else meanwhile
WriteBegin ==
  /\ scan = Idle
  /\ tmp' = <<>> /\ scan' = head
  /\ UNCHANGED <<cache, entry, file, saved>>
\* a slip: the file itself is written
WriteEntry_InPlace ==
  /\ scan \in Entries
  /\ tmp' = Append(tmp, FirstValues(entry[scan].pl)) /\ scan' = entry[scan].next
  /\ file' = tmp'
  /\ UNCHANGED <<cache, entry, saved>>

WriteEntry ==
  /\ scan \in Entries
  /\ tmp' = Append(tmp, FirstValues(entry[scan].pl)) /\ scan' = entry[scan].next
  /\ UNCHANGED <<cache, entry, file, saved>>

WriteEnd ==
  /\ scan = NULL
  /\ file' = tmp /\ tmp' = NoFile /\ scan' = Idle
  /\ saved' = [i \in DOMAIN Lists |-> FirstValues(Lists[i])]
  /\ UNCHANGED <<cache, entry>>

\* a slip: what is read becomes the head
ReadEntry_First(c, x) == AddEntry(c, x)

\* PLCache_read, at the end of an entry
ReadEntry(c, x) == AppendEntry(c, x)

\* the server stops and starts again with the file: PLCache_init, PLCache_read. What was written of another file is of no use:
\* the next write truncates it
Restart ==
  LET n == IF file = NoFile THEN 0 ELSE Len(file)
      fresh == SetToSeq(Entries)
      empty == [head |-> NULL, tail |-> NULL, count |-> 0,
                entry |-> [x \in {fresh[i] : i \in 1 .. n} |->
                             Entry(file[CHOOSE i \in 1 .. n : fresh[i] = x])]]
  IN  /\ Becomes(FoldLeft(ReadEntry, empty, SubSeq(fresh, 1, n)))
      /\ max_entries' = CACHE_MAX /\ scan' = Idle /\ tmp' = NoFile
      /\ UNCHANGED <<file, saved>>

Init ==
  /\ head = NULL /\ tail = NULL /\ count = 0 /\ max_entries = CACHE_MAX /\ entry = <<>>
  /\ file = NoFile /\ tmp = NoFile /\ scan = Idle /\ saved = NoFile

Call ==
  /\ scan = Idle /\ KeepFiles
  /\ \/ \E x \in Entries : FreeEntry(x) \/ Insert(x) \/ Take(x) \/ \E pl \in Hosts : Create(x, pl)
     \/ \E v \in Values("ip") : LookupIp(v)
     \/ \E v \in Values("en"), accepted \in SUBSET Values("ip") : LookupHw(v, accepted)
     \/ \E n \in Sizes : SetMax(n)
     \/ FreeCache

Next == Call \/ WriteBegin \/ WriteEntry \/ WriteEnd \/ Restart

Spec == Init /\ [][Next]_vars

-----------------------------------------------------------------------------
\* The list is the same from either end, ends at both, and is as long as its count
\* says: entries that are moved, dropped and freed leave no pointer behind
\* (PLCache_remove, PLCache_make_head, PLCache_set_max).
DoublyLinked ==
  LET list == List IN
  /\ list = Reverse(Back) /\ count = Len(list)
  /\ \A i, j \in DOMAIN list : list[i] = list[j] => i = j
  /\ \A x \in DOMAIN entry \ ToSet(list) : entry[x].next = NULL /\ entry[x].prev = NULL

\* Read in order, the list is a cache in order of use: a lookup moves what it found to the
\* front and nothing else, and a smaller bound drops what was used the longest ago; an
\* entry keeps its property list. All else that may happen to it is to become what the
\* last write that ended has saved, in the order of use that it had then: a server that
\* starts again (PLCache_make_head, PLCache_set_max, PLCache_read).
Recent == INSTANCE RecentList WITH Items <- Entries, list <- List
Written == IF saved = NoFile THEN <<>> ELSE saved
UseStep ==
  \E old \in {List}, new \in {List'} :
    \/ [i \in DOMAIN new |-> entry'[new[i]].pl] = Written
    \/ /\ old = new \/ Recent!Step(old, new)
       /\ \A x \in DOMAIN entry \cap DOMAIN entry' : entry'[x].pl = entry[x].pl
InOrderOfUse == [][UseStep]_<<head, entry>>

\* Whenever the server stops, the file holds every entry of the last write that ended,
\* in order of use: never a part of one (PLCache_write, rename).
FileWhole == file = saved
=============================================================================
