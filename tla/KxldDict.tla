------------------------------ MODULE KxldDict ------------------------------
(***************************************************************************)
(* libkxld's dictionary (kxld_dict.c): a hash table with linear probing,   *)
(* whose buckets are EMPTY, USED or DELETED.                               *)
(***************************************************************************)
EXTENDS Integers, Sequences, FiniteSets, FiniteSetsExt, SequencesExt

CONSTANTS
  Keys, Values, NoValue, NoKey,
  Hash,             \* Keys -> Nat: the hash before it is reduced to the table
  DefaultDictSize,  \* 89 in the code
  Hints,            \* numbers of entries kxld_dict_init is told to expect
  MaxBuckets,       \* bound on the table's size
  OverwriteAfterRemove  \* FALSE: no key is overwritten while a bucket is DELETED

VARIABLES
  buckets,          \* <<>> while the dictionary is not initialized
  num_entries,
  resize_threshold

vars == <<buckets, num_entries, resize_threshold>>

Bucket(k, v, s) == [key |-> k, value |-> v, state |-> s]
Empty == Bucket(NoKey, NoValue, "EMPTY")
Deleted == Bucket(NoKey, NoValue, "DELETED")
Table(n) == [i \in 1 .. n |-> Empty]

\* a slip: the table grows only once it is full
Threshold_WholeTable(n) == n

Threshold(n) == (n * 7) \div 10
MinBuckets(n) == (n * 10) \div 7
Grown(n) == 2 * n + 1

\* the bucket that is probed j-th for key k, from 0
Probe(b, k, j) == ((Hash[k] + j) % Len(b)) + 1

\* the first bucket probed that is k's or in one of the states, or 0
FirstProbed(b, k, states) ==
  LET js == {j \in 0 .. Len(b) - 1 : LET e == b[Probe(b, k, j)]
                                     IN  e.key = k \/ e.state \in states}
  IN  IF js = {} THEN 0 ELSE Probe(b, k, Min(js))

\* the index of key k, or 0
KeyOrNone(b, k, i) == IF i # 0 /\ b[i].key = k THEN i ELSE 0

\* a slip: the search stops at a bucket whose entry was removed
GetLocateIndex_StopsAtDeleted(b, k) ==
  KeyOrNone(b, k, FirstProbed(b, k, {"EMPTY", "DELETED"}))

\* get_locate_index: the search ends at an EMPTY bucket, or when it has wrapped
GetLocateIndex(b, k) == KeyOrNone(b, k, FirstProbed(b, k, {"EMPTY"}))

\* get_insert_index: 0 if every bucket is USED for another key
GetInsertIndex(b, k) == FirstProbed(b, k, {"EMPTY", "DELETED"})

\* kxld_dict_find
Find(b, k) == LET i == GetLocateIndex(b, k) IN IF i = 0 THEN NoValue ELSE b[i].value

Used(b) == SelectSeq(b, LAMBDA e : e.state = "USED")

Placed(b, k, v) == [b EXCEPT ![GetInsertIndex(b, k)] = Bucket(k, v, "USED")]

\* resize_dict: every used bucket is inserted again, in the order of the old table
Resized(b) ==
  FoldLeft(LAMBDA t, e : Placed(t, e.key, e.value), Table(Grown(Len(b))), Used(b))

-----------------------------------------------------------------------------
Initialized == buckets # <<>>

\* num_buckets *= 2; num_buckets++, until there are enough for the hint
Sizes == {(2 ^ d) * (DefaultDictSize + 1) - 1 : d \in 0 .. 3}
SizeFor(hint) == Min({m \in Sizes : m >= MinBuckets(hint)})

\* kxld_dict_init
DictInit(hint) ==
  /\ ~Initialized /\ SizeFor(hint) <= MaxBuckets
  /\ buckets' = Table(SizeFor(hint))
  /\ resize_threshold' = Threshold(SizeFor(hint))
  /\ num_entries' = 0

\* kxld_dict_clear
DictClear ==
  /\ Initialized
  /\ buckets' = <<>> /\ num_entries' = 0 /\ resize_threshold' = 0

\* kxld_dict_insert; one resize makes the count less than the new threshold
DictInsert(k, v) ==
  /\ Initialized
  /\ LET full == num_entries > resize_threshold
         b == IF full THEN Resized(buckets) ELSE buckets
         n == IF full THEN Len(Used(b)) ELSE num_entries
         i == GetInsertIndex(b, k)
     IN  /\ Len(b) <= MaxBuckets /\ i # 0
         /\ OverwriteAfterRemove \/ full \/ Deleted \notin ToSet(buckets)
              \/ Find(buckets, k) = NoValue
         /\ buckets' = Placed(b, k, v)
         /\ num_entries' = IF b[i].state = "USED" THEN n ELSE n + 1
         /\ resize_threshold' = Threshold(Len(b))

\* kxld_dict_remove
DictRemove(k) ==
  /\ Initialized
  /\ LET i == GetLocateIndex(buckets, k) IN
       /\ i # 0
       /\ buckets' = [buckets EXCEPT ![i] = Deleted]
       /\ num_entries' = num_entries - 1
  /\ UNCHANGED resize_threshold

Init == buckets = <<>> /\ num_entries = 0 /\ resize_threshold = 0

Next ==
  \/ \E hint \in Hints : DictInit(hint)
  \/ DictClear
  \/ \E k \in Keys : DictRemove(k) \/ \E v \in Values : DictInsert(k, v)

Spec == Init /\ [][Next]_vars

-----------------------------------------------------------------------------
\* num_entries, which decides when the table grows, is the number of used buckets,
\* and there is always a bucket for one more: an insertion never fails for want of
\* room ("If this function returns FULL after we've already resized appropriately
\* something is very wrong", kxld_dict_insert).
RoomForOneMore ==
  /\ num_entries = Len(Used(buckets))
  /\ Initialized => /\ num_entries <= resize_threshold + 1
                    /\ num_entries <= resize_threshold => num_entries < Len(buckets)

\* The dictionary is a map: a search finds the value of the last insertion of the
\* key whatever was removed, overwritten or rehashed since, and kxld_dict_insert
\* "will overwrite the value for a key if that key is already in the table".
Map == INSTANCE KeyedMap WITH map <- [k \in Keys |-> IF Initialized THEN Find(buckets, k)
                                                      ELSE NoValue]
ImplementsMap == Map!Spec
=============================================================================
