----------------------------- MODULE KxldArray ------------------------------
(***************************************************************************)
(* libkxld's array (kxld_array.c): items in a list of pools of one size,   *)
(* whose memory is kept from one use of the array to the next.             *)
(***************************************************************************)
EXTENDS Integers, Sequences, FiniteSets, SequencesExt

CONSTANTS
  Arrays,
  Contents, Zero,   \* what a cell holds
  ItemSize,         \* cells
  PageSize,         \* cells
  MaxItems          \* bound

VARIABLE arrays     \* Arrays -> [capacity, nitems, maxitems, pools]

\* a pool is [nitems, buffer]; pool_maxitems is capacity \div ItemSize
Nothing == [capacity |-> 0, nitems |-> 0, maxitems |-> 0, pools |-> <<>>]
Zeros(n) == [c \in 1 .. n |-> Zero]
RoundPage(n) == ((n + PageSize - 1) \div PageSize) * PageSize
PoolMaxItems(x) == x.capacity \div ItemSize
Pool(n, buffer) == [nitems |-> n, buffer |-> buffer]

\* the cells of the slot that starts after cell o of the pool
Cells(pool, o) == SubSeq(pool.buffer, o + 1, o + ItemSize)

\* kxld_array_get_item: <<pool, index in it>>, or <<0, 0>>
GetItemPlace(x, i) ==
  LET m == PoolMaxItems(x)
      Fits(p) == i - (p - 1) * m \in 0 .. x.pools[p].nitems - 1
      ps == {p \in DOMAIN x.pools : Fits(p)}
  IN  IF i >= x.nitems \/ ps = {} THEN <<0, 0>>
      ELSE LET p == CHOOSE p \in ps : \A q \in ps : p <= q IN <<p, i - (p - 1) * m>>

\* kxld_array_get_slot
GetSlotPlace(x, i) ==
  IF i >= x.maxitems THEN <<0, 0>>
  ELSE <<(i \div PoolMaxItems(x)) + 1, i % PoolMaxItems(x)>>

At(x, place) == Cells(x.pools[place[1]], place[2] * ItemSize)

\* reinit_pools, for a number of items that fits
ReinitPools(x, n) ==
  LET m == PoolMaxItems(x)
      Share(p) == IF n > p * m THEN m ELSE IF n > (p - 1) * m THEN n - (p - 1) * m ELSE 0
  IN  [x EXCEPT !.nitems = n,
                !.pools = [p \in DOMAIN @ |-> [@[p] EXCEPT !.nitems = Share(p)]]]

\* array_init of an array without a pool
OnePool(n, buffer) ==
  [capacity |-> Len(buffer), nitems |-> n, maxitems |-> Len(buffer) \div ItemSize,
   pools |-> <<Pool(n, buffer)>>]

\* the old pools' buffers, one after the other, at the start of the new one
Consolidated(x, size) ==
  LET old == FlattenSeq([p \in DOMAIN x.pools |-> x.pools[p].buffer])
  IN  [c \in 1 .. size |-> IF c <= Len(old) THEN old[c] ELSE Zero]

-----------------------------------------------------------------------------
Set(a, x) == arrays' = [arrays EXCEPT ![a] = x]

\* kxld_array_reset
Reset(a) ==
  Set(a, [arrays[a] EXCEPT !.nitems = 0,
                           !.pools = [p \in DOMAIN @ |-> [@[p] EXCEPT !.nitems = 0]]])

\* a slip: the pools that are too small are freed, and not copied from
ArrayInit_Fresh(a, n) ==
  LET x == arrays[a] IN
  /\ n > 0
  /\ Set(a, IF n <= x.maxitems THEN ReinitPools(x, n)
            ELSE OnePool(n, Zeros(RoundPage(n * ItemSize))))

\* kxld_array_init, of no items and of some
ArrayInit(a, n) ==
  LET x == arrays[a] IN
  \/ n = 0 /\ Reset(a)
  \/ /\ n > 0
     /\ Set(a, IF n <= x.maxitems THEN ReinitPools(x, n)
               ELSE OnePool(n, Consolidated(x, RoundPage(n * ItemSize))))

\* kxld_array_resize
Resize(a, n) ==
  LET x == arrays[a]
      more == IF n <= x.maxitems THEN 0
              ELSE (n - x.maxitems + PoolMaxItems(x) - 1) \div PoolMaxItems(x)
      new == [p \in 1 .. more |-> Pool(0, Zeros(x.capacity))]
  IN  /\ x.pools # <<>>
      /\ Set(a, ReinitPools([x EXCEPT !.pools = @ \o new,
                                      !.maxitems = @ + more * PoolMaxItems(x)], n))

\* kxld_array_clear
ArrayClear(a) ==
  Set(a, [arrays[a] EXCEPT !.nitems = 0,
                           !.pools = [p \in DOMAIN @ |-> Pool(0, Zeros(Len(@[p].buffer)))]])

\* kxld_array_deinit
Deinit(a) == Set(a, Nothing)

\* kxld_array_copy: the destination keeps a pool that is large enough, and is
\* refused if the copy would fill it exactly (array_init)
ArrayCopy(a, b) ==
  LET src == arrays[b]
      dst == arrays[a]
      needed == src.nitems * ItemSize
      rebuilt == Len(dst.pools) # 1 \/ RoundPage(needed) > dst.capacity
      size == IF rebuilt THEN RoundPage(needed) ELSE dst.capacity
      items == FlattenSeq([p \in DOMAIN src.pools |->
                             SubSeq(src.pools[p].buffer, 1, src.pools[p].nitems * ItemSize)])
  IN  /\ src.nitems > 0 /\ (rebuilt \/ needed < dst.capacity)
      /\ Set(a, OnePool(src.nitems, items \o Zeros(size - needed)))

\* item r of the first pool goes, and those that follow it move down
WithoutItem(x, r) ==
  LET pool == x.pools[1]
      end == pool.nitems * ItemSize
  IN  [x EXCEPT !.nitems = @ - 1,
        !.pools[1] = Pool(pool.nitems - 1,
           SubSeq(pool.buffer, 1, r * ItemSize)
             \o SubSeq(pool.buffer, (r + 1) * ItemSize + 1, end) \o Zeros(ItemSize)
             \o SubSeq(pool.buffer, end + 1, x.capacity))]

\* kxld_array_remove
RemoveItem(a, r) ==
  LET x == arrays[a] IN
  /\ r < x.nitems /\ (Len(x.pools) < 2 \/ x.nitems < PoolMaxItems(x))
  /\ Set(a, WithoutItem(x, r))

\* the caller fills item i
WriteItem(a, i, c) ==
  LET place == GetItemPlace(arrays[a], i)
      first == place[2] * ItemSize + 1
  IN  /\ place[1] # 0
      /\ arrays' = [arrays EXCEPT ![a].pools[place[1]].buffer =
           [j \in DOMAIN @ |-> IF j \in first .. first + ItemSize - 1 THEN c ELSE @[j]]]

Init == arrays = [a \in Arrays |-> Nothing]

Next ==
  \E a \in Arrays :
    \/ Reset(a) \/ ArrayClear(a) \/ Deinit(a)
    \/ \E n \in 0 .. MaxItems : ArrayInit(a, n) \/ Resize(a, n)
    \/ \E i \in 0 .. MaxItems - 1 : RemoveItem(a, i) \/ \E c \in Contents : WriteItem(a, i, c)
    \/ \E b \in Arrays \ {a} : ArrayCopy(a, b)

Spec == Init /\ [][Next]_arrays

-----------------------------------------------------------------------------
\* An index names one place whether it is looked up as an item or as a slot, and
\* every index below nitems has one: the pools' own counts, which kxld_array_get_item
\* goes by, never disagree with the array's (reinit_pools, kxld_array_remove).
ItemsAreSlots ==
  \A a \in Arrays : LET x == arrays[a] IN
    /\ x.maxitems = Len(x.pools) * PoolMaxItems(x)
    /\ \A i \in 0 .. x.nitems - 1 :
         GetItemPlace(x, i) = GetSlotPlace(x, i) /\ GetItemPlace(x, i) # <<0, 0>>

\* "clear, deinit, and copy are the only functions that will change the contents of
\* initialized memory" (kxld_array.h), with remove: what was put in a slot stays there
\* while the array is reset, grows by pools and is rebuilt as one pool, though init
\* copies whole buffers and not items; and items are where slots are.
Memory == INSTANCE SlotMemory WITH
  Contents <- {[j \in 1 .. ItemSize |-> c] : c \in Contents},
  Zero <- Zeros(ItemSize),
  mem <- [a \in Arrays |-> [i \in 0 .. MaxItems - 1 |->
            IF i < arrays[a].maxitems THEN At(arrays[a], GetSlotPlace(arrays[a], i))
            ELSE Zeros(ItemSize)]],
  nitems <- [a \in Arrays |-> arrays[a].nitems]
ImplementsSlots == Memory!Spec /\ []ItemsAreSlots
=============================================================================
