-------------------------- MODULE AutoreleasePool --------------------------
(***************************************************************************)
(* One thread's autorelease pools (AutoreleasePoolPage, NSObject.mm): a    *)
(* stack of pointers cut into pages, the hot page in thread-local storage. *)
(* Nothing in it is shared between threads. What makes it hard is that     *)
(* objc_release(), called in the middle of releaseUntil, may run a -dealloc*)
(* that pushes and pops pools of its own and autoreleases more objects.    *)
(***************************************************************************)
EXTENDS Naturals, Sequences, FiniteSets, FiniteSetsExt

CONSTANTS
  Objects,
  POOL_BOUNDARY,  \* not an object
  COUNT,          \* entries in a page
  maxCount,       \* the largest AutoreleasePoolEntry::count
  Window,         \* entries looked back at by the LRU coalescing
  MaxPools,       \* bound: pools pushed at a time
  MaxContents,    \* bound: entries in all pages, extra counts included
  MaxDepth        \* bound: releaseUntil calls on the stack

\* what the constants must be
PoolAssumption ==
  /\ POOL_BOUNDARY \notin Objects
  /\ COUNT \in Nat /\ COUNT >= 2
  /\ maxCount \in Nat /\ Window \in Nat

VARIABLES
  env,          \* the OBJC_... environment options, read at launch
  pages,        \* the pages' contents, the cold page first, each one the
                \* parent of the next
  hot,          \* the hot page; 0 is nil in thread-local storage
  placeholder,  \* EMPTY_POOL_PLACEHOLDER is in thread-local storage
  tokens,       \* the pools the program has pushed, outermost first
  calls,        \* calls of releaseUntil, innermost first
  exited,       \* tls_dealloc ran to its end
  owed          \* history: what was autoreleased into each pool, and not yet
                \* released; owed[1] with no pool

vars == <<env, pages, hot, placeholder, tokens, calls, exited, owed>>

Env == [DebugPoolAllocation : BOOLEAN, DebugMissingPools : BOOLEAN,
        DisableCoalescing : BOOLEAN, DisableCoalescingLRU : BOOLEAN]

Entry == [obj : Objects \cup {POOL_BOUNDARY}, count : 0 .. maxCount]

Boundary == [obj |-> POOL_BOUNDARY, count |-> 0]

\* where a pool begins; page 0 is EMPTY_POOL_PLACEHOLDER
Token == [page : Nat, index : Nat]

\* releaseUntil(stop) on the page `this`, which keeps `stop` entries. It holds
\* an entry's obj that is to be released `left` more times; `pools` is the
\* number of pools that were left when the entry was taken.
Frame == [this : Nat \ {0}, stop : Nat, obj : Objects \cup {POOL_BOUNDARY},
          left : Nat, pools : Nat, dealloc : BOOLEAN, exit : BOOLEAN]

full(p) == Len(pages[p]) = COUNT
lessThanHalfFull(p) == Len(pages[p]) < COUNT \div 2

\* the program runs: outside the pools' code, or in a -dealloc
Program == ~exited /\ (calls # <<>> => Head(calls).dealloc)

\* the pools pushed outside a -dealloc are not its to pop
Protected == IF calls = <<>> THEN 0 ELSE Head(calls).pools

None == [obj \in Objects |-> 0]
OwedOutside == SubSeq(owed, 1, Len(owed) - 1)

Extra(page) == MapThenSumSet(LAMBDA i : 1 + page[i].count, DOMAIN page)
Contents == MapThenSumSet(LAMBDA p : Extra(pages[p]), DOMAIN pages)

-----------------------------------------------------------------------------
(* Adding an entry to a page                                               *)

\* the entries of obj whose count can be raised
Reusable(page, obj) ==
  {i \in DOMAIN page :
     /\ page[i].obj = obj /\ page[i].count < maxCount
     /\ IF env.DisableCoalescingLRU
          THEN ~env.DisableCoalescing /\ i = Len(page)
          ELSE /\ i > 1 /\ Len(page) - i < Window
               /\ \A j \in i .. Len(page) : page[j].obj # POOL_BOUNDARY}

\* the youngest of them moves to the top
Moved(page, i) ==
  [j \in DOMAIN page |->
     IF j < i THEN page[j]
     ELSE IF j < Len(page) THEN page[j + 1]
     ELSE [page[i] EXCEPT !.count = @ + 1]]

\* a slip: boundaries are coalesced too
add_Boundaries(page, obj) ==
  LET reusable == Reusable(page, obj) IN
  IF reusable = {}
    THEN Append(page, [obj |-> obj, count |-> 0])
    ELSE Moved(page, Max(reusable))

add(page, obj) ==
  LET reusable == Reusable(page, obj) IN
  IF obj = POOL_BOUNDARY \/ reusable = {}
    THEN Append(page, [obj |-> obj, count |-> 0])
    ELSE Moved(page, Max(reusable))

AddOn(p, obj) ==
  /\ pages' = [q \in DOMAIN pages \cup {p} |->
                 IF q # p THEN pages[q]
                 ELSE add(IF p \in DOMAIN pages THEN pages[p] ELSE <<>>, obj)]
  /\ hot' = p
  /\ UNCHANGED placeholder

\* the next page that is not full, a new one if there is none
NextPage == Min({p \in hot + 1 .. Len(pages) + 1 : p \in DOMAIN pages => ~full(p)})

autoreleaseNoPage(obj) ==
  \/ /\ placeholder \/ (IF obj = POOL_BOUNDARY THEN env.DebugPoolAllocation
                                               ELSE ~env.DebugMissingPools)
     /\ pages' = <<add(IF placeholder THEN <<Boundary>> ELSE <<>>, obj)>>
     /\ hot' = 1 /\ placeholder' = FALSE
  \/ /\ ~placeholder /\ obj = POOL_BOUNDARY /\ ~env.DebugPoolAllocation
     /\ placeholder' = TRUE
     /\ UNCHANGED <<pages, hot>>
  \/ /\ ~placeholder /\ obj # POOL_BOUNDARY /\ env.DebugMissingPools
     /\ UNCHANGED <<pages, hot, placeholder>>     \* the object leaks

\* autoreleaseFast, or autoreleaseNewPage
Put(obj, onNewPage) ==
  \/ hot = 0 /\ autoreleaseNoPage(obj)
  \/ hot # 0 /\ ~onNewPage /\ ~full(hot) /\ AddOn(hot, obj)
  \/ hot # 0 /\ (onNewPage \/ full(hot)) /\ AddOn(NextPage, obj)

autorelease(obj) ==
  /\ Program /\ Contents < MaxContents
  /\ Put(obj, FALSE)
  /\ owed' = IF hot' = 0 THEN owed ELSE [owed EXCEPT ![Len(owed)][obj] = @ + 1]
  /\ UNCHANGED <<env, tokens, calls, exited>>

push ==
  /\ Program /\ Len(tokens) < MaxPools
  /\ Put(POOL_BOUNDARY, env.DebugPoolAllocation)
  /\ tokens' = Append(tokens, [page |-> hot', index |-> IF hot' = 0 THEN 0 ELSE Len(pages'[hot'])])
  /\ owed' = Append(owed, None)
  /\ UNCHANGED <<env, calls, exited>>

-----------------------------------------------------------------------------
(* Popping                                                                 *)

Drain(p, kept, exit) ==
  calls' = <<[this |-> p, stop |-> kept, obj |-> POOL_BOUNDARY, left |-> 0,
              pools |-> Len(tokens), dealloc |-> FALSE, exit |-> exit]>> \o calls

\* the placeholder is popped and no object was ever autoreleased
PopUnused ==
  /\ Program /\ Len(tokens) > Protected /\ Len(calls) < MaxDepth
  /\ tokens[Len(tokens)].page = 0 /\ hot = 0
  /\ placeholder' = FALSE
  /\ tokens' = SubSeq(tokens, 1, Len(tokens) - 1) /\ owed' = OwedOutside
  /\ UNCHANGED <<env, pages, hot, calls, exited>>

\* the pages the pop of a pool starts from
PopStart(token) ==
  IF token.page = 0 THEN [page |-> 1, index |-> 1] ELSE token

\* pop a pool, and with it those pushed after it. The pop of a token that is not
\* at a boundary, nor at the start of the cold page, only logs (badPop).
pop(i) ==
  LET start == PopStart(tokens[i]) IN
  /\ Program /\ Len(calls) < MaxDepth /\ hot # 0
  /\ \/ start = [page |-> 1, index |-> 1]
     \/ pages[start.page][start.index].obj = POOL_BOUNDARY
  /\ Drain(start.page, start.index - 1, FALSE)
  /\ UNCHANGED <<env, pages, hot, placeholder, tokens, exited, owed>>

\* the hot page, or its nearest ancestor that is not empty
Occupied == Max({p \in 1 .. hot : pages[p] # <<>>})

Taken(page) == SubSeq(page, 1, Len(page) - 1)

\* a slip: the count is read as the number of releases
Releases_Count(entry) == entry.count

\* it counts the autoreleases after the first
Releases(entry) == entry.count + 1

\* releaseUntil takes the topmost entry of the hottest page that has one
TakeEntry ==
  LET call == Head(calls)
      p == Occupied
      entry == pages[p][Len(pages[p])]
      boundary == entry.obj = POOL_BOUNDARY
  IN /\ calls # <<>> /\ ~call.dealloc /\ call.left = 0
     /\ Len(pages[call.this]) # call.stop
     /\ hot' = p
     /\ pages' = [pages EXCEPT ![p] = Taken(@)]
     /\ tokens' = IF boundary THEN SubSeq(tokens, 1, Len(tokens) - 1) ELSE tokens
     /\ owed' = IF boundary THEN OwedOutside ELSE owed
     /\ calls' = [calls EXCEPT ![1] =
                    [@ EXCEPT !.obj = entry.obj, !.pools = Len(tokens'),
                              !.left = IF boundary THEN 0 ELSE Releases(entry)]]
     /\ UNCHANGED <<env, placeholder, exited>>

\* objc_release(obj); it may be the last, and run -dealloc
Release ==
  LET call == Head(calls) IN
  /\ calls # <<>> /\ ~call.dealloc /\ call.left > 0
  /\ \E dealloc \in BOOLEAN :
       calls' = [calls EXCEPT ![1] = [@ EXCEPT !.left = @ - 1, !.dealloc = dealloc]]
  /\ owed' = [owed EXCEPT ![Len(owed)][call.obj] = @ - 1]
  /\ UNCHANGED <<env, pages, hot, placeholder, tokens, exited>>

\* -dealloc has popped the pools it pushed
EndDealloc ==
  /\ calls # <<>> /\ Head(calls).dealloc /\ Len(tokens) = Head(calls).pools
  /\ calls' = [calls EXCEPT ![1].dealloc = FALSE]
  /\ UNCHANGED <<env, pages, hot, placeholder, tokens, exited, owed>>

Killed(this) ==
  /\ pages[this] = <<>>
  /\ env.DebugPoolAllocation \/ (env.DebugMissingPools /\ this = 1)

\* the pages popPage does not kill; one empty child outlives a page half full
Kept(this) ==
  IF Killed(this) THEN SubSeq(pages, 1, this - 1)
  ELSE IF lessThanHalfFull(this) \/ this = Len(pages) THEN SubSeq(pages, 1, this)
  ELSE SubSeq(pages, 1, this + 1)

HotAfter(this) == IF Killed(this) THEN this - 1 ELSE this

\* releaseUntil has reached stop; tls_dealloc then frees all of the pages
EndPop ==
  LET call == Head(calls) IN
  /\ calls # <<>> /\ ~call.dealloc /\ call.left = 0
  /\ Len(pages[call.this]) = call.stop
  /\ pages' = IF call.exit /\ ~env.DebugPoolAllocation /\ ~env.DebugMissingPools
                THEN <<>> ELSE Kept(call.this)
  /\ hot' = IF call.exit THEN 0 ELSE HotAfter(call.this)
  /\ exited' = call.exit
  /\ calls' = Tail(calls)
  /\ UNCHANGED <<env, placeholder, tokens, owed>>

\* the thread ends, with the pools it has not popped (tls_dealloc)
ThreadExit ==
  /\ calls = <<>> /\ ~exited
  /\ IF hot # 0 /\ pages[1] # <<>>
       THEN Drain(1, 0, TRUE) /\ UNCHANGED <<pages, hot, placeholder, tokens, exited, owed>>
       ELSE /\ exited' = TRUE /\ placeholder' = FALSE /\ hot' = 0
            /\ pages' = IF env.DebugPoolAllocation \/ env.DebugMissingPools
                          THEN pages ELSE <<>>
            /\ tokens' = <<>> /\ owed' = SubSeq(owed, 1, 1)
            /\ UNCHANGED calls
  /\ UNCHANGED env

-----------------------------------------------------------------------------
Init ==
  /\ env \in Env
  /\ pages = <<>> /\ hot = 0 /\ placeholder = FALSE
  /\ tokens = <<>> /\ calls = <<>> /\ exited = FALSE /\ owed = <<None>>

Next ==
  \/ \E obj \in Objects : autorelease(obj)
  \/ push \/ PopUnused
  \/ \E i \in Protected + 1 .. Len(tokens) : pop(i)
  \/ TakeEntry \/ Release \/ EndDealloc \/ EndPop \/ ThreadExit

Spec == Init /\ [][Next]_vars

-----------------------------------------------------------------------------
(* Correctness                                                             *)

\* Types; the pages' capacity, the width of a count and the pages that exist.
TypeOK ==
  /\ env \in Env
  /\ pages \in Seq(Seq(Entry)) /\ \A p \in DOMAIN pages : Len(pages[p]) <= COUNT
  /\ hot \in 0 .. Len(pages) /\ placeholder \in BOOLEAN
  /\ tokens \in Seq(Token)
  /\ calls \in Seq(Frame)
  /\ exited \in BOOLEAN
  /\ owed \in Seq([Objects -> Nat])

Positions == UNION {{<<p, i>> : i \in DOMAIN pages[p]} : p \in DOMAIN pages}

\* the boundaries at or before a position
BoundariesUpTo(p, i) ==
  Cardinality({pos \in Positions : /\ pages[pos[1]][pos[2]].obj = POOL_BOUNDARY
                                   /\ pos[1] < p \/ (pos[1] = p /\ pos[2] <= i)})

\* The token of every pool still pushed points to that pool's boundary, page and
\* all, whatever pools and pages were popped and killed in between: a pop never
\* takes the badPop path, and never looks at a page that was freed.
TokensValid ==
  /\ BoundariesUpTo(Len(pages) + 1, 0) = Len(tokens) - (IF placeholder THEN 1 ELSE 0)
  /\ placeholder => hot = 0 /\ pages = <<>>
  /\ ~placeholder =>
       \A i \in DOMAIN tokens :
         LET start == PopStart(tokens[i]) IN
         /\ start.page \in DOMAIN pages /\ start.index \in DOMAIN pages[start.page]
         /\ pages[start.page][start.index].obj = POOL_BOUNDARY
         /\ BoundariesUpTo(start.page, start.index) = i

\* Whenever releaseUntil looks for an entry, the hot page or its parent has one:
\* the `while' that its fixme says "can be `if`, but I can't prove it". (While a
\* -dealloc runs, a page may have an empty parent: a pool pushed on a page of
\* its own from a cold page just drained, with OBJC_DEBUG_POOL_ALLOCATION.)
ParentOccupied ==
  (calls # <<>> /\ ~Head(calls).dealloc /\ Len(pages[Head(calls).this]) # Head(calls).stop)
    => \/ pages[hot] # <<>>
       \/ hot > 1 /\ pages[hot - 1] # <<>>

\* releaseUntil's own page outlives every pool its releases push and pop, and
\* always has the entries that were there when the pool was pushed, so next
\* reaches stop and does not run past it.
DrainsInBounds ==
  \A i \in DOMAIN calls :
    /\ calls[i].this \in 1 .. hot
    /\ calls[i].stop <= Len(pages[calls[i].this])
    /\ i > 1 => /\ calls[i].dealloc
                /\ \/ calls[i].this < calls[i - 1].this
                   \/ calls[i].this = calls[i - 1].this /\ calls[i].stop <= calls[i - 1].stop

\* The pages in four parts: their types, the tokens, and the loop and the bounds of
\* releaseUntil.
PagesSound == TypeOK /\ TokensValid /\ ParentOccupied /\ DrainsInBounds

-----------------------------------------------------------------------------
(* The pages, coalesced and cut as they are, implement a stack of bags.    *)

Draining ==
  [c \in DOMAIN calls |->
     IF calls[c].exit THEN 1 ELSE BoundariesUpTo(calls[c].this, calls[c].stop) + 2]

Stack == INSTANCE PoolStack WITH pools <- owed, draining <- Draining

\* Every object autoreleased is released exactly as often as it was, when its
\* own pool or one that encloses it is popped and not before: coalescing, page
\* boundaries and reentrant -deallocs do not show.
ImplementsPoolStack == Stack!Spec
=============================================================================
