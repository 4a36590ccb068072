---------------------------- MODULE Environment -----------------------------
(***************************************************************************)
(* setenv, unsetenv and putenv (setenv.c, getenv.c): environ as an array   *)
(* of strings, some of which the library has allocated and may reuse or    *)
(* free, told apart by a sorted table of the pointers it owns. Every call  *)
(* runs under one lock.                                                    *)
(***************************************************************************)
EXTENDS Integers, Sequences, SequencesExt

CONSTANTS
  Names, Values, NoValue,
  Length,           \* Values -> Nat
  Addresses,        \* positive integers: what malloc may return
  StaticStrings,    \* other addresses -> [name, value]: the kernel's, the callers'
  KernelEnv,        \* the strings environ starts with
  KernelArray,      \* the address of the array it starts in
  OWNED_PTR_INITIAL_SIZE,
  NoMemory,         \* which allocations may fail, of those that leave a trace when they
                    \* do: "table", "setenv" and "putenv" (the copies of strings)
  MaxEnv            \* bound on the length of environ

VARIABLES
  array, env,       \* environ: where it is, the strings it points to
  heap,             \* allocated addresses -> what is there: a string, or Array
  owned             \* __env_owned: [table, size]; table[1] is NULL

vars == <<array, env, heap, owned>>

NULL == 0
String(n, v) == [name |-> n, value |-> v]
Array == String(NoValue, NoValue)
Str(p) == IF p \in Addresses THEN heap[p] ELSE StaticStrings[p]
Unused(h) == Addresses \ DOMAIN h
Without(h, ps) == [p \in DOMAIN h \ ps |-> h[p]]
With(h, p, x) == [q \in DOMAIN h \cup {p} |-> IF q = p THEN x ELSE h[q]]
May(what) == IF what \in NoMemory THEN BOOLEAN ELSE {FALSE}

-----------------------------------------------------------------------------
(* The table of owned pointers.                                            *)

\* _owned_ptr_search, by bisection: whether p is found, and at or after which index
Search(table, p) ==
  LET last == Len(table)
      bisect[low \in 1 .. last, high \in 1 .. last] ==
        LET cur == (low + high) \div 2 IN
        IF high - low <= 1 THEN <<FALSE, low>>
        ELSE IF p > table[cur] THEN bisect[cur, high]
        ELSE IF p < table[cur] THEN bisect[low, cur]
        ELSE <<TRUE, cur>>
  IN  IF table[last] < p THEN <<FALSE, last>>
      ELSE IF table[last] = p THEN <<TRUE, last>>
      ELSE bisect[1, last]

Owns(o, p) == Search(o.table, p)[1]

\* a slip: the pointer is put before the place that was found
OwnedAdd_Before(o, p, full) ==
  IF Owns(o, p) \/ (Len(o.table) >= o.size /\ full) THEN o
  ELSE [table |-> InsertAt(o.table, Search(o.table, p)[2], p),
        size |-> IF Len(o.table) >= o.size THEN 2 * o.size ELSE o.size]

\* _owned_ptr_add; full: there is no memory to enlarge the table, the pointer is dropped
OwnedAdd(o, p, full) ==
  IF Owns(o, p) \/ (Len(o.table) >= o.size /\ full) THEN o
  ELSE [table |-> InsertAt(o.table, Search(o.table, p)[2] + 1, p),
        size |-> IF Len(o.table) >= o.size THEN 2 * o.size ELSE o.size]

\* _owned_ptr_search and _owned_ptr_delete
OwnedDelete(o, p) == [o EXCEPT !.table = RemoveAt(@, Search(@, p)[2])]

Mine(p) == IF Owns(owned, p) THEN {p} ELSE {}
Disowned(p) == IF Owns(owned, p) THEN OwnedDelete(owned, p) ELSE owned

-----------------------------------------------------------------------------
\* __findenv_locked: the first string with the name, or 0
FindEnv(n) ==
  LET found == {i \in DOMAIN env : Str(env[i]).name = n}
  IN  IF found = {} THEN 0 ELSE CHOOSE i \in found : \A j \in found : i <= j

\* setenv of a variable whose string is owned: it is overwritten, and resized first
\* if the old value is shorter
Overwrite(n, v) ==
  LET o == FindEnv(n)
      e == env[o]
  IN  /\ o # 0 /\ Owns(owned, e)
      /\ \/ /\ Length[Str(e).value] >= Length[v]
            /\ heap' = With(heap, e, String(n, v))
            /\ UNCHANGED <<env, owned>>
         \/ /\ Length[Str(e).value] < Length[v]
            /\ \E r \in Unused(heap) \cup {e}, full \in May("table") :
                 /\ heap' = With(Without(heap, {e}), r, String(n, v))
                 /\ env' = [env EXCEPT ![o] = r]
                 /\ owned' = IF r = e THEN owned ELSE OwnedAdd(OwnedDelete(owned, e), r, full)
      /\ UNCHANGED array

\* puts a caller's string in place of string o of environ e, or a copy of one: the
\* last part of __setenv_locked, with heap h and table w. copy is 1 for setenv, 0 for
\* putenv, -1 for the legacy putenv, which copies its string
Place(o, e, h, w, string, copy) ==
  \/ copy = 0 /\ env' = [e EXCEPT ![o] = string] /\ heap' = h /\ owned' = w
  \/ /\ copy # 0
     /\ \E c \in Unused(h), full \in May("table") :
          /\ env' = [e EXCEPT ![o] = c]
          /\ heap' = With(h, c, string) /\ owned' = OwnedAdd(w, c, full)

\* there is no memory for the copy
NoCopy(copy) == \/ copy > 0 /\ "setenv" \in NoMemory
                \/ copy < 0 /\ "putenv" \in NoMemory

\* setenv or putenv of a variable that is set: the old string is freed if it is owned.
\* Without memory for the new one setenv has stored NULL in its place, which ends
\* environ there, and the legacy putenv has changed nothing in environ: a string that
\* it has freed is still there
Replace(n, string, copy) ==
  LET o == FindEnv(n)
      h == Without(heap, Mine(env[o]))
  IN  /\ o # 0 /\ UNCHANGED array
      /\ \/ Place(o, env, h, Disowned(env[o]), string, copy)
         \/ /\ NoCopy(copy)
            /\ heap' = h /\ owned' = Disowned(env[o])
            /\ env' = IF copy > 0 THEN SubSeq(env, 1, o - 1) ELSE env

\* setenv or putenv of a variable that is not set: environ gets a new slot, in an
\* array that the library owns. Without memory for the string setenv has stored NULL
\* in the slot; the legacy putenv leaves there what was in the memory: the end of
\* environ if the array was only resized
NewSlot(n, string, copy) ==
  /\ FindEnv(n) = 0 /\ Len(env) < MaxEnv
  /\ \E p \in Unused(heap) \cup Mine(array), full \in May("table") :
       LET h == With(Without(heap, Mine(array)), p, Array)
           w == IF p = array THEN owned ELSE OwnedAdd(Disowned(array), p, full)
       IN  /\ array' = p
           /\ \/ Place(Len(env) + 1, Append(env, NULL), h, w, string, copy)
              \/ /\ NoCopy(copy) /\ heap' = h /\ owned' = w
                 /\ \/ UNCHANGED env
                    \/ /\ copy < 0 /\ Mine(array) = {}
                       /\ \E garbage \in Addresses : env' = Append(env, garbage)

-----------------------------------------------------------------------------
\* setenv(n, v, rewrite); without rewrite a variable that is set is left alone
Setenv(n, v, rewrite) ==
  \/ /\ rewrite
     /\ \/ Overwrite(n, v)
        \/ (FindEnv(n) # 0 => Mine(env[FindEnv(n)]) = {}) /\ Replace(n, String(n, v), 1)
  \/ NewSlot(n, String(n, v), 1)

\* putenv of a caller's string p, put in environ itself (copy = 0) or copied (-1)
Putenv(p, copy) ==
  LET string == IF copy < 0 THEN StaticStrings[p] ELSE p
      n == StaticStrings[p].name
  IN  Replace(n, string, copy) \/ NewSlot(n, string, copy)

\* frees those of the strings ps that are owned
Free(ps) ==
  LET mine == UNION {Mine(p) : p \in ps} IN
  /\ heap' = Without(heap, mine)
  /\ owned' = [owned EXCEPT !.table = SelectSeq(@, LAMBDA p : p \notin mine)]

\* a slip: the first string with the name is removed
Unsetenv_Once(n) ==
  /\ FindEnv(n) # 0
  /\ env' = RemoveAt(env, FindEnv(n)) /\ Free({env[FindEnv(n)]})
  /\ UNCHANGED array

\* unsetenv: every string with the name, if it is set several times
Unsetenv(n) ==
  /\ FindEnv(n) # 0
  /\ env' = SelectSeq(env, LAMBDA p : Str(p).name # n)
  /\ Free({p \in ToSet(env) : Str(p).name = n})
  /\ UNCHANGED array

Init ==
  /\ array = KernelArray /\ env = KernelEnv /\ heap = <<>>
  /\ owned = [table |-> <<NULL>>, size |-> OWNED_PTR_INITIAL_SIZE]

\* what environ points to is there to be read: there are no steps after one that has
\* left a freed or uninitialized pointer in it
Readable == ToSet(env) \subseteq DOMAIN heap \cup DOMAIN StaticStrings

Next ==
  /\ Readable
  /\ \/ \E n \in Names : Unsetenv(n) \/ \E v \in Values, rewrite \in BOOLEAN : Setenv(n, v, rewrite)
     \/ \E p \in DOMAIN StaticStrings, copy \in {-1, 0} : Putenv(p, copy)

Spec == Init /\ [][Next]_vars

-----------------------------------------------------------------------------
\* The table, searched by bisection, finds exactly the pointers that were added, and
\* they are allocated; so is every string in environ that is not a caller's, and each
\* allocated address is the array's or one string's: nothing that is freed or handed to
\* realloc is still in environ, or was never the library's. (A string behind the place
\* where a failed setenv has ended environ stays in the table, and allocated.)
OwnedPointersLive ==
  /\ array \in DOMAIN heap \cup {KernelArray} /\ Readable
  /\ \A i, j \in DOMAIN env :
       env[i] \in DOMAIN heap => env[i] # array /\ (env[i] = env[j] => i = j)
  /\ \A i \in 2 .. Len(owned.table) :
       owned.table[i] \in DOMAIN heap /\ Owns(owned, owned.table[i])

Lookup == [n \in Names |-> LET i == FindEnv(n) IN IF i = 0 THEN NoValue ELSE Str(env[i]).value]
Map == INSTANCE KeyedMap WITH Keys <- Names, map <- Lookup

\* The variables were m and are new: a call that should set n to v has done so and left
\* the others alone, or has failed: then every variable is as it was, or n and those
\* behind it in environ are gone.
SetOrFailed(m, new, n, v) ==
  \/ new = m
  \/ new[n] = v /\ Map!Put(m, new, n)
  \/ \A k \in Names : new[k] = IF FindEnv(k) < FindEnv(n) THEN m[k] ELSE NoValue

\* Whatever strings it is made of, environ is a map: setenv and putenv give their
\* variable the value they were given and leave the others alone, unless they fail, and
\* unsetenv leaves no string of its name, however many there were, and the others alone
\* ("Set the value of the environmental variable", "Delete environmental variable").
\* The steps of setenv without rewrite are among those with it.
MapStep ==
  \E m \in {Lookup}, new \in {Lookup'} :
    /\ \A n \in Names :
         /\ Map!Remove(m, new, n) \/ ~Unsetenv(n)
         /\ \A v \in Values : SetOrFailed(m, new, n, v) \/ ~Setenv(n, v, TRUE)
    /\ \A p \in DOMAIN StaticStrings, copy \in {-1, 0} :
         \/ SetOrFailed(m, new, StaticStrings[p].name, StaticStrings[p].value)
         \/ ~Putenv(p, copy)
EnvironmentIsMap == [][MapStep]_vars
=============================================================================
