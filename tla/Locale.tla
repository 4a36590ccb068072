------------------------------- MODULE Locale -------------------------------
(***************************************************************************)
(* Locales (xlocale.c, setlocale.c and the loaders of the categories): a   *)
(* locale_t points to one table for each category, NULL standing for that  *)
(* of "C". Tables and locales are counted; each loader caches the table it *)
(* read last. A locale whose LC_NUMERIC is not in its LC_CTYPE encoding    *)
(* points to another locale that converts numbers, made when it is first   *)
(* needed.                                                                 *)
(***************************************************************************)
EXTENDS Integers, FiniteSets, Sequences, SequencesExt

CONSTANTS
  Threads,
  Names, C,       \* names of locales, and that of the default one
  Categories,     \* the categories in the order of their numbers
  MayFail,        \* the categories whose files may be missing
  MaxTables,      \* bound on the tables of one category
  MaxCalls,       \* bound on the calls of a behaviour
  Locales, Global, NULL

VARIABLES
  mem,       \* [tables, cache, locs]: <<category, n>> -> [name, refs];
             \* category -> the table its loader read last; locale -> Locale
  current,   \* each thread's locale; NULL: the global one
  held,      \* the locales the program has got and not freed
  dup,            \* each thread's call of _duplocale or newlocale
  calls           \* how many calls there were

vars == <<mem, current, held, dup, calls>>

Cats == ToSet(Categories)
\* lost is for the properties: fp is "same" not because the names were compared, but
\* because the LC_CTYPE that one of the two locales needs could not be loaded
Locale == [tbl |-> [c \in Cats |-> NULL], fp |-> "uninitialized", numeric_loc |-> NULL,
           lost |-> FALSE, refs |-> 1]
NoDup == [pc |-> "idle", new |-> NULL, base |-> C, mask |-> {}, name |-> C]

Name(m, l, c) == LET x == m.locs[l].tbl[c] IN IF x = NULL THEN C ELSE m.tables[x].name
Points(m, l) == {m.locs[l].tbl[c] : c \in Cats} \ {NULL}

\* XL_RETAIN and XL_RELEASE of tables: one that nobody counts any more is freed
Retain(tables, xs) == [x \in DOMAIN tables |->
  IF x \in xs THEN [tables[x] EXCEPT !.refs = @ + 1] ELSE tables[x]]
Release(tables, xs) == [x \in {y \in DOMAIN tables : y \notin xs \/ tables[y].refs > 1} |->
  IF x \in xs THEN [tables[x] EXCEPT !.refs = @ - 1] ELSE tables[x]]

\* XL_RELEASE of a locale that converts for no other, and of any locale
ReleaseLeaf(m, l) ==
  IF l \notin DOMAIN m.locs THEN m
  ELSE IF m.locs[l].refs > 1 THEN [m EXCEPT !.locs[l].refs = @ - 1]
  ELSE [m EXCEPT !.tables = Release(@, Points(m, l)),
                 !.locs = [k \in DOMAIN @ \ {l} |-> @[k]]]
ReleaseLocale(m, l) ==
  IF l \in DOMAIN m.locs /\ m.locs[l].refs = 1
  THEN ReleaseLeaf(ReleaseLeaf(m, l), m.locs[l].numeric_loc)
  ELSE ReleaseLeaf(m, l)
RetainLocale(m, l) == IF l = NULL THEN m ELSE [m EXCEPT !.locs[l].refs = @ + 1]

-----------------------------------------------------------------------------
(* The loaders. An operator that may fail returns a set of [ok, m].        *)

\* l's pointer is moved to x, after releasing the table it pointed to
Point(m, l, c, x) ==
  [m EXCEPT !.tables = Release(@, {m.locs[l].tbl[c]} \ {NULL}), !.locs[l].tbl[c] = x]

FreeTable(m, c) == <<c, CHOOSE n \in 1 .. MaxTables :
  <<c, n>> \notin DOMAIN m.tables /\ \A k \in 1 .. n - 1 : <<c, k>> \in DOMAIN m.tables>>

\* __setrunelocale, __numeric_load_locale, ...: "C", the cached table, or one that is
\* read, which replaces the one in the cache
Load(m, l, c, n) ==
  LET cached == m.cache[c] IN
  IF n = C THEN {[ok |-> TRUE, m |-> Point(m, l, c, NULL)]}
  ELSE IF cached # NULL /\ m.tables[cached].name = n
  THEN {[ok |-> TRUE,
         m |-> LET p == Point(m, l, c, cached) IN [p EXCEPT !.tables = Retain(@, {cached})]]}
  ELSE LET p == Point(m, l, c, FreeTable(m, c))
           read == [p EXCEPT !.cache[c] = p.locs[l].tbl[c],
                      !.tables = [x \in DOMAIN Release(@, {cached}) \cup {p.locs[l].tbl[c]} |->
                        IF x = p.locs[l].tbl[c] THEN [name |-> n, refs |-> 2]
                        ELSE Release(@, {cached})[x]]]
       IN  {[ok |-> TRUE, m |-> read]}
             \cup (IF c \in MayFail THEN {[ok |-> FALSE, m |-> m]} ELSE {})

NotSame(m, l) ==
  IF m.locs[l].fp = "same" THEN [m EXCEPT !.locs[l].fp = "uninitialized", !.locs[l].lost = FALSE]
  ELSE m

\* a slip: what converts numbers is kept when LC_NUMERIC changes
Loaded_KeepsNumeric(m, l, c) ==
  IF c = "CTYPE" THEN NotSame(m, l) ELSE m

\* what follows a successful load: which locale converts numbers is to be found anew
Loaded(m, l, c) ==
  IF c = "NUMERIC"
  THEN [ReleaseLocale(m, m.locs[l].numeric_loc) EXCEPT
          !.locs[l].fp = "uninitialized", !.locs[l].numeric_loc = NULL, !.locs[l].lost = FALSE]
  ELSE IF c = "CTYPE" THEN NotSame(m, l)
  ELSE m

\* loadlocale, and the cases of _modifylocale
Change(m, l, c, n) ==
  IF Name(m, l, c) = n THEN {[ok |-> TRUE, m |-> m]}
  ELSE {[r EXCEPT !.m = IF r.ok THEN Loaded(@, l, c) ELSE @] : r \in Load(m, l, c, n)}

\* the categories of cats one after the other, until one fails; done: those changed
ChangeAll(start, l, cats, n) ==
  FoldLeft(LAMBDA outcomes, c :
             UNION {IF ~r.ok THEN {r}
                    ELSE {[ok |-> s.ok, m |-> s.m,
                           done |-> IF s.ok THEN Append(r.done, c) ELSE r.done] :
                            s \in Change(r.m, l, c, n)} : r \in outcomes},
           {[ok |-> TRUE, m |-> start, done |-> <<>>]},
           SelectSeq(Categories, LAMBDA c : c \in cats))

-----------------------------------------------------------------------------
(* setlocale, under the lock of the global locale.                         *)

SetCategory(c, n) == \E r \in Change(mem, Global, c, n) : mem' = r.m


\* the categories changed are given their old names back, or "C" when that fails
Rollback(m, done) ==
  FoldLeft(LAMBDA ms, c :
             UNION {UNION {IF r.ok THEN {r.m} ELSE {s.m : s \in Change(r.m, Global, c, C)} :
                             r \in Change(q, Global, c, Name(mem, Global, c))} : q \in ms},
           {m}, done)

Unlike(m, old, cats) == \E c \in cats : Name(m, Global, c) # Name(old, Global, c)

\* setlocale(LC_ALL, n): when a category fails, those before it are rolled back, and
\* fp and numeric_loc are put back. numeric_loc is kept from being freed meanwhile
SetAll(n) ==
  LET was == mem.locs[Global] IN
  \E r \in ChangeAll(RetainLocale(mem, was.numeric_loc), Global, Cats, n) :
    \/ r.ok /\ mem' = ReleaseLocale(r.m, was.numeric_loc)
    \/ /\ ~r.ok
       /\ \E q \in Rollback(r.m, r.done) :
            mem' = ReleaseLocale(
                     [q EXCEPT !.locs[Global].fp = was.fp,
                               !.locs[Global].numeric_loc = was.numeric_loc,
                               !.locs[Global].lost =
                                  was.lost \/ (was.fp = "same" /\ Unlike(q, mem, {"CTYPE", "NUMERIC"}))],
                     was.numeric_loc)

SetLocale(t) ==
  /\ \E n \in Names \cup {C} : SetAll(n) \/ \E c \in Cats : SetCategory(c, n)
  /\ UNCHANGED <<current, held, dup>>

-----------------------------------------------------------------------------
(* duplocale, newlocale, freelocale, uselocale.                            *)

\* what a thread's calls may name
Usable(t) == held \cup ({current[t]} \ {NULL}) \cup {Global}

Fresh(m) == Locales \ DOMAIN m.locs
Smallest(s) == CHOOSE l \in s : \A k \in s : l <= k

\* _duplocale: the source is copied with its lock held; base C is copied without one
DupCopy(t, base, mask, n) ==
  /\ Fresh(mem) # {}
  /\ LET new == Smallest(Fresh(mem))
         copy == IF base = C THEN Locale ELSE [mem.locs[base] EXCEPT !.refs = 1]
     IN  /\ mem' = [mem EXCEPT !.locs = [l \in DOMAIN @ \cup {new} |->
                      IF l = new THEN copy ELSE @[l]]]
         /\ dup' = [dup EXCEPT ![t] = [pc |-> "copied", new |-> new, base |-> base,
                                       mask |-> mask, name |-> n]]
  /\ UNCHANGED <<current, held>>

\* a slip: the locale that converts numbers is copied and not retained
Retained_NotNumericLoc(m, l) == [m EXCEPT !.tables = Retain(@, Points(m, l))]

\* the counts of what has been copied; a table freed meanwhile is written to all the same
Retained(m, l) ==
  RetainLocale([m EXCEPT !.tables = Retain(@, Points(m, l))],
               IF m.locs[l].numeric_loc \in DOMAIN m.locs THEN m.locs[l].numeric_loc ELSE NULL)

\* the rest of duplocale, and of newlocale, which frees what it cannot finish
DupRetain(t) ==
  LET d == dup[t] IN
  /\ d.pc = "copied"
  /\ dup' = [dup EXCEPT ![t] = NoDup]
  /\ \E r \in ChangeAll(IF d.base = C THEN mem ELSE Retained(mem, d.new), d.new, d.mask, d.name) :
       \/ r.ok /\ mem' = r.m /\ held' = held \cup {d.new}
       \/ ~r.ok /\ mem' = ReleaseLocale(r.m, d.new) /\ UNCHANGED held
  /\ UNCHANGED current

Duplocale(t) == \E base \in Usable(t) \cup {C} : DupCopy(t, base, {}, C)
\* every category is taken from "C", or some from a base
Newlocale(t) ==
  \E n \in Names \cup {C} :
    \/ DupCopy(t, C, Cats, n)
    \/ \E base \in Usable(t) \cup {C}, c \in Cats : DupCopy(t, base, {c}, n)

\* a program does not free a locale that it is copying
FreeLocale(t, l) ==
  /\ l \in held /\ \A u \in Threads : dup[u].base # l
  /\ mem' = ReleaseLocale(mem, l) /\ held' = held \ {l}
  /\ UNCHANGED <<current, dup>>

\* uselocale: retains the new locale before it releases the old one
UseLocale(t, l) ==
  /\ l \in held \cup {NULL} /\ \A u \in Threads : dup[u].base # current[t]
  /\ mem' = ReleaseLocale(RetainLocale(mem, l), current[t])
  /\ current' = [current EXCEPT ![t] = l]
  /\ UNCHANGED <<held, dup>>

\* __numeric_ctype: the locale whose LC_CTYPE is l's LC_NUMERIC. It is made once
NumericCtype(t, l) ==
  LET numeric == Name(mem, l, "NUMERIC") IN
  /\ l \in Usable(t) /\ mem.locs[l].fp = "uninitialized"
  /\ \/ /\ Name(mem, l, "CTYPE") = numeric
        /\ mem' = [mem EXCEPT !.locs[l].fp = "same", !.locs[l].lost = FALSE]
     \/ /\ Name(mem, l, "CTYPE") # numeric /\ Fresh(mem) # {}
        /\ LET new == Smallest(Fresh(mem))
               made == [mem EXCEPT !.locs = [k \in DOMAIN @ \cup {new} |->
                          IF k = new THEN Locale ELSE @[k]]]
           IN  \E r \in Change(made, new, "CTYPE", numeric) :
                 mem' = IF r.ok THEN [r.m EXCEPT !.locs[l].fp = "use", !.locs[l].numeric_loc = new]
                        ELSE [ReleaseLocale(r.m, new) EXCEPT !.locs[l].fp = "same",
                                                             !.locs[l].lost = TRUE]
  /\ UNCHANGED <<current, held, dup>>

Init ==
  /\ mem = [tables |-> <<>>, cache |-> [c \in Cats |-> NULL], locs |-> [l \in {Global} |-> Locale]]
  /\ current = [t \in Threads |-> NULL] /\ held = {} /\ dup = [t \in Threads |-> NoDup]
  /\ calls = 0

Call(t) ==
  /\ dup[t].pc = "idle" /\ calls < MaxCalls /\ calls' = calls + 1
  /\ \/ SetLocale(t) \/ Duplocale(t) \/ Newlocale(t)
     \/ \E l \in Locales : FreeLocale(t, l)
     \/ \E l \in Locales \cup {NULL} : UseLocale(t, l)
     \/ \E l \in Locales \cup {Global} : NumericCtype(t, l)

Next == \E t \in Threads : Call(t) \/ (DupRetain(t) /\ UNCHANGED calls)

Spec == Init /\ [][Next]_vars

-----------------------------------------------------------------------------
\* the locales that have been retained: all but the copies
Whole == DOMAIN mem.locs \ {dup[t].new : t \in {u \in Threads : dup[u].base # C}}

\* Every table and every locale that is pointed to is allocated, and its count is the
\* number of what points to it: the loader's cache, the locales, the threads, the
\* program. It is freed with the last of them ("release all the memory objects (the
\* memory will be freed when the refcount becomes zero)", _releaselocale).
ReferencesCounted ==
  /\ \A l \in Whole : Points(mem, l) \subseteq DOMAIN mem.tables
  /\ \A l \in Whole : mem.locs[l].numeric_loc \in DOMAIN mem.locs \cup {NULL}
  /\ \A x \in DOMAIN mem.tables :
       mem.tables[x].refs = Cardinality({c \in Cats : mem.cache[c] = x})
                            + Cardinality({l \in Whole : x \in Points(mem, l)})
  /\ held \cup {current[t] : t \in Threads} \subseteq DOMAIN mem.locs \cup {NULL}
  /\ \A l \in DOMAIN mem.locs \ {Global} :
       mem.locs[l].refs = Cardinality({t \in Threads : current[t] = l \/ dup[t].new = l})
                          + Cardinality({k \in Whole : mem.locs[k].numeric_loc = l})
                          + (IF l \in held THEN 1 ELSE 0)

\* Numbers are converted in the encoding of LC_NUMERIC: by the locale itself only if its
\* LC_CTYPE is the same, by a locale with that LC_CTYPE otherwise, however its
\* categories were changed since (__numeric_ctype); not when the LC_CTYPE of one of
\* them could not be loaded ("shouldn't happen, but just use the same locale").
NumericConversion ==
  \A l \in Whole :
    LET numeric == Name(mem, l, "NUMERIC") IN
    /\ mem.locs[l].fp = "same" /\ ~mem.locs[l].lost => Name(mem, l, "CTYPE") = numeric
    /\ mem.locs[l].fp = "use" => Name(mem, mem.locs[l].numeric_loc, "CTYPE") = numeric
    /\ mem.locs[l].fp # "use" => mem.locs[l].numeric_loc = NULL

=============================================================================
