---------------------------- MODULE MCLibSystem -----------------------------
(***************************************************************************)
(* The components of libSystem and the cache of libDHCPServer, one         *)
(* instance of each. They share no state, so every behaviour is one of a   *)
(* single part: part says of which, and the others stay as they were at    *)
(* the start.                                                              *)
(***************************************************************************)
EXTENDS Keymgr, AtExit, TLC

CONSTANTS
  t1, t2, none,
  k1, live, m1, m2, d1, d2,                 \* Keymgr
  ka, kb, kc, kd, va, vb,                   \* KxldDict
  OverwriteAfterRemove,
  aa, ab, ItemSize,                         \* KxldArray
  nx, ny,                                   \* Environment
  lx, ly, C, LocaleCategories, MayFail, global,         \* Locale
  e1, e2, e3, nofile,                       \* PLCache
  level, message, seven, wide, huge, absent,   \* AslMessage, with ka
  Parts                                     \* those that a run has

VARIABLES
  part,
  buckets, num_entries, resize_threshold,                          \* KxldDict
  arrays,                                                          \* KxldArray
  array, env, heap, owned,                                         \* Environment
  mem, current, held, dup, calls,                                  \* Locale
  head, tail, count, max_entries, entry, file, tmp, scan, saved,   \* PLCache
  pages, strings, corrupt, asked                                   \* AslMessage

dictVars == <<buckets, num_entries, resize_threshold>>
envVars == <<array, env, heap, owned>>
localeVars == <<mem, current, held, dup, calls>>
cacheVars == <<head, tail, count, max_entries, entry, file, tmp, scan, saved>>
aslVars == <<pages, strings, corrupt, asked>>
partVars == <<part, vars, dictVars, arrays, atexitVars, envVars, localeVars, cacheVars,
              aslVars>>

\* each image has one destructor
OneEach == d1 :> m1 @@ d2 :> m2

\* four keys, of which two collide at once and three after the table has grown
Dict == INSTANCE KxldDict WITH
  Keys <- {ka, kb, kc, kd}, Values <- {va, vb}, NoValue <- none, NoKey <- none,
  Hash <- ka :> 2 @@ kb :> 2 @@ kc :> 6 @@ kd :> 0,
  DefaultDictSize <- 3, Hints <- {0, 3}, MaxBuckets <- 7

\* pages of four bytes
Array == INSTANCE KxldArray WITH
  Arrays <- {aa, ab}, Contents <- {1}, Zero <- 0, PageSize <- 4, MaxItems <- 3

\* two names, values of two lengths; the kernel's environment has one name twice
Environment == INSTANCE Environment WITH
  Names <- {nx, ny}, Values <- {1, 2}, NoValue <- none, Length <- <<1, 2>>,
  Addresses <- 1 .. 3,
  StaticStrings <- 11 :> [name |-> nx, value |-> 1] @@ 12 :> [name |-> nx, value |-> 2],
  KernelEnv <- <<11, 12>>, KernelArray <- 20, OWNED_PTR_INITIAL_SIZE <- 2,
  NoMemory <- {"table", "setenv"}, MaxEnv <- 3

\* two locales and the default one, categories in the order of their numbers
Locale == INSTANCE Locale WITH
  Threads <- {t1}, Names <- {lx, ly},
  Categories <- SelectSeq(<<"CTYPE", "MONETARY", "NUMERIC", "TIME">>, LAMBDA c : c \in LocaleCategories),
  MaxTables <- 5, MaxCalls <- 4, Locales <- {1, 2}, Global <- global, NULL <- none

\* hosts with one and two addresses, of which they share one
PLCache == INSTANCE PLCache WITH
  Entries <- {e1, e2, e3}, NULL <- none, NoFile <- nofile,
  CACHE_MIN <- 1, CACHE_MAX <- 3, Sizes <- {0, 1},
  Hosts <- {[en |-> <<"a", "b">>, ip |-> <<1, 2>>], [en |-> <<"b">>, ip |-> <<2>>]}

\* two standard keys and one that takes memory; pages of two slots and four bytes; values
\* of two bytes (with newlines, of four, too long for a page with the key) and of five
AslMessage == INSTANCE AslMessage WITH
  Keys <- {level, message, ka}, Values <- {seven, wide, huge}, Null <- none, Absent <- absent,
  Level <- level, Message <- message, LevelNumber <- seven :> seven, Debug <- seven,
  Stripped <- seven :> seven @@ wide :> seven @@ huge :> huge,
  KeySize <- level :> 0 @@ message :> 0 @@ ka :> 1,
  Size <- seven :> 2 @@ wide :> 4 @@ huge :> 5,
  PointerSize <- 3, ASL_MSG_PAGE_DATA_SIZE <- 4, ASL_MSG_KVO_MSG_SLOTS <- 2,
  MaxPages <- 2, MaxCount <- 3

ASSUME AslMessage!AslMessageAssumption

PartInit ==
  /\ part \in Parts
  /\ Init /\ Dict!Init /\ Array!Init /\ AtExitInit
  /\ Environment!Init /\ Locale!Init /\ PLCache!Init /\ AslMessage!Init

Stays(name, variables) == part = name \/ UNCHANGED variables

PartNext ==
  /\ UNCHANGED part
  /\ \/ part = "keymgr" /\ Next
     \/ part = "dict" /\ Dict!Next
     \/ part = "array" /\ Array!Next
     \/ part = "atexit" /\ AtExitNext
     \/ part = "environment" /\ Environment!Next
     \/ part = "locale" /\ Locale!Next
     \/ part = "plcache" /\ PLCache!Next
     \/ part = "asl" /\ AslMessage!Next
  /\ Stays("keymgr", vars) /\ Stays("dict", dictVars) /\ Stays("array", arrays)
  /\ Stays("atexit", atexitVars) /\ Stays("environment", envVars)
  /\ Stays("locale", localeVars) /\ Stays("plcache", cacheVars) /\ Stays("asl", aslVars)

PartSpec == PartInit /\ [][PartNext]_partVars

-----------------------------------------------------------------------------
\* libkxld: the dictionary is a map, with a bucket left that ends the searches
\* (kxld_dict_find, kxld_dict_insert).
ImplementsMap ==
  /\ Dict!Map!Init /\ [][part = "dict" => Dict!Map!Next]_dictVars
  /\ [](part = "dict" => Dict!RoomForOneMore)

\* libkxld: an array's memory outlives its use (kxld_array_init).
ImplementsSlots ==
  /\ Array!Memory!Init /\ [][part = "array" => Array!Memory!Next]_arrays
  /\ [](part = "array" => Array!ItemsAreSlots)

\* The environment's own memory: nothing is freed that is not its own, or used.
OwnedPointersLive == part = "environment" => Environment!OwnedPointersLive
\* The environment is a map, whatever strings its callers put in it (setenv, unsetenv).
EnvironmentIsMap == [][part = "environment" => Environment!MapStep]_envVars

\* Locales: the counts of references to tables and locales (xlocale.c, setlocale.c).
ReferencesCounted == part = "locale" => Locale!ReferencesCounted
\* Locales: the numeric locale is the locale with LC_NUMERIC's digits (__numeric_ctype).
NumericConversion == part = "locale" => Locale!NumericConversion

\* libDHCPServer: the list, both ways, and the file, which survives a write that is cut
\* short (PLCache_add, PLCache_remove, PLCache_write).
CacheSound == part = "plcache" => PLCache!DoublyLinked /\ PLCache!FileWhole
\* libDHCPServer: the cache in order of use (PLCache_make_head, PLCache_read).
InOrderOfUse == [][part = "plcache" => PLCache!UseStep]_<<head, entry>>

\* libsystem_asl: a message reads back what was set, wherever it is kept (see AslMessage).
MessageIsMap == part = "asl" => AslMessage!MessageIsMap
=============================================================================
