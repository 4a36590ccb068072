----------------------------- MODULE LoadMethods -----------------------------
(***************************************************************************)
(* +load methods (objc-loadmethod.mm, load_images and _unload_image of     *)
(* objc-runtime-new.mm): classes and categories of an image are put in two *)
(* lists, and the outermost call_load_methods calls what is in them. It    *)
(* holds loadMethodLock, which is recursive: other threads wait, a +load   *)
(* method may map and unmap images.                                        *)
(***************************************************************************)
EXTENDS Integers, Sequences, SequencesExt

CONSTANTS
  Images, Bundles,       \* those that can be unmapped
  Classes, Super,        \* Classes -> Classes or NULL
  HasLoad,               \* the classes that implement +load
  ClassList,             \* Images -> the classes of __objc_nlclslist
  AllClasses,            \* Images -> all classes
  CategoryList,          \* Images -> the categories of __objc_nlcatlist
  ClassOf,               \* of a category
  NULL,
  UnmapsPending,         \* whether a +load method unmaps an image whose own +load
                         \* methods are in the list that is being called
  MaxMaps                \* bound on the images mapped in a behaviour

VARIABLES
  mapped,                \* the images that map_images has read
  loaded,                \* the classes with RW_LOADED
  prepared,              \* the images whose load_images has come
  loadable_classes, loadable_categories,
  call,                  \* call_load_methods: [pc, list, i, running]
  called,                \* history: what +load was sent to, of mapped images
  maps                   \* how many images have been mapped

lists == <<loadable_classes, loadable_categories>>
vars == <<mapped, loaded, prepared, lists, call, called, maps>>

Items(m) == AllClasses[m] \cup ToSet(CategoryList[m])
ImageOf(x) == CHOOSE m \in Images : x \in Items(m)
Categories == DOMAIN ClassOf

\* the images an image is bound to: they are mapped before it and unmapped after it
Needs(m) ==
  ({ImageOf(Super[c]) : c \in {d \in AllClasses[m] : Super[d] # NULL}}
     \cup {ImageOf(ClassOf[k]) : k \in ToSet(CategoryList[m])}) \ {m}

NotLoading == [pc |-> "idle", list |-> <<>>, i |-> 1, running |-> NULL]

\* the program, or a +load method, may call dlopen and dlclose
Open == call.pc = "idle" \/ call.running # NULL

-----------------------------------------------------------------------------
\* a slip: a class is put in the list before its superclasses
ScheduleClassLoad_Before(loadedThen, c) ==
  LET schedule[d \in Classes] ==
        IF d \in loadedThen THEN <<>>
        ELSE <<d>> \o (IF Super[d] = NULL THEN <<>> ELSE schedule[Super[d]])
  IN  schedule[c]

\* schedule_class_load: the superclasses that are not marked, then the class
ScheduleClassLoad(loadedThen, c) ==
  LET schedule[d \in Classes] ==
        IF d \in loadedThen THEN <<>>
        ELSE Append(IF Super[d] = NULL THEN <<>> ELSE schedule[Super[d]], d)
  IN  schedule[c]

\* prepare_load_methods, for the classes: all are marked, those with a +load are added
PrepareClasses(m) ==
  LET s == FoldLeft(LAMBDA acc, c : acc \o ScheduleClassLoad(loaded \cup ToSet(acc), c),
                    <<>>, ClassList[m])
  IN  /\ loaded' = loaded \cup ToSet(s)
      /\ loadable_classes' = loadable_classes \o SelectSeq(s, LAMBDA c : c \in HasLoad)

Map(m) ==
  /\ Open /\ m \notin mapped /\ Needs(m) \subseteq mapped
  /\ maps < MaxMaps /\ maps' = maps + 1
  /\ mapped' = mapped \cup {m}
  /\ UNCHANGED <<loaded, prepared, lists, call, called>>

\* load_images: prepare_load_methods, then call_load_methods, which returns at once when
\* a +load method is running
LoadImages(m) ==
  /\ Open /\ m \in mapped \ prepared
  /\ prepared' = prepared \cup {m}
  /\ PrepareClasses(m)
  /\ loadable_categories' = loadable_categories \o CategoryList[m]
  /\ call' = IF call.pc = "idle" THEN [NotLoading EXCEPT !.pc = "loop"] ELSE call
  /\ UNCHANGED <<mapped, called, maps>>

\* a slip: only the classes are taken from the lists
Removed_Classes(list, m) == [n \in DOMAIN list |->
  IF list[n] \in AllClasses[m] THEN NULL ELSE list[n]]

\* remove_class_from_loadable_list, remove_category_from_loadable_list
Removed(list, m) == [n \in DOMAIN list |-> IF list[n] \in Items(m) THEN NULL ELSE list[n]]

\* unmap_image: the lists are searched, and not the one that is being called
Unmap(m) ==
  /\ Open /\ m \in mapped \cap Bundles /\ \A n \in mapped : m \notin Needs(n)
  /\ call.running \notin Items(m)
  /\ UnmapsPending \/ \A n \in call.i .. Len(call.list) : call.list[n] \notin Items(m)
  /\ mapped' = mapped \ {m} /\ prepared' = prepared \ {m} /\ loaded' = loaded \ AllClasses[m]
  /\ loadable_classes' = Removed(loadable_classes, m)
  /\ loadable_categories' = Removed(loadable_categories, m)
  /\ called' = SelectSeq(called, LAMBDA x : x \notin Items(m))
  /\ UNCHANGED <<call, maps>>

-----------------------------------------------------------------------------
(* call_load_methods.                                                      *)

\* call_class_loads detaches the list
DetachClasses ==
  /\ call.pc = "loop" /\ loadable_classes # <<>>
  /\ call' = [NotLoading EXCEPT !.pc = "classes", !.list = loadable_classes]
  /\ loadable_classes' = <<>>
  /\ UNCHANGED <<mapped, loaded, prepared, loadable_categories, called, maps>>

\* call_category_loads detaches the other one when there are no more classes
DetachCategories ==
  /\ call.pc = "loop" /\ loadable_classes = <<>>
  /\ call' = [NotLoading EXCEPT !.pc = "categories", !.list = loadable_categories]
  /\ loadable_categories' = <<>>
  /\ UNCHANGED <<mapped, loaded, prepared, loadable_classes, called, maps>>

\* the next +load method of the detached list; a nil entry is passed over
CallLoad ==
  /\ call.pc \in {"classes", "categories"} /\ call.running = NULL /\ call.i <= Len(call.list)
  /\ LET x == call.list[call.i] IN
     /\ call' = [call EXCEPT !.i = @ + 1, !.running = x]
     /\ called' = IF x = NULL THEN called ELSE Append(called, x)
  /\ UNCHANGED <<mapped, loaded, prepared, lists, maps>>

LoadReturns ==
  /\ call.running # NULL
  /\ call' = [call EXCEPT !.running = NULL]
  /\ UNCHANGED <<mapped, loaded, prepared, lists, called, maps>>

\* whether there is more to call: every category in the list was called, those added
\* meanwhile are the new list
More == loadable_classes # <<>> \/ loadable_categories # <<>>

ListCalled ==
  /\ call.pc \in {"classes", "categories"} /\ call.running = NULL /\ call.i > Len(call.list)
  /\ call' = IF call.pc = "classes" \/ More THEN [NotLoading EXCEPT !.pc = "loop"]
             ELSE NotLoading
  /\ UNCHANGED <<mapped, loaded, prepared, lists, called, maps>>

Init ==
  /\ mapped = {} /\ loaded = {} /\ prepared = {} /\ called = <<>>
  /\ loadable_classes = <<>> /\ loadable_categories = <<>> /\ call = NotLoading
  /\ maps = 0

Next ==
  \/ \E m \in Images : Map(m) \/ LoadImages(m) \/ Unmap(m)
  \/ DetachClasses \/ DetachCategories \/ CallLoad \/ LoadReturns \/ ListCalled

Spec == Init /\ [][Next]_vars

-----------------------------------------------------------------------------
\* +load is sent to a class after its superclasses, to a category after its class and
\* the superclasses of it, and once to each, however images are mapped by +load methods
\* ("Class +load methods are called superclass-first. Category +load methods are not
\* called until after the parent class's +load", call_load_methods).
ParentsFirst ==
  LET Above[c \in Classes \cup {NULL}] ==
        IF c = NULL THEN {} ELSE {c} \cup Above[Super[c]]
      Parents(x) == IF x \in Categories THEN Above[ClassOf[x]] ELSE Above[x] \ {x}
  IN  \A n \in DOMAIN called :
        /\ Parents(called[n]) \cap HasLoad \subseteq {called[k] : k \in 1 .. n - 1}
        /\ \A k \in 1 .. n - 1 : called[k] # called[n]

\* When the outermost call returns, everything that was to be called has been ("make
\* sure that no +load method is forgotten because it was added during a +load call",
\* call_load_methods).
NoneForgotten ==
  call.pc = "idle" =>
    \A m \in prepared :
      (ToSet(ClassList[m]) \cap HasLoad) \cup ToSet(CategoryList[m]) \subseteq ToSet(called)

\* +load is sent to nothing in an image that has been unmapped ("no longer loadable
\* (because its image is being unmapped)", remove_class_from_loadable_list).
OnlyMapped == call.running # NULL => ImageOf(call.running) \in mapped
\* What one outermost call owes to the classes and categories of the prepared images:
\* the order within the list, and everything in it (call_load_methods).
EachInTurn == ParentsFirst /\ NoneForgotten
=============================================================================
