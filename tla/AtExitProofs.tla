---------------------------- MODULE AtExitProofs ----------------------------
(***************************************************************************)
(* Handlers are called last registered first, and all of them: theorems    *)
(* about AtExit for any threads, handlers and size of a block.             *)
(***************************************************************************)
EXTENDS AtExit, TLAPS

Block == Seq([fn : Handlers, empty : BOOLEAN])
Registration == [pc : {"idle", "lock", "malloc"}, fn : Handlers \cup {NoHandler},
                 p : Nat, old : Nat]
Finalization == [pc : {"idle", "calling"}, range : SUBSET Handlers, at : Nat \X Nat]

\* Types of everything that AtExit keeps.
AtExitTypeOK ==
  /\ atexit \in Seq(Block) /\ Len(atexit) > 0
  /\ new_registration \in BOOLEAN
  /\ reg \in [Threads -> Registration]
  /\ fin \in [Threads -> Finalization]
  /\ called \in Seq(Handlers)
  /\ before \in [Handlers -> SUBSET Handlers]

\* the places of entries, and what is there
Places == UNION {{<<b, n>> : n \in DOMAIN atexit[b]} : b \in DOMAIN atexit}
At(x) == atexit[x[1]][x[2]]

\* a handler has one place, later than those of what was registered before it
Stack ==
  /\ \A x, y \in Places : At(x).fn = At(y).fn => x = y
  /\ \A x, y \in Places : At(x).fn \in before[At(y).fn] => Below(x, y)
  /\ \A h \in Handlers : before[h] \subseteq Registered

\* an entry is empty when its handler has been called
Called == ToSet(called) \subseteq Registered
Emptied == Called /\ \A x \in Places : At(x).empty <=> At(x).fn \in ToSet(called)

\* one thread registers a handler, in a block not older than any that was the head when it began
RegOK(t) ==
  /\ reg[t].pc = "idle" <=> reg[t].fn = NoHandler
  /\ reg[t].pc # "idle" =>
       /\ reg[t].fn \notin Registered
       /\ \A u \in Threads : reg[u].fn = reg[t].fn => u = t
  /\ reg[t].pc = "lock" =>
       /\ reg[t].p \in DOMAIN atexit
       /\ \A x \in Places : At(x).fn \in before[reg[t].fn] => x[1] <= reg[t].p

\* unless there was a new registration, a walk has left behind nothing it was to call
FinOK(t) ==
  fin[t].pc = "calling" =>
    /\ t \in Finalizers
    /\ new_registration \/ \A x \in Places :
         At(x).fn \in fin[t].range /\ ~At(x).empty => Below(x, fin[t].at)

\* The inductive invariant.
IInv ==
  /\ AtExitTypeOK /\ Stack /\ Emptied
  /\ \A t \in Threads : RegOK(t) /\ FinOK(t)

\* exit and the unloading of images call handlers one after the other
OneFinalizer == \A t, u \in Finalizers : t = u

-----------------------------------------------------------------------------
(* Places.                                                                 *)

LEMMA PlaceFacts ==
  ASSUME AtExitTypeOK
  PROVE  /\ DOMAIN atexit = 1 .. Len(atexit) /\ Len(atexit) \in Nat \ {0}
         /\ \A b \in DOMAIN atexit : /\ atexit[b] \in Block /\ Len(atexit[b]) \in Nat
                                     /\ DOMAIN atexit[b] = 1 .. Len(atexit[b])
         /\ \A x : x \in Places <=> /\ x = <<x[1], x[2]>> /\ x[1] \in DOMAIN atexit
                                    /\ x[2] \in DOMAIN atexit[x[1]]
         /\ \A x \in Places : /\ x \in Nat \X Nat /\ x[1] <= Len(atexit)
                              /\ At(x) \in [fn : Handlers, empty : BOOLEAN]
<1>1. DOMAIN atexit = 1 .. Len(atexit) /\ Len(atexit) \in Nat \ {0}
  BY DEF AtExitTypeOK
<1>2. \A b \in DOMAIN atexit : /\ atexit[b] \in Block /\ Len(atexit[b]) \in Nat
                               /\ DOMAIN atexit[b] = 1 .. Len(atexit[b])
  BY <1>1 DEF AtExitTypeOK, Block
<1>3. \A x : x \in Places <=> /\ x = <<x[1], x[2]>> /\ x[1] \in DOMAIN atexit
                              /\ x[2] \in DOMAIN atexit[x[1]]
  BY DEF Places
<1>4. ASSUME NEW x \in Places
      PROVE  /\ x \in Nat \X Nat /\ x[1] <= Len(atexit)
             /\ At(x) \in [fn : Handlers, empty : BOOLEAN]
  <2>1. /\ x = <<x[1], x[2]>> /\ x[1] \in 1 .. Len(atexit) /\ x[2] \in 1 .. Len(atexit[x[1]])
        /\ atexit[x[1]] \in Block /\ Len(atexit[x[1]]) \in Nat
    BY <1>1, <1>2, <1>3
  <2>2. At(x) \in [fn : Handlers, empty : BOOLEAN]
    <3>1. PICK s, n : s = atexit[x[1]] /\ n = x[2]
      OBVIOUS
    <3>2. PICK R : R = [fn : Handlers, empty : BOOLEAN]
      OBVIOUS
    <3>3. s \in Seq(R) /\ n \in 1 .. Len(s)
      BY <2>1, <3>1, <3>2 DEF Block
    <3>4. s[n] \in R
      BY <3>3
    <3> QED BY <3>1, <3>2, <3>4 DEF At
  <2>3. x[1] \in Nat /\ x[2] \in Nat /\ x[1] <= Len(atexit)
    BY <1>1, <2>1
  <2>4. x \in Nat \X Nat
    BY <2>1, <2>3
  <2> QED BY <2>2, <2>3, <2>4
<1> QED BY <1>1, <1>2, <1>3, <1>4

LEMMA HandlersAt ==
  ASSUME NEW f, NEW h
  PROVE  h \in {e.fn : e \in UNION {ToSet(b) : b \in ToSet(f)}} <=>
           \E x \in UNION {{<<b, n>> : n \in DOMAIN f[b]} : b \in DOMAIN f} : f[x[1]][x[2]].fn = h
<1> DEFINE P == UNION {{<<b, n>> : n \in DOMAIN f[b]} : b \in DOMAIN f}
<1>1. h \in {e.fn : e \in UNION {ToSet(b) : b \in ToSet(f)}} <=>
        \E b \in DOMAIN f : \E n \in DOMAIN f[b] : f[b][n].fn = h
  BY DEF ToSet
<1>2. ASSUME NEW b \in DOMAIN f, NEW n \in DOMAIN f[b], f[b][n].fn = h
      PROVE  \E x \in P : f[x[1]][x[2]].fn = h
  <2>1. <<b, n>> \in P
    OBVIOUS
  <2> HIDE DEF P
  <2> QED BY <1>2, <2>1
<1>3. ASSUME NEW x \in P, f[x[1]][x[2]].fn = h
      PROVE  \E b \in DOMAIN f : \E n \in DOMAIN f[b] : f[b][n].fn = h
  BY <1>3
<1> HIDE DEF P
<1>4. (\E x \in P : f[x[1]][x[2]].fn = h) <=> \E b \in DOMAIN f : \E n \in DOMAIN f[b] : f[b][n].fn = h
  BY <1>2, <1>3
<1> QED BY <1>1, <1>4 DEF P

LEMMA RegisteredPlaces ==
  ASSUME NEW h
  PROVE  /\ h \in Registered <=> \E x \in Places : At(x).fn = h
         /\ h \in Registered' <=> \E x \in Places' : At(x)'.fn = h
<1>1. PICK f : f = atexit
  OBVIOUS
<1>2. PICK g : g = atexit'
  OBVIOUS
<1>3. h \in Registered <=> \E x \in Places : At(x).fn = h
  BY <1>1, HandlersAt DEF Registered, Places, At
<1>4. h \in Registered' <=> \E x \in Places' : At(x)'.fn = h
  BY <1>2, HandlersAt DEF Registered, Places, At
<1> QED BY <1>3, <1>4

\* Later and earlier exclude each other, and of two places one is the later.
LEMMA Order ==
  ASSUME NEW x \in Nat \X Nat, NEW y \in Nat \X Nat
  PROVE  ~Below(x, x) /\ ~(Below(x, y) /\ Below(y, x))
BY DEF Below

LEMMA Later ==
  ASSUME NEW x \in Nat \X Nat, NEW y \in Nat \X Nat, NEW z \in Nat \X Nat, Below(x, y), Below(y, z)
  PROVE  Below(x, z)
BY DEF Below

-----------------------------------------------------------------------------
(* Registrations.                                                          *)

LEMMA RegisterStep ==
  ASSUME IInv, NEW t \in Threads, NEW h \in Handlers, Register(t, h)
  PROVE  IInv'
<1>0. AtExitTypeOK /\ Stack /\ Emptied /\ \A u \in Threads : RegOK(u) /\ FinOK(u)
  BY DEF IInv
<1>1. /\ atexit' = atexit /\ new_registration' = new_registration /\ fin' = fin /\ called' = called
      /\ before' = [before EXCEPT ![h] = Registered]
      /\ h \notin Registered /\ \A u \in Threads : reg[u].fn # h
  BY DEF Register
<1>2. PICK r : r = [NoReg EXCEPT !.pc = "lock", !.fn = h, !.p = Len(atexit)]
  OBVIOUS
<1>3. Len(atexit) \in Nat /\ Len(atexit) \in DOMAIN atexit /\ h # NoHandler
  BY <1>0, PlaceFacts, AtExitAssumption
<1>4. /\ r \in Registration /\ r.pc = "lock" /\ r.fn = h /\ r.p = Len(atexit)
      /\ reg' = [reg EXCEPT ![t] = r]
  <2>1. r \in Registration /\ r.pc = "lock" /\ r.fn = h /\ r.p = Len(atexit)
    BY <1>2, <1>3 DEF NoReg, Registration
  <2> QED BY <1>2, <2>1 DEF Register
<1>5. reg'[t] = r /\ \A u \in Threads : u # t => reg'[u] = reg[u]
  BY <1>0, <1>4 DEF AtExitTypeOK
<1>6. Places' = Places /\ Registered' = Registered /\ \A x : At(x)' = At(x)
  BY <1>1 DEF Places, Registered, At
<1>7. Registered \subseteq Handlers
  BY <1>0, RegisteredPlaces, PlaceFacts
<1>8. AtExitTypeOK'
  BY <1>0, <1>1, <1>4, <1>7 DEF AtExitTypeOK
<1>9. before'[h] = Registered /\ \A g \in Handlers : g # h => before'[g] = before[g]
  BY <1>0, <1>1 DEF AtExitTypeOK
<1>10. \A x \in Places : At(x).fn \in Handlers /\ At(x).fn # h
  BY <1>0, <1>1, RegisteredPlaces, PlaceFacts
<1>11. Stack'
  <2>1. \A x, y \in Places : At(x).fn = At(y).fn => x = y
    BY <1>0 DEF Stack
  <2>2. \A x, y \in Places : At(x).fn \in before'[At(y).fn] => Below(x, y)
    BY <1>0, <1>9, <1>10 DEF Stack
  <2>3. \A g \in Handlers : before'[g] \subseteq Registered
    BY <1>0, <1>9 DEF Stack
  <2> QED BY <1>6, <2>1, <2>2, <2>3 DEF Stack, Below
<1>12. Emptied'
  BY <1>0, <1>1, <1>6 DEF Emptied, Called
<1>13. ASSUME NEW u \in Threads PROVE RegOK(u)'
  <2>1. CASE u = t
    <3>1. \A x \in Places : x[1] <= Len(atexit)
      BY <1>0, PlaceFacts
    <3>2. \A v \in Threads : reg'[v].fn = h => v = t
      BY <1>1, <1>5
    <3> QED BY <1>1, <1>3, <1>4, <1>5, <1>6, <2>1, <3>1, <3>2 DEF RegOK
  <2>2. CASE u # t
    <3>1. RegOK(u) /\ reg'[u] = reg[u] /\ reg[u].fn # h
      BY <1>0, <1>1, <1>5, <2>2
    <3>2. \A v \in Threads : reg'[v].fn = reg[u].fn => reg[v].fn = reg[u].fn
      BY <1>4, <1>5, <3>1
    <3>3. reg[u].pc # "idle" => reg[u].fn \in Handlers
      BY <1>0, <3>1 DEF AtExitTypeOK, Registration, RegOK
    <3>4. reg[u].pc = "lock" => before'[reg[u].fn] = before[reg[u].fn]
      BY <1>9, <3>1, <3>3
    <3> QED BY <1>1, <1>6, <3>1, <3>2, <3>4 DEF RegOK
  <2> QED BY <2>1, <2>2
<1>14. ASSUME NEW u \in Threads PROVE FinOK(u)'
  BY <1>0, <1>1, <1>6 DEF FinOK, Below
<1> QED BY <1>8, <1>11, <1>12, <1>13, <1>14 DEF IInv

\* place z is new, and of handler h
Adds(z, h) ==
  /\ z \notin Places /\ Places' = Places \cup {z}
  /\ atexit'[z[1]][z[2]] = Entry(h)
  /\ \A x \in Places : atexit'[x[1]][x[2]] = atexit[x[1]][x[2]]

LEMMA AddedStep ==
  ASSUME IInv, NEW t \in Threads, reg[t].pc # "idle", NEW z \in Nat \X Nat, Adds(z, reg[t].fn),
         \A x \in Places : At(x).fn \in before[reg[t].fn] => Below(x, z),
         DOMAIN atexit \subseteq DOMAIN atexit',
         atexit' \in Seq(Block) /\ Len(atexit') > 0,
         new_registration' = TRUE, reg' = [reg EXCEPT ![t] = NoReg],
         UNCHANGED <<fin, called, before>>
  PROVE  IInv'
<1>0. AtExitTypeOK /\ Stack /\ Emptied /\ \A u \in Threads : RegOK(u) /\ FinOK(u)
  BY DEF IInv
<1>1. PICK h : h = reg[t].fn
  OBVIOUS
<1>2. h \in Handlers /\ h \notin Registered /\ \A u \in Threads : reg[u].fn = h => u = t
  BY <1>0, <1>1 DEF AtExitTypeOK, Registration, RegOK
<1>3. /\ z \notin Places /\ Places' = Places \cup {z} /\ At(z)' = Entry(h)
      /\ \A x \in Places : At(x)' = At(x)
  BY <1>1 DEF Adds, At
<1>4. Entry(h).fn = h /\ Entry(h).empty = FALSE
  BY DEF Entry
<1>5. \A g : g \in Registered' <=> g \in Registered \/ g = h
  <2>1. \A g : g \in Registered' <=> \E x \in Places' : At(x)'.fn = g
    BY RegisteredPlaces
  <2> QED BY <1>3, <1>4, <2>1, RegisteredPlaces
<1>6. /\ NoReg \in Registration /\ NoReg.pc = "idle" /\ NoReg.fn = NoHandler
      /\ reg'[t] = NoReg /\ \A u \in Threads : u # t => reg'[u] = reg[u]
  BY <1>0 DEF AtExitTypeOK, NoReg, Registration
<1>7. AtExitTypeOK'
  BY <1>0, <1>6 DEF AtExitTypeOK
<1>8. \A x \in Places : At(x).fn \in Registered /\ At(x).fn # h /\ At(x).fn \in Handlers
  BY <1>0, <1>2, RegisteredPlaces, PlaceFacts
<1>9. \A g \in Handlers : h \notin before[g] /\ before[g] \subseteq Registered
  BY <1>0, <1>2 DEF Stack
<1>10. Stack'
  <2>1. ASSUME NEW x \in Places', NEW y \in Places', At(x)'.fn = At(y)'.fn
        PROVE  x = y
    BY <1>0, <1>3, <1>4, <1>8, <2>1 DEF Stack
  <2>2. ASSUME NEW x \in Places', NEW y \in Places', At(x)'.fn \in before[At(y)'.fn]
        PROVE  Below(x, y)
    <3>1. x # z
      BY <1>2, <1>3, <1>4, <1>8, <1>9, <2>2
    <3>2. CASE y = z
      BY <1>1, <1>3, <1>4, <2>2, <3>1, <3>2
    <3>3. CASE y # z
      BY <1>0, <1>3, <2>2, <3>1, <3>3 DEF Stack
    <3> QED BY <3>2, <3>3
  <2>3. \A g \in Handlers : before[g] \subseteq Registered'
    BY <1>5, <1>9
  <2> QED BY <2>1, <2>2, <2>3 DEF Stack, Below
<1>11. Emptied'
  <2>1. h \notin ToSet(called)
    <3>1. ToSet(called) \subseteq Registered
      BY <1>0 DEF Emptied, Called
    <3> QED BY <1>2, <3>1
  <2> QED BY <1>0, <1>3, <1>4, <1>5, <2>1 DEF Emptied, Called
<1>12. ASSUME NEW u \in Threads PROVE RegOK(u)'
  <2>1. CASE u = t
    BY <1>6, <2>1 DEF RegOK
  <2>2. CASE u # t
    <3>1. RegOK(u) /\ reg'[u] = reg[u] /\ reg[u].fn # h
      BY <1>0, <1>2, <1>6, <2>2
    <3>2. \A v \in Threads : reg[u].pc # "idle" /\ reg'[v].fn = reg[u].fn => u = v
      BY <1>6, <3>1 DEF RegOK
    <3>3. reg[u].pc # "idle" => reg[u].fn \in Handlers
      BY <1>0, <3>1 DEF AtExitTypeOK, Registration, RegOK
    <3>4. \A x \in Places' : reg[u].pc = "lock" /\ At(x)'.fn \in before[reg[u].fn] => x[1] <= reg[u].p
      BY <1>3, <1>4, <1>9, <3>1, <3>3 DEF RegOK
    <3> QED BY <1>5, <3>1, <3>2, <3>4 DEF RegOK
  <2> QED BY <2>1, <2>2
<1>13. ASSUME NEW u \in Threads PROVE FinOK(u)'
  BY <1>0 DEF FinOK
<1> QED BY <1>7, <1>10, <1>11, <1>12, <1>13 DEF IInv

\* A registration that goes on to allocate a block, or is given up, adds nothing.
LEMMA NotAddedStep ==
  ASSUME IInv, NEW t \in Threads, reg[t].pc # "idle", NEW r \in Registration,
         reg' = [reg EXCEPT ![t] = r],
         \/ r.pc = "idle" /\ r.fn = NoHandler
         \/ r.pc = "malloc" /\ r.fn = reg[t].fn,
         UNCHANGED <<atexit, new_registration, fin, called, before>>
  PROVE  IInv'
<1>0. AtExitTypeOK /\ Stack /\ Emptied /\ \A u \in Threads : RegOK(u) /\ FinOK(u)
  BY DEF IInv
<1>1. reg'[t] = r /\ \A u \in Threads : u # t => reg'[u] = reg[u]
  BY <1>0 DEF AtExitTypeOK
<1>2. Places' = Places /\ Registered' = Registered /\ \A x : At(x)' = At(x)
  BY DEF Places, Registered, At
<1>3. AtExitTypeOK'
  BY <1>0 DEF AtExitTypeOK
<1>4. Stack' /\ Emptied'
  BY <1>0, <1>2 DEF Stack, Emptied, Called, Below
<1>5. reg[t].fn \in Handlers /\ reg[t].fn # NoHandler
  BY <1>0, AtExitAssumption DEF AtExitTypeOK, Registration, RegOK
<1>6. ASSUME NEW u \in Threads PROVE RegOK(u)'
  <2>1. \A v \in Threads : reg'[v].fn # NoHandler => reg'[v].fn = reg[v].fn
    BY <1>1
  <2>2. CASE u = t
    BY <1>0, <1>1, <1>2, <1>5, <2>1, <2>2 DEF RegOK
  <2>3. CASE u # t
    BY <1>0, <1>1, <1>2, <2>1, <2>3 DEF RegOK
  <2> QED BY <2>2, <2>3
<1>7. ASSUME NEW u \in Threads PROVE FinOK(u)'
  BY <1>0, <1>2 DEF FinOK, Below
<1> QED BY <1>3, <1>4, <1>6, <1>7 DEF IInv

\* The handler goes to the end of block p, or a new block is needed.
LEMMA LoopStep ==
  ASSUME IInv, NEW t \in Threads, reg[t].pc # "idle", NEW p \in DOMAIN atexit, Loop(t, p),
         \A x \in Places : At(x).fn \in before[reg[t].fn] => x[1] <= p,
         UNCHANGED <<fin, called, before>>
  PROVE  IInv'
<1>0. AtExitTypeOK /\ RegOK(t)
  BY DEF IInv
<1>1. PICK h : h = reg[t].fn
  OBVIOUS
<1>2. h \in Handlers /\ reg[t] \in Registration
  BY <1>0, <1>1 DEF AtExitTypeOK, Registration, RegOK
<1>3. CASE Len(atexit[p]) < ATEXIT_SIZE
  <2>1. PICK s : s = atexit[p]
    OBVIOUS
  <2>2. PICK z : z = <<p, Len(s) + 1>>
    OBVIOUS
  <2>3. /\ s \in Block /\ Len(s) \in Nat /\ DOMAIN s = 1 .. Len(s)
        /\ p \in 1 .. Len(atexit) /\ p \in Nat
    BY <1>0, <2>1, PlaceFacts
  <2>4. PICK q : q = Append(s, Entry(h))
    OBVIOUS
  <2>5. /\ q \in Block /\ DOMAIN q = 1 .. Len(s) + 1 /\ q[Len(s) + 1] = Entry(h)
        /\ \A i \in 1 .. Len(s) : q[i] = s[i]
    BY <1>2, <2>3, <2>4 DEF Block, Entry
  <2>6. /\ atexit' = [atexit EXCEPT ![p] = q] /\ new_registration' = TRUE
        /\ reg' = [reg EXCEPT ![t] = NoReg]
    BY <1>1, <1>3, <2>1, <2>4 DEF Loop
  <2>7. atexit' \in Seq(Block) /\ Len(atexit') > 0 /\ DOMAIN atexit' = DOMAIN atexit
    BY <1>0, <2>3, <2>5, <2>6 DEF AtExitTypeOK
  <2>8. atexit'[p] = q /\ \A b \in DOMAIN atexit : b # p => atexit'[b] = atexit[b]
    BY <2>6
  <2>9. z \in Nat \X Nat /\ z[1] = p /\ z[2] = Len(s) + 1
    BY <2>2, <2>3
  <2>10. \A x : x \in Places' <=> /\ x = <<x[1], x[2]>> /\ x[1] \in DOMAIN atexit
                                  /\ x[2] \in DOMAIN atexit'[x[1]]
    BY <2>7 DEF Places
  <2>11. \A x : x \in Places <=> /\ x = <<x[1], x[2]>> /\ x[1] \in DOMAIN atexit
                                 /\ x[2] \in DOMAIN atexit[x[1]]
    BY <1>0, PlaceFacts
  <2>12. z \notin Places
    BY <2>1, <2>3, <2>9, <2>11
  <2>13. \A x : x \in Places' <=> x \in Places \/ x = z
    <3>1. SUFFICES ASSUME NEW x, x = <<x[1], x[2]>>
                   PROVE  x \in Places' <=> x \in Places \/ x = z
      BY <2>2, <2>9, <2>10, <2>11
    <3>2. CASE x[1] = p
      <4>1. x = z <=> x[2] = Len(s) + 1
        BY <2>2, <2>9, <3>1, <3>2
      <4>2. x[2] \in 1 .. Len(s) + 1 <=> x[2] \in 1 .. Len(s) \/ x[2] = Len(s) + 1
        BY <2>3
      <4> QED BY <2>1, <2>3, <2>5, <2>8, <2>10, <2>11, <3>1, <3>2, <4>1, <4>2
    <3>3. CASE x[1] # p
      BY <2>8, <2>9, <2>10, <2>11, <3>1, <3>3
    <3> QED BY <3>2, <3>3
  <2>14. \A x \in Places : atexit'[x[1]][x[2]] = atexit[x[1]][x[2]]
    <3> SUFFICES ASSUME NEW x \in Places PROVE atexit'[x[1]][x[2]] = atexit[x[1]][x[2]]
      OBVIOUS
    <3>1. CASE x[1] = p
      BY <2>1, <2>3, <2>5, <2>8, <2>11, <3>1
    <3>2. CASE x[1] # p
      BY <2>8, <2>11, <3>2
    <3> QED BY <3>1, <3>2
  <2>15. Adds(z, h)
    BY <2>5, <2>8, <2>9, <2>12, <2>13, <2>14 DEF Adds
  <2>16. \A x \in Places : At(x).fn \in before[h] => Below(x, z)
    <3> SUFFICES ASSUME NEW x \in Places, At(x).fn \in before[h] PROVE Below(x, z)
      OBVIOUS
    <3>1. x[1] <= p /\ x[1] \in Nat /\ x[2] \in Nat
      BY <1>0, <1>1, PlaceFacts
    <3>2. CASE x[1] = p
      BY <2>1, <2>3, <2>9, <2>11, <3>1, <3>2 DEF Below
    <3>3. CASE x[1] # p
      BY <2>3, <2>9, <3>1, <3>3 DEF Below
    <3> QED BY <3>2, <3>3
  <2> QED BY <1>1, <2>6, <2>7, <2>9, <2>15, <2>16, AddedStep
<1>4. CASE ~(Len(atexit[p]) < ATEXIT_SIZE)
  <2>1. PICK r : r = [reg[t] EXCEPT !.pc = "malloc", !.old = Len(atexit)]
    OBVIOUS
  <2>2. Len(atexit) \in Nat
    BY <1>0, PlaceFacts
  <2>3. r \in Registration /\ r.pc = "malloc" /\ r.fn = reg[t].fn
    BY <1>2, <2>1, <2>2 DEF Registration
  <2>4. reg' = [reg EXCEPT ![t] = r] /\ UNCHANGED <<atexit, new_registration>>
    BY <1>0, <1>4, <2>1 DEF Loop, AtExitTypeOK
  <2> QED BY <2>3, <2>4, NotAddedStep
<1> QED BY <1>3, <1>4

LEMMA TakeMutexStep ==
  ASSUME IInv, NEW t \in Threads, TakeMutex(t)
  PROVE  IInv'
<1>1. PICK p : p = reg[t].p
  OBVIOUS
<1>2. RegOK(t) /\ reg[t].pc = "lock"
  BY DEF IInv, TakeMutex
<1>3. /\ p \in DOMAIN atexit /\ Loop(t, p) /\ UNCHANGED <<fin, called, before>>
      /\ \A x \in Places : At(x).fn \in before[reg[t].fn] => x[1] <= p
  BY <1>1, <1>2 DEF RegOK, TakeMutex
<1> QED BY <1>2, <1>3, LoopStep

LEMMA MallocStep ==
  ASSUME IInv, NEW t \in Threads, Malloc(t)
  PROVE  IInv'
<1>0. AtExitTypeOK /\ RegOK(t) /\ reg[t].pc = "malloc" /\ UNCHANGED <<fin, called, before>>
  BY DEF IInv, Malloc
<1>1. PICK l : l = Len(atexit)
  OBVIOUS
<1>2. l \in Nat /\ l > 0 /\ l \in DOMAIN atexit /\ DOMAIN atexit = 1 .. l
  BY <1>0, <1>1, PlaceFacts
<1>3. \A x \in Places : x[1] <= l /\ x[1] \in Nat
  BY <1>0, <1>1, PlaceFacts
<1>4. CASE l # reg[t].old /\ Loop(t, l)
  BY <1>0, <1>2, <1>3, <1>4, LoopStep
<1>5. CASE /\ atexit' = Append(atexit, <<Entry(reg[t].fn)>>) /\ new_registration' = TRUE
           /\ reg' = [reg EXCEPT ![t] = NoReg]
  <2>1. PICK h : h = reg[t].fn
    OBVIOUS
  <2>2. h \in Handlers
    BY <1>0, <2>1 DEF AtExitTypeOK, Registration, RegOK
  <2>3. PICK q : q = <<Entry(h)>>
    OBVIOUS
  <2>4. q \in Block /\ DOMAIN q = {1} /\ q[1] = Entry(h)
    BY <2>2, <2>3 DEF Block, Entry
  <2>5. /\ atexit' \in Seq(Block) /\ Len(atexit') = l + 1 /\ DOMAIN atexit' = 1 .. l + 1
        /\ atexit'[l + 1] = q /\ \A b \in 1 .. l : atexit'[b] = atexit[b]
    BY <1>0, <1>1, <1>2, <1>5, <2>1, <2>3, <2>4 DEF AtExitTypeOK
  <2>6. PICK z : z = <<l + 1, 1>>
    OBVIOUS
  <2>7. z \in Nat \X Nat /\ z[1] = l + 1 /\ z[2] = 1
    BY <1>2, <2>6
  <2>8. \A x : x \in Places' <=> /\ x = <<x[1], x[2]>> /\ x[1] \in 1 .. l + 1
                                 /\ x[2] \in DOMAIN atexit'[x[1]]
    BY <2>5 DEF Places
  <2>9. \A x : x \in Places <=> /\ x = <<x[1], x[2]>> /\ x[1] \in 1 .. l
                                /\ x[2] \in DOMAIN atexit[x[1]]
    BY <1>0, <1>2, PlaceFacts
  <2>10. z \notin Places
    BY <1>2, <2>7, <2>9
  <2>11. \A x : x \in Places' <=> x \in Places \/ x = z
    <3>1. SUFFICES ASSUME NEW x, x = <<x[1], x[2]>>
                   PROVE  x \in Places' <=> x \in Places \/ x = z
      BY <2>6, <2>7, <2>8, <2>9
    <3>2. CASE x[1] = l + 1
      <4>1. x = z <=> x[2] = 1
        BY <2>6, <2>7, <3>1, <3>2
      <4>2. l + 1 \in 1 .. l + 1 /\ l + 1 \notin 1 .. l
        BY <1>2
      <4> QED BY <2>4, <2>5, <2>8, <2>9, <3>1, <3>2, <4>1, <4>2
    <3>3. CASE x[1] # l + 1
      <4>1. x[1] \in 1 .. l + 1 <=> x[1] \in 1 .. l
        BY <1>2, <3>3
      <4> QED BY <2>5, <2>7, <2>8, <2>9, <3>1, <3>3, <4>1
    <3> QED BY <3>2, <3>3
  <2>12. \A x \in Places : atexit'[x[1]][x[2]] = atexit[x[1]][x[2]]
    BY <2>5, <2>9
  <2>13. Adds(z, h)
    BY <2>4, <2>5, <2>7, <2>10, <2>11, <2>12 DEF Adds
  <2>14. \A x \in Places : Below(x, z)
    BY <1>2, <1>3, <2>7 DEF Below
  <2>15. DOMAIN atexit \subseteq DOMAIN atexit' /\ Len(atexit') > 0
    BY <1>2, <2>5
  <2> QED BY <1>0, <1>5, <2>1, <2>5, <2>7, <2>13, <2>14, <2>15, AddedStep
<1>6. CASE reg' = [reg EXCEPT ![t] = NoReg] /\ UNCHANGED <<atexit, new_registration>>
  <2>1. PICK r : r = NoReg
    OBVIOUS
  <2>2. r \in Registration /\ r.pc = "idle" /\ r.fn = NoHandler
    BY <2>1 DEF NoReg, Registration
  <2> QED BY <1>0, <1>6, <2>1, <2>2, NotAddedStep
<1> QED BY <1>1, <1>4, <1>5, <1>6 DEF Malloc

-----------------------------------------------------------------------------
(* The walk that calls handlers.                                           *)

Uncalled(range) == {x \in Places : ~At(x).empty /\ At(x).fn \in range}

\* A walk from the top, or on from where it is when nothing was registered, finds
\* whatever there is to call.
LEMMA AllFound ==
  ASSUME IInv
  PROVE  /\ \A range : \A x \in Uncalled(range) : Below(x, Top)
         /\ Top \in Nat \X Nat
         /\ \A t \in Threads : fin[t].pc = "calling" /\ ~new_registration =>
              \A x \in Uncalled(fin[t].range) : Below(x, fin[t].at)
<1>1. AtExitTypeOK /\ \A t \in Threads : FinOK(t)
  BY DEF IInv
<1>2. PICK l : l = Len(atexit)
  OBVIOUS
<1>3. l \in Nat /\ \A x \in Places : x[1] <= l /\ x[1] \in Nat
  BY <1>1, <1>2, PlaceFacts
<1>4. Top[1] = l + 1 /\ Top \in Nat \X Nat
  BY <1>2, <1>3 DEF Top
<1>5. \A x \in Places : Below(x, Top)
  <2> SUFFICES ASSUME NEW x \in Places PROVE Below(x, Top)
    OBVIOUS
  <2>1. x[1] < l + 1
    BY <1>3
  <2> QED BY <1>4, <2>1 DEF Below
<1>6. \A t \in Threads : fin[t].pc = "calling" /\ ~new_registration =>
        \A x \in Uncalled(fin[t].range) : Below(x, fin[t].at)
  BY <1>1 DEF FinOK, Uncalled
<1> QED BY <1>4, <1>5, <1>6 DEF Uncalled

LEMMA FoundUncalled ==
  ASSUME NEW range, NEW at
  PROVE  \A x : x \in Found(range, at) <=> x \in Uncalled(range) /\ Below(x, at)
BY DEF Found, Uncalled, Places, At

\* What Scan does when it finds something, at place x.
Calls(t, range, x) ==
  /\ x \in Uncalled(range) /\ \A y \in Uncalled(range) : y = x \/ Below(y, x)
  /\ atexit' = [atexit EXCEPT ![x[1]][x[2]].empty = TRUE]
  /\ called' = Append(called, At(x).fn) /\ new_registration' = FALSE
  /\ fin' = [fin EXCEPT ![t] = [pc |-> "calling", range |-> range, at |-> x]]

LEMMA ScanCases ==
  ASSUME NEW t, NEW range, NEW at, Scan(t, range, at), \A x \in Uncalled(range) : Below(x, at)
  PROVE  \/ \E x \in Places : Calls(t, range, x)
         \/ /\ Uncalled(range) = {}
            /\ fin' = [fin EXCEPT ![t] = NoFin] /\ UNCHANGED <<atexit, called, new_registration>>
<1>1. Found(range, at) = Uncalled(range)
  BY FoundUncalled
<1>2. CASE Found(range, at) = {} /\ fin' = [fin EXCEPT ![t] = NoFin]
           /\ UNCHANGED <<atexit, called, new_registration>>
  BY <1>1, <1>2
<1>3. ASSUME NEW x \in Found(range, at), \A y \in Found(range, at) : y = x \/ Below(y, x),
             atexit' = [atexit EXCEPT ![x[1]][x[2]].empty = TRUE],
             called' = Append(called, atexit[x[1]][x[2]].fn), new_registration' = FALSE,
             fin' = [fin EXCEPT ![t] = [pc |-> "calling", range |-> range, at |-> x]]
      PROVE  \E y \in Places : Calls(t, range, y)
  <2>1. x \in Places /\ Calls(t, range, x)
    BY <1>1, <1>3 DEF Calls, At, Uncalled
  <2> QED BY <2>1
<1> QED BY <1>2, <1>3 DEF Scan

LEMMA CallsStep ==
  ASSUME IInv, OneFinalizer, NEW t \in Threads, t \in Finalizers, NEW range \in SUBSET Handlers,
         NEW x \in Places, Calls(t, range, x), UNCHANGED <<reg, before>>
  PROVE  IInv'
<1>0. AtExitTypeOK /\ Stack /\ Emptied /\ \A u \in Threads : RegOK(u) /\ FinOK(u)
  BY DEF IInv
<1>1. PICK b, n, s, e : b = x[1] /\ n = x[2] /\ s = atexit[b] /\ e = At(x)
  OBVIOUS
<1>2. PICK E : E = [fn : Handlers, empty : BOOLEAN]
  OBVIOUS
<1>3. /\ x = <<b, n>> /\ b \in DOMAIN atexit /\ s \in Seq(E) /\ Len(s) \in Nat /\ n \in 1 .. Len(s)
      /\ e = s[n] /\ e \in E /\ x \in Nat \X Nat /\ DOMAIN s = 1 .. Len(s)
  BY <1>0, <1>1, <1>2, PlaceFacts DEF At, Block
<1>4. PICK h : h = e.fn
  OBVIOUS
<1>5. PICK d : d = [e EXCEPT !.empty = TRUE]
  OBVIOUS
<1>6. d \in E /\ d.fn = h /\ d.empty = TRUE /\ h \in Handlers
  BY <1>2, <1>3, <1>4, <1>5
<1>7. PICK q : q = [s EXCEPT ![n] = d]
  OBVIOUS
<1>8. /\ q \in Block /\ DOMAIN q = DOMAIN s /\ q[n] = d
      /\ \A i \in DOMAIN s : i # n => q[i] = s[i]
  BY <1>2, <1>3, <1>6, <1>7 DEF Block
<1>9. atexit' = [atexit EXCEPT ![b] = q]
  <2>1. atexit' = [atexit EXCEPT ![b][n].empty = TRUE]
    BY <1>1 DEF Calls
  <2>2. atexit[b] = s /\ s[n] = e
    BY <1>1, <1>3
  <2> QED BY <1>5, <1>7, <2>1, <2>2, Zenon
<1>10. atexit' \in Seq(Block) /\ Len(atexit') > 0 /\ DOMAIN atexit' = DOMAIN atexit
  BY <1>0, <1>3, <1>8, <1>9 DEF AtExitTypeOK
<1>11. atexit'[b] = q /\ \A c \in DOMAIN atexit : c # b => atexit'[c] = atexit[c]
  BY <1>3, <1>9
<1>12. Places' = Places
  <2>1. \A c \in DOMAIN atexit : DOMAIN atexit'[c] = DOMAIN atexit[c]
    BY <1>1, <1>8, <1>11
  <2> QED BY <1>10, <2>1 DEF Places
<1>13. At(x)' = d /\ \A y \in Places : y # x => At(y)' = At(y)
  <2>1. At(x)' = d
    BY <1>1, <1>8, <1>11 DEF At
  <2>2. ASSUME NEW y \in Places, y # x PROVE At(y)' = At(y)
    <3>1. y = <<y[1], y[2]>> /\ y[1] \in DOMAIN atexit /\ y[2] \in DOMAIN atexit[y[1]]
      BY <1>0, PlaceFacts
    <3>2. CASE y[1] = b
      BY <1>1, <1>3, <1>8, <1>11, <2>2, <3>1, <3>2 DEF At
    <3>3. CASE y[1] # b
      BY <1>11, <3>1, <3>3 DEF At
    <3> QED BY <3>2, <3>3
  <2> QED BY <2>1, <2>2
<1>14. \A y \in Places : At(y)'.fn = At(y).fn
  BY <1>1, <1>4, <1>6, <1>13
<1>15. \A g : g \in Registered' <=> g \in Registered
  BY <1>12, <1>14, RegisteredPlaces
<1>16. called' = Append(called, h) /\ new_registration' = FALSE
  BY <1>1, <1>4 DEF Calls
<1>17. called' \in Seq(Handlers) /\ ToSet(called') = ToSet(called) \cup {h}
  <2>1. called \in Seq(Handlers)
    BY <1>0 DEF AtExitTypeOK
  <2>2. called' \in Seq(Handlers)
    BY <1>6, <1>16, <2>1
  <2>3. /\ DOMAIN called' = 1 .. Len(called) + 1 /\ DOMAIN called = 1 .. Len(called)
        /\ called'[Len(called) + 1] = h /\ Len(called) \in Nat
        /\ \A i \in 1 .. Len(called) : called'[i] = called[i]
    BY <1>6, <1>16, <2>1
  <2>4. \A g : g \in ToSet(called') <=> g \in ToSet(called) \/ g = h
    <3>1. \A i : i \in 1 .. Len(called) + 1 <=> i \in 1 .. Len(called) \/ i = Len(called) + 1
      BY <2>3
    <3>2. \A g : g \in ToSet(called') <=> \E i \in DOMAIN called' : called'[i] = g
      BY DEF ToSet
    <3>3. \A g : g \in ToSet(called) <=> \E i \in DOMAIN called : called[i] = g
      BY DEF ToSet
    <3> QED BY <2>3, <3>1, <3>2, <3>3
  <2> QED BY <2>2, <2>4
<1>18. PICK r : r = [pc |-> "calling", range |-> range, at |-> x]
  OBVIOUS
<1>19. /\ r \in Finalization /\ r.pc = "calling" /\ r.range = range /\ r.at = x
       /\ fin' = [fin EXCEPT ![t] = r]
  BY <1>3, <1>18 DEF Finalization, Calls
<1>20. AtExitTypeOK'
  BY <1>0, <1>10, <1>16, <1>17, <1>19 DEF AtExitTypeOK
<1>21. Stack'
  <2>1. \A y, z \in Places : At(y)'.fn = At(z)'.fn => y = z
    BY <1>0, <1>14 DEF Stack
  <2>2. \A y, z \in Places : At(y)'.fn \in before[At(z)'.fn] => Below(y, z)
    BY <1>0, <1>14 DEF Stack
  <2>3. \A g \in Handlers : before[g] \subseteq Registered'
    BY <1>0, <1>15 DEF Stack
  <2> QED BY <1>12, <2>1, <2>2, <2>3 DEF Stack, Below
<1>22. Emptied'
  <2>1. h \in Registered
    BY <1>1, <1>4, RegisteredPlaces
  <2>2. Called'
    BY <1>0, <1>15, <1>17, <2>1 DEF Emptied, Called
  <2>3. ASSUME NEW y \in Places PROVE At(y)'.empty <=> At(y)'.fn \in ToSet(called')
    <3>1. CASE y = x
      BY <1>6, <1>13, <1>17, <3>1
    <3>2. CASE y # x
      <4>1. At(y)' = At(y) /\ At(y).fn # h
        BY <1>0, <1>1, <1>4, <1>13, <3>2 DEF Stack
      <4> QED BY <1>0, <1>17, <4>1 DEF Emptied
    <3> QED BY <3>1, <3>2
  <2> QED BY <1>12, <2>2, <2>3 DEF Emptied
<1>23. ASSUME NEW u \in Threads PROVE RegOK(u)'
  <2>1. reg' = reg /\ before' = before
    OBVIOUS
  <2> QED BY <1>0, <1>10, <1>12, <1>14, <1>15, <2>1 DEF RegOK
<1>24. ASSUME NEW u \in Threads PROVE FinOK(u)'
  <2>1. CASE u = t
    <3>1. fin'[t] = r
      BY <1>0, <1>19 DEF AtExitTypeOK
    <3>2. \A y \in Places : At(y)'.fn \in range /\ ~At(y)'.empty => Below(y, x)
      <4> SUFFICES ASSUME NEW y \in Places, At(y)'.fn \in range, ~At(y)'.empty PROVE Below(y, x)
        OBVIOUS
      <4>1. y # x
        BY <1>6, <1>13
      <4>2. y \in Uncalled(range)
        BY <1>13, <4>1 DEF Uncalled
      <4> QED BY <4>1, <4>2 DEF Calls
    <3> QED BY <1>12, <1>19, <2>1, <3>1, <3>2 DEF FinOK, Below
  <2>2. CASE u # t
    <3>1. fin'[u] = fin[u] /\ fin[u].pc # "calling"
      BY <1>0, <1>19, <2>2 DEF AtExitTypeOK, FinOK, OneFinalizer
    <3> QED BY <3>1 DEF FinOK
  <2> QED BY <2>1, <2>2
<1> QED BY <1>20, <1>21, <1>22, <1>23, <1>24 DEF IInv

LEMMA ReturnsStep ==
  ASSUME IInv, NEW t \in Threads, fin' = [fin EXCEPT ![t] = NoFin],
         UNCHANGED <<atexit, called, new_registration, reg, before>>
  PROVE  IInv'
<1>0. AtExitTypeOK /\ Stack /\ Emptied /\ \A u \in Threads : RegOK(u) /\ FinOK(u)
  BY DEF IInv
<1>1. Places' = Places /\ Registered' = Registered /\ \A x : At(x)' = At(x)
  BY DEF Places, Registered, At
<1>2. NoFin \in Finalization /\ NoFin.pc = "idle"
  BY DEF NoFin, Finalization
<1>3. AtExitTypeOK'
  BY <1>0, <1>2 DEF AtExitTypeOK
<1>4. Stack' /\ Emptied'
  BY <1>0, <1>1 DEF Stack, Emptied, Called, Below
<1>5. \A u \in Threads : RegOK(u)'
  BY <1>0, <1>1 DEF RegOK
<1>6. ASSUME NEW u \in Threads PROVE FinOK(u)'
  <2>1. fin'[u] = fin[u] \/ fin'[u].pc = "idle"
    BY <1>0, <1>2 DEF AtExitTypeOK
  <2> QED BY <1>0, <1>1, <2>1 DEF FinOK, Below
<1> QED BY <1>3, <1>4, <1>5, <1>6 DEF IInv

Walk(t) ==
  \/ t \in Finalizers /\ \E range \in {Unloaded, Handlers} : Finalize(t, range)
  \/ HandlerReturns(t)

\* Whether a walk begins, goes on or begins again, it calls the newest that is left, or
\* there is none.
LEMMA WalkCases ==
  ASSUME IInv, NEW t \in Threads, Walk(t)
  PROVE  /\ t \in Finalizers /\ UNCHANGED <<reg, before>>
         /\ \E range \in SUBSET Handlers :
              /\ fin[t].pc = "calling" => range = fin[t].range
              /\ \/ \E x \in Places : Calls(t, range, x)
                 \/ /\ Uncalled(range) = {} /\ fin' = [fin EXCEPT ![t] = NoFin]
                    /\ UNCHANGED <<atexit, called, new_registration>>
<1>1. PICK top : top = Top
  OBVIOUS
<1>2. CASE t \in Finalizers /\ \E range \in {Unloaded, Handlers} : Finalize(t, range)
  <2>1. PICK range \in {Unloaded, Handlers} : Finalize(t, range)
    BY <1>2
  <2>2. range \in SUBSET Handlers
    BY AtExitAssumption
  <2>3. Scan(t, range, top) /\ fin[t].pc = "idle" /\ UNCHANGED <<reg, before>>
    BY <1>1, <2>1 DEF Finalize
  <2>4. \A x \in Uncalled(range) : Below(x, top)
    BY <1>1, AllFound
  <2>5. \/ \E x \in Places : Calls(t, range, x)
        \/ /\ Uncalled(range) = {} /\ fin' = [fin EXCEPT ![t] = NoFin]
           /\ UNCHANGED <<atexit, called, new_registration>>
    BY <2>3, <2>4, ScanCases
  <2> QED BY <1>2, <2>2, <2>3, <2>5
<1>3. CASE HandlerReturns(t)
  <2>1. PICK range, at : range = fin[t].range /\ at = IF new_registration THEN top ELSE fin[t].at
    OBVIOUS
  <2>2. Scan(t, range, at) /\ fin[t].pc = "calling" /\ UNCHANGED <<reg, before>>
    BY <1>1, <1>3, <2>1 DEF HandlerReturns
  <2>3. t \in Finalizers /\ range \in SUBSET Handlers /\ new_registration \in BOOLEAN
    BY <2>1, <2>2 DEF IInv, FinOK, AtExitTypeOK, Finalization
  <2>4. \A x \in Uncalled(range) : Below(x, at)
    <3>1. CASE new_registration
      BY <1>1, <2>1, <3>1, AllFound
    <3>2. CASE ~new_registration
      BY <2>1, <2>2, <3>2, AllFound
    <3> QED BY <3>1, <3>2
  <2>5. \/ \E x \in Places : Calls(t, range, x)
        \/ /\ Uncalled(range) = {} /\ fin' = [fin EXCEPT ![t] = NoFin]
           /\ UNCHANGED <<atexit, called, new_registration>>
    BY <2>2, <2>4, ScanCases
  <2> QED BY <2>1, <2>2, <2>3, <2>5
<1> QED BY <1>2, <1>3 DEF Walk

LEMMA NextCases ==
  ASSUME AtExitNext
  PROVE  \E t \in Threads : \/ \E h \in Handlers : Register(t, h)
                            \/ TakeMutex(t) \/ Malloc(t) \/ Walk(t)
BY DEF AtExitNext, Walk

LEMMA AtExitInitial == AtExitInit => IInv
<1> SUFFICES ASSUME AtExitInit PROVE IInv
  OBVIOUS
<1>1. /\ atexit = <<<<>>>> /\ new_registration = FALSE /\ called = <<>>
      /\ reg = [t \in Threads |-> NoReg] /\ fin = [t \in Threads |-> NoFin]
      /\ before = [h \in Handlers |-> {}]
  BY DEF AtExitInit
<1>2. Len(atexit) = 1 /\ DOMAIN atexit = {1} /\ atexit[1] = <<>> /\ DOMAIN atexit[1] = {}
  BY <1>1
<1>3. Places = {}
  BY <1>2 DEF Places
<1>4. ToSet(called) = {}
  BY <1>1 DEF ToSet
<1>5. NoReg \in Registration /\ NoReg.pc = "idle" /\ NoReg.fn = NoHandler
  BY DEF NoReg, Registration
<1>6. NoFin \in Finalization /\ NoFin.pc = "idle"
  BY DEF NoFin, Finalization
<1>7. AtExitTypeOK
  <2>1. atexit \in Seq(Block) /\ called \in Seq(Handlers)
    BY <1>1 DEF Block
  <2>2. reg \in [Threads -> Registration] /\ fin \in [Threads -> Finalization]
    BY <1>1, <1>5, <1>6, Zenon
  <2>3. before \in [Handlers -> SUBSET Handlers]
    BY <1>1
  <2>4. Len(atexit) > 0
    BY <1>2
  <2>5. new_registration \in BOOLEAN
    BY <1>1, Zenon
  <2> QED BY <2>1, <2>2, <2>3, <2>4, <2>5 DEF AtExitTypeOK
<1>8. Stack /\ Emptied
  BY <1>1, <1>3, <1>4 DEF Stack, Emptied, Called
<1>9. \A t \in Threads : RegOK(t) /\ FinOK(t)
  BY <1>1, <1>5, <1>6 DEF RegOK, FinOK
<1> QED BY <1>7, <1>8, <1>9 DEF IInv

LEMMA AtExitInductive ==
  ASSUME IInv, OneFinalizer, [AtExitNext]_atexitVars
  PROVE  IInv'
<1>1. CASE AtExitNext
  <2>1. PICK t \in Threads : \/ \E h \in Handlers : Register(t, h)
                             \/ TakeMutex(t) \/ Malloc(t) \/ Walk(t)
    BY <1>1, NextCases
  <2>2. CASE \E h \in Handlers : Register(t, h)
    BY <2>2, RegisterStep
  <2>3. CASE TakeMutex(t) \/ Malloc(t)
    BY <2>3, TakeMutexStep, MallocStep
  <2>4. CASE Walk(t)
    <3>1. PICK range \in SUBSET Handlers :
            \/ \E x \in Places : Calls(t, range, x)
            \/ /\ fin' = [fin EXCEPT ![t] = NoFin]
               /\ UNCHANGED <<atexit, called, new_registration>>
      BY <2>4, WalkCases
    <3>2. t \in Finalizers /\ UNCHANGED <<reg, before>>
      BY <2>4, WalkCases
    <3> QED BY <3>1, <3>2, CallsStep, ReturnsStep
  <2> QED BY <2>1, <2>2, <2>3, <2>4
<1>2. CASE UNCHANGED atexitVars
  <2>1. /\ atexit' = atexit /\ new_registration' = new_registration /\ reg' = reg /\ fin' = fin
        /\ called' = called /\ before' = before
    BY <1>2 DEF atexitVars
  <2>2. Places' = Places /\ Registered' = Registered /\ \A x : At(x)' = At(x)
    BY <2>1 DEF Places, Registered, At
  <2>3. AtExitTypeOK' /\ Stack' /\ Emptied'
    BY <2>1, <2>2 DEF IInv, AtExitTypeOK, Stack, Emptied, Called, Below
  <2>4. \A u \in Threads : RegOK(u)' /\ FinOK(u)'
    BY <2>1, <2>2 DEF IInv, RegOK, FinOK, Below
  <2> QED BY <2>3, <2>4 DEF IInv
<1> QED BY <1>1, <1>2

LEMMA WaitingUncalled ==
  ASSUME IInv, NEW range, NEW g \in Waiting \cap range
  PROVE  \E y \in Uncalled(range) : At(y).fn = g
<1>1. g \in Registered /\ g \notin ToSet(called)
  BY DEF Waiting
<1>2. PICK y \in Places : At(y).fn = g
  BY <1>1, RegisteredPlaces
<1>3. y \in Uncalled(range)
  BY <1>1, <1>2 DEF IInv, Emptied, Uncalled
<1> QED BY <1>2, <1>3

\* Nothing but a walk changes what is called or what a thread is calling.
LEMMA OnlyWalks ==
  ASSUME IInv, [AtExitNext]_atexitVars
  PROVE  \/ UNCHANGED <<called, fin>>
         \/ \E t \in Threads : Walk(t)
<1>1. CASE UNCHANGED atexitVars
  BY <1>1 DEF atexitVars
<1>2. CASE AtExitNext
  BY <1>2, NextCases DEF Register, TakeMutex, Malloc
<1> QED BY <1>1, <1>2

LEMMA CalledInOrder ==
  ASSUME IInv, [AtExitNext]_atexitVars
  PROVE  CallsLast
<1> SUFFICES ASSUME NEW u \in Threads, Len(called') > Len(called), fin'[u] # fin[u]
             PROVE  LET h == Last(called') IN
                    /\ h \notin ToSet(called)
                    /\ \A g \in Waiting \cap fin'[u].range : h \notin before[g]
  BY DEF CallsLast
<1>0. AtExitTypeOK /\ Stack /\ Emptied
  BY DEF IInv
<1>1. PICK t \in Threads : Walk(t)
  BY OnlyWalks
<1>2. PICK range \in SUBSET Handlers :
        \/ \E x \in Places : Calls(t, range, x)
        \/ fin' = [fin EXCEPT ![t] = NoFin] /\ UNCHANGED <<atexit, called, new_registration>>
  BY <1>1, WalkCases
<1>3. called' # called
  <2>1. Len(called) \in Nat
    BY <1>0 DEF AtExitTypeOK
  <2> QED BY <2>1
<1>4. PICK x \in Places : Calls(t, range, x)
  BY <1>2, <1>3
<1>5. u = t /\ fin'[u].range = range
  BY <1>0, <1>4 DEF Calls, AtExitTypeOK
<1>6. PICK h : h = At(x).fn
  OBVIOUS
<1>7. Last(called') = h
  <2>1. called \in Seq(Handlers) /\ h \in Handlers /\ called' = Append(called, h)
    BY <1>0, <1>4, <1>6, PlaceFacts DEF AtExitTypeOK, Calls
  <2> QED BY <2>1 DEF Last
<1>8. h \notin ToSet(called)
  BY <1>0, <1>4, <1>6 DEF Calls, Uncalled, Emptied
<1>9. ASSUME NEW g \in Waiting \cap range, h \in before[g]
      PROVE  FALSE
  <2>1. PICK y \in Uncalled(range) : At(y).fn = g
    BY WaitingUncalled
  <2>2. y \in Places /\ Below(x, y)
    BY <1>0, <1>6, <1>9, <2>1 DEF Stack, Uncalled
  <2>3. y = x \/ Below(y, x)
    BY <1>4, <2>1 DEF Calls
  <2>4. x \in Nat \X Nat /\ y \in Nat \X Nat
    BY <1>0, <2>2, PlaceFacts
  <2> QED BY <2>2, <2>3, <2>4, Order
<1> QED BY <1>5, <1>7, <1>8, <1>9

LEMMA NoneLeft ==
  ASSUME IInv, [AtExitNext]_atexitVars
  PROVE  EndsWithNoneWaiting
<1> SUFFICES ASSUME NEW u \in Threads, fin[u].pc = "calling", fin'[u].pc = "idle"
             PROVE  Waiting \cap fin[u].range = {}
  BY DEF EndsWithNoneWaiting
<1>0. AtExitTypeOK
  BY DEF IInv
<1>1. PICK t \in Threads : Walk(t)
  BY OnlyWalks
<1>2. PICK range \in SUBSET Handlers :
        /\ fin[t].pc = "calling" => range = fin[t].range
        /\ \/ \E x \in Places : Calls(t, range, x)
           \/ Uncalled(range) = {} /\ fin' = [fin EXCEPT ![t] = NoFin]
  BY <1>1, WalkCases
<1>3. u = t /\ Uncalled(range) = {}
  <2>1. fin \in [Threads -> Finalization]
    BY <1>0 DEF AtExitTypeOK
  <2>2. CASE \E x \in Places : Calls(t, range, x)
    <3>1. PICK x \in Places : fin' = [fin EXCEPT ![t] = [pc |-> "calling", range |-> range, at |-> x]]
      BY <2>2 DEF Calls
    <3>2. fin'[t].pc = "calling" /\ (u # t => fin'[u] = fin[u])
      BY <2>1, <3>1
    <3> QED BY <3>2
  <2>3. CASE Uncalled(range) = {} /\ fin' = [fin EXCEPT ![t] = NoFin]
    <3>1. u # t => fin'[u] = fin[u]
      BY <2>1, <2>3
    <3> QED BY <2>3, <3>1
  <2> QED BY <1>2, <2>2, <2>3
<1>4. range = fin[u].range
  BY <1>2, <1>3
<1> QED BY <1>3, <1>4, WaitingUncalled

-----------------------------------------------------------------------------
(* The theorems.                                                           *)

\* atexit_register and __cxa_finalize_ranges keep the list of blocks a stack: a handler's
\* place is above those of all handlers whose registration had ended when its own began,
\* and a walk leaves behind nothing that it was to call, as long as one thread walks.
THEOREM AtExitInvariance ==
  ASSUME OneFinalizer
  PROVE  AtExitSpec => []IInv
<1>1. IInv /\ [AtExitNext]_atexitVars => IInv'
  BY AtExitInductive
<1> QED BY <1>1, AtExitInitial, PTL DEF AtExitSpec

\* Handlers are called last registered first, each once, though a registration picks its
\* block without the mutex and drops it to allocate one (atexit_register).
THEOREM LifoOrder ==
  ASSUME OneFinalizer
  PROVE  AtExitSpec => LastRegisteredFirst
<1>1. IInv /\ [AtExitNext]_atexitVars => CallsLast
  BY CalledInOrder
<1>2. IInv /\ [AtExitNext]_atexitVars => [CallsLast]_atexitVars
  BY <1>1
<1> QED BY <1>2, AtExitInvariance, PTL DEF AtExitSpec, LastRegisteredFirst

\* "Call any recursively registered handlers": __atexit_new_registration makes a walk begin
\* again whenever something may have been registered above the place it has come to.
THEOREM EveryHandlerCalled ==
  ASSUME OneFinalizer
  PROVE  AtExitSpec => AllCalled
<1>1. IInv /\ [AtExitNext]_atexitVars => EndsWithNoneWaiting
  BY NoneLeft
<1>2. IInv /\ [AtExitNext]_atexitVars => [EndsWithNoneWaiting]_atexitVars
  BY <1>1
<1> QED BY <1>2, AtExitInvariance, PTL DEF AtExitSpec, AllCalled
=============================================================================
