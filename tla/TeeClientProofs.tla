--------------------------- MODULE TeeClientProofs ---------------------------
(***************************************************************************)
(* Proofs about TeeClient, for any number of threads, contexts, memory     *)
(* objects and deaths of cadaemon.  ClientInv is inductive by itself: what *)
(* each call works on and that the calls keep apart (Calls), the table of  *)
(* mappings (Tables), who holds mServiceLock (Locked), and what the client *)
(* knows of the cadaemon it points to (Told, Watched, Heard, Reached).  It *)
(* gives TypeOK, DaemonKnowsClient and DeathHeard.  MemInv ties the        *)
(* descriptors, the table and cadaemon's blocks together while the first   *)
(* cadaemon runs, and needs InitApart; it gives MappedKept and BlocksMatch.*)
(* The part about blocks (Owned) holds until a release of size 0 takes     *)
(* another memory's entry for its own.                                     *)
(***************************************************************************)
EXTENDS TeeClient, TLAPS, WellFoundedInduction

USE DEF clientVars, appVars

\* The first cadaemon still runs: nothing has been forgotten yet.
First == daemon.epoch = 0 /\ daemon.up

LockPC == {"check", "watch", "callback", "valid"}
Connecting == {"lock", "send"} \cup LockPC

\* mServiceLock, and a cadaemon that died is restarted.
Locked ==
  /\ \A t \in Threads : thread[t].at \in LockPC <=> lock = t
  /\ ~daemon.up => daemon.epoch < MaxCrashes /\ daemon.fds = {} /\ daemon.blocks = {}
  /\ service # None => service <= daemon.epoch

\* The cadaemon that gave a descriptor is the one mTeecService is, and it is or will be told.
Told ==
  /\ daemon.fds # {} => Reachable
  /\ Reachable => daemon.known \/ \E t \in Threads : thread[t].at \in {"watch", "callback"}

\* The first cadaemon is watched before it is used.
Watched ==
  First =>
    /\ notifier.made => notifier.watches = 0
    /\ valid => notifier.made
    /\ \A t \in Threads : thread[t].at \in {"callback", "valid"} => notifier.made

\* Once it died nobody is about to take it for valid.
Heard ==
  ~First /\ ~midInit /\ service = 0 =>
    /\ valid => news
    /\ \A t \in Threads : thread[t].at \notin {"watch", "callback", "valid"}

\* What each call works on.
CallOn(t) ==
  LET r == thread[t]
  IN  /\ r.op = "init" => r.at \in Connecting /\ r.c \in Ctxs /\ r.m = None /\ ctx[r.c] = None
      /\ r.op = "fin"  => r.at \in Connecting \cup {"freeall"} /\ r.c \in Ctxs /\ r.m = None
                          /\ ctx[r.c] # None
      /\ r.op = "alloc" => /\ r.at \in Connecting \cup {"map"} /\ r.c \in Ctxs /\ r.m \in Shms
                           /\ shm[r.m] = [ctx |-> r.c, addr |-> None]
                           /\ r.at = "map" =>
                                r.off \in Offsets /\ block[r.m] = <<ctx[r.c], r.off>>
                           /\ r.at # "map" => block[r.m] = None
      /\ r.op = "rel" => /\ r.at \in Connecting \cup {"find", "free"}
                         /\ r.c \in Ctxs /\ r.m \in Shms
                         /\ shm[r.m].ctx = r.c
                         /\ r.at \in {"find", "free"} => shm[r.m].addr # None
      /\ r.op = "ask" => r.at \in Connecting \cup {"idle"} /\ r.c = None /\ r.m = None

\* No two calls work on the same memory; nobody else uses a context that is made or finalized.
CallsApart ==
  \A t, u \in Threads : t # u /\ thread[t].at # "idle" /\ thread[u].at # "idle" =>
    /\ thread[t].m = thread[u].m => thread[t].m = None
    /\ thread[t].op \in {"init", "fin"} => thread[t].c # thread[u].c
    /\ InitApart => ~ (thread[t].op = "init" /\ thread[u].op = "fin")

Calls == (\A t \in Threads : CallOn(t)) /\ CallsApart

\* Memory belongs to a live context; the table is of the mappings.
Tables ==
  /\ \A m \in Shms : shm[m].ctx # None => ctx[shm[m].ctx] # None
  /\ \A m \in Shms : shm[m].addr # None => shm[m].ctx # None
  /\ mapped = {e.addr : e \in table}
  /\ \A e, f \in table : e.addr = f.addr => e = f

\* Somebody is in FreeAllShareMemoryInContext for c: cadaemon dropped it.
Dropped(c) == \E t \in Threads : thread[t].at = "freeall" /\ thread[t].c = c

\* A live context has a descriptor of its own, which cadaemon knows until it drops it.
Descriptors ==
  /\ \A c \in Ctxs : ctx[c] # None => ctx[c] \in daemon.fds \/ Dropped(c)
  /\ \A c \in Ctxs : Dropped(c) => ctx[c] \notin daemon.fds
  /\ \A c, d \in Ctxs : ctx[c] = ctx[d] /\ ctx[c] # None => c = d

\* Mapped memory has an entry of its own in the table, with its block.
Entries ==
  /\ \A m \in Shms : shm[m].addr \in Addrs =>
       \E e \in table : /\ e.addr = shm[m].addr /\ e.fd = ctx[shm[m].ctx]
                        /\ block[m] = <<e.fd, e.off>>
  /\ \A m, n \in Shms : shm[m].addr = shm[n].addr /\ shm[m].addr \in Addrs => m = n

\* cadaemon's blocks are those of the memory, and those whose mapping failed.
Blocks ==
  /\ \A m \in Shms : block[m] # None =>
       /\ shm[m].ctx # None /\ block[m][1] = ctx[shm[m].ctx]
       /\ block[m] \in daemon.blocks \/ Dropped(shm[m].ctx)
       /\ block[m] \notin orphans
  /\ \A m, n \in Shms : block[m] = block[n] /\ block[m] # None => m = n
  /\ orphans \subseteq daemon.blocks
  /\ \A b \in daemon.blocks : b[1] \in daemon.fds
  /\ \A b \in daemon.blocks : b \in orphans \/ \E m \in Shms : block[m] = b

\* A release knows the block it is about.
Releases ==
  \A t \in Threads : thread[t].op = "rel" /\ thread[t].at # "find" =>
    block[thread[t].m] # None /\ block[thread[t].m] = <<ctx[thread[t].c], thread[t].off>>

\* Requests go to the first cadaemon.
Reached ==
  /\ valid => service = 0
  /\ \A t \in Threads : thread[t].at \in {"watch", "callback", "valid", "send"} => service = 0

\* What the client knows of cadaemon.
ConnectInv == Locked /\ Told /\ Watched /\ Heard /\ (First => Reached)

\* What a release relies on.
Owned == Blocks /\ Releases

\* The memory of the application and cadaemon's blocks, until a release of
\* size 0 has taken another memory's entry for its own.
MemInv == Descriptors /\ Entries /\ (~crossed => Owned)
-----------------------------------------------------------------------------
(* Lemmas about the helpers *)

LEMMA MinMember ==
  ASSUME NEW S \in SUBSET Nat, S # {}
  PROVE  Min(S) \in S
<1>1. PICK i \in S : \A j \in S : ~ (<<j, i>> \in OpToRel(<, Nat))
  BY WFMin, NatLessThanWellFounded, Zenon
<1>2. \A j \in S : ~ (j < i)
  BY <1>1, Zenon DEF OpToRel
<1>3. \A j \in S : i <= j
  BY <1>2, SMT
<1> QED
  BY <1>3 DEF Min

\* The other threads are where they were.
Kept(t) == thread' \in [Threads -> Frame] /\ \A u \in Threads \ {t} : thread'[u] = thread[u]

\* t goes on with its call.
Moved(t, p) ==
  /\ thread'[t].at = p /\ thread'[t].op = thread[t].op
  /\ thread'[t].c = thread[t].c /\ thread'[t].m = thread[t].m

LEMMA IdleFrame == Idle \in Frame /\ Idle.at = "idle" /\ Idle.op = "ask" /\ Idle.c = None /\ Idle.m = None
BY ClientAssumption DEF Idle, Frame, Steps, Ops

LEMMA GotoStep ==
  ASSUME TypeOK, NEW t \in Threads, NEW p \in Steps, Goto(t, p)
  PROVE  Kept(t) /\ Moved(t, p) /\ thread'[t].off = thread[t].off
<1>1. thread \in [Threads -> Frame]
  BY DEF TypeOK
<1>2. thread' = [thread EXCEPT ![t] = [thread[t] EXCEPT !.at = p]]
  BY DEF Goto
<1>3. thread[t] \in Frame
  BY <1>1
<1>4. [thread[t] EXCEPT !.at = p] \in Frame
  BY <1>3 DEF Frame
<1> QED
  BY <1>1, <1>2, <1>3, <1>4 DEF Kept, Moved, Frame

LEMMA DoneStep ==
  ASSUME TypeOK, NEW t \in Threads, Done(t)
  PROVE  Kept(t) /\ thread'[t] = Idle
BY IdleFrame DEF TypeOK, Done, Kept

LEMMA InitFailsStep ==
  ASSUME TypeOK, NEW t \in Threads, InitFails(t)
  PROVE  /\ Kept(t) /\ lock' = None
         /\ \/ Moved(t, "lock") /\ thread'[t].off = thread[t].off
            \/ thread'[t] = Idle
<1>1. thread \in [Threads -> Frame] /\ thread[t] \in Frame
  BY DEF TypeOK
<1>2. CASE thread[t].tries + 1 < ConnectMax
           /\ thread' = [thread EXCEPT ![t].at = "lock", ![t].tries = thread[t].tries + 1]
  <2>1. thread' = [thread EXCEPT ![t] = [thread[t] EXCEPT !.at = "lock", !.tries = thread[t].tries + 1]]
    BY <1>1, <1>2
  <2>2. [thread[t] EXCEPT !.at = "lock", !.tries = thread[t].tries + 1] \in Frame
    BY <1>1, <1>2, ClientAssumption DEF Frame, Steps
  <2> QED BY <1>1, <2>1, <2>2 DEF Kept, Moved, Frame, InitFails
<1>3. CASE Done(t)
  BY <1>3, DoneStep DEF InitFails
<1> QED
  BY <1>2, <1>3 DEF InitFails

\* A call begins.
LEMMA BeginStep ==
  ASSUME TypeOK, NEW t \in Threads, NEW op \in Ops, NEW c \in Ctxs \cup {None},
         NEW m \in Shms \cup {None}, NEW p \in Steps, Begin(t, op, c, m, p)
  PROVE  /\ Kept(t) /\ thread[t].at = "idle"
         /\ thread'[t].at = p /\ thread'[t].op = op /\ thread'[t].c = c /\ thread'[t].m = m
<1>1. [at |-> p, op |-> op, c |-> c, m |-> m, tries |-> 0, off |-> None] \in Frame
  BY ClientAssumption DEF Frame
<1> QED
  BY <1>1 DEF TypeOK, Begin, Kept, At

-----------------------------------------------------------------------------
(* What the calls work on *)

\* A step of t leaves the objects of the other calls alone.
LEMMA CallsStep ==
  ASSUME Calls, NEW t \in Threads, Kept(t),
         \A u \in Threads \ {t} :
           /\ thread[u].op \in {"init", "fin", "alloc"} => ctx'[thread[u].c] = ctx[thread[u].c]
           /\ thread[u].op \in {"alloc", "rel"} =>
                shm'[thread[u].m] = shm[thread[u].m] /\ block'[thread[u].m] = block[thread[u].m],
         CallOn(t)',
         \/ thread'[t].at = "idle"
         \/ /\ thread[t].at # "idle" /\ thread'[t].op = thread[t].op
            /\ thread'[t].c = thread[t].c /\ thread'[t].m = thread[t].m
  PROVE  Calls'
<1>1. ASSUME NEW u \in Threads PROVE CallOn(u)'
  <2>1. CASE u = t
    BY <2>1
  <2>2. CASE u # t
    <3>1. thread'[u] = thread[u] /\ CallOn(u)
      BY <2>2 DEF Kept, Calls
    <3> QED BY <2>2, <3>1 DEF CallOn
  <2> QED BY <2>1, <2>2
<1>2. CallsApart'
  BY DEF Calls, CallsApart, Kept
<1> QED
  BY <1>1, <1>2 DEF Calls

\* A new call of t on objects the guards found free.
LEMMA CallsBegin ==
  ASSUME Calls, NEW t \in Threads, Kept(t), UNCHANGED <<ctx, block>>,
         \A u \in Threads \ {t} :
           thread[u].op \in {"alloc", "rel"} => shm'[thread[u].m] = shm[thread[u].m],
         CallOn(t)',
         \A u \in Threads \ {t} : thread[u].at # "idle" =>
           /\ thread'[t].m = thread[u].m => thread'[t].m = None
           /\ thread'[t].op \in {"init", "fin"} \/ thread[u].op \in {"init", "fin"}
                => thread'[t].c # thread[u].c
           /\ InitApart => ~ (thread'[t].op = "init" /\ thread[u].op = "fin")
           /\ InitApart => ~ (thread'[t].op = "fin" /\ thread[u].op = "init")
  PROVE  Calls'
<1>1. ASSUME NEW u \in Threads PROVE CallOn(u)'
  <2>1. CASE u = t
    BY <2>1
  <2>2. CASE u # t
    <3>1. thread'[u] = thread[u] /\ CallOn(u)
      BY <2>2 DEF Kept, Calls
    <3> QED BY <2>2, <3>1 DEF CallOn
  <2> QED BY <2>1, <2>2
<1>2. CallsApart'
  BY DEF Calls, CallsApart, Kept
<1> QED
  BY <1>1, <1>2 DEF Calls

\* The step changes no object of the application.
LEMMA CallsMove ==
  ASSUME TypeOK, Calls, NEW t \in Threads, Kept(t), UNCHANGED <<ctx, shm, block>>,
         thread[t].at \in Connecting,
         thread'[t] = Idle \/ \E p \in Connecting : Moved(t, p)
  PROVE  Calls'
<1>1. CallOn(t)
  BY DEF Calls
<1>2. CASE thread'[t] = Idle
  BY <1>1, <1>2, IdleFrame, CallsStep DEF CallOn
<1>3. ASSUME NEW p \in Connecting, Moved(t, p) PROVE Calls'
  <2>1. CallOn(t)'
    BY <1>1, <1>3 DEF CallOn, Moved, Connecting, LockPC
  <2>2. thread[t].at # "idle"
    BY DEF Connecting, LockPC
  <2> QED BY <1>3, <2>1, <2>2, CallsStep DEF Moved
<1> QED
  BY <1>2, <1>3

\* InitTeecService as the calls see it.
LEMMA ConnectFacts ==
  ASSUME TypeOK, NEW t \in Threads, InitTeecService(t)
  PROVE  /\ TypeOK' /\ Kept(t) /\ thread[t].at \in {"lock"} \cup LockPC
         /\ \/ thread'[t] = Idle
            \/ \E p \in Connecting : Moved(t, p) /\ thread'[t].off = thread[t].off
         /\ UNCHANGED <<appVars, block, orphans>>
         /\ daemon'.epoch = daemon.epoch /\ daemon'.up = daemon.up
         /\ daemon'.fds = daemon.fds /\ daemon'.blocks = daemon.blocks
<1>0. Connecting \subseteq Steps /\ {"lock"} \cup LockPC \subseteq Connecting
  BY DEF Connecting, LockPC, Steps
<1>1. /\ thread[t].at \in {"lock"} \cup LockPC
      /\ UNCHANGED <<appVars, block, orphans, news, midInit>>
  BY DEF InitTeecService, Lock, Lookup, AddCaDeathRecipient, SetCallBack, SetValid, At, LockPC
<1>2. (\E p \in Connecting : Goto(t, p)) \/ InitFails(t)
  BY DEF InitTeecService, Lock, Lookup, AddCaDeathRecipient, SetCallBack, SetValid, Connecting, LockPC
<1>3. /\ Kept(t)
      /\ \/ thread'[t] = Idle
         \/ \E p \in Connecting : Moved(t, p) /\ thread'[t].off = thread[t].off
  <2>1. ASSUME NEW p \in Connecting, Goto(t, p)
        PROVE  Kept(t) /\ Moved(t, p) /\ thread'[t].off = thread[t].off
    BY <1>0, <2>1, GotoStep
  <2>2. ASSUME InitFails(t)
        PROVE  /\ Kept(t)
               /\ \/ Moved(t, "lock") /\ thread'[t].off = thread[t].off
                  \/ thread'[t] = Idle
    BY <2>2, InitFailsStep
  <2>3. "lock" \in Connecting
    BY DEF Connecting
  <2> QED BY <1>2, <2>1, <2>2, <2>3
<1>4. lock' \in Threads \cup {None}
  BY DEF InitTeecService, Lock, Lookup, AddCaDeathRecipient, SetCallBack, SetValid, InitFails, TypeOK
<1>5. service' \in 0 .. MaxCrashes \cup {None} /\ valid' \in BOOLEAN
  BY DEF InitTeecService, Lock, Lookup, AddCaDeathRecipient, SetCallBack, SetValid, TypeOK, Daemon
<1>6. notifier' \in [made : BOOLEAN, watches : 0 .. MaxCrashes \cup {None}]
  <2>1. \/ UNCHANGED notifier
        \/ notifier' = [made |-> TRUE, watches |-> service]
        \/ notifier' = [made |-> TRUE, watches |-> None]
    <3>1. CASE AddCaDeathRecipient(t)
      BY <3>1, Zenon DEF AddCaDeathRecipient
    <3>2. CASE Lock(t) \/ Lookup(t) \/ SetCallBack(t) \/ SetValid(t)
      BY <3>2 DEF Lock, Lookup, SetCallBack, SetValid
    <3> QED BY <3>1, <3>2 DEF InitTeecService
  <2>2. /\ service \in 0 .. MaxCrashes \cup {None}
        /\ notifier \in [made : BOOLEAN, watches : 0 .. MaxCrashes \cup {None}]
    BY DEF TypeOK
  <2>3. CASE notifier' = [made |-> TRUE, watches |-> service]
    BY <2>2, <2>3
  <2>4. CASE notifier' = [made |-> TRUE, watches |-> None]
    BY <2>4
  <2> QED BY <2>1, <2>2, <2>3, <2>4
<1>7. /\ daemon' \in Daemon
      /\ daemon'.epoch = daemon.epoch /\ daemon'.up = daemon.up
      /\ daemon'.fds = daemon.fds /\ daemon'.blocks = daemon.blocks
  <2>1. UNCHANGED daemon \/ daemon' = [daemon EXCEPT !.known = TRUE]
    BY DEF InitTeecService, Lock, Lookup, AddCaDeathRecipient, SetCallBack, SetValid
  <2> QED BY <2>1 DEF TypeOK, Daemon
<1>8. TypeOK'
  BY <1>1, <1>3, <1>4, <1>5, <1>6, <1>7 DEF TypeOK, Kept
<1> QED
  BY <1>1, <1>3, <1>7, <1>8

\* The types, what the calls work on, and the table.
CallInv == TypeOK /\ Calls /\ Tables

\* What a call of thread t is about, by its operation.
LEMMA CallFacts ==
  ASSUME CallInv, NEW t \in Threads
  PROVE  /\ thread[t] \in Frame /\ CallOn(t)
         /\ thread[t].op \in {"init", "fin"} =>
              \A u \in Threads \ {t} :
                thread[u].op # "ask" => thread[u].c # thread[t].c
         /\ thread[t].op \in {"alloc", "rel"} =>
              /\ \A u \in Threads \ {t} :
                   thread[u].op \in {"alloc", "rel"} => thread[u].m # thread[t].m
              /\ thread[t].m \in Shms /\ thread[t].c \in Ctxs
              /\ shm[thread[t].m].ctx = thread[t].c /\ ctx[thread[t].c] \in Fds
<1>1. thread[t] \in Frame /\ CallOn(t)
  BY DEF CallInv, TypeOK, Calls
<1>2. \A u \in Threads : thread[u].op # "ask" => thread[u].at # "idle"
  <2>1. \A u \in Threads : thread[u] \in Frame /\ CallOn(u)
    BY DEF CallInv, TypeOK, Calls
  <2> QED BY <2>1 DEF CallOn, Connecting, LockPC, Frame, Ops
<1>3. thread[t].op \in {"init", "fin"} =>
        \A u \in Threads \ {t} : thread[u].op # "ask" => thread[u].c # thread[t].c
  BY <1>2 DEF CallInv, Calls, CallsApart
<1>4. ASSUME thread[t].op \in {"alloc", "rel"}, NEW u \in Threads \ {t},
             thread[u].op \in {"alloc", "rel"}
      PROVE  thread[u].m # thread[t].m
  <2>1. thread[t].m # None
    BY <1>1, <1>4, ClientAssumption DEF CallOn
  <2> QED BY <1>2, <1>4, <2>1 DEF CallInv, Calls, CallsApart
<1>5. ASSUME thread[t].op \in {"alloc", "rel"}
      PROVE  /\ thread[t].m \in Shms /\ thread[t].c \in Ctxs
             /\ shm[thread[t].m].ctx = thread[t].c /\ ctx[thread[t].c] \in Fds
  <2>1. thread[t].m \in Shms /\ thread[t].c \in Ctxs /\ shm[thread[t].m].ctx = thread[t].c
    BY <1>1, <1>5 DEF CallOn
  <2>2. thread[t].c # None
    BY <2>1, ClientAssumption
  <2>3. ctx[thread[t].c] # None
    BY <2>1, <2>2 DEF CallInv, Tables
  <2> QED BY <2>1, <2>3 DEF CallInv, TypeOK
<1> QED
  BY <1>1, <1>3, <1>4, <1>5

LEMMA ConnectCalls ==
  ASSUME CallInv, NEW t \in Threads, InitTeecService(t)
  PROVE  CallInv'
<1>1. TypeOK /\ Calls /\ Tables
  BY DEF CallInv
<1>2. TypeOK' /\ Kept(t) /\ UNCHANGED <<ctx, shm, block, mapped, table>>
  BY <1>1, ConnectFacts
<1>3. thread'[t] = Idle \/ \E p \in Connecting : Moved(t, p)
  BY <1>1, ConnectFacts
<1>4. thread[t].at \in Connecting
  BY <1>1, ConnectFacts DEF Connecting
<1>5. Calls'
  BY <1>1, <1>2, <1>3, <1>4, CallsMove
<1>6. Tables'
  BY <1>1, <1>2 DEF Tables
<1> QED
  BY <1>2, <1>5, <1>6 DEF CallInv

LEMMA BeginCalls ==
  ASSUME CallInv, NEW t \in Threads, NEW op \in Ops, NEW c \in Ctxs \cup {None},
         NEW m \in Shms \cup {None}, NEW p \in Steps, Begin(t, op, c, m, p)
  PROVE  /\ Kept(t) /\ thread'[t].at = p /\ thread'[t].op = op /\ thread'[t].c = c
         /\ thread'[t].m = m
         /\ UNCHANGED <<ctx, block>>
         /\ shm' \in [Shms -> Memory] => TypeOK'
         /\ UNCHANGED shm => Tables'
         /\ \A u \in Threads : InitApart /\ thread[u].at # "idle" =>
              ~ (op = "init" /\ thread[u].op = "fin") /\ ~ (op = "fin" /\ thread[u].op = "init")
<1>1. TypeOK /\ Calls /\ Tables
  BY DEF CallInv
<1>2. /\ Kept(t) /\ thread[t].at = "idle"
      /\ thread'[t].at = p /\ thread'[t].op = op /\ thread'[t].c = c /\ thread'[t].m = m
  BY <1>1, BeginStep
<1>3. UNCHANGED <<daemon, clientVars, table, zeros, mapped, ctx, alive, crossed, block, orphans,
                  midInit>>
  BY DEF Begin
<1>4. shm' \in [Shms -> Memory] => TypeOK'
  BY <1>1, <1>2, <1>3 DEF TypeOK, Kept
<1>5. UNCHANGED shm => Tables'
  BY <1>1, <1>3 DEF Tables
<1>6. \A u \in Threads : InitApart /\ thread[u].at # "idle" =>
        ~ (op = "init" /\ thread[u].op = "fin") /\ ~ (op = "fin" /\ thread[u].op = "init")
  BY DEF Begin, MayCall, Running
<1> QED
  BY <1>2, <1>3, <1>4, <1>5, <1>6

LEMMA CallInitCalls ==
  ASSUME CallInv, NEW t \in Threads, NEW c \in Ctxs, CallInit(t, c)
  PROVE  CallInv'
<1>1. TypeOK /\ Calls /\ Tables
  BY DEF CallInv
<1>2. Begin(t, "init", c, None, "lock") /\ UNCHANGED shm /\ ctx[c] = None /\ ~Busy(c)
  BY DEF CallInit
<1>3. "init" \in Ops /\ "lock" \in Steps
  BY DEF Ops, Steps
<1>4. /\ Kept(t) /\ thread'[t].at = "lock" /\ thread'[t].op = "init" /\ thread'[t].c = c
      /\ thread'[t].m = None
      /\ UNCHANGED <<ctx, block>>
      /\ shm' \in [Shms -> Memory] => TypeOK'
      /\ UNCHANGED shm => Tables'
      /\ \A u \in Threads : InitApart /\ thread[u].at # "idle" => thread[u].op # "fin"
  BY <1>2, <1>3, BeginCalls
<1>5. CallOn(t)'
  BY <1>2, <1>4 DEF CallOn, Connecting
<1>6. \A u \in Threads \ {t} : thread[u].at # "idle" => thread[u].c # c
  BY <1>2 DEF Busy
<1>7. Calls'
  BY <1>1, <1>2, <1>4, <1>5, <1>6, CallsBegin
<1> QED
  BY <1>1, <1>2, <1>4, <1>7 DEF CallInv, TypeOK

LEMMA CallFinalizeCalls ==
  ASSUME CallInv, NEW t \in Threads, NEW c \in Ctxs, CallFinalize(t, c)
  PROVE  CallInv'
<1>1. TypeOK /\ Calls /\ Tables
  BY DEF CallInv
<1>2. Begin(t, "fin", c, None, "lock") /\ UNCHANGED shm /\ ctx[c] # None /\ ~Busy(c)
  BY DEF CallFinalize
<1>3. "fin" \in Ops /\ "lock" \in Steps
  BY DEF Ops, Steps
<1>4. /\ Kept(t) /\ thread'[t].at = "lock" /\ thread'[t].op = "fin" /\ thread'[t].c = c
      /\ thread'[t].m = None
      /\ UNCHANGED <<ctx, block>>
      /\ shm' \in [Shms -> Memory] => TypeOK'
      /\ UNCHANGED shm => Tables'
      /\ \A u \in Threads : InitApart /\ thread[u].at # "idle" => thread[u].op # "init"
  BY <1>2, <1>3, BeginCalls
<1>5. CallOn(t)'
  BY <1>2, <1>4 DEF CallOn, Connecting
<1>6. \A u \in Threads \ {t} : thread[u].at # "idle" => thread[u].c # c
  BY <1>2 DEF Busy
<1>7. Calls'
  BY <1>1, <1>2, <1>4, <1>5, <1>6, CallsBegin
<1> QED
  BY <1>1, <1>2, <1>4, <1>7 DEF CallInv, TypeOK

LEMMA CallAllocateCalls ==
  ASSUME CallInv, NEW t \in Threads, NEW c \in Ctxs, NEW m \in Shms, CallAllocate(t, c, m)
  PROVE  CallInv'
<1>1. TypeOK /\ Calls /\ Tables
  BY DEF CallInv
<1>2. Begin(t, "alloc", c, m, "lock")
  BY DEF CallAllocate
<1>3. "alloc" \in Ops /\ "lock" \in Steps
  BY DEF Ops, Steps
<1>4. /\ Kept(t) /\ thread'[t].at = "lock" /\ thread'[t].op = "alloc" /\ thread'[t].c = c
      /\ thread'[t].m = m
      /\ UNCHANGED <<ctx, block>>
      /\ shm' \in [Shms -> Memory] => TypeOK'
  BY <1>2, <1>3, BeginCalls
<1>5. UNCHANGED <<mapped, table>>
  BY <1>2 DEF Begin
<1>6. /\ ctx[c] # None /\ shm[m].addr = None /\ block[m] = None
      /\ \A u \in Threads : thread[u].at # "idle" /\ thread[u].op \in {"init", "fin"} => thread[u].c # c
      /\ \A u \in Threads : thread[u].at # "idle" => thread[u].m # m
  BY DEF CallAllocate
<1>7. /\ shm' \in [Shms -> Memory] /\ shm'[m] = [ctx |-> c, addr |-> None]
      /\ \A n \in Shms \ {m} : shm'[n] = shm[n]
  <2>1. shm \in [Shms -> Memory] /\ shm[m] \in Memory
    BY <1>1 DEF TypeOK
  <2>2. shm' = [shm EXCEPT ![m] = [shm[m] EXCEPT !.ctx = c]]
    BY DEF CallAllocate
  <2>3. [shm[m] EXCEPT !.ctx = c] = [ctx |-> c, addr |-> None]
    BY <1>6, <2>1 DEF Memory
  <2>4. [ctx |-> c, addr |-> None] \in Memory
    BY DEF Memory
  <2> QED BY <2>1, <2>2, <2>3, <2>4
<1>8. CallOn(t)'
  BY <1>4, <1>6, <1>7 DEF CallOn, Connecting
<1>9. \A u \in Threads \ {t} : thread[u].op \in {"alloc", "rel"} => shm'[thread[u].m] = shm[thread[u].m]
  <2>1. ASSUME NEW u \in Threads \ {t}, thread[u].op \in {"alloc", "rel"}
        PROVE  thread[u].m \in Shms /\ thread[u].at # "idle"
    BY <1>1, <2>1 DEF Calls, CallOn, Connecting, LockPC
  <2> QED BY <1>6, <1>7, <2>1
<1>10. Calls'
  BY <1>1, <1>4, <1>6, <1>8, <1>9, CallsBegin
<1>11. Tables'
  BY <1>1, <1>4, <1>5, <1>6, <1>7 DEF Tables
<1> QED
  BY <1>4, <1>7, <1>10, <1>11 DEF CallInv

LEMMA CallReleaseCalls ==
  ASSUME CallInv, NEW t \in Threads, NEW m \in Shms, CallRelease(t, m)
  PROVE  CallInv'
<1> DEFINE c == shm[m].ctx
<1>1. TypeOK /\ Calls /\ Tables
  BY DEF CallInv
<1>2. /\ Begin(t, "rel", c, m, "find") /\ UNCHANGED shm /\ c # None /\ shm[m].addr # None
      /\ \A u \in Threads : thread[u].at # "idle" => thread[u].m # m
      /\ \A u \in Threads : thread[u].at # "idle" /\ thread[u].op = "fin" => thread[u].c # c
  BY DEF CallRelease
<1>3. "rel" \in Ops /\ "find" \in Steps /\ c \in Ctxs
  BY <1>1, <1>2 DEF Ops, Steps, TypeOK, Memory
<1>4. /\ Kept(t) /\ thread'[t].at = "find" /\ thread'[t].op = "rel" /\ thread'[t].c = c
      /\ thread'[t].m = m
      /\ UNCHANGED <<ctx, block>>
      /\ shm' \in [Shms -> Memory] => TypeOK'
      /\ UNCHANGED shm => Tables'
  <2> HIDE DEF c
  <2> QED BY <1>2, <1>3, BeginCalls
<1>5. CallOn(t)'
  BY <1>2, <1>3, <1>4 DEF CallOn
<1>6. \A u \in Threads \ {t} : thread[u].at # "idle" /\ thread[u].op \in {"init", "fin"} => thread[u].c # c
  <2>1. ASSUME NEW u \in Threads \ {t}, thread[u].op = "init" PROVE ctx[thread[u].c] = None
    BY <1>1, <2>1 DEF Calls, CallOn
  <2>2. ctx[c] # None
    BY <1>1, <1>2 DEF Tables
  <2> QED BY <1>2, <2>1, <2>2
<1>7. Calls'
  <2> HIDE DEF c
  <2> QED BY <1>1, <1>2, <1>4, <1>5, <1>6, CallsBegin
<1> QED
  BY <1>1, <1>2, <1>4, <1>7 DEF CallInv, TypeOK

LEMMA CallAskCalls ==
  ASSUME CallInv, NEW t \in Threads, CallAsk(t)
  PROVE  CallInv'
<1>1. TypeOK /\ Calls /\ Tables
  BY DEF CallInv
<1>2. Begin(t, "ask", None, None, "lock") /\ UNCHANGED shm
  BY DEF CallAsk
<1>3. "ask" \in Ops /\ "lock" \in Steps
  BY DEF Ops, Steps
<1>4. /\ Kept(t) /\ thread'[t].at = "lock" /\ thread'[t].op = "ask" /\ thread'[t].c = None
      /\ thread'[t].m = None
      /\ UNCHANGED <<ctx, block>>
      /\ shm' \in [Shms -> Memory] => TypeOK'
      /\ UNCHANGED shm => Tables'
  BY <1>2, <1>3, BeginCalls
<1>5. CallOn(t)'
  BY <1>4 DEF CallOn, Connecting
<1>6. \A u \in Threads \ {t} : thread[u].op \in {"init", "fin"} => thread[u].c # None
  BY <1>1, ClientAssumption DEF Calls, CallOn
<1>7. Calls'
  BY <1>1, <1>2, <1>4, <1>5, <1>6, CallsBegin
<1> QED
  BY <1>1, <1>2, <1>4, <1>7 DEF CallInv, TypeOK

LEMMA SendOtherCalls ==
  ASSUME CallInv, NEW t \in Threads, SendOther(t)
  PROVE  CallInv' /\ Kept(t) /\ thread'[t] = Idle
<1>1. TypeOK /\ Calls /\ Tables
  BY DEF CallInv
<1>2. UNCHANGED <<daemon, clientVars, appVars, block, orphans, midInit>> /\ Done(t) /\ thread[t].at = "send"
  BY DEF SendOther, Sends, At
<1>3. Kept(t) /\ thread'[t] = Idle
  BY <1>1, <1>2, DoneStep
<1>4. Calls'
  BY <1>1, <1>2, <1>3, CallsMove DEF Connecting
<1> QED
  BY <1>1, <1>2, <1>3, <1>4 DEF CallInv, TypeOK, Tables, Kept

\* CallOn of an idle thread.
LEMMA IdleCall ==
  ASSUME NEW t \in Threads, thread'[t] = Idle
  PROVE  CallOn(t)' /\ thread'[t].at = "idle"
BY IdleFrame DEF CallOn

LEMMA SendInitStep ==
  ASSUME CallInv, NEW t \in Threads, SendInit(t)
  PROVE  /\ Kept(t) /\ thread'[t] = Idle /\ thread[t].at = "send" /\ thread[t].op = "init"
         /\ thread[t].c \in Ctxs /\ ctx[thread[t].c] = None
         /\ UNCHANGED <<clientVars, table, zeros, mapped, shm, alive, crossed, block, orphans, midInit>>
         /\ \/ UNCHANGED <<daemon, ctx>>
            \/ \E fd \in Fds \ daemon.fds :
                 /\ Reachable
                 /\ daemon' = [daemon EXCEPT !.fds = @ \cup {fd}]
                 /\ ctx' = [ctx EXCEPT ![thread[t].c] = fd]
<1>1. TypeOK /\ CallOn(t)
  BY CallFacts DEF CallInv
<1>2. Done(t) /\ thread[t].at = "send" /\ thread[t].op = "init"
      /\ UNCHANGED <<clientVars, table, zeros, mapped, shm, alive, crossed, block, orphans, midInit>>
  BY DEF SendInit, Sends, At
<1>3. Kept(t) /\ thread'[t] = Idle
  BY <1>1, <1>2, DoneStep
<1>4. thread[t].c \in Ctxs /\ ctx[thread[t].c] = None
  BY <1>1, <1>2 DEF CallOn
<1>5. ASSUME ~ UNCHANGED <<daemon, ctx>>
      PROVE  \E fd \in Fds \ daemon.fds :
                 /\ Reachable
                 /\ daemon' = [daemon EXCEPT !.fds = @ \cup {fd}]
                 /\ ctx' = [ctx EXCEPT ![thread[t].c] = fd]
  <2> DEFINE fd == Min(Fds \ daemon.fds)
  <2>1. /\ Reachable /\ Fds \ daemon.fds # {}
        /\ daemon' = [daemon EXCEPT !.fds = @ \cup {fd}]
        /\ ctx' = [ctx EXCEPT ![thread[t].c] = fd]
    BY <1>5, Zenon DEF SendInit
  <2>2. Fds \ daemon.fds \in SUBSET Nat
    BY ClientAssumption
  <2>3. fd \in Fds \ daemon.fds
    BY <2>1, <2>2, MinMember, Zenon
  <2> HIDE DEF fd
  <2> QED BY <2>1, <2>3, Zenon
<1> QED
  BY <1>2, <1>3, <1>4, <1>5, Zenon

LEMMA SendInitCalls ==
  ASSUME CallInv, NEW t \in Threads, SendInit(t)
  PROVE  CallInv'
<1> DEFINE c == thread[t].c
<1>1. TypeOK /\ Calls /\ Tables
  BY DEF CallInv
<1>2. /\ Kept(t) /\ thread'[t] = Idle /\ thread[t].op = "init" /\ c \in Ctxs
      /\ UNCHANGED <<clientVars, table, zeros, mapped, shm, alive, crossed, block, orphans, midInit>>
  BY SendInitStep
<1>3. /\ ctx' \in [Ctxs -> Fds \cup {None}] /\ daemon' \in Daemon
      /\ \A d \in Ctxs \ {c} : ctx'[d] = ctx[d]
      /\ ctx[c] # None => ctx'[c] # None
  <2>1. CASE UNCHANGED <<daemon, ctx>>
    BY <1>1, <2>1 DEF TypeOK
  <2>2. ASSUME NEW fd \in Fds,
               daemon' = [daemon EXCEPT !.fds = @ \cup {fd}], ctx' = [ctx EXCEPT ![c] = fd]
        PROVE  <1>3!:
    <3>1. daemon' \in Daemon
      BY <1>1, <2>2 DEF TypeOK, Daemon
    <3>2. fd # None
      BY ClientAssumption
    <3> QED BY <1>1, <1>2, <2>2, <3>1, <3>2 DEF TypeOK
  <2> QED BY <2>1, <2>2, SendInitStep
<1>4. TypeOK'
  BY <1>1, <1>2, <1>3 DEF TypeOK, Kept
<1>5. CallOn(t)' /\ thread'[t].at = "idle"
  BY <1>2, IdleCall
<1>6. \A u \in Threads \ {t} : thread[u].op \in {"init", "fin", "alloc"} =>
         ctx'[thread[u].c] = ctx[thread[u].c]
  <2>1. ASSUME NEW u \in Threads \ {t}, thread[u].op \in {"init", "fin", "alloc"}
        PROVE  thread[u].c \in Ctxs
    BY <1>1, <2>1 DEF Calls, CallOn
  <2>2. ASSUME NEW u \in Threads \ {t}, thread[u].op \in {"init", "fin", "alloc"}
        PROVE  thread[u].c # c
    BY <1>2, <2>2, CallFacts
  <2> QED BY <1>3, <2>1, <2>2
<1>7. Calls'
  BY <1>1, <1>2, <1>5, <1>6, CallsStep
<1>8. Tables'
  <2>1. \A m \in Shms : shm[m].ctx # None => shm[m].ctx \in Ctxs
    BY <1>1 DEF TypeOK, Memory
  <2>2. \A d \in Ctxs : ctx[d] # None => ctx'[d] # None
    BY <1>3
  <2> QED BY <1>1, <1>2, <2>1, <2>2 DEF Tables
<1> QED
  BY <1>4, <1>7, <1>8 DEF CallInv

LEMMA SendFinalizeStep ==
  ASSUME CallInv, NEW t \in Threads, SendFinalize(t)
  PROVE  /\ Kept(t) /\ Moved(t, "freeall") /\ thread'[t].off = thread[t].off
         /\ thread[t].at = "send" /\ thread[t].op = "fin"
         /\ thread[t].c \in Ctxs /\ ctx[thread[t].c] \in Fds
         /\ UNCHANGED <<clientVars, appVars, block, midInit>>
         /\ orphans' = {b \in orphans : b[1] # ctx[thread[t].c]}
         /\ daemon' \in Daemon /\ daemon'.up = daemon.up /\ daemon'.epoch = daemon.epoch
         /\ daemon'.known = daemon.known
         /\ Reachable =>
              /\ daemon'.fds = daemon.fds \ {ctx[thread[t].c]}
              /\ daemon'.blocks = {b \in daemon.blocks : b[1] # ctx[thread[t].c]}
         /\ ~Reachable => UNCHANGED daemon
<1>1. TypeOK /\ CallOn(t)
  BY CallFacts DEF CallInv
<1>2. /\ Goto(t, "freeall") /\ thread[t].at = "send" /\ thread[t].op = "fin"
      /\ UNCHANGED <<clientVars, appVars, block, midInit>>
      /\ orphans' = {b \in orphans : b[1] # ctx[thread[t].c]}
      /\ Reachable => daemon' = [daemon EXCEPT !.fds = @ \ {ctx[thread[t].c]},
                                   !.blocks = {b \in @ : b[1] # ctx[thread[t].c]}]
      /\ ~Reachable => daemon' = daemon
  BY DEF SendFinalize, Sends, At
<1>3. Kept(t) /\ Moved(t, "freeall") /\ thread'[t].off = thread[t].off
  BY <1>1, <1>2, GotoStep DEF Steps
<1>4. thread[t].c \in Ctxs /\ ctx[thread[t].c] \in Fds
  BY <1>1, <1>2 DEF CallOn, TypeOK
<1>5. /\ daemon' \in Daemon /\ daemon'.up = daemon.up /\ daemon'.epoch = daemon.epoch
      /\ daemon'.known = daemon.known
      /\ Reachable =>
           /\ daemon'.fds = daemon.fds \ {ctx[thread[t].c]}
           /\ daemon'.blocks = {b \in daemon.blocks : b[1] # ctx[thread[t].c]}
  <2>1. daemon \in Daemon
    BY <1>1 DEF TypeOK
  <2>2. CASE Reachable
    <3>1. daemon' = [daemon EXCEPT !.fds = daemon.fds \ {ctx[thread[t].c]},
                                   !.blocks = {b \in daemon.blocks : b[1] # ctx[thread[t].c]}]
      BY <1>2, <2>2
    <3> DEFINE F == daemon.fds \ {ctx[thread[t].c]}
               B == {b \in daemon.blocks : b[1] # ctx[thread[t].c]}
    <3>2. F \in SUBSET Fds /\ B \in SUBSET (Fds \X Offsets)
      BY <2>1 DEF Daemon
    <3>3. daemon' = [daemon EXCEPT !.fds = F, !.blocks = B]
      BY <3>1
    <3> HIDE DEF F, B
    <3>4. /\ daemon' \in Daemon /\ daemon'.up = daemon.up /\ daemon'.epoch = daemon.epoch
          /\ daemon'.known = daemon.known /\ daemon'.fds = F /\ daemon'.blocks = B
      BY <2>1, <3>2, <3>3 DEF Daemon
    <3> QED BY <3>4 DEF F, B
  <2>3. CASE ~Reachable
    BY <1>2, <2>1, <2>3
  <2> QED BY <2>2, <2>3
<1> QED
  BY <1>2, <1>3, <1>4, <1>5

LEMMA SendFinalizeCalls ==
  ASSUME CallInv, NEW t \in Threads, SendFinalize(t)
  PROVE  CallInv'
<1>1. TypeOK /\ Calls /\ Tables /\ CallOn(t)
  BY CallFacts DEF CallInv
<1>2. /\ Kept(t) /\ Moved(t, "freeall") /\ thread[t].at = "send" /\ thread[t].op = "fin"
      /\ UNCHANGED <<clientVars, appVars, block, midInit>>
      /\ orphans' \subseteq orphans /\ daemon' \in Daemon
  BY SendFinalizeStep
<1>3. TypeOK'
  BY <1>1, <1>2 DEF TypeOK, Kept
<1>4. CallOn(t)'
  BY <1>1, <1>2 DEF CallOn, Moved
<1>5. Calls'
  BY <1>1, <1>2, <1>4, CallsStep DEF Moved
<1> QED
  BY <1>1, <1>2, <1>3, <1>5 DEF CallInv, Tables

LEMMA FreeAllStep ==
  ASSUME CallInv, NEW t \in Threads, FreeAllShareMemoryInContext(t)
  PROVE  /\ Kept(t) /\ thread'[t] = Idle /\ thread[t].at = "freeall" /\ thread[t].op = "fin"
         /\ thread[t].c \in Ctxs /\ ctx[thread[t].c] \in Fds
         /\ UNCHANGED <<daemon, clientVars, zeros, alive, crossed, orphans, midInit>>
         /\ table' = {e \in table : e.fd # ctx[thread[t].c]}
         /\ mapped' = {e.addr : e \in table'}
         /\ ctx' \in [Ctxs -> Fds \cup {None}] /\ ctx'[thread[t].c] = None
         /\ \A d \in Ctxs \ {thread[t].c} : ctx'[d] = ctx[d]
         /\ shm' \in [Shms -> Memory]
         /\ \A m \in Shms : /\ shm[m].ctx = thread[t].c => shm'[m] = NoShm /\ block'[m] = None
                            /\ shm[m].ctx # thread[t].c => shm'[m] = shm[m] /\ block'[m] = block[m]
<1> DEFINE c == thread[t].c
           gone == {e \in table : e.fd = ctx[c]}
<1>1. TypeOK /\ Tables /\ CallOn(t) /\ thread[t] \in Frame
  BY CallFacts DEF CallInv
<1>2. /\ Done(t) /\ thread[t].at = "freeall"
      /\ mapped' = mapped \ {e.addr : e \in gone}
      /\ table' = table \ gone
      /\ ctx' = [ctx EXCEPT ![c] = None]
      /\ shm' = [m \in Shms |-> IF shm[m].ctx = c THEN NoShm ELSE shm[m]]
      /\ block' = [m \in Shms |-> IF shm[m].ctx = c THEN None ELSE block[m]]
      /\ UNCHANGED <<daemon, clientVars, zeros, alive, crossed, orphans, midInit>>
  BY DEF FreeAllShareMemoryInContext, At
<1>3. Kept(t) /\ thread'[t] = Idle
  BY <1>1, <1>2, DoneStep
<1>4. thread[t].op = "fin"
  BY <1>1, <1>2 DEF CallOn, Connecting, LockPC, Frame, Ops
<1>5. c \in Ctxs /\ ctx[c] \in Fds
  BY <1>1, <1>4 DEF CallOn, TypeOK
<1>6. table' = {e \in table : e.fd # ctx[c]}
  BY <1>2
<1>7. mapped' = {e.addr : e \in table'}
  <2>1. mapped = {e.addr : e \in table} /\ \A e, f \in table : e.addr = f.addr => e = f
    BY <1>1 DEF Tables
  <2> HIDE DEF gone
  <2>2. gone \subseteq table
    BY DEF gone
  <2> QED BY <1>2, <2>1, <2>2
<1>8. /\ ctx' \in [Ctxs -> Fds \cup {None}] /\ ctx'[c] = None
      /\ \A d \in Ctxs \ {c} : ctx'[d] = ctx[d]
  BY <1>1, <1>2, <1>5 DEF TypeOK
<1>9. shm' \in [Shms -> Memory]
  <2>1. shm \in [Shms -> Memory]
    BY <1>1 DEF TypeOK
  <2>2. NoShm \in Memory
    BY DEF NoShm, Memory
  <2> QED BY <1>2, <2>1, <2>2
<1>10. \A m \in Shms : /\ shm[m].ctx = c => shm'[m] = NoShm /\ block'[m] = None
                       /\ shm[m].ctx # c => shm'[m] = shm[m] /\ block'[m] = block[m]
  BY <1>2
<1> QED
  BY <1>2, <1>3, <1>4, <1>5, <1>6, <1>7, <1>8, <1>9, <1>10

LEMMA FreeAllCalls ==
  ASSUME CallInv, NEW t \in Threads, FreeAllShareMemoryInContext(t)
  PROVE  CallInv'
<1> DEFINE c == thread[t].c
<1>1. TypeOK /\ Calls /\ Tables
  BY DEF CallInv
<1>2. /\ Kept(t) /\ thread'[t] = Idle /\ thread[t].op = "fin" /\ c \in Ctxs
      /\ UNCHANGED <<daemon, clientVars, zeros, alive, crossed, orphans, midInit>>
      /\ table' \subseteq table
      /\ mapped' = {e.addr : e \in table'}
      /\ ctx' \in [Ctxs -> Fds \cup {None}]
      /\ \A d \in Ctxs \ {c} : ctx'[d] = ctx[d]
      /\ shm' \in [Shms -> Memory]
      /\ \A m \in Shms : /\ shm[m].ctx = c => shm'[m] = NoShm /\ block'[m] = None
                         /\ shm[m].ctx # c => shm'[m] = shm[m] /\ block'[m] = block[m]
  BY FreeAllStep
<1>3. block' \in [Shms -> (Fds \X Offsets) \cup {None}]
  <2>1. block' = [m \in Shms |-> IF shm[m].ctx = c THEN None ELSE block[m]]
    BY DEF FreeAllShareMemoryInContext
  <2> QED BY <1>1, <2>1 DEF TypeOK
<1>4. mapped' \subseteq Addrs
  BY <1>1, <1>2 DEF TypeOK, Entry
<1>5. TypeOK'
  BY <1>1, <1>2, <1>3, <1>4 DEF TypeOK, Kept
<1>6. CallOn(t)' /\ thread'[t].at = "idle"
  BY <1>2, IdleCall
<1>7. \A u \in Threads \ {t} : thread[u].op \in {"init", "fin", "alloc", "rel"} => thread[u].c # c
  BY <1>2, CallFacts
<1>8. \A u \in Threads \ {t} :
        /\ thread[u].op \in {"init", "fin", "alloc", "rel"} => thread[u].c \in Ctxs
        /\ thread[u].op \in {"alloc", "rel"} =>
             thread[u].m \in Shms /\ shm[thread[u].m].ctx = thread[u].c
  <2>1. ASSUME NEW u \in Threads, thread[u].op \in {"init", "fin"} PROVE thread[u].c \in Ctxs
    BY <1>1, <2>1 DEF Calls, CallOn
  <2> QED BY <2>1, CallFacts
<1>9. \A u \in Threads \ {t} :
        /\ thread[u].op \in {"init", "fin", "alloc"} => ctx'[thread[u].c] = ctx[thread[u].c]
        /\ thread[u].op \in {"alloc", "rel"} =>
             shm'[thread[u].m] = shm[thread[u].m] /\ block'[thread[u].m] = block[thread[u].m]
  BY <1>2, <1>7, <1>8
<1>10. Calls'
  BY <1>1, <1>2, <1>6, <1>9, CallsStep
<1>11. Tables'
  <2>1. \A m \in Shms : shm'[m].ctx # None => ctx'[shm'[m].ctx] # None
    <3>1. \A m \in Shms : shm[m].ctx # None => shm[m].ctx \in Ctxs
      BY <1>1 DEF TypeOK, Memory
    <3> QED BY <1>1, <1>2, <3>1 DEF Tables, NoShm
  <2>2. \A m \in Shms : shm'[m].addr # None => shm'[m].ctx # None
    BY <1>1, <1>2 DEF Tables, NoShm
  <2>3. \A e, f \in table' : e.addr = f.addr => e = f
    BY <1>1, <1>2 DEF Tables
  <2> QED BY <1>2, <2>1, <2>2, <2>3 DEF Tables
<1> QED
  BY <1>5, <1>10, <1>11 DEF CallInv

LEMMA SendAllocateStep ==
  ASSUME CallInv, NEW t \in Threads, SendAllocate(t)
  PROVE  /\ Kept(t) /\ thread[t].at = "send" /\ thread[t].op = "alloc"
         /\ UNCHANGED <<clientVars, appVars, orphans, midInit>>
         /\ \/ thread'[t] = Idle /\ UNCHANGED <<daemon, block>>
            \/ \E off \in FreeOffsets(ctx[thread[t].c]) :
                 LET b == <<ctx[thread[t].c], off>>
                 IN  /\ Reachable /\ b[1] \in daemon.fds
                     /\ daemon' = [daemon EXCEPT !.blocks = @ \cup {b}]
                     /\ block' = [block EXCEPT ![thread[t].m] = b]
                     /\ Moved(t, "map") /\ thread'[t].off = off
<1> DEFINE fd == ctx[thread[t].c]
           ok == Reachable /\ fd \in daemon.fds /\ FreeOffsets(fd) # {}
           off == Min(FreeOffsets(fd))
<1>1. TypeOK /\ thread \in [Threads -> Frame] /\ thread[t] \in Frame
  BY DEF CallInv, TypeOK
<1>2. /\ thread[t].at = "send" /\ thread[t].op = "alloc"
      /\ UNCHANGED <<clientVars, appVars, orphans, midInit>>
      /\ ok => /\ daemon' = [daemon EXCEPT !.blocks = @ \cup {<<fd, off>>}]
               /\ block' = [block EXCEPT ![thread[t].m] = <<fd, off>>]
               /\ thread' = [thread EXCEPT ![t].at = "map", ![t].off = off]
      /\ ~ok => Done(t) /\ UNCHANGED <<daemon, block>>
  BY DEF SendAllocate, Sends, At
<1>3. CASE ~ok
  <2>1. Kept(t) /\ thread'[t] = Idle
    BY <1>1, <1>2, <1>3, DoneStep
  <2> HIDE DEF fd, ok, off
  <2> QED BY <1>2, <1>3, <2>1, Zenon
<1>4. CASE ok
  <2>1. FreeOffsets(fd) \in SUBSET Nat /\ FreeOffsets(fd) # {} /\ FreeOffsets(fd) \subseteq Offsets
    BY <1>4, ClientAssumption DEF FreeOffsets
  <2>2. off \in FreeOffsets(fd)
    BY <2>1, MinMember, Zenon
  <2>3. off \in Offsets
    BY <2>1, <2>2
  <2>4. thread' = [thread EXCEPT ![t] = [thread[t] EXCEPT !.at = "map", !.off = off]]
    <3> HIDE DEF off, ok
    <3> QED BY <1>1, <1>2, <1>4
  <2>5. [thread[t] EXCEPT !.at = "map", !.off = off] \in Frame
    <3> HIDE DEF off
    <3> QED BY <1>1, <2>3 DEF Frame, Steps
  <2>6. Kept(t) /\ Moved(t, "map") /\ thread'[t].off = off
    <3> HIDE DEF off
    <3> QED BY <1>1, <2>4, <2>5 DEF Kept, Moved, Frame
  <2>7. Reachable /\ fd \in daemon.fds /\ <<fd, off>>[1] = fd
    BY <1>4
  <2> HIDE DEF off, ok
  <2> QED BY <1>2, <1>4, <2>2, <2>6, <2>7
<1> QED
  BY <1>3, <1>4

\* What the others of the calls on memory keep when only the memory of t changes.
LEMMA OtherMemory ==
  ASSUME CallInv, NEW t \in Threads, thread[t].op \in {"alloc", "rel"},
         \A m \in Shms \ {thread[t].m} : shm'[m] = shm[m] /\ block'[m] = block[m],
         NEW u \in Threads \ {t}, thread[u].op \in {"alloc", "rel"}
  PROVE  shm'[thread[u].m] = shm[thread[u].m] /\ block'[thread[u].m] = block[thread[u].m]
<1>1. thread[u].m \in Shms
  BY CallFacts
<1>2. thread[u].m # thread[t].m
  BY CallFacts
<1> QED
  BY <1>1, <1>2

LEMMA SendAllocateCalls ==
  ASSUME CallInv, NEW t \in Threads, SendAllocate(t)
  PROVE  CallInv'
<1> DEFINE m == thread[t].m
           fd == ctx[thread[t].c]
<1>1. TypeOK /\ Calls /\ Tables /\ CallOn(t)
  BY CallFacts DEF CallInv
<1>2. /\ Kept(t) /\ thread[t].at = "send" /\ thread[t].op = "alloc"
      /\ UNCHANGED <<clientVars, appVars, orphans, midInit>>
  BY SendAllocateStep
<1>3. m \in Shms /\ thread[t].c \in Ctxs /\ fd \in Fds
  BY <1>2, CallFacts
<1>4. CASE thread'[t] = Idle /\ UNCHANGED <<daemon, block>>
  <2>1. Calls'
    BY <1>1, <1>2, <1>4, CallsMove DEF Connecting
  <2> QED BY <1>1, <1>2, <1>4, <2>1 DEF CallInv, TypeOK, Tables, Kept
<1>5. ASSUME NEW off \in FreeOffsets(fd),
             daemon' = [daemon EXCEPT !.blocks = @ \cup {<<fd, off>>}],
             block' = [block EXCEPT ![m] = <<fd, off>>],
             Moved(t, "map"), thread'[t].off = off
      PROVE  CallInv'
  <2>1. off \in Offsets
    BY DEF FreeOffsets
  <2>2. daemon' \in Daemon
    <3> DEFINE B == daemon.blocks \cup {<<fd, off>>}
    <3>1. daemon \in Daemon /\ B \in SUBSET (Fds \X Offsets) /\ daemon' = [daemon EXCEPT !.blocks = B]
      BY <1>1, <1>3, <1>5, <2>1 DEF TypeOK, Daemon
    <3> HIDE DEF B
    <3> QED BY <3>1 DEF Daemon
  <2>3. /\ block' \in [Shms -> (Fds \X Offsets) \cup {None}] /\ block'[m] = <<fd, off>>
        /\ \A n \in Shms \ {m} : block'[n] = block[n]
    BY <1>1, <1>3, <1>5, <2>1 DEF TypeOK
  <2>4. TypeOK'
    BY <1>1, <1>2, <2>2, <2>3 DEF TypeOK, Kept
  <2>5. CallOn(t)'
    BY <1>1, <1>2, <1>5, <2>1, <2>3 DEF CallOn, Moved
  <2>6. \A u \in Threads \ {t} : thread[u].op \in {"alloc", "rel"} =>
          shm'[thread[u].m] = shm[thread[u].m] /\ block'[thread[u].m] = block[thread[u].m]
    BY <1>2, <2>3, OtherMemory
  <2>7. Calls'
    BY <1>1, <1>2, <1>5, <2>5, <2>6, CallsStep DEF Moved
  <2> QED BY <1>1, <1>2, <2>4, <2>7 DEF CallInv, Tables
<1> QED
  BY <1>4, <1>5, SendAllocateStep

LEMMA MapStep ==
  ASSUME CallInv, NEW t \in Threads, MapSharedMemory(t)
  PROVE  /\ Kept(t) /\ thread'[t] = Idle /\ thread[t].at = "map" /\ thread[t].op = "alloc"
         /\ UNCHANGED <<daemon, clientVars, ctx, alive, crossed, midInit>>
         /\ thread[t].off \in Offsets
         /\ block[thread[t].m] = <<ctx[thread[t].c], thread[t].off>>
         /\ shm[thread[t].m] = [ctx |-> thread[t].c, addr |-> None]
         /\ \/ /\ orphans' = orphans \cup {block[thread[t].m]}
               /\ block' = [block EXCEPT ![thread[t].m] = None]
               /\ UNCHANGED <<mapped, shm, table, zeros>>
            \/ /\ UNCHANGED <<mapped, table, block, orphans>>
               /\ shm' = [shm EXCEPT ![thread[t].m].addr = ZeroPtr]
               /\ zeros' = Append(zeros, thread[t].off)
            \/ /\ UNCHANGED <<zeros, block, orphans>>
               /\ \E a \in Addrs \ mapped :
                    /\ mapped' = mapped \cup {a}
                    /\ shm' = [shm EXCEPT ![thread[t].m].addr = a]
                    /\ table' = table \cup
                         {[addr |-> a, off |-> thread[t].off, fd |-> ctx[thread[t].c]]}
<1> DEFINE m == thread[t].m
           a == Min(Addrs \ mapped)
<1>1. TypeOK /\ CallOn(t) /\ thread[t] \in Frame
  BY CallFacts DEF CallInv
<1>2. /\ Done(t) /\ thread[t].at = "map"
      /\ UNCHANGED <<daemon, clientVars, ctx, alive, crossed, midInit>>
      /\ \/ /\ Addrs \ mapped # {}
            /\ mapped' = mapped \cup {a}
            /\ shm' = [shm EXCEPT ![m].addr = a]
            /\ table' = table \cup
                 {[addr |-> a, off |-> thread[t].off, fd |-> ctx[shm[m].ctx]]}
            /\ UNCHANGED <<zeros, block, orphans>>
         \/ /\ shm' = [shm EXCEPT ![m].addr = ZeroPtr]
            /\ zeros' = Append(zeros, thread[t].off)
            /\ UNCHANGED <<mapped, table, block, orphans>>
         \/ /\ orphans' = orphans \cup {block[m]}
            /\ block' = [block EXCEPT ![m] = None]
            /\ UNCHANGED <<mapped, shm, table, zeros>>
  BY Zenon DEF MapSharedMemory, At
<1>3. Kept(t) /\ thread'[t] = Idle
  BY <1>1, <1>2, DoneStep
<1>4. thread[t].op = "alloc"
  BY <1>1, <1>2 DEF CallOn, Connecting, LockPC, Frame, Ops
<1>5. /\ thread[t].off \in Offsets /\ block[m] = <<ctx[thread[t].c], thread[t].off>>
      /\ shm[m] = [ctx |-> thread[t].c, addr |-> None]
  BY <1>1, <1>2, <1>4 DEF CallOn
<1>6. shm[m].ctx = thread[t].c
  BY <1>4, CallFacts
<1>7. Addrs \ mapped # {} => a \in Addrs \ mapped
  <2>1. Addrs \ mapped \in SUBSET Nat
    BY ClientAssumption
  <2> QED BY <2>1, MinMember, Zenon
<1>8. \/ /\ orphans' = orphans \cup {block[m]}
         /\ block' = [block EXCEPT ![m] = None]
         /\ UNCHANGED <<mapped, shm, table, zeros>>
      \/ /\ UNCHANGED <<mapped, table, block, orphans>>
         /\ shm' = [shm EXCEPT ![m].addr = ZeroPtr]
         /\ zeros' = Append(zeros, thread[t].off)
      \/ /\ UNCHANGED <<zeros, block, orphans>>
         /\ \E x \in Addrs \ mapped :
              /\ mapped' = mapped \cup {x}
              /\ shm' = [shm EXCEPT ![m].addr = x]
              /\ table' = table \cup {[addr |-> x, off |-> thread[t].off, fd |-> ctx[thread[t].c]]}
  <2> HIDE DEF a
  <2> QED BY <1>2, <1>6, <1>7, Zenon
<1> QED
  BY <1>2, <1>3, <1>4, <1>5, <1>8

LEMMA MapCalls ==
  ASSUME CallInv, NEW t \in Threads, MapSharedMemory(t)
  PROVE  CallInv'
<1> DEFINE m == thread[t].m
           c == thread[t].c
<1>1. TypeOK /\ Calls /\ Tables
  BY DEF CallInv
<1>2. /\ Kept(t) /\ thread'[t] = Idle /\ thread[t].op = "alloc"
      /\ UNCHANGED <<daemon, clientVars, ctx, alive, crossed, midInit>>
      /\ thread[t].off \in Offsets /\ block[m] = <<ctx[c], thread[t].off>>
  BY MapStep
<1>3. m \in Shms /\ c \in Ctxs /\ shm[m].ctx = c /\ ctx[c] \in Fds
  BY <1>2, CallFacts
<1>4. CallOn(t)' /\ thread'[t].at = "idle"
  BY <1>2, IdleCall
<1>5. CASE /\ orphans' = orphans \cup {block[m]}
           /\ block' = [block EXCEPT ![m] = None]
           /\ UNCHANGED <<mapped, shm, table, zeros>>
  <2>1. /\ block' \in [Shms -> (Fds \X Offsets) \cup {None}]
        /\ \A n \in Shms \ {m} : block'[n] = block[n]
    BY <1>1, <1>3, <1>5 DEF TypeOK
  <2>2. orphans' \subseteq Fds \X Offsets
    BY <1>1, <1>2, <1>3, <1>5 DEF TypeOK
  <2>3. TypeOK'
    BY <1>1, <1>2, <1>5, <2>1, <2>2 DEF TypeOK, Kept
  <2>4. \A u \in Threads \ {t} : thread[u].op \in {"alloc", "rel"} =>
          shm'[thread[u].m] = shm[thread[u].m] /\ block'[thread[u].m] = block[thread[u].m]
    BY <1>2, <1>5, <2>1, OtherMemory
  <2>5. Calls'
    BY <1>1, <1>2, <1>4, <2>4, CallsStep
  <2> QED BY <1>1, <1>2, <1>5, <2>3, <2>5 DEF CallInv, Tables
<1>6. ASSUME UNCHANGED <<zeros, block, orphans>>, NEW a \in Addrs \ mapped,
             mapped' = mapped \cup {a}, shm' = [shm EXCEPT ![m].addr = a],
             table' = table \cup {[addr |-> a, off |-> thread[t].off, fd |-> ctx[c]]}
      PROVE  CallInv'
  <2> DEFINE e == [addr |-> a, off |-> thread[t].off, fd |-> ctx[c]]
  <2>1. e \in Entry /\ e.addr = a
    BY <1>2, <1>3 DEF Entry
  <2>2. /\ shm' \in [Shms -> Memory] /\ shm'[m].ctx = c /\ shm'[m].addr = a
        /\ \A n \in Shms \ {m} : shm'[n] = shm[n]
    <3>1. shm \in [Shms -> Memory] /\ shm[m] \in Memory
      BY <1>1, <1>3 DEF TypeOK
    <3>2. shm' = [shm EXCEPT ![m] = [shm[m] EXCEPT !.addr = a]]
      BY <1>6
    <3>3. [shm[m] EXCEPT !.addr = a] \in Memory
      BY <3>1 DEF Memory
    <3> QED BY <1>3, <3>1, <3>2, <3>3 DEF Memory
  <2>3. TypeOK'
    <3> HIDE DEF e
    <3>1. table' = table \cup {e}
      BY <1>6 DEF e
    <3>2. table' \subseteq Entry /\ mapped' \subseteq Addrs
      BY <1>1, <1>6, <2>1, <3>1 DEF TypeOK
    <3> QED BY <1>1, <1>2, <1>6, <2>2, <3>2 DEF TypeOK, Kept
  <2>4. \A u \in Threads \ {t} : thread[u].op \in {"alloc", "rel"} =>
          shm'[thread[u].m] = shm[thread[u].m] /\ block'[thread[u].m] = block[thread[u].m]
    BY <1>2, <1>6, <2>2, OtherMemory
  <2>5. Calls'
    BY <1>1, <1>2, <1>4, <2>4, CallsStep
  <2>6. mapped' = {f.addr : f \in table'} /\ \A f, g \in table' : f.addr = g.addr => f = g
    <3> HIDE DEF e
    <3>1. table' = table \cup {e} /\ e.addr = a
      BY <1>6, <2>1 DEF e
    <3>2. /\ mapped = {f.addr : f \in table}
          /\ \A f, g \in table : f.addr = g.addr => f = g
      BY <1>1 DEF Tables
    <3> QED BY <1>6, <3>1, <3>2
  <2>7. \A n \in Shms : /\ shm'[n].ctx # None => ctx'[shm'[n].ctx] # None
                        /\ shm'[n].addr # None => shm'[n].ctx # None
    <3>1. c # None /\ ctx[c] # None
      BY <1>3, ClientAssumption
    <3> QED BY <1>1, <1>2, <2>2, <3>1 DEF Tables
  <2> QED BY <2>3, <2>5, <2>6, <2>7 DEF CallInv, Tables
<1>7. CASE /\ UNCHANGED <<mapped, table, block, orphans>>
           /\ shm' = [shm EXCEPT ![m].addr = ZeroPtr]
           /\ zeros' = Append(zeros, thread[t].off)
  <2>1. /\ shm' \in [Shms -> Memory] /\ shm'[m].ctx = c
        /\ \A n \in Shms \ {m} : shm'[n] = shm[n]
    <3>1. shm \in [Shms -> Memory] /\ shm[m] \in Memory
      BY <1>1, <1>3 DEF TypeOK
    <3>2. shm' = [shm EXCEPT ![m] = [shm[m] EXCEPT !.addr = ZeroPtr]]
      BY <1>7
    <3>3. [shm[m] EXCEPT !.addr = ZeroPtr] \in Memory
      BY <3>1 DEF Memory
    <3> QED BY <1>3, <3>1, <3>2, <3>3 DEF Memory
  <2>2. zeros' \in Seq(Offsets)
    BY <1>1, <1>2, <1>7 DEF TypeOK
  <2>3. TypeOK'
    BY <1>1, <1>2, <1>7, <2>1, <2>2 DEF TypeOK, Kept
  <2>4. \A u \in Threads \ {t} : thread[u].op \in {"alloc", "rel"} =>
          shm'[thread[u].m] = shm[thread[u].m] /\ block'[thread[u].m] = block[thread[u].m]
    BY <1>2, <1>7, <2>1, OtherMemory
  <2>5. Calls'
    BY <1>1, <1>2, <1>4, <2>4, CallsStep
  <2>6. Tables'
    <3>1. c # None /\ ctx[c] # None
      BY <1>3, ClientAssumption
    <3> QED BY <1>1, <1>2, <1>7, <2>1, <3>1 DEF Tables
  <2> QED BY <2>3, <2>5, <2>6 DEF CallInv
<1> QED
  BY <1>5, <1>6, <1>7, MapStep

\* What a release finds: the offset of its own memory, unless that has size 0.
LEMMA FindStep ==
  ASSUME CallInv, NEW t \in Threads, FindShareMemOffset(t)
  PROVE  /\ Kept(t) /\ Moved(t, "free") /\ thread[t].at = "find" /\ thread[t].op = "rel"
         /\ thread'[t].off = OffsetAt(shm[thread[t].m].addr)
         /\ UNCHANGED <<daemon, clientVars, table, zeros, mapped, ctx, shm, alive, block, orphans,
                        midInit>>
         /\ crossed' \in BOOLEAN /\ (crossed => crossed')
         /\ shm[thread[t].m].addr = ZeroPtr /\ ~crossed' =>
              <<ctx[shm[thread[t].m].ctx], thread'[t].off>> = block[thread[t].m]
<1> DEFINE m == thread[t].m
           a == shm[m].addr
           off == OffsetAt(a)
<1>1. CallOn(t) /\ thread \in [Threads -> Frame] /\ thread[t] \in Frame /\ TypeOK
  BY CallFacts DEF CallInv, TypeOK
<1>2. /\ thread[t].at = "find"
      /\ UNCHANGED <<daemon, clientVars, table, zeros, mapped, ctx, shm, alive, block, orphans,
                     midInit>>
      /\ thread' = [thread EXCEPT ![t].at = "free", ![t].off = off]
      /\ crossed' = (crossed \/ (a = ZeroPtr /\ <<ctx[shm[m].ctx], off>> # block[m]))
  BY DEF FindShareMemOffset, At
<1>3. off \in Offsets \cup {None}
  <2>1. CASE a # ZeroPtr /\ EntryAt(a) = {}
    BY <2>1 DEF OffsetAt
  <2>2. CASE a # ZeroPtr /\ EntryAt(a) # {}
    <3> DEFINE E == EntryAt(a)
               e == CHOOSE x \in E : TRUE
    <3>1. e \in E
      BY <2>2
    <3>2. E \subseteq Entry
      BY <1>1 DEF TypeOK, EntryAt
    <3>3. off = e.off
      BY <2>2 DEF OffsetAt
    <3> HIDE DEF e, E, off
    <3> QED BY <3>1, <3>2, <3>3 DEF Entry
  <2>3. CASE a = ZeroPtr
    <3>1. zeros \in Seq(Offsets) /\ (zeros # <<>> => Head(zeros) \in Offsets)
      BY <1>1 DEF TypeOK
    <3> QED BY <2>3, <3>1 DEF OffsetAt
  <2> QED BY <2>1, <2>2, <2>3
<1>4. thread[t].op = "rel"
  BY <1>1, <1>2 DEF CallOn, Connecting, LockPC, Frame, Ops
<1> HIDE DEF off
<1>5. thread' = [thread EXCEPT ![t] = [thread[t] EXCEPT !.at = "free", !.off = off]]
  BY <1>1, <1>2
<1>6. [thread[t] EXCEPT !.at = "free", !.off = off] \in Frame
  BY <1>1, <1>3 DEF Frame, Steps
<1>7. Kept(t) /\ Moved(t, "free") /\ thread'[t].off = off
  BY <1>1, <1>5, <1>6 DEF Kept, Moved, Frame
<1>8. crossed' \in BOOLEAN /\ (crossed => crossed')
  BY <1>1, <1>2 DEF TypeOK
<1>9. a = ZeroPtr /\ ~crossed' => <<ctx[shm[m].ctx], thread'[t].off>> = block[m]
  BY <1>2, <1>7
<1> QED
  BY <1>2, <1>4, <1>7, <1>8, <1>9 DEF off

LEMMA FindCalls ==
  ASSUME CallInv, NEW t \in Threads, FindShareMemOffset(t)
  PROVE  CallInv'
<1>1. TypeOK /\ Calls /\ Tables /\ CallOn(t)
  BY CallFacts DEF CallInv
<1>2. /\ Kept(t) /\ Moved(t, "free") /\ thread[t].at = "find" /\ thread[t].op = "rel"
      /\ UNCHANGED <<daemon, clientVars, table, zeros, mapped, ctx, shm, alive, block, orphans,
                     midInit>>
      /\ crossed' \in BOOLEAN
  BY FindStep
<1>3. CallOn(t)'
  BY <1>1, <1>2 DEF CallOn, Moved
<1>4. Calls'
  BY <1>1, <1>2, <1>3, CallsStep DEF Moved
<1> QED
  BY <1>1, <1>2, <1>4 DEF CallInv, TypeOK, Tables, Kept

\* One entry goes, the only one with that buffer; of size 0 none of the table.
LEMMA FreeStep ==
  ASSUME CallInv, NEW t \in Threads, FreeShareMem(t)
  PROVE  /\ Kept(t) /\ Moved(t, "lock") /\ thread'[t].off = thread[t].off
         /\ thread[t].at = "free" /\ thread[t].op = "rel"
         /\ UNCHANGED <<daemon, clientVars, ctx, alive, crossed, block, orphans, midInit>>
         /\ table' = {e \in table : e.addr # shm[thread[t].m].addr}
         /\ mapped' = {e.addr : e \in table'}
         /\ zeros' \in Seq(Offsets)
         /\ shm' \in [Shms -> Memory] /\ shm'[thread[t].m].ctx = shm[thread[t].m].ctx
         /\ shm'[thread[t].m].addr \in {shm[thread[t].m].addr, None}
         /\ EntryAt(shm[thread[t].m].addr) # {} => shm'[thread[t].m].addr = None
         /\ \A n \in Shms \ {thread[t].m} : shm'[n] = shm[n]
<1> DEFINE m == thread[t].m
           a == shm[m].addr
           Freed == /\ table' = {e \in table : e.addr # a} /\ mapped' = {e.addr : e \in table'}
                    /\ zeros' \in Seq(Offsets)
                    /\ shm' \in [Shms -> Memory] /\ shm'[m].ctx = shm[m].ctx
                    /\ shm'[m].addr \in {a, None}
                    /\ EntryAt(a) # {} => shm'[m].addr = None
                    /\ \A n \in Shms \ {m} : shm'[n] = shm[n]
<1>1. TypeOK /\ Tables /\ CallOn(t) /\ thread[t] \in Frame
  BY CallFacts DEF CallInv
<1>2. /\ thread[t].at = "free" /\ Goto(t, "lock")
      /\ UNCHANGED <<daemon, clientVars, ctx, alive, crossed, block, orphans, midInit>>
      /\ \/ \E e \in EntryAt(a) : /\ mapped' = mapped \ {a}
                                 /\ table' = table \ {e}
                                 /\ shm' = [shm EXCEPT ![m].addr = None]
                                 /\ UNCHANGED zeros
         \/ /\ a = ZeroPtr /\ zeros # <<>> /\ zeros' = Tail(zeros)
            /\ UNCHANGED <<mapped, table, shm>>
         \/ EntryAt(a) = {} /\ UNCHANGED <<mapped, table, shm, zeros>>
  BY Zenon DEF FreeShareMem, At
<1>3. thread[t].op = "rel"
  BY <1>1, <1>2 DEF CallOn, Connecting, LockPC, Frame, Ops
<1>4. Kept(t) /\ Moved(t, "lock") /\ thread'[t].off = thread[t].off
  BY <1>1, <1>2, GotoStep DEF Steps
<1>5. mapped = {e.addr : e \in table}
  BY <1>1 DEF Tables
<1>6. m \in Shms /\ shm \in [Shms -> Memory] /\ shm[m] \in Memory
  BY <1>1, <1>3, CallFacts DEF TypeOK
<1>7. ASSUME EntryAt(a) = {}, UNCHANGED <<mapped, table, shm>>, zeros' \in Seq(Offsets)
      PROVE  Freed
  BY <1>5, <1>6, <1>7 DEF EntryAt
<1>8. zeros \in Seq(Offsets) /\ (zeros # <<>> => Tail(zeros) \in Seq(Offsets))
  BY <1>1 DEF TypeOK
<1>9. ASSUME NEW e \in EntryAt(a), mapped' = mapped \ {a}, table' = table \ {e},
             shm' = [shm EXCEPT ![m].addr = None], UNCHANGED zeros
      PROVE  Freed
  <2>1. EntryAt(a) = {e}
    BY <1>1, <1>9 DEF EntryAt, Tables
  <2>2. table' = {f \in table : f.addr # a}
    BY <1>9, <2>1 DEF EntryAt
  <2>3. mapped' = {f.addr : f \in table'}
    BY <1>5, <1>9, <2>2
  <2>4. shm' = [shm EXCEPT ![m] = [shm[m] EXCEPT !.addr = None]]
    BY <1>9
  <2>5. [shm[m] EXCEPT !.addr = None] \in Memory
    BY <1>6 DEF Memory
  <2>6. /\ shm' \in [Shms -> Memory] /\ shm'[m].ctx = shm[m].ctx /\ shm'[m].addr = None
        /\ \A n \in Shms \ {m} : shm'[n] = shm[n]
    BY <1>6, <2>4, <2>5 DEF Memory
  <2> QED BY <1>8, <1>9, <2>2, <2>3, <2>6
<1>10. a = ZeroPtr => EntryAt(a) = {}
  BY <1>1, ClientAssumption DEF TypeOK, Entry, EntryAt
<1>11. CASE \E e \in EntryAt(a) : /\ mapped' = mapped \ {a}
                                /\ table' = table \ {e}
                                /\ shm' = [shm EXCEPT ![m].addr = None]
                                /\ UNCHANGED zeros
  <2>1. PICK e \in EntryAt(a) : /\ mapped' = mapped \ {a}
                               /\ table' = table \ {e}
                               /\ shm' = [shm EXCEPT ![m].addr = None]
                               /\ UNCHANGED zeros
    BY <1>11, Zenon
  <2>2. Freed
    BY <1>9, <2>1, Zenon
  <2> QED BY <1>2, <1>3, <1>4, <2>2
<1>12. CASE a = ZeroPtr /\ zeros # <<>> /\ zeros' = Tail(zeros) /\ UNCHANGED <<mapped, table, shm>>
  <2>1. EntryAt(a) = {} /\ zeros' \in Seq(Offsets)
    BY <1>8, <1>10, <1>12
  <2>2. Freed
    BY <1>7, <1>12, <2>1
  <2> QED BY <1>2, <1>3, <1>4, <2>2
<1>13. CASE EntryAt(a) = {} /\ UNCHANGED <<mapped, table, shm, zeros>>
  <2>1. Freed
    BY <1>7, <1>8, <1>13
  <2> QED BY <1>2, <1>3, <1>4, <2>1
<1> QED
  BY <1>2, <1>11, <1>12, <1>13, Zenon

LEMMA FreeCalls ==
  ASSUME CallInv, NEW t \in Threads, FreeShareMem(t)
  PROVE  CallInv'
<1> DEFINE m == thread[t].m
<1>1. TypeOK /\ Calls /\ Tables /\ CallOn(t)
  BY CallFacts DEF CallInv
<1>2. /\ Kept(t) /\ Moved(t, "lock") /\ thread[t].at = "free" /\ thread[t].op = "rel"
      /\ UNCHANGED <<daemon, clientVars, ctx, alive, crossed, block, orphans, midInit>>
      /\ zeros' \in Seq(Offsets)
      /\ table' \subseteq table
      /\ mapped' = {e.addr : e \in table'}
      /\ shm' \in [Shms -> Memory] /\ shm'[m].ctx = shm[m].ctx
      /\ shm'[m].addr \in {shm[m].addr, None}
      /\ \A n \in Shms \ {m} : shm'[n] = shm[n]
  BY FreeStep
<1>3. mapped' \subseteq Addrs
  BY <1>1, <1>2 DEF TypeOK, Entry
<1>4. TypeOK'
  BY <1>1, <1>2, <1>3 DEF TypeOK, Kept
<1>5. CallOn(t)'
  BY <1>1, <1>2 DEF CallOn, Moved, Connecting
<1>6. \A u \in Threads \ {t} : thread[u].op \in {"alloc", "rel"} =>
        shm'[thread[u].m] = shm[thread[u].m] /\ block'[thread[u].m] = block[thread[u].m]
  BY <1>2, OtherMemory
<1>7. Calls'
  BY <1>1, <1>2, <1>5, <1>6, CallsStep DEF Moved
<1>8. Tables'
  <2>1. \A e, f \in table' : e.addr = f.addr => e = f
    BY <1>1, <1>2 DEF Tables
  <2>2. \A n \in Shms : shm'[n].ctx = shm[n].ctx /\ shm'[n].addr \in {shm[n].addr, None}
    BY <1>2
  <2> QED BY <1>1, <1>2, <2>1, <2>2 DEF Tables
<1> QED
  BY <1>4, <1>7, <1>8 DEF CallInv

LEMMA SendReleaseStep ==
  ASSUME CallInv, NEW t \in Threads, SendRelease(t)
  PROVE  /\ Kept(t) /\ thread'[t] = Idle /\ thread[t].at = "send" /\ thread[t].op = "rel"
         /\ thread[t].m \in Shms
         /\ UNCHANGED <<clientVars, table, zeros, mapped, ctx, alive, crossed, orphans, midInit>>
         /\ daemon' \in Daemon /\ daemon'.up = daemon.up /\ daemon'.epoch = daemon.epoch
         /\ daemon'.known = daemon.known /\ daemon'.fds = daemon.fds
         /\ daemon'.blocks \subseteq daemon.blocks
         /\ Reachable => daemon'.blocks = daemon.blocks \ {<<ctx[thread[t].c], thread[t].off>>}
         /\ shm' \in [Shms -> Memory]
         /\ Reachable => shm'[thread[t].m] = NoShm
         /\ shm'[thread[t].m] \in {shm[thread[t].m], NoShm}
         /\ \A n \in Shms \ {thread[t].m} : shm'[n] = shm[n]
         /\ block' = [block EXCEPT ![thread[t].m] = None]
<1> DEFINE m == thread[t].m
           target == <<ctx[thread[t].c], thread[t].off>>
<1>1. TypeOK
  BY DEF CallInv
<1>2. /\ thread[t].at = "send" /\ thread[t].op = "rel" /\ Done(t)
      /\ UNCHANGED <<clientVars, table, zeros, mapped, ctx, alive, crossed, orphans, midInit>>
      /\ daemon' = IF Reachable THEN [daemon EXCEPT !.blocks = @ \ {target}] ELSE daemon
      /\ shm' = IF Reachable THEN [shm EXCEPT ![m] = NoShm] ELSE shm
      /\ block' = [block EXCEPT ![m] = None]
  BY DEF SendRelease, Sends, At
<1>3. Kept(t) /\ thread'[t] = Idle
  BY <1>1, <1>2, DoneStep
<1>4. m \in Shms
  BY <1>2, CallFacts
<1> HIDE DEF target
<1>5. /\ daemon' \in Daemon /\ daemon'.up = daemon.up /\ daemon'.epoch = daemon.epoch
      /\ daemon'.known = daemon.known /\ daemon'.fds = daemon.fds
      /\ daemon'.blocks \subseteq daemon.blocks
      /\ Reachable => daemon'.blocks = daemon.blocks \ {target}
  <2>1. daemon \in Daemon
    BY <1>1 DEF TypeOK
  <2>2. CASE Reachable
    BY <1>2, <2>1, <2>2 DEF Daemon
  <2>3. CASE ~Reachable
    BY <1>2, <2>1, <2>3
  <2> QED BY <2>2, <2>3
<1>6. /\ shm' \in [Shms -> Memory]
      /\ Reachable => shm'[m] = NoShm
      /\ shm'[m] \in {shm[m], NoShm}
      /\ \A n \in Shms \ {m} : shm'[n] = shm[n]
  <2>1. NoShm \in Memory
    BY DEF NoShm, Memory
  <2>2. shm \in [Shms -> Memory]
    BY <1>1 DEF TypeOK
  <2> QED BY <1>2, <1>4, <2>1, <2>2
<1> QED
  BY <1>2, <1>3, <1>4, <1>5, <1>6 DEF target

LEMMA SendReleaseCalls ==
  ASSUME CallInv, NEW t \in Threads, SendRelease(t)
  PROVE  CallInv'
<1> DEFINE m == thread[t].m
<1>1. TypeOK /\ Calls /\ Tables
  BY DEF CallInv
<1>2. /\ Kept(t) /\ thread'[t] = Idle /\ thread[t].op = "rel" /\ m \in Shms
      /\ UNCHANGED <<clientVars, table, zeros, mapped, ctx, alive, crossed, orphans, midInit>>
      /\ daemon' \in Daemon /\ shm' \in [Shms -> Memory]
      /\ shm'[m] \in {shm[m], NoShm}
      /\ \A n \in Shms \ {m} : shm'[n] = shm[n]
      /\ block' = [block EXCEPT ![m] = None]
  BY SendReleaseStep
<1>3. /\ block' \in [Shms -> (Fds \X Offsets) \cup {None}]
      /\ \A n \in Shms \ {m} : block'[n] = block[n]
  BY <1>1, <1>2 DEF TypeOK
<1>4. TypeOK'
  BY <1>1, <1>2, <1>3 DEF TypeOK, Kept
<1>5. CallOn(t)' /\ thread'[t].at = "idle"
  BY <1>2, IdleCall
<1>6. \A u \in Threads \ {t} : thread[u].op \in {"alloc", "rel"} =>
        shm'[thread[u].m] = shm[thread[u].m] /\ block'[thread[u].m] = block[thread[u].m]
  BY <1>2, <1>3, OtherMemory
<1>7. Calls'
  BY <1>1, <1>2, <1>5, <1>6, CallsStep
<1>8. Tables'
  <2>1. \A n \in Shms : shm'[n] \in {shm[n], NoShm}
    BY <1>2
  <2>2. NoShm.ctx = None /\ NoShm.addr = None
    BY DEF NoShm
  <2> QED BY <1>1, <1>2, <2>1, <2>2 DEF Tables
<1> QED
  BY <1>4, <1>7, <1>8 DEF CallInv

\* Deaths and their news touch no object of the application.
LEMMA OtherCalls ==
  ASSUME CallInv, OnRemoteDied \/ Kill \/ Restart \/ \E t \in Threads : NullService(t),
         ~daemon.up => daemon.epoch < MaxCrashes
  PROVE  CallInv'
<1>1. TypeOK /\ Calls /\ Tables
  BY DEF CallInv
<1>2. UNCHANGED <<table, zeros, mapped, ctx, shm, crossed, thread, block, orphans>>
  BY DEF OnRemoteDied, Kill, Restart, NullService
<1>3. /\ {valid, news, alive, midInit}' \subseteq BOOLEAN
      /\ UNCHANGED <<service, notifier, lock>>
  BY <1>1 DEF OnRemoteDied, Kill, Restart, NullService, TypeOK
<1>4. daemon' \in Daemon
  <2>1. daemon \in Daemon
    BY <1>1 DEF TypeOK
  <2>2. CASE Kill
    BY <2>1, <2>2 DEF Kill, Daemon
  <2>3. CASE Restart
    <3>1. daemon.epoch + 1 \in 0 .. MaxCrashes
      BY <2>1, <2>3, ClientAssumption DEF Restart, Daemon
    <3>2. daemon' = [daemon EXCEPT !.up = TRUE, !.epoch = daemon.epoch + 1]
      BY <2>3 DEF Restart
    <3> QED BY <2>1, <3>1, <3>2 DEF Daemon
  <2>4. CASE OnRemoteDied \/ \E t \in Threads : NullService(t)
    BY <2>1, <2>4 DEF OnRemoteDied, NullService
  <2> QED BY <2>2, <2>3, <2>4
<1>5. TypeOK'
  BY <1>1, <1>2, <1>3, <1>4 DEF TypeOK
<1>6. Calls' /\ Tables'
  BY <1>1, <1>2 DEF Calls, CallOn, CallsApart, Tables
<1> QED
  BY <1>5, <1>6 DEF CallInv

LEMMA StepCalls ==
  ASSUME CallInv, Next, ~daemon.up => daemon.epoch < MaxCrashes
  PROVE  CallInv'
<1>1. CASE OnRemoteDied \/ Kill \/ Restart \/ \E t \in Threads : NullService(t)
  BY <1>1, OtherCalls
<1>2. ASSUME NEW t \in Threads, InitTeecService(t) \/ Request(t) PROVE CallInv'
  BY <1>2, ConnectCalls, SendOtherCalls, SendInitCalls, SendFinalizeCalls, FreeAllCalls,
     SendAllocateCalls, MapCalls, FindCalls, FreeCalls, SendReleaseCalls DEF Request
<1>3. ASSUME NEW t \in Threads, Call(t) PROVE CallInv'
  BY <1>3, CallInitCalls, CallFinalizeCalls, CallAllocateCalls, CallReleaseCalls, CallAskCalls
     DEF Call
<1> QED
  BY <1>1, <1>2, <1>3 DEF Next, Step

-----------------------------------------------------------------------------
(* The cadaemon the client is bound to *)

LEMMA NoneApart == None \notin Threads /\ None # 0
BY ClientAssumption

\* A step of t outside InitTeecService, which begins no request.
LEMMA ConnectQuiet ==
  ASSUME TypeOK, ConnectInv, NEW t \in Threads, Kept(t), UNCHANGED <<clientVars, midInit>>,
         thread[t].at \notin LockPC, thread'[t].at \notin LockPC \cup {"send"},
         daemon'.epoch = daemon.epoch, daemon'.up = daemon.up, daemon'.known = daemon.known,
         \/ daemon'.fds \subseteq daemon.fds /\ daemon'.blocks \subseteq daemon.blocks
         \/ Reachable
  PROVE  ConnectInv'
<1>1. Locked /\ Told /\ Watched /\ Heard /\ (First => Reached)
  BY DEF ConnectInv
<1>2. \A u \in Threads : /\ thread'[u].at \in LockPC <=> thread[u].at \in LockPC
                         /\ thread'[u].at \in LockPC \cup {"send"} => thread'[u].at = thread[u].at
  BY DEF Kept
<1>3. (Reachable' <=> Reachable) /\ (First' <=> First)
  BY DEF Reachable, First
<1>4. Locked'
  BY <1>1, <1>2 DEF Locked, Reachable
<1>5. Told'
  <2>1. \A u \in Threads : thread[u].at \in {"watch", "callback"} => thread'[u].at = thread[u].at
    BY DEF Kept, LockPC
  <2> QED BY <1>1, <1>3, <2>1 DEF Told
<1>6. Watched' /\ Heard' /\ (First => Reached)'
  <2>1. \A u \in Threads : thread'[u].at \in {"watch", "callback", "valid", "send"} =>
          thread'[u].at = thread[u].at
    BY <1>2 DEF LockPC
  <2>2. \A u \in Threads : thread[u] \in Frame /\ thread'[u] \in Frame
    BY DEF TypeOK, Kept
  <2>3. Watched'
    BY <1>1, <1>3, <2>1 DEF Watched
  <2>4. Heard'
    BY <1>1, <1>3, <2>1 DEF Heard
  <2>5. (First => Reached)'
    BY <1>1, <1>3, <2>1 DEF Reached
  <2> QED BY <2>3, <2>4, <2>5
<1> QED
  BY <1>4, <1>5, <1>6 DEF ConnectInv

\* A step of InitTeecService: lock, and where the thread is.
LEMMA LockKept ==
  ASSUME Locked, NEW t \in Threads, Kept(t), thread[t].at \in LockPC,
         \/ lock' = lock /\ thread'[t].at \in LockPC
         \/ lock' = None /\ thread'[t].at \notin LockPC
  PROVE  /\ \A u \in Threads : thread'[u].at \in LockPC <=> lock' = u
         /\ \A u \in Threads \ {t} : thread[u].at \notin LockPC /\ thread'[u] = thread[u]
<1>1. lock = t
  BY DEF Locked
<1>2. \A u \in Threads \ {t} : thread[u].at \notin LockPC /\ thread'[u] = thread[u]
  BY <1>1 DEF Locked, Kept
<1> QED
  BY <1>1, <1>2, NoneApart

LEMMA LockConnect ==
  ASSUME TypeOK, ConnectInv, NEW t \in Threads, Lock(t)
  PROVE  ConnectInv'
<1>1. Locked /\ Told /\ Watched /\ Heard /\ (First => Reached)
  BY DEF ConnectInv
<1>2. /\ Goto(t, "check") /\ thread[t].at = "lock" /\ lock = None /\ lock' = t
      /\ UNCHANGED <<daemon, valid, service, notifier, news, midInit>>
  BY DEF Lock, At
<1>3. Kept(t) /\ thread'[t].at = "check"
  BY <1>2, GotoStep DEF Steps, Moved
<1>4. (Reachable' <=> Reachable) /\ (First' <=> First)
  BY <1>2 DEF Reachable, First
<1>5. \A u \in Threads : thread'[u].at = thread[u].at \/ u = t
  BY <1>3 DEF Kept
<1>6. Locked'
  BY <1>1, <1>2, <1>3, <1>5, NoneApart DEF Locked, LockPC
<1>7. \A u \in Threads : \A p \in {"watch", "callback", "valid", "send"} :
        thread'[u].at = p <=> thread[u].at = p
  BY <1>2, <1>3, <1>5
<1>8. Told'
  BY <1>1, <1>2, <1>4, <1>7 DEF Told
<1>9. Watched' /\ Heard' /\ (First => Reached)'
  BY <1>1, <1>2, <1>4, <1>7 DEF Watched, Heard, Reached
<1> QED
  BY <1>6, <1>8, <1>9 DEF ConnectInv

LEMMA LookupConnect ==
  ASSUME TypeOK, ConnectInv, NEW t \in Threads, Lookup(t)
  PROVE  ConnectInv'
<1>1. Locked /\ Told /\ Watched /\ Heard /\ (First => Reached)
  BY DEF ConnectInv
<1>2. /\ thread[t].at = "check" /\ thread[t].at \in LockPC
      /\ UNCHANGED <<daemon, valid, notifier, news, midInit>>
  BY DEF Lookup, At, LockPC
<1>3. First' <=> First
  BY <1>2 DEF First
<1>4. CASE valid /\ lock' = None /\ Goto(t, "send") /\ UNCHANGED service
  <2>1. Kept(t) /\ thread'[t].at = "send"
    BY <1>4, GotoStep DEF Steps, Moved
  <2>2. /\ \A u \in Threads : thread'[u].at \in LockPC <=> lock' = u
        /\ \A u \in Threads \ {t} : thread[u].at \notin LockPC /\ thread'[u] = thread[u]
    BY <1>1, <1>2, <1>4, <2>1, LockKept DEF LockPC
  <2>3. \A u \in Threads : thread'[u].at \notin LockPC
    BY <1>4, <2>2, NoneApart
  <2>4. Locked'
    BY <1>1, <1>2, <1>4, <2>2 DEF Locked
  <2>5. \A u \in Threads : thread[u].at \notin {"watch", "callback"}
    BY <1>2, <2>2 DEF LockPC
  <2>6. Told'
    BY <1>1, <1>2, <1>4, <2>5 DEF Told, Reachable
  <2>7. Watched' /\ Heard' /\ (First => Reached)'
    BY <1>1, <1>2, <1>3, <1>4, <2>3 DEF Watched, Heard, Reached, LockPC
  <2> QED BY <2>4, <2>6, <2>7 DEF ConnectInv
<1>5. CASE ~valid /\ daemon.up /\ service' = daemon.epoch /\ Goto(t, "watch") /\ UNCHANGED lock
  <2>1. Kept(t) /\ thread'[t].at = "watch"
    BY <1>5, GotoStep DEF Steps, Moved
  <2>2. /\ \A u \in Threads : thread'[u].at \in LockPC <=> lock' = u
        /\ \A u \in Threads \ {t} : thread[u].at \notin LockPC /\ thread'[u] = thread[u]
    BY <1>1, <1>2, <1>5, <2>1, LockKept DEF LockPC
  <2>3. daemon.epoch \in Nat
    BY ClientAssumption DEF TypeOK, Daemon
  <2>4. Locked'
    BY <1>1, <1>2, <1>5, <2>2, <2>3 DEF Locked
  <2>5. Told'
    BY <1>2, <1>5, <2>1 DEF Told, Reachable
  <2>6. \A u \in Threads : thread'[u].at \notin {"callback", "valid"}
    BY <2>1, <2>2 DEF LockPC
  <2>7. Watched'
    BY <1>1, <1>2, <1>3, <1>5, <2>6 DEF Watched
  <2>8. Heard' /\ (First => Reached)'
    BY <1>2, <1>3, <1>5 DEF Heard, First, Reached
  <2> QED BY <2>4, <2>5, <2>7, <2>8 DEF ConnectInv
<1>6. CASE ~valid /\ ~daemon.up /\ service' = None /\ InitFails(t)
  <2>1. Kept(t) /\ lock' = None /\ thread'[t].at \in {"lock", "idle"}
    BY <1>6, InitFailsStep, IdleFrame DEF Moved
  <2>2. \A u \in Threads : thread'[u].at \in LockPC <=> lock' = u
    BY <1>1, <1>2, <2>1, LockKept DEF LockPC
  <2>3. Locked'
    BY <1>1, <1>2, <1>6, <2>2 DEF Locked
  <2>4. Told'
    BY <1>1, <1>2, <1>6 DEF Told, Locked, Reachable
  <2>5. Watched' /\ Heard' /\ (First => Reached)'
    BY <1>2, <1>3, <1>6, NoneApart DEF Watched, Heard, First
  <2> QED BY <2>3, <2>4, <2>5 DEF ConnectInv
<1> QED
  BY <1>4, <1>5, <1>6 DEF Lookup

\* InitTeecService gives up a cadaemon that died meanwhile.
LEMMA GiveUpConnect ==
  ASSUME TypeOK, ConnectInv, NEW t \in Threads, thread[t].at \in {"watch", "callback"},
         ~Reachable, service' = None, InitFails(t),
         UNCHANGED <<daemon, valid, news, midInit>>
  PROVE  ConnectInv'
<1>1. Locked /\ Told /\ Watched /\ Heard /\ (First => Reached)
  BY DEF ConnectInv
<1>2. Kept(t) /\ lock' = None /\ thread'[t].at \in {"lock", "idle"}
  BY InitFailsStep, IdleFrame DEF Moved
<1>3. \A u \in Threads : thread'[u].at \in LockPC <=> lock' = u
  BY <1>1, <1>2, LockKept DEF LockPC
<1>4. Locked'
  BY <1>1, <1>3 DEF Locked
<1>5. ~First /\ ~First'
  BY <1>1 DEF First, Reached, Reachable
<1>6. service' # 0
  BY NoneApart
<1>7. Told'
  <2>1. daemon.epoch # None
    BY ClientAssumption DEF TypeOK, Daemon
  <2> QED BY <1>1, <2>1 DEF Told, Reachable
<1>8. Watched' /\ Heard' /\ (First => Reached)'
  BY <1>5, <1>6 DEF Watched, Heard
<1> QED
  BY <1>4, <1>7, <1>8 DEF ConnectInv

LEMMA AddCaDeathRecipientConnect ==
  ASSUME TypeOK, ConnectInv, NEW t \in Threads, AddCaDeathRecipient(t)
  PROVE  ConnectInv'
<1>1. Locked /\ Told /\ Watched /\ Heard /\ (First => Reached)
  BY DEF ConnectInv
<1>2. /\ thread[t].at = "watch" /\ thread[t].at \in LockPC
      /\ UNCHANGED <<daemon, valid, news, midInit>>
  BY DEF AddCaDeathRecipient, At, LockPC
<1>3. CASE /\ Goto(t, "callback") /\ UNCHANGED <<service, lock>>
           /\ \/ notifier.made /\ UNCHANGED notifier
              \/ Reachable /\ notifier' = [made |-> TRUE, watches |-> service]
  <2>1. Kept(t) /\ thread'[t].at = "callback"
    BY <1>3, GotoStep DEF Steps, Moved
  <2>2. /\ \A u \in Threads : thread'[u].at \in LockPC <=> lock' = u
        /\ \A u \in Threads \ {t} : thread[u].at \notin LockPC /\ thread'[u] = thread[u]
    BY <1>1, <1>2, <1>3, <2>1, LockKept DEF LockPC
  <2>3. Locked'
    BY <1>1, <1>2, <1>3, <2>2 DEF Locked
  <2>4. Told'
    BY <1>1, <1>2, <1>3, <2>1 DEF Told, Reachable
  <2>5. (First' <=> First) /\ (First => service = 0)
    BY <1>1, <1>2 DEF First, Reached
  <2>6. notifier'.made /\ (First => notifier'.watches = 0)
    BY <1>1, <1>3, <2>5 DEF Watched
  <2>7. Watched'
    BY <2>5, <2>6 DEF Watched
  <2>8. Heard'
    BY <1>1, <1>2, <1>3, <2>5 DEF Heard
  <2>9. (First => Reached)'
    BY <1>1, <1>2, <1>3, <2>5 DEF Reached
  <2> QED BY <2>3, <2>4, <2>7, <2>8, <2>9 DEF ConnectInv
<1>4. CASE ~Reachable /\ service' = None /\ InitFails(t)
  BY <1>2, <1>4, GiveUpConnect
<1> QED
  BY <1>3, <1>4 DEF AddCaDeathRecipient

LEMMA SetCallBackConnect ==
  ASSUME TypeOK, ConnectInv, NEW t \in Threads, SetCallBack(t)
  PROVE  ConnectInv'
<1>1. Locked /\ Told /\ Watched /\ Heard /\ (First => Reached)
  BY DEF ConnectInv
<1>2. /\ thread[t].at = "callback" /\ thread[t].at \in LockPC
      /\ UNCHANGED <<valid, notifier, news, midInit>>
  BY DEF SetCallBack, At, LockPC
<1>3. CASE /\ Reachable /\ daemon' = [daemon EXCEPT !.known = TRUE]
           /\ Goto(t, "valid") /\ UNCHANGED <<service, lock>>
  <2>1. Kept(t) /\ thread'[t].at = "valid"
    BY <1>3, GotoStep DEF Steps, Moved
  <2>2. /\ \A u \in Threads : thread'[u].at \in LockPC <=> lock' = u
        /\ \A u \in Threads \ {t} : thread[u].at \notin LockPC /\ thread'[u] = thread[u]
    BY <1>1, <1>2, <1>3, <2>1, LockKept DEF LockPC
  <2>3. /\ daemon'.epoch = daemon.epoch /\ daemon'.up = daemon.up /\ daemon'.known
        /\ daemon'.fds = daemon.fds /\ daemon'.blocks = daemon.blocks
    BY <1>3 DEF TypeOK, Daemon
  <2>4. Locked'
    BY <1>1, <1>2, <1>3, <2>2, <2>3 DEF Locked
  <2>5. Told'
    BY <1>3, <2>3 DEF Told, Reachable
  <2>6. First' <=> First
    BY <2>3 DEF First
  <2>7. \A u \in Threads \ {t} : thread'[u].at \notin {"watch", "callback", "valid"}
    BY <2>2 DEF LockPC
  <2>8. Watched'
    BY <1>1, <1>2, <2>1, <2>6, <2>7 DEF Watched
  <2>9. Heard'
    BY <1>1, <1>2, <1>3, <2>6 DEF Heard
  <2>10. (First => Reached)'
    BY <1>1, <1>2, <1>3, <2>6 DEF Reached
  <2> QED BY <2>4, <2>5, <2>8, <2>9, <2>10 DEF ConnectInv
<1>4. CASE ~Reachable /\ service' = None /\ InitFails(t) /\ UNCHANGED daemon
  BY <1>2, <1>4, GiveUpConnect
<1> QED
  BY <1>3, <1>4 DEF SetCallBack

LEMMA SetValidConnect ==
  ASSUME TypeOK, ConnectInv, NEW t \in Threads, SetValid(t)
  PROVE  ConnectInv'
<1>1. Locked /\ Told /\ Watched /\ Heard /\ (First => Reached)
  BY DEF ConnectInv
<1>2. /\ thread[t].at = "valid" /\ thread[t].at \in LockPC /\ Goto(t, "send")
      /\ lock' = None /\ valid' = TRUE
      /\ UNCHANGED <<daemon, service, notifier, news, midInit>>
  BY DEF SetValid, At, LockPC
<1>3. Kept(t) /\ thread'[t].at = "send"
  BY <1>2, GotoStep DEF Steps, Moved
<1>4. /\ \A u \in Threads : thread'[u].at \in LockPC <=> lock' = u
      /\ \A u \in Threads \ {t} : thread[u].at \notin LockPC /\ thread'[u] = thread[u]
  BY <1>1, <1>2, <1>3, LockKept DEF LockPC
<1>5. (First' <=> First) /\ (Reachable' <=> Reachable)
  BY <1>2 DEF First, Reachable
<1>6. Locked'
  BY <1>1, <1>2, <1>4 DEF Locked
<1>7. \A u \in Threads : thread[u].at \notin {"watch", "callback"}
  BY <1>2, <1>4 DEF LockPC
<1>8. Told'
  BY <1>1, <1>2, <1>5, <1>7 DEF Told
<1>9. \A u \in Threads : thread'[u].at \notin LockPC
  BY <1>2, <1>4, NoneApart
<1>10. Watched'
  BY <1>1, <1>2, <1>5, <1>9 DEF Watched, LockPC
<1>11. Heard'
  BY <1>1, <1>2, <1>5 DEF Heard
<1>12. (First => Reached)'
  BY <1>1, <1>2, <1>5 DEF Reached
<1> QED
  BY <1>6, <1>8, <1>10, <1>11, <1>12 DEF ConnectInv

LEMMA OnRemoteDiedConnect ==
  ASSUME TypeOK, ConnectInv, OnRemoteDied
  PROVE  ConnectInv'
<1>1. UNCHANGED <<daemon, service, notifier, lock, thread, midInit>> /\ valid' = FALSE
  BY DEF OnRemoteDied
<1>2. Locked' /\ Told'
  BY <1>1 DEF ConnectInv, Locked, Told, Reachable
<1>3. Watched' /\ Heard' /\ (First => Reached)'
  BY <1>1 DEF ConnectInv, Watched, Heard, Reached, First
<1> QED
  BY <1>2, <1>3 DEF ConnectInv

LEMMA KillConnect ==
  ASSUME TypeOK, ConnectInv, Kill
  PROVE  ConnectInv'
<1>1. Locked /\ Told /\ Watched /\ Heard /\ (First => Reached)
  BY DEF ConnectInv
<1>2. /\ UNCHANGED <<valid, service, notifier, lock, thread>> /\ daemon.up
      /\ daemon.epoch < MaxCrashes
      /\ news' = (news \/ notifier.watches = daemon.epoch)
      /\ midInit' = (midInit \/ lock # None)
  BY DEF Kill
<1>3. /\ daemon'.epoch = daemon.epoch /\ ~daemon'.up /\ daemon'.fds = {} /\ daemon'.blocks = {}
  BY DEF Kill, TypeOK, Daemon
<1>4. Locked'
  BY <1>1, <1>2, <1>3 DEF Locked
<1>5. Told'
  BY <1>3 DEF Told, Reachable
<1>6. ~First'
  BY <1>3 DEF First
<1>7. ASSUME ~midInit', service = 0
      PROVE  /\ valid => news'
             /\ \A u \in Threads : thread[u].at \notin {"watch", "callback", "valid"}
  <2>1. lock = None /\ ~midInit
    BY <1>2, <1>7
  <2>2. \A u \in Threads : thread[u].at \notin LockPC
    BY <1>1, <2>1, NoneApart DEF Locked
  <2>3. First \/ (valid => news)
    BY <1>1, <1>7, <2>1 DEF Heard
  <2>4. First /\ valid => notifier.watches = daemon.epoch
    BY <1>1 DEF Watched, First
  <2> QED BY <1>2, <2>2, <2>3, <2>4 DEF LockPC
<1>8. Heard'
  BY <1>2, <1>7 DEF Heard
<1> QED
  BY <1>4, <1>5, <1>6, <1>8 DEF ConnectInv, Watched

LEMMA RestartConnect ==
  ASSUME TypeOK, ConnectInv, Restart
  PROVE  ConnectInv'
<1>1. Locked /\ Told /\ Watched /\ Heard /\ (First => Reached)
  BY DEF ConnectInv
<1>2. UNCHANGED <<clientVars, thread, midInit>> /\ ~daemon.up /\ ~First
  BY DEF Restart, First
<1>3. daemon.epoch \in Nat /\ service \in Nat \cup {None}
  BY ClientAssumption DEF TypeOK, Daemon
<1>4. /\ daemon'.epoch = daemon.epoch + 1 /\ daemon'.up
      /\ daemon'.fds = daemon.fds /\ daemon'.blocks = daemon.blocks
  BY DEF Restart, TypeOK, Daemon
<1>5. ~First'
  BY <1>3, <1>4 DEF First
<1>6. Locked'
  BY <1>1, <1>2, <1>3, <1>4 DEF Locked
<1>7. ~Reachable'
  <2>1. service # daemon.epoch + 1
    BY <1>1, <1>3, ClientAssumption DEF Locked
  <2> QED BY <1>2, <1>4, <2>1 DEF Reachable
<1>8. Told'
  BY <1>1, <1>2, <1>4, <1>7 DEF Told, Locked
<1>9. Heard'
  BY <1>1, <1>2 DEF Heard
<1> QED
  BY <1>5, <1>6, <1>8, <1>9 DEF ConnectInv, Watched

\* The calls and the requests are quiet steps; the records of the daemon they change.
LEMMA CallConnect ==
  ASSUME CallInv, ConnectInv, NEW t \in Threads, Call(t)
  PROVE  ConnectInv'
<1>1. TypeOK
  BY DEF CallInv
<1>2. \E op \in Ops, c \in Ctxs \cup {None}, m \in Shms \cup {None}, p \in {"lock", "find"} :
        Begin(t, op, c, m, p)
  <2>1. ASSUME NEW c \in Ctxs, CallInit(t, c) \/ CallFinalize(t, c) PROVE <1>2
    BY <2>1 DEF CallInit, CallFinalize, Ops
  <2>2. ASSUME NEW c \in Ctxs, NEW m \in Shms, CallAllocate(t, c, m) PROVE <1>2
    BY <2>2 DEF CallAllocate, Ops
  <2>3. ASSUME NEW m \in Shms, CallRelease(t, m) PROVE <1>2
    <3>1. shm[m].ctx \in Ctxs \cup {None}
      BY <1>1 DEF TypeOK, Memory
    <3> QED BY <2>3, <3>1 DEF CallRelease, Ops
  <2>4. ASSUME CallAsk(t) PROVE <1>2
    BY <2>4 DEF CallAsk, Ops
  <2> QED BY <2>1, <2>2, <2>3, <2>4 DEF Call
<1>3. PICK op \in Ops, c \in Ctxs \cup {None}, m \in Shms \cup {None}, p \in {"lock", "find"} :
        Begin(t, op, c, m, p)
  BY <1>2
<1>4. Kept(t) /\ thread[t].at = "idle" /\ thread'[t].at = p
  BY <1>1, <1>3, BeginStep DEF Steps
<1>5. UNCHANGED <<daemon, clientVars, midInit>>
  BY <1>3 DEF Begin
<1>6. p \notin LockPC \cup {"send"} /\ "idle" \notin LockPC
  BY DEF LockPC
<1> QED
  BY <1>1, <1>4, <1>5, <1>6, ConnectQuiet

LEMMA RequestConnect ==
  ASSUME CallInv, ConnectInv, NEW t \in Threads, Request(t)
  PROVE  ConnectInv'
<1>1. TypeOK
  BY DEF CallInv
<1>2. \A p \in {"send", "freeall", "map", "find", "free", "idle", "lock"} : p \notin LockPC
  BY DEF LockPC
<1>3. Idle.at = "idle"
  BY IdleFrame
<1>4. CASE SendOther(t)
  <2>1. Kept(t) /\ thread'[t] = Idle
    BY <1>4, SendOtherCalls
  <2>2. UNCHANGED <<daemon, clientVars, midInit>> /\ thread[t].at = "send"
    BY <1>4 DEF SendOther, Sends, At
  <2> QED BY <1>1, <1>2, <1>3, <2>1, <2>2, ConnectQuiet
<1>5. CASE SendInit(t)
  <2>1. /\ Kept(t) /\ thread'[t] = Idle /\ thread[t].at = "send"
        /\ UNCHANGED <<clientVars, midInit>>
    BY <1>5, SendInitStep
  <2>2. /\ daemon'.epoch = daemon.epoch /\ daemon'.up = daemon.up /\ daemon'.known = daemon.known
        /\ (daemon'.fds \subseteq daemon.fds /\ daemon'.blocks \subseteq daemon.blocks) \/ Reachable
    <3>1. CASE UNCHANGED daemon
      BY <3>1
    <3>2. ASSUME NEW fd \in Fds, daemon' = [daemon EXCEPT !.fds = @ \cup {fd}], Reachable
          PROVE  <2>2
      BY <1>1, <3>2 DEF TypeOK, Daemon
    <3> QED BY <1>5, <3>1, <3>2, SendInitStep
  <2> QED BY <1>1, <1>2, <1>3, <2>1, <2>2, ConnectQuiet
<1>6. CASE SendFinalize(t)
  <2>1. /\ Kept(t) /\ thread'[t].at = "freeall" /\ thread[t].at = "send"
        /\ UNCHANGED <<clientVars, midInit>>
        /\ daemon'.up = daemon.up /\ daemon'.epoch = daemon.epoch /\ daemon'.known = daemon.known
        /\ Reachable \/ UNCHANGED daemon
    BY <1>6, SendFinalizeStep DEF Moved
  <2> QED BY <1>1, <1>2, <2>1, ConnectQuiet
<1>7. CASE FreeAllShareMemoryInContext(t)
  <2>1. /\ Kept(t) /\ thread'[t] = Idle /\ thread[t].at = "freeall"
        /\ UNCHANGED <<daemon, clientVars, midInit>>
    BY <1>7, FreeAllStep
  <2> QED BY <1>1, <1>2, <1>3, <2>1, ConnectQuiet
<1>8. CASE SendAllocate(t)
  <2>1. Kept(t) /\ thread[t].at = "send" /\ UNCHANGED <<clientVars, midInit>>
    BY <1>8, SendAllocateStep
  <2>2. /\ thread'[t].at \in {"idle", "map"}
        /\ daemon'.epoch = daemon.epoch /\ daemon'.up = daemon.up /\ daemon'.known = daemon.known
        /\ (daemon'.fds \subseteq daemon.fds /\ daemon'.blocks \subseteq daemon.blocks) \/ Reachable
    <3>1. CASE thread'[t] = Idle /\ UNCHANGED daemon
      BY <1>3, <3>1
    <3>2. ASSUME NEW b, daemon' = [daemon EXCEPT !.blocks = @ \cup {b}], Reachable, Moved(t, "map")
          PROVE  <2>2
      BY <1>1, <3>2 DEF TypeOK, Daemon, Moved
    <3> QED BY <1>8, <3>1, <3>2, SendAllocateStep
  <2> QED BY <1>1, <1>2, <2>1, <2>2, ConnectQuiet
<1>9. CASE MapSharedMemory(t)
  <2>1. /\ Kept(t) /\ thread'[t] = Idle /\ thread[t].at = "map"
        /\ UNCHANGED <<daemon, clientVars, midInit>>
    BY <1>9, MapStep
  <2> QED BY <1>1, <1>2, <1>3, <2>1, ConnectQuiet
<1>10. CASE FindShareMemOffset(t)
  <2>1. /\ Kept(t) /\ thread'[t].at = "free" /\ thread[t].at = "find"
        /\ UNCHANGED <<daemon, clientVars, midInit>>
    BY <1>10, FindStep DEF Moved
  <2> QED BY <1>1, <1>2, <2>1, ConnectQuiet
<1>11. CASE FreeShareMem(t)
  <2>1. /\ Kept(t) /\ thread'[t].at = "lock" /\ thread[t].at = "free"
        /\ UNCHANGED <<daemon, clientVars, midInit>>
    BY <1>11, FreeStep DEF Moved
  <2> QED BY <1>1, <1>2, <2>1, ConnectQuiet
<1>12. CASE SendRelease(t)
  <2>1. /\ Kept(t) /\ thread'[t] = Idle /\ thread[t].at = "send"
        /\ UNCHANGED <<clientVars, midInit>>
        /\ daemon'.up = daemon.up /\ daemon'.epoch = daemon.epoch /\ daemon'.known = daemon.known
        /\ daemon'.fds = daemon.fds /\ daemon'.blocks \subseteq daemon.blocks
    BY <1>12, SendReleaseStep
  <2> QED BY <1>1, <1>2, <1>3, <2>1, ConnectQuiet
<1> QED
  BY <1>4, <1>5, <1>6, <1>7, <1>8, <1>9, <1>10, <1>11, <1>12 DEF Request

LEMMA StepConnect ==
  ASSUME CallInv, ConnectInv, Next
  PROVE  ConnectInv'
<1>1. TypeOK
  BY DEF CallInv
<1>2. ASSUME NEW t \in Threads, InitTeecService(t) PROVE ConnectInv'
  BY <1>1, <1>2, LockConnect, LookupConnect, AddCaDeathRecipientConnect, SetCallBackConnect,
     SetValidConnect DEF InitTeecService
<1>3. ASSUME NEW t \in Threads, NullService(t) PROVE ConnectInv'
  <2>1. UNCHANGED <<daemon, clientVars, thread, midInit>>
    BY <1>3 DEF NullService
  <2> QED BY <2>1 DEF ConnectInv, Locked, Told, Watched, Heard, Reached, First, Reachable
<1>4. CASE OnRemoteDied \/ Kill \/ Restart
  BY <1>1, <1>4, OnRemoteDiedConnect, KillConnect, RestartConnect
<1> QED
  BY <1>2, <1>3, <1>4, RequestConnect, CallConnect DEF Next, Step

\* The invariant of the client: what each call works on and what it is bound to.
ClientInv == CallInv /\ ConnectInv

LEMMA InitClient == Init => ClientInv
<1> SUFFICES ASSUME Init PROVE ClientInv
  OBVIOUS
<1>0. \A t \in Threads : thread[t] = Idle
  BY DEF Init
<1>1. TypeOK
  <2>1. daemon \in Daemon
    BY ClientAssumption DEF Init, Daemon
  <2>2. NoShm \in Memory
    BY DEF NoShm, Memory
  <2>3. 0 \in 0 .. MaxCrashes
    BY ClientAssumption
  <2>4. thread \in [Threads -> Frame]
    BY IdleFrame DEF Init
  <2>5. zeros \in Seq(Offsets)
    BY DEF Init
  <2> QED BY <2>1, <2>2, <2>4, <2>5 DEF Init, TypeOK
<1>2. Calls
  BY <1>0, IdleFrame DEF Calls, CallOn, CallsApart
<1>3. Tables
  <2>1. \A m \in Shms : shm[m].ctx = None /\ shm[m].addr = None
    BY DEF Init, NoShm
  <2> QED BY <2>1 DEF Init, Tables
<1>4. ConnectInv
  <2>1. \A t \in Threads : thread[t].at = "idle"
    BY <1>0, IdleFrame
  <2>2. /\ daemon.up /\ daemon.epoch = 0 /\ daemon.fds = {}
        /\ service = None /\ ~valid /\ lock = None /\ ~notifier.made
    BY DEF Init
  <2> QED BY <2>1, <2>2, NoneApart
          DEF ConnectInv, Locked, Told, Watched, Heard, Reached, First, Reachable, LockPC
<1> QED
  BY <1>1, <1>2, <1>3, <1>4 DEF ClientInv, CallInv

LEMMA ClientInvariant == Spec => []ClientInv
<1>1. ASSUME ClientInv, [Next]_vars PROVE ClientInv'
  <2>1. CASE Next
    <3>1. ~daemon.up => daemon.epoch < MaxCrashes
      BY <1>1 DEF ClientInv, ConnectInv, Locked
    <3> QED BY <1>1, <2>1, <3>1, StepCalls, StepConnect DEF ClientInv
  <2>2. CASE UNCHANGED vars
    <3>1. CallInv'
      BY <1>1, <2>2 DEF vars, ClientInv, CallInv, TypeOK, Calls, CallOn, CallsApart, Tables
    <3>2. ConnectInv'
      BY <1>1, <2>2 DEF vars, ClientInv, ConnectInv, Locked, Told, Watched, Heard, Reached, First, Reachable
    <3> QED BY <3>1, <3>2 DEF ClientInv
  <2> QED BY <1>1, <2>1, <2>2
<1> QED
  BY InitClient, <1>1, PTL DEF Spec

\* Every variable of the client library keeps its type, in whatever order its
\* threads call it and whenever cadaemon dies.
THEOREM TypeCorrect == Spec => []TypeOK
<1>1. ClientInv => TypeOK
  BY DEF ClientInv, CallInv
<1> QED
  BY <1>1, ClientInvariant, PTL

\* InitTeecService tells every cadaemon that gets to give the application a
\* descriptor of the application's death recipient (DaemonKnowsClient), for any
\* number of threads and of deaths of cadaemon.
THEOREM DaemonTold == Spec => []DaemonKnowsClient
<1>1. ASSUME ClientInv PROVE DaemonKnowsClient
  <2>1. lock = None => \A t \in Threads : thread[t].at \notin LockPC
    BY <1>1, NoneApart DEF ClientInv, ConnectInv, Locked
  <2> QED BY <1>1, <2>1 DEF ClientInv, ConnectInv, Told, DaemonKnowsClient, LockPC
<1> QED
  BY <1>1, ClientInvariant, PTL

\* The client that takes a dead first cadaemon for valid is about to hear of
\* its death (DeathHeard), unless it died while InitTeecService ran.
THEOREM DeathNotMissed == Spec => []DeathHeard
<1>1. ASSUME ClientInv PROVE DeathHeard
  BY <1>1 DEF ClientInv, ConnectInv, Heard, DeathHeard, First, Reachable
<1> QED
  BY <1>1, ClientInvariant, PTL

-----------------------------------------------------------------------------
(* The memory of the application, while the first cadaemon runs *)

\* While the first cadaemon runs a request reaches it.
LEMMA FirstReached ==
  ASSUME ClientInv, First, NEW t \in Threads, thread[t].at = "send"
  PROVE  Reachable
BY DEF ClientInv, ConnectInv, Reached, First, Reachable

\* Where somebody is in FreeAllShareMemoryInContext.
LEMMA DroppedKept ==
  ASSUME NEW t \in Threads, Kept(t), thread[t].at # "freeall", thread'[t].at # "freeall",
         NEW c
  PROVE  Dropped(c)' <=> Dropped(c)
BY DEF Dropped, Kept

\* A call that finalizes c is the only one on c, and no context is made meanwhile.
LEMMA DroppedFacts ==
  ASSUME ClientInv, InitApart, NEW c, Dropped(c), NEW t \in Threads
  PROVE  /\ thread[t].op # "init"
         /\ thread[t].op \in {"alloc", "rel"} => thread[t].c # c
<1>1. PICK u \in Threads : thread[u].at = "freeall" /\ thread[u].c = c
  BY DEF Dropped
<1>2. CallOn(u) /\ thread[u] \in Frame /\ CallOn(t) /\ thread[t] \in Frame /\ CallsApart
  BY CallFacts DEF ClientInv, CallInv, Calls
<1>3. thread[u].op = "fin"
  BY <1>1, <1>2 DEF CallOn, Connecting, LockPC, Frame, Ops
<1>4. thread[t].op # "ask" => thread[t].at # "idle"
  BY <1>2 DEF CallOn, Connecting, LockPC, Frame, Ops
<1> QED
  BY <1>1, <1>2, <1>3, <1>4 DEF CallsApart

\* The releases that run keep their blocks.
LEMMA ReleasesKept ==
  ASSUME Releases, NEW t \in Threads, Kept(t),
         \A u \in Threads : thread[u].op = "rel" /\ thread'[u].op = "rel" =>
           block'[thread[u].m] = block[thread[u].m] /\ ctx'[thread[u].c] = ctx[thread[u].c],
         \/ thread'[t].op # "rel" \/ thread'[t].at = "find"
         \/ /\ thread[t].at # "find" /\ thread'[t].op = thread[t].op
            /\ thread'[t].c = thread[t].c /\ thread'[t].m = thread[t].m
            /\ thread'[t].off = thread[t].off
  PROVE  Releases'
<1>1. ASSUME NEW u \in Threads, thread'[u].op = "rel", thread'[u].at # "find"
      PROVE  /\ thread[u].op = "rel" /\ thread[u].at # "find"
             /\ thread'[u].c = thread[u].c /\ thread'[u].m = thread[u].m
             /\ thread'[u].off = thread[u].off
  BY <1>1 DEF Kept
<1>2. ASSUME NEW u \in Threads, thread'[u].op = "rel", thread'[u].at # "find"
      PROVE  /\ block'[thread'[u].m] # None
             /\ block'[thread'[u].m] = <<ctx'[thread'[u].c], thread'[u].off>>
  <2>1. block[thread[u].m] # None /\ block[thread[u].m] = <<ctx[thread[u].c], thread[u].off>>
    BY <1>1, <1>2 DEF Releases
  <2>2. block'[thread[u].m] = block[thread[u].m] /\ ctx'[thread[u].c] = ctx[thread[u].c]
    BY <1>1, <1>2
  <2> QED BY <1>1, <1>2, <2>1, <2>2
<1> QED
  BY <1>2 DEF Releases

\* A step that moves thread t and changes neither memory nor descriptors.
LEMMA MemQuiet ==
  ASSUME MemInv, NEW t \in Threads, Kept(t),
         UNCHANGED <<table, ctx, shm, block, orphans, crossed>>,
         daemon'.fds = daemon.fds, daemon'.blocks = daemon.blocks,
         thread[t].at # "freeall", thread'[t].at # "freeall",
         \/ thread'[t].op # "rel" \/ thread'[t].at = "find"
         \/ /\ thread[t].at # "find" /\ thread'[t].op = thread[t].op
            /\ thread'[t].c = thread[t].c /\ thread'[t].m = thread[t].m
            /\ thread'[t].off = thread[t].off
  PROVE  MemInv'
<1>1. \A c : Dropped(c)' <=> Dropped(c)
  BY DroppedKept
<1>2. Descriptors' /\ Entries'
  BY <1>1 DEF MemInv, Descriptors, Entries
<1>3. ~crossed => Releases'
  BY ReleasesKept DEF MemInv, Owned
<1>4. ~crossed => Blocks'
  BY <1>1 DEF MemInv, Owned, Blocks
<1> QED
  BY <1>2, <1>3, <1>4 DEF MemInv, Owned

LEMMA ConnectMem ==
  ASSUME ClientInv, MemInv, NEW t \in Threads, InitTeecService(t)
  PROVE  MemInv'
<1>1. TypeOK
  BY DEF ClientInv, CallInv
<1>2. /\ Kept(t) /\ thread[t].at \in {"lock"} \cup LockPC
      /\ UNCHANGED <<table, ctx, shm, block, orphans, crossed>>
      /\ daemon'.fds = daemon.fds /\ daemon'.blocks = daemon.blocks
  BY <1>1, ConnectFacts
<1>3. CASE thread'[t] = Idle
  BY <1>2, <1>3, IdleFrame, MemQuiet DEF LockPC
<1>4. ASSUME NEW p \in Connecting, Moved(t, p), thread'[t].off = thread[t].off PROVE MemInv'
  BY <1>2, <1>4, MemQuiet DEF Moved, Connecting, LockPC
<1> QED
  BY <1>1, <1>3, <1>4, ConnectFacts

LEMMA BeginMem ==
  ASSUME ClientInv, MemInv, NEW t \in Threads, NEW op \in Ops, NEW c \in Ctxs \cup {None},
         NEW m \in Shms \cup {None}, NEW p \in {"lock", "find"}, Begin(t, op, c, m, p),
         UNCHANGED shm, op = "rel" => p = "find"
  PROVE  MemInv'
<1>1. TypeOK
  BY DEF ClientInv, CallInv
<1>2. Kept(t) /\ thread[t].at = "idle" /\ thread'[t].at = p /\ thread'[t].op = op
  BY <1>1, BeginStep DEF Steps
<1>3. UNCHANGED <<table, ctx, block, orphans, daemon, crossed>>
  BY DEF Begin
<1> QED
  BY <1>2, <1>3, MemQuiet

LEMMA CallAllocateMem ==
  ASSUME ClientInv, MemInv, NEW t \in Threads, NEW c \in Ctxs, NEW m \in Shms,
         CallAllocate(t, c, m)
  PROVE  MemInv'
<1>1. TypeOK
  BY DEF ClientInv, CallInv
<1>2. /\ Begin(t, "alloc", c, m, "lock") /\ shm[m].addr = None /\ block[m] = None
      /\ shm' = [shm EXCEPT ![m].ctx = c]
  BY DEF CallAllocate
<1>3. Kept(t) /\ thread[t].at = "idle" /\ thread'[t].at = "lock" /\ thread'[t].op = "alloc"
  BY <1>1, <1>2, BeginStep DEF Steps, Ops
<1>4. UNCHANGED <<table, ctx, block, orphans, daemon, crossed>>
  BY <1>2 DEF Begin
<1>5. shm'[m].addr = None /\ \A n \in Shms \ {m} : shm'[n] = shm[n]
  <2>1. shm \in [Shms -> Memory] /\ shm[m] \in Memory
    BY <1>1 DEF TypeOK
  <2> QED BY <1>2, <2>1 DEF Memory
<1>6. \A d : Dropped(d)' <=> Dropped(d)
  BY <1>3, DroppedKept
<1>7. Descriptors'
  BY <1>4, <1>6 DEF MemInv, Descriptors
<1>8. Entries'
  BY <1>4, <1>5, ClientAssumption DEF MemInv, Entries
<1>9. ~crossed => Releases'
  BY <1>3, <1>4, ReleasesKept DEF MemInv, Owned
<1>10. \A n \in Shms : block'[n] # None => shm'[n] = shm[n] /\ block'[n] = block[n]
  BY <1>2, <1>4, <1>5
<1>11. ~crossed => Blocks'
  BY <1>4, <1>6, <1>10 DEF MemInv, Owned, Blocks
<1> QED
  BY <1>4, <1>7, <1>8, <1>9, <1>11 DEF MemInv, Owned

LEMMA CallMem ==
  ASSUME ClientInv, MemInv, NEW t \in Threads, Call(t)
  PROVE  MemInv'
<1>1. TypeOK
  BY DEF ClientInv, CallInv
<1>2. ASSUME NEW c \in Ctxs, CallInit(t, c) \/ CallFinalize(t, c) PROVE MemInv'
  <2>1. \E op \in {"init", "fin"} : Begin(t, op, c, None, "lock") /\ UNCHANGED shm
    BY <1>2 DEF CallInit, CallFinalize
  <2> QED BY <2>1, BeginMem DEF Ops
<1>3. ASSUME NEW m \in Shms, CallRelease(t, m) PROVE MemInv'
  <2>1. Begin(t, "rel", shm[m].ctx, m, "find") /\ UNCHANGED shm
    BY <1>3 DEF CallRelease
  <2>2. shm[m].ctx \in Ctxs \cup {None}
    BY <1>1 DEF TypeOK, Memory
  <2> QED BY <2>1, <2>2, BeginMem DEF Ops
<1>4. ASSUME CallAsk(t) PROVE MemInv'
  BY <1>4, BeginMem DEF CallAsk, Ops
<1> QED
  BY <1>2, <1>3, <1>4, CallAllocateMem DEF Call

LEMMA SendOtherMem ==
  ASSUME ClientInv, MemInv, NEW t \in Threads, SendOther(t)
  PROVE  MemInv'
<1>1. Kept(t) /\ thread'[t] = Idle
  BY SendOtherCalls DEF ClientInv
<1>2. UNCHANGED <<table, ctx, shm, block, orphans, daemon, crossed>> /\ thread[t].at = "send"
  BY DEF SendOther, Sends, At
<1> QED
  BY <1>1, <1>2, IdleFrame, MemQuiet

\* The descriptors of memory and of blocks are those of their contexts.
LEMMA ContextsKept ==
  ASSUME ClientInv, NEW m \in Shms, shm[m].ctx # None
  PROVE  shm[m].ctx \in Ctxs /\ ctx[shm[m].ctx] \in Fds
BY DEF ClientInv, CallInv, TypeOK, Tables, Memory

LEMMA SendInitMem ==
  ASSUME ClientInv, MemInv, InitApart, NEW t \in Threads, SendInit(t)
  PROVE  MemInv'
<1> DEFINE c == thread[t].c
<1>1. CallInv /\ TypeOK
  BY DEF ClientInv, CallInv
<1>2. /\ Kept(t) /\ thread'[t] = Idle /\ thread[t].at = "send" /\ thread[t].op = "init"
      /\ c \in Ctxs /\ ctx[c] = None
      /\ UNCHANGED <<table, shm, block, orphans, crossed>>
  BY <1>1, SendInitStep
<1>3. CASE UNCHANGED <<daemon, ctx>>
  BY <1>2, <1>3, IdleFrame, MemQuiet
<1>4. ASSUME NEW fd \in Fds \ daemon.fds,
             daemon' = [daemon EXCEPT !.fds = @ \cup {fd}], ctx' = [ctx EXCEPT ![c] = fd]
      PROVE  MemInv'
  <2>1. daemon'.fds = daemon.fds \cup {fd} /\ daemon'.blocks = daemon.blocks
    BY <1>1, <1>4 DEF TypeOK, Daemon
  <2>2. ctx'[c] = fd /\ \A d \in Ctxs \ {c} : ctx'[d] = ctx[d]
    BY <1>1, <1>2, <1>4 DEF TypeOK
  <2>3. \A d : ~Dropped(d)
    BY <1>2, DroppedFacts
  <2>4. \A d : ~Dropped(d)'
    BY <1>2, <2>3, DroppedKept, IdleFrame
  <2>5. \A d \in Ctxs : ctx[d] # None => ctx[d] \in daemon.fds /\ ctx[d] # fd
    BY <2>3 DEF MemInv, Descriptors
  <2>6. Descriptors'
    BY <1>2, <2>1, <2>2, <2>4, <2>5 DEF MemInv, Descriptors
  <2>7. \A m \in Shms : shm[m].ctx # None => ctx'[shm[m].ctx] = ctx[shm[m].ctx]
    <3>1. ASSUME NEW m \in Shms, shm[m].ctx # None PROVE shm[m].ctx \in Ctxs \ {c}
      <4>1. ctx[shm[m].ctx] # None
        BY <1>1, <3>1 DEF CallInv, Tables
      <4> QED BY <1>2, <3>1, <4>1, ContextsKept
    <3> QED BY <2>2, <3>1
  <2>8. Entries'
    <3>1. \A m \in Shms : shm[m].addr # None => shm[m].ctx # None
      BY <1>1 DEF CallInv, Tables
    <3> QED BY <1>2, <2>7, <3>1, ClientAssumption DEF MemInv, Entries
  <2>9. ~crossed => Releases'
    <3>1. ASSUME NEW u \in Threads, thread[u].op = "rel" PROVE ctx'[thread[u].c] = ctx[thread[u].c]
      <4>1. thread[u].c \in Ctxs /\ ctx[thread[u].c] \in Fds
        BY <1>1, <3>1, CallFacts
      <4>2. thread[u].c # c
        BY <1>2, <4>1, ClientAssumption
      <4> QED BY <2>2, <4>1, <4>2
    <3> QED BY <1>2, <3>1, IdleFrame, ReleasesKept DEF MemInv, Owned
  <2>10. ~crossed => Blocks'
    BY <1>2, <2>1, <2>3, <2>4, <2>7 DEF MemInv, Owned, Blocks
  <2> QED BY <1>2, <2>6, <2>8, <2>9, <2>10 DEF MemInv, Owned
<1> QED
  BY <1>1, <1>3, <1>4, SendInitStep

LEMMA SendFinalizeMem ==
  ASSUME ClientInv, MemInv, First, NEW t \in Threads, SendFinalize(t)
  PROVE  MemInv'
<1> DEFINE c == thread[t].c
           fd == ctx[c]
<1>1. CallInv /\ TypeOK
  BY DEF ClientInv, CallInv
<1>2. /\ Kept(t) /\ Moved(t, "freeall") /\ thread[t].at = "send" /\ thread[t].op = "fin"
      /\ c \in Ctxs /\ fd \in Fds
      /\ UNCHANGED <<table, ctx, shm, block, crossed>>
      /\ orphans' = {b \in orphans : b[1] # fd}
  BY <1>1, SendFinalizeStep
<1>3. daemon'.fds = daemon.fds \ {fd} /\ daemon'.blocks = {b \in daemon.blocks : b[1] # fd}
  BY <1>1, <1>2, SendFinalizeStep, FirstReached
<1>4. \A d : Dropped(d)' <=> Dropped(d) \/ d = c
  BY <1>2 DEF Dropped, Kept, Moved
<1>5. fd # None
  BY <1>2, ClientAssumption
<1>6. Descriptors'
  <2>1. \A d \in Ctxs \ {c} : ctx[d] # fd
    BY <1>2, <1>5 DEF MemInv, Descriptors
  <2> QED BY <1>2, <1>3, <1>4, <2>1 DEF MemInv, Descriptors
<1>7. Entries'
  BY <1>2 DEF MemInv, Entries
<1>8. ~crossed => Releases'
  BY <1>2, ReleasesKept DEF MemInv, Owned, Moved
<1>9. ASSUME ~crossed, NEW m \in Shms, block[m] # None
      PROVE  /\ shm[m].ctx # None /\ block[m][1] = ctx[shm[m].ctx]
             /\ block[m] \in daemon'.blocks \/ Dropped(shm[m].ctx)'
             /\ block[m] \notin orphans'
  <2>1. /\ shm[m].ctx # None /\ block[m][1] = ctx[shm[m].ctx]
        /\ block[m] \in daemon.blocks \/ Dropped(shm[m].ctx)
        /\ block[m] \notin orphans
    BY <1>9 DEF MemInv, Owned, Blocks
  <2>2. shm[m].ctx \in Ctxs
    BY <2>1, ContextsKept
  <2>3. block[m][1] = fd => shm[m].ctx = c
    BY <1>2, <1>5, <2>1, <2>2 DEF MemInv, Descriptors
  <2> QED BY <1>2, <1>3, <1>4, <2>1, <2>3
<1>10. ~crossed =>
       /\ orphans' \subseteq daemon'.blocks
       /\ \A b \in daemon'.blocks : b[1] \in daemon'.fds
       /\ \A b \in daemon'.blocks : b \in orphans' \/ \E m \in Shms : block[m] = b
  BY <1>2, <1>3 DEF MemInv, Owned, Blocks
<1>11. ~crossed => Blocks'
  BY <1>2, <1>9, <1>10 DEF MemInv, Owned, Blocks
<1> QED
  BY <1>2, <1>6, <1>7, <1>8, <1>11 DEF MemInv, Owned

LEMMA FreeAllMem ==
  ASSUME ClientInv, MemInv, NEW t \in Threads, FreeAllShareMemoryInContext(t)
  PROVE  MemInv'
<1> DEFINE c == thread[t].c
           fd == ctx[c]
<1>1. CallInv /\ TypeOK
  BY DEF ClientInv, CallInv
<1>2. /\ Kept(t) /\ thread'[t] = Idle /\ thread[t].at = "freeall" /\ thread[t].op = "fin"
      /\ c \in Ctxs /\ fd \in Fds
      /\ UNCHANGED <<daemon, orphans, crossed>>
      /\ table' = {e \in table : e.fd # fd}
      /\ ctx'[c] = None
      /\ \A d \in Ctxs \ {c} : ctx'[d] = ctx[d]
      /\ \A m \in Shms : /\ shm[m].ctx = c => shm'[m] = NoShm /\ block'[m] = None
                         /\ shm[m].ctx # c => shm'[m] = shm[m] /\ block'[m] = block[m]
  BY <1>1, FreeAllStep
<1>3. fd # None /\ fd \notin daemon.fds /\ \A d \in Ctxs \ {c} : ctx[d] # fd
  BY <1>2, ClientAssumption DEF MemInv, Descriptors, Dropped
<1>4. \A d : d # c => (Dropped(d)' <=> Dropped(d))
  BY <1>2, IdleFrame DEF Dropped, Kept
<1>5. ASSUME NEW d, Dropped(d)' PROVE Dropped(d)
  BY <1>2, <1>5, IdleFrame DEF Dropped, Kept
<1>6. Descriptors'
  <2>1. ASSUME NEW d \in Ctxs, ctx'[d] # None PROVE d # c /\ (ctx'[d] \in daemon'.fds \/ Dropped(d)')
    BY <1>2, <1>4, <2>1 DEF MemInv, Descriptors
  <2>2. ASSUME NEW d \in Ctxs, Dropped(d)' PROVE ctx'[d] \notin daemon'.fds
    <3>1. CASE d = c
      <4>1. None \notin daemon.fds
        BY <1>1, ClientAssumption DEF TypeOK, Daemon
      <4> QED BY <1>2, <3>1, <4>1
    <3>2. CASE d # c
      BY <1>2, <1>5, <2>2, <3>2 DEF MemInv, Descriptors
    <3> QED BY <3>1, <3>2
  <2>3. ASSUME NEW d \in Ctxs, NEW g \in Ctxs, ctx'[d] = ctx'[g], ctx'[d] # None PROVE d = g
    BY <1>2, <2>3 DEF MemInv, Descriptors
  <2> QED BY <2>1, <2>2, <2>3 DEF Descriptors
<1>7. ASSUME NEW m \in Shms, shm'[m] # NoShm \/ block'[m] # None
      PROVE  /\ shm'[m] = shm[m] /\ block'[m] = block[m] /\ shm[m].ctx # c
             /\ shm[m].ctx # None => ctx'[shm[m].ctx] = ctx[shm[m].ctx] /\ ctx[shm[m].ctx] # fd
  <2>1. shm'[m] = shm[m] /\ block'[m] = block[m] /\ shm[m].ctx # c
    BY <1>2, <1>7
  <2>2. shm[m].ctx # None => shm[m].ctx \in Ctxs
    BY ContextsKept
  <2> QED BY <1>2, <1>3, <2>1, <2>2
<1>8. NoShm.addr \notin Addrs
  BY ClientAssumption DEF NoShm
<1>9. Entries'
  <2>1. ASSUME NEW m \in Shms, shm'[m].addr \in Addrs
        PROVE  \E e \in table' : /\ e.addr = shm'[m].addr /\ e.fd = ctx'[shm'[m].ctx]
                                 /\ block'[m] = <<e.fd, e.off>>
    <3>1. /\ shm'[m] = shm[m] /\ block'[m] = block[m]
          /\ shm[m].ctx # None => ctx'[shm[m].ctx] = ctx[shm[m].ctx] /\ ctx[shm[m].ctx] # fd
      BY <1>7, <1>8, <2>1
    <3>2. shm[m].ctx # None
      BY <1>1, <2>1, <3>1, ClientAssumption DEF CallInv, Tables
    <3>3. PICK e \in table : /\ e.addr = shm[m].addr /\ e.fd = ctx[shm[m].ctx]
                             /\ block[m] = <<e.fd, e.off>>
      BY <2>1, <3>1 DEF MemInv, Entries
    <3> QED BY <1>2, <3>1, <3>2, <3>3
  <2>2. ASSUME NEW m \in Shms, NEW n \in Shms, shm'[m].addr = shm'[n].addr, shm'[m].addr \in Addrs
        PROVE  m = n
    <3>1. shm'[m] = shm[m] /\ shm'[n] = shm[n]
      BY <1>7, <1>8, <2>2
    <3> QED BY <2>2, <3>1 DEF MemInv, Entries
  <2> QED BY <2>1, <2>2 DEF Entries
<1>10. ~crossed => Releases'
  <2>1. ASSUME NEW u \in Threads \ {t}, thread[u].op = "rel"
        PROVE  ctx'[thread[u].c] = ctx[thread[u].c] /\ block'[thread[u].m] = block[thread[u].m]
    <3>1. thread[u].c \in Ctxs /\ thread[u].m \in Shms /\ shm[thread[u].m].ctx = thread[u].c
      BY <1>1, <2>1, CallFacts
    <3>2. thread[u].c # c
      BY <1>1, <1>2, <2>1, CallFacts
    <3> QED BY <1>2, <3>1, <3>2
  <2> QED BY <1>2, <2>1, IdleFrame, ReleasesKept DEF MemInv, Owned
<1>11. ASSUME ~crossed, NEW m \in Shms, block'[m] # None
       PROVE  /\ shm'[m].ctx # None /\ block'[m][1] = ctx'[shm'[m].ctx]
              /\ block'[m] \in daemon'.blocks \/ Dropped(shm[m].ctx)'
              /\ block'[m] \notin orphans'
  <2>1. /\ shm'[m] = shm[m] /\ block'[m] = block[m] /\ shm[m].ctx # c
        /\ shm[m].ctx # None => ctx'[shm[m].ctx] = ctx[shm[m].ctx]
    BY <1>7, <1>11
  <2>2. /\ shm[m].ctx # None /\ block[m][1] = ctx[shm[m].ctx]
        /\ block[m] \in daemon.blocks \/ Dropped(shm[m].ctx)
        /\ block[m] \notin orphans
    BY <1>11, <2>1 DEF MemInv, Owned, Blocks
  <2>3. Dropped(shm[m].ctx) => Dropped(shm[m].ctx)'
    BY <1>4, <2>1
  <2> QED BY <1>2, <2>1, <2>2, <2>3
<1>12. ~crossed => \A m, n \in Shms : block'[m] = block'[n] /\ block'[m] # None => m = n
  BY <1>7 DEF MemInv, Owned, Blocks
<1>13. ASSUME ~crossed, NEW b \in daemon'.blocks PROVE b \in orphans' \/ \E m \in Shms : block'[m] = b
  <2>1. b \in orphans \/ \E m \in Shms : block[m] = b
    BY <1>2, <1>13 DEF MemInv, Owned, Blocks
  <2>2. ASSUME NEW m \in Shms, block[m] = b PROVE block'[m] = b
    <3>1. b[1] \in daemon.fds
      BY <1>2, <1>13 DEF MemInv, Owned, Blocks
    <3>2. b # None
      BY <1>1, <1>2, ClientAssumption DEF TypeOK, Daemon
    <3>3. b[1] = ctx[shm[m].ctx]
      BY <1>13, <2>2, <3>2 DEF MemInv, Owned, Blocks
    <3>4. shm[m].ctx # c
      BY <1>3, <3>1, <3>3
    <3> QED BY <1>2, <2>2, <3>4
  <2> QED BY <1>2, <2>1, <2>2
<1>14. ~crossed => Blocks'
  <2>1. ~crossed => orphans' \subseteq daemon'.blocks /\ \A b \in daemon'.blocks : b[1] \in daemon'.fds
    BY <1>2 DEF MemInv, Owned, Blocks
  <2> QED BY <1>11, <1>12, <1>13, <2>1 DEF Blocks
<1> QED
  BY <1>2, <1>6, <1>9, <1>10, <1>14 DEF MemInv, Owned

LEMMA SendAllocateMem ==
  ASSUME ClientInv, MemInv, NEW t \in Threads, SendAllocate(t)
  PROVE  MemInv'
<1> DEFINE m == thread[t].m
           c == thread[t].c
           fd == ctx[c]
<1>1. CallInv /\ TypeOK /\ CallOn(t)
  BY CallFacts DEF ClientInv, CallInv
<1>2. /\ Kept(t) /\ thread[t].at = "send" /\ thread[t].op = "alloc"
      /\ UNCHANGED <<table, ctx, shm, orphans, crossed>>
  BY <1>1, SendAllocateStep
<1>3. m \in Shms /\ c \in Ctxs /\ shm[m].ctx = c /\ fd \in Fds
  BY <1>1, <1>2, CallFacts
<1>4. CASE thread'[t] = Idle /\ UNCHANGED <<daemon, block>>
  BY <1>2, <1>4, IdleFrame, MemQuiet
<1>5. ASSUME NEW off \in FreeOffsets(fd), fd \in daemon.fds,
             daemon' = [daemon EXCEPT !.blocks = @ \cup {<<fd, off>>}],
             block' = [block EXCEPT ![m] = <<fd, off>>],
             Moved(t, "map")
      PROVE  MemInv'
  <2> DEFINE b == <<fd, off>>
  <2>0. off \in Offsets /\ b \notin daemon.blocks /\ b \in Fds \X Offsets /\ b[1] = fd
    BY <1>3 DEF FreeOffsets
  <2>1. b # None
    BY <2>0, ClientAssumption
  <2>2. daemon'.fds = daemon.fds /\ daemon'.blocks = daemon.blocks \cup {b}
    BY <1>1, <1>5 DEF TypeOK, Daemon
  <2>3. block'[m] = b /\ \A n \in Shms \ {m} : block'[n] = block[n]
    BY <1>1, <1>3, <1>5 DEF TypeOK
  <2>4. \A d : Dropped(d)' <=> Dropped(d)
    BY <1>2, <1>5, DroppedKept DEF Moved
  <2>5. Descriptors'
    BY <1>2, <2>2, <2>4 DEF MemInv, Descriptors
  <2>6. shm[m].addr = None /\ block[m] = None
    BY <1>1, <1>2 DEF CallOn
  <2>7. Entries'
    BY <1>2, <2>3, <2>6, ClientAssumption DEF MemInv, Entries
  <2>8. ~crossed => Releases'
    <3>1. ASSUME NEW u \in Threads, thread[u].op = "rel" PROVE block'[thread[u].m] = block[thread[u].m]
      <4>1. thread[u].m \in Shms
        BY <1>1, <3>1, CallFacts
      <4>2. u # t
        BY <1>2, <3>1
      <4>3. thread[u].m # m
        BY <1>1, <1>2, <3>1, <4>2, CallFacts
      <4> QED BY <2>3, <4>1, <4>3
    <3> QED BY <1>2, <1>5, <3>1, ReleasesKept DEF MemInv, Owned, Moved
  <2> HIDE DEF b
  <2>9. ~crossed => \A n \in Shms : block[n] # b
    <3>1. ASSUME ~crossed, NEW n \in Shms, block[n] = b PROVE FALSE
      <4>1. shm[n].ctx # None /\ fd = ctx[shm[n].ctx] /\ Dropped(shm[n].ctx)
        BY <2>0, <2>1, <3>1 DEF MemInv, Owned, Blocks
      <4>2. shm[n].ctx \in Ctxs
        BY <4>1, ContextsKept
      <4>3. fd \notin daemon.fds
        BY <4>1, <4>2 DEF MemInv, Descriptors
      <4> QED BY <1>5, <4>3
    <3> QED BY <3>1
  <2>10. ~crossed => b \notin orphans
    BY <2>0 DEF MemInv, Owned, Blocks
  <2>11. ASSUME ~crossed, NEW n \in Shms, block'[n] # None
         PROVE  /\ shm'[n].ctx # None /\ block'[n][1] = ctx'[shm'[n].ctx]
                /\ block'[n] \in daemon'.blocks \/ Dropped(shm[n].ctx)'
                /\ block'[n] \notin orphans'
    <3>1. CASE n = m
      <4>1. c # None
        BY <1>3, ClientAssumption
      <4> QED BY <1>2, <1>3, <2>0, <2>2, <2>3, <2>10, <2>11, <3>1, <4>1
    <3>2. CASE n # m
      BY <1>2, <2>2, <2>3, <2>4, <2>11, <3>2 DEF MemInv, Owned, Blocks
    <3> QED BY <3>1, <3>2
  <2>12. ~crossed => \A n, k \in Shms : block'[n] = block'[k] /\ block'[n] # None => n = k
    BY <2>3, <2>9 DEF MemInv, Owned, Blocks
  <2>13. ~crossed =>
         /\ orphans' \subseteq daemon'.blocks
         /\ \A x \in daemon'.blocks : x[1] \in daemon'.fds
    BY <1>2, <1>5, <2>0, <2>2 DEF MemInv, Owned, Blocks
  <2>14. ASSUME ~crossed, NEW x \in daemon'.blocks PROVE x \in orphans' \/ \E n \in Shms : block'[n] = x
    <3>1. CASE x = b
      BY <1>3, <2>3, <3>1
    <3>2. CASE x # b
      <4>1. x \in daemon.blocks
        BY <2>2, <3>2
      <4>2. x # None
        BY <1>1, <4>1, ClientAssumption DEF TypeOK, Daemon
      <4>3. x \in orphans \/ \E n \in Shms : block[n] = x
        BY <2>14, <4>1 DEF MemInv, Owned, Blocks
      <4> QED BY <1>2, <2>3, <2>6, <4>2, <4>3
    <3> QED BY <3>1, <3>2
  <2>15. ~crossed => Blocks'
    BY <2>11, <2>12, <2>13, <2>14 DEF Blocks
  <2> QED BY <1>2, <2>5, <2>7, <2>8, <2>15 DEF MemInv, Owned
<1> QED
  BY <1>1, <1>4, <1>5, SendAllocateStep

LEMMA MapMem ==
  ASSUME ClientInv, MemInv, InitApart, NEW t \in Threads, MapSharedMemory(t)
  PROVE  MemInv'
<1> DEFINE m == thread[t].m
           c == thread[t].c
<1>1. CallInv /\ TypeOK /\ Tables
  BY DEF ClientInv, CallInv
<1>2. /\ Kept(t) /\ thread'[t] = Idle /\ thread[t].at = "map" /\ thread[t].op = "alloc"
      /\ UNCHANGED <<daemon, ctx, crossed>>
      /\ thread[t].off \in Offsets /\ block[m] = <<ctx[c], thread[t].off>>
      /\ shm[m] = [ctx |-> c, addr |-> None]
  BY <1>1, MapStep
<1>3. m \in Shms /\ c \in Ctxs /\ shm[m].ctx = c /\ ctx[c] \in Fds
  BY <1>1, <1>2, CallFacts
<1>4. \A d : Dropped(d)' <=> Dropped(d)
  BY <1>2, DroppedKept, IdleFrame
<1>5. Descriptors'
  BY <1>2, <1>4 DEF MemInv, Descriptors
<1>6. shm[m].addr = None
  BY <1>2
<1>7. block[m] # None
  BY <1>2, <1>3, ClientAssumption
<1>8. CASE /\ orphans' = orphans \cup {block[m]}
           /\ block' = [block EXCEPT ![m] = None]
           /\ UNCHANGED <<mapped, shm, table, zeros>>
  <2>1. block'[m] = None /\ \A n \in Shms \ {m} : block'[n] = block[n]
    BY <1>1, <1>3, <1>8 DEF TypeOK
  <2>2. ~Dropped(c)
    BY <1>2, DroppedFacts
  <2>3. ~crossed => block[m] \in daemon.blocks
    BY <1>3, <1>7, <2>2 DEF MemInv, Owned, Blocks
  <2>4. Entries'
    BY <1>2, <1>6, <1>8, <2>1, ClientAssumption DEF MemInv, Entries
  <2>5. ~crossed => Releases'
    <3>1. ASSUME NEW u \in Threads, thread[u].op = "rel" PROVE block'[thread[u].m] = block[thread[u].m]
      <4>1. thread[u].m \in Shms
        BY <1>1, <3>1, CallFacts
      <4>2. u # t
        BY <1>2, <3>1
      <4>3. thread[u].m # m
        BY <1>1, <1>2, <3>1, <4>2, CallFacts
      <4> QED BY <2>1, <4>1, <4>3
    <3> QED BY <1>2, <3>1, IdleFrame, ReleasesKept DEF MemInv, Owned
  <2>6. ~crossed => \A n \in Shms \ {m} : block[n] # block[m]
    BY <1>3, <1>7 DEF MemInv, Owned, Blocks
  <2>7. ASSUME ~crossed, NEW n \in Shms, block'[n] # None
        PROVE  /\ shm'[n].ctx # None /\ block'[n][1] = ctx'[shm'[n].ctx]
               /\ block'[n] \in daemon'.blocks \/ Dropped(shm[n].ctx)'
               /\ block'[n] \notin orphans'
    <3>1. n # m /\ block'[n] = block[n] /\ block[n] # block[m]
      BY <2>1, <2>6, <2>7
    <3> QED BY <1>2, <1>4, <1>8, <2>7, <3>1 DEF MemInv, Owned, Blocks
  <2>8. ~crossed => \A n, k \in Shms : block'[n] = block'[k] /\ block'[n] # None => n = k
    BY <2>1 DEF MemInv, Owned, Blocks
  <2>9. ~crossed =>
        /\ orphans' \subseteq daemon'.blocks
        /\ \A x \in daemon'.blocks : x[1] \in daemon'.fds
    BY <1>2, <1>8, <2>3 DEF MemInv, Owned, Blocks
  <2>10. ~crossed => \A x \in daemon'.blocks : x \in orphans' \/ \E n \in Shms : block'[n] = x
    <3>1. ~crossed => \A x \in daemon.blocks : x \in orphans \/ \E n \in Shms : block[n] = x
      BY DEF MemInv, Owned, Blocks
    <3> QED BY <1>2, <1>8, <2>1, <3>1
  <2>11. ~crossed => Blocks'
    BY <2>7, <2>8, <2>9, <2>10 DEF Blocks
  <2> QED BY <1>2, <1>5, <2>4, <2>5, <2>11 DEF MemInv, Owned
<1>9. ASSUME UNCHANGED <<zeros, block, orphans>>, NEW a \in Addrs \ mapped,
             shm' = [shm EXCEPT ![m].addr = a],
             table' = table \cup {[addr |-> a, off |-> thread[t].off, fd |-> ctx[c]]}
      PROVE  MemInv'
  <2>1. /\ shm'[m].ctx = c /\ shm'[m].addr = a
        /\ \A n \in Shms \ {m} : shm'[n] = shm[n]
    <3>1. shm \in [Shms -> Memory] /\ shm[m] \in Memory
      BY <1>1, <1>3 DEF TypeOK
    <3>2. shm' = [shm EXCEPT ![m] = [shm[m] EXCEPT !.addr = a]]
      BY <1>9
    <3> QED BY <1>3, <3>1, <3>2 DEF Memory
  <2>2. \A n \in Shms : shm'[n].ctx = shm[n].ctx
    BY <1>3, <2>1
  <2>3. ~crossed => Releases'
    BY <1>2, <1>9, IdleFrame, ReleasesKept DEF MemInv, Owned
  <2>4. ~crossed => Blocks'
    BY <1>2, <1>4, <1>9, <2>2 DEF MemInv, Owned, Blocks
  <2>5. ASSUME NEW n \in Shms \ {m}, shm[n].addr \in Addrs
        PROVE  shm[n].addr # a
    <3>1. shm[n].addr \in mapped
      BY <1>1, <2>5 DEF MemInv, Entries, Tables
    <3> QED BY <3>1
  <2>6. ASSUME NEW n \in Shms, shm'[n].addr \in Addrs
        PROVE  \E e \in table' : /\ e.addr = shm'[n].addr /\ e.fd = ctx'[shm'[n].ctx]
                                 /\ block'[n] = <<e.fd, e.off>>
    <3>1. CASE n = m
      <4> DEFINE e == [addr |-> a, off |-> thread[t].off, fd |-> ctx[c]]
      <4>1. e \in table' /\ e.addr = a /\ e.fd = ctx[c] /\ e.off = thread[t].off
        BY <1>9
      <4> HIDE DEF e
      <4> QED BY <1>2, <1>9, <2>1, <3>1, <4>1
    <3>2. CASE n # m
      <4>1. shm'[n] = shm[n]
        BY <2>1, <3>2
      <4>2. PICK e \in table : /\ e.addr = shm[n].addr /\ e.fd = ctx[shm[n].ctx]
                               /\ block[n] = <<e.fd, e.off>>
        BY <2>6, <4>1 DEF MemInv, Entries
      <4>3. e \in table'
        BY <1>9
      <4> QED BY <1>2, <1>9, <4>1, <4>2, <4>3
    <3> QED BY <3>1, <3>2
  <2>7. ASSUME NEW n \in Shms, NEW k \in Shms, shm'[n].addr = shm'[k].addr, shm'[n].addr \in Addrs
        PROVE  n = k
    BY <2>1, <2>5, <2>7 DEF MemInv, Entries
  <2>8. Entries'
    BY <2>6, <2>7 DEF Entries
  <2> QED BY <1>2, <1>5, <2>3, <2>4, <2>8 DEF MemInv, Owned
<1>10. CASE /\ UNCHANGED <<mapped, table, block, orphans>>
            /\ shm' = [shm EXCEPT ![m].addr = ZeroPtr]
            /\ zeros' = Append(zeros, thread[t].off)
  <2>1. /\ shm'[m].ctx = c /\ shm'[m].addr = ZeroPtr
        /\ \A n \in Shms \ {m} : shm'[n] = shm[n]
    <3>1. shm \in [Shms -> Memory] /\ shm[m] \in Memory
      BY <1>1, <1>3 DEF TypeOK
    <3>2. shm' = [shm EXCEPT ![m] = [shm[m] EXCEPT !.addr = ZeroPtr]]
      BY <1>10
    <3> QED BY <1>3, <3>1, <3>2 DEF Memory
  <2>2. \A n \in Shms : shm'[n].ctx = shm[n].ctx
    BY <1>3, <2>1
  <2>3. ~crossed => Releases'
    BY <1>2, <1>10, IdleFrame, ReleasesKept DEF MemInv, Owned
  <2>4. ~crossed => Blocks'
    BY <1>2, <1>4, <1>10, <2>2 DEF MemInv, Owned, Blocks
  <2>5. Entries'
    <3>1. \A n \in Shms : shm'[n].addr \in Addrs => shm'[n] = shm[n]
      BY <2>1, ClientAssumption
    <3> QED BY <1>2, <1>10, <3>1 DEF MemInv, Entries
  <2> QED BY <1>2, <1>5, <2>3, <2>4, <2>5 DEF MemInv, Owned
<1> QED
  BY <1>1, <1>8, <1>9, <1>10, MapStep

LEMMA FindMem ==
  ASSUME ClientInv, MemInv, NEW t \in Threads, FindShareMemOffset(t)
  PROVE  MemInv'
<1> DEFINE m == thread[t].m
           c == thread[t].c
           a == shm[m].addr
<1>1. CallInv /\ TypeOK /\ Tables /\ CallOn(t)
  BY CallFacts DEF ClientInv, CallInv
<1>2. /\ Kept(t) /\ Moved(t, "free") /\ thread[t].at = "find" /\ thread[t].op = "rel"
      /\ thread'[t].off = OffsetAt(a)
      /\ UNCHANGED <<daemon, table, ctx, shm, block, orphans>>
      /\ crossed => crossed'
      /\ a = ZeroPtr /\ ~crossed' => <<ctx[shm[m].ctx], thread'[t].off>> = block[m]
  BY <1>1, FindStep
<1>3. \A d : Dropped(d)' <=> Dropped(d)
  BY <1>2, DroppedKept DEF Moved
<1>4. Descriptors' /\ Entries' /\ (~crossed => Blocks')
  BY <1>2, <1>3 DEF MemInv, Owned, Descriptors, Entries, Blocks
<1>5. m \in Shms /\ shm[m].ctx = c /\ ctx[c] \in Fds /\ a \in Addrs \cup {ZeroPtr}
  <2>1. m \in Shms /\ shm[m].ctx = c /\ ctx[c] \in Fds
    BY <1>1, <1>2, CallFacts
  <2> QED BY <1>1, <1>2, <2>1 DEF CallOn, TypeOK, Memory
<1>6. ASSUME ~crossed'
      PROVE  block[m] = <<ctx[c], thread'[t].off>>
  <2>1. CASE a = ZeroPtr
    BY <1>2, <1>5, <1>6, <2>1
  <2>2. CASE a \in Addrs
    <3>1. PICK e \in table : e.addr = a /\ e.fd = ctx[c] /\ block[m] = <<e.fd, e.off>>
      BY <1>5, <2>2 DEF MemInv, Entries
    <3>2. e \in EntryAt(a) /\ \A f \in EntryAt(a) : f = e
      BY <1>1, <3>1 DEF EntryAt, Tables
    <3> DEFINE f == CHOOSE x \in EntryAt(a) : TRUE
    <3>3. f = e
      BY <3>2
    <3>4. a # ZeroPtr
      BY <2>2, ClientAssumption
    <3>5. OffsetAt(a) = f.off
      BY <3>2, <3>4 DEF OffsetAt
    <3> QED BY <1>2, <3>1, <3>3, <3>5
  <2> QED BY <1>5, <2>1, <2>2
<1>7. <<ctx[c], thread'[t].off>> # None
  <2>1. thread'[t] \in Frame
    BY <1>2 DEF Kept
  <2> QED BY <1>5, <2>1, ClientAssumption DEF Frame
<1>8. ~crossed' => Releases'
  <2>1. ASSUME ~crossed, NEW u \in Threads \ {t}, thread'[u].op = "rel", thread'[u].at # "find"
        PROVE  /\ block'[thread'[u].m] # None
               /\ block'[thread'[u].m] = <<ctx'[thread'[u].c], thread'[u].off>>
    BY <1>2, <2>1 DEF MemInv, Owned, Releases, Kept
  <2>2. ASSUME ~crossed'
        PROVE  /\ block'[thread'[t].m] # None
               /\ block'[thread'[t].m] = <<ctx'[thread'[t].c], thread'[t].off>>
    BY <1>2, <1>6, <1>7, <2>2 DEF Moved
  <2> QED BY <1>2, <2>1, <2>2 DEF Releases
<1> QED
  BY <1>2, <1>4, <1>8 DEF MemInv, Owned

LEMMA FreeMem ==
  ASSUME ClientInv, MemInv, NEW t \in Threads, FreeShareMem(t)
  PROVE  MemInv'
<1> DEFINE m == thread[t].m
<1>1. CallInv /\ TypeOK /\ Tables /\ CallOn(t)
  BY CallFacts DEF ClientInv, CallInv
<1>2. /\ Kept(t) /\ Moved(t, "lock") /\ thread'[t].off = thread[t].off
      /\ thread[t].at = "free" /\ thread[t].op = "rel"
      /\ UNCHANGED <<daemon, ctx, crossed, block, orphans>>
      /\ table' = {e \in table : e.addr # shm[m].addr}
      /\ shm'[m].ctx = shm[m].ctx
      /\ EntryAt(shm[m].addr) # {} => shm'[m].addr = None
      /\ \A n \in Shms \ {m} : shm'[n] = shm[n]
  BY <1>1, FreeStep
<1>3. \A d : Dropped(d)' <=> Dropped(d)
  BY <1>2, DroppedKept DEF Moved
<1>4. m \in Shms /\ shm[m].addr \in Addrs \cup {ZeroPtr}
  <2>1. m \in Shms /\ shm[m].addr # None
    BY <1>1, <1>2 DEF CallOn
  <2> QED BY <1>1, <2>1 DEF TypeOK, Memory
<1>5. shm[m].addr \in Addrs => shm'[m].addr = None
  <2>1. shm[m].addr \in Addrs => \E e \in table : e.addr = shm[m].addr
    BY <1>4 DEF MemInv, Entries
  <2> QED BY <1>2, <2>1 DEF EntryAt
<1>6. \A n \in Shms : shm'[n].ctx = shm[n].ctx
  BY <1>2
<1>7. Descriptors'
  BY <1>2, <1>3 DEF MemInv, Descriptors
<1>8. ~crossed => Blocks'
  BY <1>2, <1>3, <1>6 DEF MemInv, Owned, Blocks
<1>9. ~crossed => Releases'
  BY <1>2, ReleasesKept DEF MemInv, Owned, Moved
<1>10. ASSUME NEW n \in Shms, shm'[n].addr \in Addrs
       PROVE  /\ n # m /\ shm'[n] = shm[n]
              /\ \E e \in table' : /\ e.addr = shm'[n].addr /\ e.fd = ctx'[shm'[n].ctx]
                                   /\ block'[n] = <<e.fd, e.off>>
  <2>1. n # m /\ shm'[n] = shm[n]
    <3>1. shm'[m].addr \notin Addrs
      BY <1>2, <1>4, <1>5, FreeStep, <1>1, ClientAssumption
    <3> QED BY <1>2, <1>10, <3>1
  <2>2. PICK e \in table : /\ e.addr = shm[n].addr /\ e.fd = ctx[shm[n].ctx]
                           /\ block[n] = <<e.fd, e.off>>
    BY <1>10, <2>1 DEF MemInv, Entries
  <2>3. shm[n].addr # shm[m].addr
    BY <1>4, <1>10, <2>1 DEF MemInv, Entries
  <2> QED BY <1>2, <2>1, <2>2, <2>3
<1>11. Entries'
  BY <1>10 DEF MemInv, Entries
<1> QED
  BY <1>2, <1>7, <1>8, <1>9, <1>11 DEF MemInv, Owned

LEMMA SendReleaseMem ==
  ASSUME ClientInv, MemInv, First, NEW t \in Threads, SendRelease(t)
  PROVE  MemInv'
<1> DEFINE m == thread[t].m
           target == <<ctx[thread[t].c], thread[t].off>>
<1>1. CallInv /\ TypeOK
  BY DEF ClientInv, CallInv
<1>2. /\ Kept(t) /\ thread'[t] = Idle /\ thread[t].at = "send" /\ thread[t].op = "rel"
      /\ m \in Shms /\ UNCHANGED <<table, ctx, crossed, orphans>>
      /\ daemon'.fds = daemon.fds
      /\ \A n \in Shms \ {m} : shm'[n] = shm[n]
      /\ block' = [block EXCEPT ![m] = None]
  BY <1>1, SendReleaseStep
<1>3. daemon'.blocks = daemon.blocks \ {target} /\ shm'[m] = NoShm
  BY <1>1, <1>2, SendReleaseStep, FirstReached
<1>4. ~crossed => block[m] # None /\ block[m] = target
  BY <1>2 DEF MemInv, Owned, Releases
<1> HIDE DEF target
<1>5. /\ block'[m] = None /\ \A n \in Shms \ {m} : block'[n] = block[n]
      /\ ~crossed => \A n \in Shms \ {m} : block[n] # target
  <2>1. ~crossed => \A n \in Shms \ {m} : block[n] # target
    BY <1>2, <1>4 DEF MemInv, Owned, Blocks
  <2> QED BY <1>1, <1>2, <2>1 DEF TypeOK
<1>6. \A d : Dropped(d)' <=> Dropped(d)
  BY <1>2, DroppedKept, IdleFrame
<1>7. Descriptors'
  BY <1>2, <1>6 DEF MemInv, Descriptors
<1>8. shm'[m].addr \notin Addrs
  BY <1>3, ClientAssumption DEF NoShm
<1>9. Entries'
  <2>1. ASSUME NEW n \in Shms, shm'[n].addr \in Addrs
        PROVE  n # m /\ shm'[n] = shm[n] /\ block'[n] = block[n]
    BY <1>2, <1>5, <1>8, <2>1
  <2> QED BY <1>2, <2>1 DEF MemInv, Entries
<1>10. ~crossed => Releases'
  <2>1. ASSUME NEW u \in Threads \ {t}, thread[u].op = "rel"
        PROVE  block'[thread[u].m] = block[thread[u].m]
    <3>1. thread[u].m \in Shms
      BY <1>1, <2>1, CallFacts
    <3>2. thread[u].m # m
      BY <1>1, <1>2, <2>1, CallFacts
    <3> QED BY <1>5, <3>1, <3>2
  <2> QED BY <1>2, <2>1, IdleFrame, ReleasesKept DEF MemInv, Owned
<1>11. ASSUME ~crossed, NEW n \in Shms, block'[n] # None
       PROVE  /\ shm'[n].ctx # None /\ block'[n][1] = ctx'[shm'[n].ctx]
              /\ block'[n] \in daemon'.blocks \/ Dropped(shm[n].ctx)'
              /\ block'[n] \notin orphans'
  <2>1. n # m /\ block'[n] = block[n] /\ block[n] # target /\ shm'[n] = shm[n]
    BY <1>2, <1>5, <1>11
  <2> QED BY <1>2, <1>3, <1>6, <1>11, <2>1 DEF MemInv, Owned, Blocks
<1>12. ~crossed => \A n, k \in Shms : block'[n] = block'[k] /\ block'[n] # None => n = k
  BY <1>5 DEF MemInv, Owned, Blocks
<1>13. ~crossed =>
       /\ orphans' \subseteq daemon'.blocks
       /\ \A x \in daemon'.blocks : x[1] \in daemon'.fds
  <2>1. ~crossed => target \notin orphans
    BY <1>2, <1>4 DEF MemInv, Owned, Blocks
  <2> QED BY <1>2, <1>3, <2>1 DEF MemInv, Owned, Blocks
<1>14. ~crossed => \A x \in daemon'.blocks : x \in orphans' \/ \E n \in Shms : block'[n] = x
  BY <1>2, <1>3, <1>4, <1>5 DEF MemInv, Owned, Blocks
<1>15. ~crossed => Blocks'
  BY <1>11, <1>12, <1>13, <1>14 DEF Blocks
<1> QED
  BY <1>2, <1>7, <1>9, <1>10, <1>15 DEF MemInv, Owned

\* The invariant of the memory holds as long as the first cadaemon runs.
LEMMA StepMem ==
  ASSUME ClientInv, InitApart, First => MemInv, Next
  PROVE  First' => MemInv'
<1> SUFFICES ASSUME First' PROVE MemInv'
  OBVIOUS
<1>0. TypeOK
  BY DEF ClientInv, CallInv
<1>1. CASE Kill \/ Restart
  <2>1. ~First'
    <3>1. daemon \in Daemon /\ daemon.epoch \in Nat
      BY <1>0, ClientAssumption DEF TypeOK, Daemon
    <3>2. CASE Kill
      BY <3>1, <3>2 DEF Kill, First, Daemon
    <3>3. CASE Restart
      BY <3>1, <3>3 DEF Restart, First, Daemon
    <3> QED BY <1>1, <3>2, <3>3
  <2> QED BY <2>1
<1>2. CASE OnRemoteDied \/ \E t \in Threads : NullService(t)
  <2>1. UNCHANGED <<daemon, table, ctx, shm, crossed, thread, block, orphans>>
    BY <1>2 DEF OnRemoteDied, NullService
  <2>2. MemInv
    BY <2>1 DEF First
  <2>3. Descriptors' /\ Entries'
    BY <2>1, <2>2 DEF MemInv, Descriptors, Entries, Dropped
  <2>4. ~crossed => Owned'
    BY <2>1, <2>2 DEF MemInv, Owned, Blocks, Releases, Dropped
  <2> QED BY <2>1, <2>3, <2>4 DEF MemInv
<1>3. ASSUME NEW t \in Threads, InitTeecService(t) PROVE MemInv'
  <2>1. First
    BY <1>0, <1>3, ConnectFacts DEF First
  <2> QED BY <1>3, <2>1, ConnectMem
<1>4. ASSUME NEW t \in Threads, Call(t) PROVE MemInv'
  <2>1. UNCHANGED daemon
    BY <1>4 DEF Call, CallInit, CallFinalize, CallAllocate, CallRelease, CallAsk, Begin
  <2>2. First
    BY <2>1 DEF First
  <2> QED BY <1>4, <2>2, CallMem
<1>5. ASSUME NEW t \in Threads, Request(t) PROVE MemInv'
  <2>1. daemon'.epoch = daemon.epoch /\ daemon'.up = daemon.up
    <3>1. CASE SendInit(t) \/ SendAllocate(t)
      <4>1. \/ UNCHANGED daemon \/ \E B : daemon' = [daemon EXCEPT !.fds = B]
            \/ \E B : daemon' = [daemon EXCEPT !.blocks = B]
        BY <3>1, Zenon DEF SendInit, SendAllocate
      <4> QED BY <1>0, <4>1 DEF TypeOK, Daemon
    <3>2. CASE SendFinalize(t) \/ SendRelease(t)
      BY <3>2, SendFinalizeStep, SendReleaseStep DEF ClientInv
    <3>3. CASE SendOther(t) \/ FreeAllShareMemoryInContext(t) \/ MapSharedMemory(t)
               \/ FindShareMemOffset(t) \/ FreeShareMem(t)
      BY <3>3 DEF SendOther, FreeAllShareMemoryInContext, MapSharedMemory, FindShareMemOffset,
                  FreeShareMem
    <3> QED BY <1>5, <3>1, <3>2, <3>3 DEF Request
  <2>2. First
    BY <2>1 DEF First
  <2> QED BY <1>5, <2>2, SendOtherMem, SendInitMem, SendFinalizeMem, FreeAllMem, SendAllocateMem,
             MapMem, FindMem, FreeMem, SendReleaseMem DEF Request
<1> QED
  BY <1>1, <1>2, <1>3, <1>4, <1>5 DEF Next, Step

LEMMA InitMem == Init => MemInv
<1> SUFFICES ASSUME Init PROVE MemInv
  OBVIOUS
<1>1. \A t \in Threads : thread[t].at = "idle" /\ thread[t].op = "ask"
  BY IdleFrame DEF Init
<1>2. \A m \in Shms : shm[m].addr \notin Addrs /\ block[m] = None
  BY ClientAssumption DEF Init, NoShm
<1>3. /\ \A c \in Ctxs : ctx[c] = None
      /\ daemon.fds = {} /\ daemon.blocks = {} /\ orphans = {}
  BY DEF Init
<1> QED
  BY <1>1, <1>2, <1>3 DEF MemInv, Owned, Descriptors, Entries, Blocks, Releases, Dropped

LEMMA MemoryInvariant ==
  ASSUME InitApart
  PROVE  Spec => [](First => MemInv)
<1>1. ASSUME ClientInv, First => MemInv, [Next]_vars PROVE First' => MemInv'
  <2>1. CASE Next
    BY <1>1, <2>1, StepMem
  <2>2. CASE UNCHANGED vars
    <3>1. (First' <=> First) /\ (MemInv' <=> MemInv)
      BY <2>2 DEF vars, First, MemInv, Owned, Descriptors, Entries, Blocks, Releases, Dropped
    <3> QED BY <1>1, <3>1
  <2> QED BY <1>1, <2>1, <2>2
<1>2. Init => (First => MemInv)
  BY InitMem
<1> QED
  BY <1>1, <1>2, ClientInvariant, PTL DEF Spec

\* As long as the first cadaemon runs, and when no context is made while
\* another one is finalized, the memory an application holds stays mapped
\* whatever its other threads release and finalize, whether or not it also
\* has memory of size 0, whose entries stay in the table (MappedKept).
THEOREM MemoryStaysMapped ==
  ASSUME InitApart
  PROVE  Spec => []MappedKept
<1>1. ASSUME ClientInv, First => MemInv PROVE MappedKept
  <2>1. mapped = {e.addr : e \in table}
    BY <1>1 DEF ClientInv, CallInv, Tables
  <2>2. First => \A m \in Shms : shm[m].addr \notin {ZeroPtr, None} => shm[m].addr \in mapped
    <3>1. \A m \in Shms : shm[m].addr \notin {ZeroPtr, None} => shm[m].addr \in Addrs
      BY <1>1 DEF ClientInv, CallInv, TypeOK, Memory
    <3> QED BY <1>1, <2>1, <3>1 DEF MemInv, Entries
  <2> QED BY <2>1, <2>2 DEF MappedKept, First
<1> QED
  BY <1>1, ClientInvariant, MemoryInvariant, PTL

\* Under the same assumption cadaemon's blocks are, between calls, those of
\* the memory the application holds: each release reaches its own block, as
\* long as no release of size 0 has found another memory's offset under
\* ZERO_SIZE_PTR, which the code does not prevent (BlocksMatch).
THEOREM BlocksAreMemory ==
  ASSUME InitApart
  PROVE  Spec => []BlocksMatch
<1>1. ASSUME ClientInv, First => MemInv PROVE BlocksMatch
  <2>1. SUFFICES ASSUME Quiet, First, ~crossed
                 PROVE  daemon.blocks \ orphans = {block[m] : m \in Shms} \ ({None} \cup orphans)
    BY DEF BlocksMatch, First
  <2>2. \A d : ~Dropped(d)
    BY <2>1 DEF Quiet, Dropped
  <2>3. \A b \in daemon.blocks : b # None
    BY <1>1, ClientAssumption DEF ClientInv, CallInv, TypeOK, Daemon
  <2>4. \A m \in Shms : block[m] # None => block[m] \in daemon.blocks
    BY <1>1, <2>1, <2>2 DEF MemInv, Owned, Blocks
  <2>5. \A b \in daemon.blocks : b \in orphans \/ \E m \in Shms : block[m] = b
    BY <1>1, <2>1 DEF MemInv, Owned, Blocks
  <2> QED BY <2>3, <2>4, <2>5
<1> QED
  BY <1>1, ClientInvariant, MemoryInvariant, PTL

=============================================================================
