------------------------------ MODULE TeeClient ------------------------------
(***************************************************************************)
(* The client library of system applications (tee_client.cpp): how it      *)
(* finds cadaemon, notices its death and finds the next one, and the table *)
(* of the shared memory it has mapped.  Threads of the application call it *)
(* in parallel.  What cadaemon does with a request is in CaDaemonService;  *)
(* here it is a process with descriptors and blocks that may be killed and *)
(* started again.  The memory of an operation is in TeecOperation.         *)
(***************************************************************************)
EXTENDS Naturals, Sequences, FiniteSets, FiniteSetsExt

CONSTANTS
  Threads,       \* the application's threads
  Ctxs, Shms,    \* its TEEC_Context and TEEC_SharedMemory objects
  Fds,           \* descriptors a cadaemon gives out (numbers)
  Offsets,       \* offsets of blocks in a descriptor (numbers)
  Addrs,         \* where mmap can map (numbers)
  ZeroPtr,       \* ZERO_SIZE_PTR, the buffer of every memory of size 0
  ConnectMax,    \* CONNECT_MAX_NUM
  MaxCrashes,    \* bound: deaths of cadaemon
  MaxZeros,      \* bound: entries of size 0 in the table
  InitApart,     \* TRUE: no context is made while another one is finalized
  None

ASSUME ClientAssumption ==
  /\ ConnectMax \in Nat \ {0} /\ MaxCrashes \in Nat /\ MaxZeros \in Nat
  /\ InitApart \in BOOLEAN
  /\ Fds \cup Offsets \cup Addrs \subseteq Nat
  /\ None \notin Threads \cup Ctxs \cup Shms \cup Nat \cup (Fds \X (Offsets \cup {None}))
  /\ ZeroPtr \notin Addrs \cup {None}

VARIABLES
  daemon,    \* cadaemon: its number, whether it runs, its descriptors, its
             \* blocks, whether it watches the application (SetCallBack)
  valid,     \* mServiceValid
  service,   \* mTeecService: the number of a cadaemon or None
  notifier,  \* mDeathNotifier: made, and the cadaemon it watches
  news,      \* OnRemoteDied is about to be called
  lock,      \* who holds mServiceLock
  table,     \* mShareMem, the entries of mapped memory: [addr, off, fd]
  zeros,     \* mShareMem, the offsets of the entries of size 0, oldest first
  mapped,    \* the addresses that are mapped
  ctx,       \* context -> its fd field
  shm,       \* shared memory -> [ctx, addr], its context and buffer fields
  thread,    \* thread -> what it does
  alive,     \* FALSE: the application used a null pointer
  block,     \* history: shared memory -> its block
  orphans,   \* history: blocks whose mapping failed
  crossed,   \* history: a release of size 0 found the offset of another block
  midInit    \* history: a cadaemon died while InitTeecService ran

clientVars == <<valid, service, notifier, news, lock>>
appVars == <<table, zeros, mapped, ctx, shm, alive, crossed>>
vars == <<daemon, clientVars, appVars, thread, block, orphans, midInit>>

Ops == {"init", "fin", "alloc", "rel", "ask"}
Idle == [at |-> "idle", op |-> "ask", c |-> None, m |-> None, tries |-> 0, off |-> None]
NoShm == [ctx |-> None, addr |-> None]

Init ==
  /\ daemon = [epoch |-> 0, up |-> TRUE, known |-> FALSE, fds |-> {}, blocks |-> {}]
  /\ valid = FALSE /\ service = None /\ news = FALSE /\ lock = None
  /\ notifier = [made |-> FALSE, watches |-> None]
  /\ table = {} /\ zeros = <<>> /\ mapped = {}
  /\ ctx = [c \in Ctxs |-> None]
  /\ shm = [m \in Shms |-> NoShm]
  /\ thread = [t \in Threads |-> Idle]
  /\ alive = TRUE
  /\ block = [m \in Shms |-> None]
  /\ orphans = {}
  /\ crossed = FALSE
  /\ midInit = FALSE

At(t, at) == alive /\ thread[t].at = at
Goto(t, at) == thread' = [thread EXCEPT ![t].at = at]
Done(t) == thread' = [thread EXCEPT ![t] = Idle]

\* The cadaemon the client points to runs.
Reachable == daemon.up /\ service = daemon.epoch

(***************************************************************************)
(* The application calls the library with objects it may use: a context    *)
(* nobody else uses for init and fin, a live one for alloc, allocated      *)
(* memory of a live context for rel.                                       *)
(***************************************************************************)

Busy(c) == \E t \in Threads : thread[t].at # "idle" /\ thread[t].c = c
Running(op) == \E t \in Threads : thread[t].at # "idle" /\ thread[t].op = op
Quiet == \A t \in Threads : thread[t].at = "idle"
MayCall(op) ==
  InitApart => ~ \/ op = "init" /\ Running("fin")
                 \/ op = "fin" /\ Running("init")

Begin(t, op, c, m, at) ==
  /\ At(t, "idle")
  /\ MayCall(op)
  /\ thread' = [thread EXCEPT ![t] =
                  [at |-> at, op |-> op, c |-> c, m |-> m, tries |-> 0, off |-> None]]
  /\ UNCHANGED <<daemon, clientVars, table, zeros, mapped, ctx, alive, crossed, block, orphans, midInit>>

CallInit(t, c) ==
  /\ ctx[c] = None /\ ~Busy(c)
  /\ Begin(t, "init", c, None, "lock")
  /\ UNCHANGED shm

CallFinalize(t, c) ==
  /\ ctx[c] # None /\ ~Busy(c)
  /\ Begin(t, "fin", c, None, "lock")
  /\ UNCHANGED shm

\* sharedMem->context is set first.
CallAllocate(t, c, m) ==
  /\ ctx[c] # None
  /\ ~\E u \in Threads : thread[u].at # "idle" /\ thread[u].c = c /\ thread[u].op \in {"init", "fin"}
  /\ shm[m].addr = None /\ block[m] = None
  /\ ~\E u \in Threads : thread[u].at # "idle" /\ thread[u].m = m
  /\ Begin(t, "alloc", c, m, "lock")
  /\ shm' = [shm EXCEPT ![m].ctx = c]

CallRelease(t, m) ==
  /\ shm[m].ctx # None /\ shm[m].addr # None
  /\ ~\E u \in Threads : thread[u].at # "idle" /\ thread[u].m = m
  /\ ~\E u \in Threads : thread[u].at # "idle" /\ thread[u].c = shm[m].ctx /\ thread[u].op = "fin"
  /\ Begin(t, "rel", shm[m].ctx, m, "find")
  /\ UNCHANGED shm

\* OpenSession, InvokeCommand, CloseSession, RegisterSharedMemory,
\* SendSecfile, GetTeeVersion: a request without a trace in the client.
CallAsk(t) ==
  /\ Begin(t, "ask", None, None, "lock")
  /\ UNCHANGED shm

(***************************************************************************)
(* InitTeecService, under mServiceLock.                                    *)
(***************************************************************************)

Lock(t) ==
  /\ At(t, "lock")
  /\ lock = None
  /\ lock' = t
  /\ Goto(t, "check")
  /\ UNCHANGED <<daemon, valid, service, notifier, news, appVars, block, orphans, midInit>>

\* InitTeecService has failed: InitializeContextSendCmd tries again, up to
\* ConnectMax times; the others return.
InitFails(t) ==
  /\ lock' = None
  /\ LET tries == thread[t].tries + 1
     IN  IF thread[t].op = "init" /\ tries < ConnectMax
         THEN thread' = [thread EXCEPT ![t].at = "lock", ![t].tries = tries]
         ELSE Done(t)

\* mServiceValid, or GetSystemAbility.
Lookup(t) ==
  /\ At(t, "check")
  /\ \/ /\ valid
        /\ lock' = None
        /\ Goto(t, "send")
        /\ UNCHANGED service
     \/ /\ ~valid /\ daemon.up
        /\ service' = daemon.epoch
        /\ Goto(t, "watch")
        /\ UNCHANGED lock
     \/ /\ ~valid /\ ~daemon.up
        /\ service' = None
        /\ InitFails(t)
  /\ UNCHANGED <<daemon, valid, notifier, news, appVars, block, orphans, midInit>>

\* Mutant: the notifier is made and not registered.
AddCaDeathRecipientUnregistered(t) ==
  /\ At(t, "watch")
  /\ notifier' = [notifier EXCEPT !.made = TRUE]
  /\ Goto(t, "callback")
  /\ UNCHANGED <<service, lock, daemon, valid, news, appVars, block, orphans, midInit>>

\* A notifier that exists is taken for one that watches this cadaemon.
AddCaDeathRecipient(t) ==
  /\ At(t, "watch")
  /\ \/ /\ notifier.made
        /\ Goto(t, "callback")
        /\ UNCHANGED <<notifier, service, lock>>
     \/ /\ ~notifier.made /\ Reachable
        /\ notifier' = [made |-> TRUE, watches |-> service]
        /\ Goto(t, "callback")
        /\ UNCHANGED <<service, lock>>
     \/ /\ ~notifier.made /\ ~Reachable
        /\ notifier' = [made |-> TRUE, watches |-> None]
        /\ service' = None
        /\ InitFails(t)
  /\ UNCHANGED <<daemon, valid, news, appVars, block, orphans, midInit>>

\* Mutant: the call is only made by the client that has no service yet.
SetCallBackOnce(t) ==
  /\ At(t, "callback")
  /\ daemon' = [daemon EXCEPT !.known = @ \/ daemon.epoch = 0]
  /\ Goto(t, "valid")
  /\ UNCHANGED <<service, lock, valid, notifier, news, appVars, block, orphans, midInit>>

SetCallBack(t) ==
  /\ At(t, "callback")
  /\ \/ /\ Reachable
        /\ daemon' = [daemon EXCEPT !.known = TRUE]
        /\ Goto(t, "valid")
        /\ UNCHANGED <<service, lock>>
     \/ /\ ~Reachable
        /\ service' = None
        /\ InitFails(t)
        /\ UNCHANGED daemon
  /\ UNCHANGED <<valid, notifier, news, appVars, block, orphans, midInit>>

SetValid(t) ==
  /\ At(t, "valid")
  /\ valid' = TRUE
  /\ lock' = None
  /\ Goto(t, "send")
  /\ UNCHANGED <<daemon, service, notifier, news, appVars, block, orphans, midInit>>

InitTeecService(t) ==
  Lock(t) \/ Lookup(t) \/ AddCaDeathRecipient(t) \/ SetCallBack(t) \/ SetValid(t)

\* OnRemoteDied of the notifier takes no lock.
OnRemoteDied ==
  /\ news
  /\ news' = FALSE
  /\ valid' = FALSE
  /\ UNCHANGED <<daemon, service, notifier, lock, appVars, thread, block, orphans, midInit>>

(***************************************************************************)
(* The requests.  mTeecService is read again, without the lock; a request  *)
(* to a dead cadaemon fails.                                               *)
(***************************************************************************)

NullService(t) ==
  /\ At(t, "send") /\ service = None
  /\ alive' = FALSE
  /\ UNCHANGED <<daemon, clientVars, table, zeros, mapped, ctx, shm, crossed, thread, block, orphans,
                 midInit>>

Sends(t, op) == At(t, "send") /\ thread[t].op = op /\ service # None

\* Requests that leave nothing in the client.
SendOther(t) ==
  /\ Sends(t, "ask")
  /\ Done(t)
  /\ UNCHANGED <<daemon, clientVars, appVars, block, orphans, midInit>>

SendInit(t) ==
  /\ Sends(t, "init")
  /\ \/ /\ Reachable /\ Fds \ daemon.fds # {}
        /\ LET fd == Min(Fds \ daemon.fds)
           IN  /\ daemon' = [daemon EXCEPT !.fds = @ \cup {fd}]
               /\ ctx' = [ctx EXCEPT ![thread[t].c] = fd]
     \/ /\ ~Reachable \/ Fds \subseteq daemon.fds
        /\ UNCHANGED <<daemon, ctx>>
  /\ Done(t)
  /\ UNCHANGED <<clientVars, table, zeros, mapped, shm, alive, crossed, block, orphans, midInit>>

\* FINAL_CONTEXT: cadaemon drops the descriptor and its blocks.
SendFinalize(t) ==
  /\ Sends(t, "fin")
  /\ LET fd == ctx[thread[t].c]
     IN  daemon' = IF Reachable
                   THEN [daemon EXCEPT !.fds = @ \ {fd},
                                       !.blocks = {b \in @ : b[1] # fd}]
                   ELSE daemon
  /\ orphans' = {b \in orphans : b[1] # ctx[thread[t].c]}
  /\ Goto(t, "freeall")
  /\ UNCHANGED <<clientVars, appVars, block, midInit>>

\* Mutant: the entries stay in the table.
FreeAllShareMemoryInContextKeeps(t) ==
  LET c == thread[t].c
      gone == {e \in table : e.fd = ctx[c]}
  IN  /\ At(t, "freeall")
      /\ mapped' = mapped \ {e.addr : e \in gone}
      /\ ctx' = [ctx EXCEPT ![c] = None]
      /\ shm' = [m \in Shms |-> IF shm[m].ctx = c THEN NoShm ELSE shm[m]]
      /\ block' = [m \in Shms |-> IF shm[m].ctx = c THEN None ELSE block[m]]
      /\ Done(t)
      /\ UNCHANGED <<daemon, clientVars, table, zeros, alive, crossed, orphans, midInit>>

\* The memory of the context is found by the descriptor; entries of size 0
\* are passed over and stay.  The application forgets the memory objects of
\* the context.
FreeAllShareMemoryInContext(t) ==
  LET c == thread[t].c
      gone == {e \in table : e.fd = ctx[c]}
  IN  /\ At(t, "freeall")
      /\ mapped' = mapped \ {e.addr : e \in gone}
      /\ table' = table \ gone
      /\ ctx' = [ctx EXCEPT ![c] = None]
      /\ shm' = [m \in Shms |-> IF shm[m].ctx = c THEN NoShm ELSE shm[m]]
      /\ block' = [m \in Shms |-> IF shm[m].ctx = c THEN None ELSE block[m]]
      /\ Done(t)
      /\ UNCHANGED <<daemon, clientVars, zeros, alive, crossed, orphans, midInit>>

FreeOffsets(fd) == {o \in Offsets : <<fd, o>> \notin daemon.blocks}

SendAllocate(t) ==
  LET fd == ctx[thread[t].c]
      ok == Reachable /\ fd \in daemon.fds /\ FreeOffsets(fd) # {}
      off == Min(FreeOffsets(fd))
  IN  /\ Sends(t, "alloc")
      /\ IF ok
         THEN /\ daemon' = [daemon EXCEPT !.blocks = @ \cup {<<fd, off>>}]
              /\ block' = [block EXCEPT ![thread[t].m] = <<fd, off>>]
              /\ thread' = [thread EXCEPT ![t].at = "map", ![t].off = off]
         ELSE Done(t) /\ UNCHANGED <<daemon, block>>
      /\ UNCHANGED <<clientVars, appVars, orphans, midInit>>

\* MapSharedMemory and AddShareMem.  Memory of size 0, which the application
\* may ask for, is not mapped.  When mmap fails the block stays.
MapSharedMemory(t) ==
  LET m == thread[t].m
      a == Min(Addrs \ mapped)
  IN  /\ At(t, "map")
      /\ \/ /\ Addrs \ mapped # {}
            /\ mapped' = mapped \cup {a}
            /\ shm' = [shm EXCEPT ![m].addr = a]
            /\ table' = table \cup
                 {[addr |-> a, off |-> thread[t].off, fd |-> ctx[shm[m].ctx]]}
            /\ UNCHANGED <<zeros, block, orphans>>
         \/ /\ Len(zeros) < MaxZeros
            /\ shm' = [shm EXCEPT ![m].addr = ZeroPtr]
            /\ zeros' = Append(zeros, thread[t].off)
            /\ UNCHANGED <<mapped, table, block, orphans>>
         \/ /\ orphans' = orphans \cup {block[m]}
            /\ block' = [block EXCEPT ![m] = None]
            /\ UNCHANGED <<mapped, shm, table, zeros>>
      /\ Done(t)
      /\ UNCHANGED <<daemon, clientVars, ctx, alive, crossed, midInit>>

\* The offset of the first entry with that buffer; None is UINT32_MAX.
EntryAt(a) == {e \in table : e.addr = a}
OffsetAt(a) ==
  IF a = ZeroPtr THEN IF zeros = <<>> THEN None ELSE Head(zeros)
  ELSE IF EntryAt(a) = {} THEN None ELSE (CHOOSE e \in EntryAt(a) : TRUE).off

\* Mutant: the memory is already gone from the table.
FindShareMemOffsetLate(t) ==
  /\ At(t, "find")
  /\ thread' = [thread EXCEPT ![t].at = "free", ![t].off = None]
  /\ UNCHANGED <<daemon, clientVars, appVars, block, orphans, midInit>>

\* ReleaseSharedMemory: first the offset, then FreeShareMem, each under
\* mSharMemLock, then the request.
FindShareMemOffset(t) ==
  LET m == thread[t].m
      off == OffsetAt(shm[m].addr)
  IN  /\ At(t, "find")
      /\ thread' = [thread EXCEPT ![t].at = "free", ![t].off = off]
      /\ crossed' = (crossed \/ (shm[m].addr = ZeroPtr /\ <<ctx[shm[m].ctx], off>> # block[m]))
      /\ UNCHANGED <<daemon, clientVars, table, zeros, mapped, ctx, shm, alive, block, orphans,
                     midInit>>

\* One entry with that buffer goes, the oldest; of size 0 there is nothing to
\* unmap, and the buffer field stays.
FreeShareMem(t) ==
  LET m == thread[t].m
      a == shm[m].addr
  IN  /\ At(t, "free")
      /\ \/ \E e \in EntryAt(a) :
              /\ mapped' = mapped \ {a}
              /\ table' = table \ {e}
              /\ shm' = [shm EXCEPT ![m].addr = None]
              /\ UNCHANGED zeros
         \/ /\ a = ZeroPtr /\ zeros # <<>>
            /\ zeros' = Tail(zeros)
            /\ UNCHANGED <<mapped, table, shm>>
         \/ /\ EntryAt(a) = {} /\ (a = ZeroPtr => zeros = <<>>)
            /\ UNCHANGED <<mapped, table, shm, zeros>>
      /\ Goto(t, "lock")
      /\ UNCHANGED <<daemon, clientVars, ctx, alive, crossed, block, orphans, midInit>>

SendRelease(t) ==
  LET m == thread[t].m
      target == <<ctx[thread[t].c], thread[t].off>>
  IN  /\ Sends(t, "rel")
      /\ daemon' = IF Reachable THEN [daemon EXCEPT !.blocks = @ \ {target}] ELSE daemon
      /\ shm' = IF Reachable THEN [shm EXCEPT ![m] = NoShm] ELSE shm
      /\ block' = [block EXCEPT ![m] = None]
      /\ Done(t)
      /\ UNCHANGED <<clientVars, table, zeros, mapped, ctx, alive, crossed, orphans, midInit>>

(***************************************************************************)
(* cadaemon is killed, which its death recipient reports, and restarted.   *)
(***************************************************************************)

Kill ==
  /\ daemon.up
  /\ daemon.epoch < MaxCrashes
  /\ daemon' = [daemon EXCEPT !.up = FALSE, !.known = FALSE, !.fds = {}, !.blocks = {}]
  /\ news' = (news \/ notifier.watches = daemon.epoch)
  /\ midInit' = (midInit \/ lock # None)
  /\ UNCHANGED <<valid, service, notifier, lock, appVars, thread, block, orphans>>

Restart ==
  /\ ~daemon.up
  /\ daemon' = [daemon EXCEPT !.up = TRUE, !.epoch = @ + 1]
  /\ UNCHANGED <<clientVars, appVars, thread, block, orphans, midInit>>

Request(t) ==
  \/ SendOther(t) \/ SendInit(t) \/ SendFinalize(t) \/ FreeAllShareMemoryInContext(t)
  \/ SendAllocate(t) \/ MapSharedMemory(t)
  \/ FindShareMemOffset(t) \/ FreeShareMem(t) \/ SendRelease(t)

Step(t) == InitTeecService(t) \/ Request(t) \/ NullService(t)

Call(t) ==
  \/ \E c \in Ctxs : CallInit(t, c) \/ CallFinalize(t, c)
  \/ \E c \in Ctxs, m \in Shms : CallAllocate(t, c, m)
  \/ \E m \in Shms : CallRelease(t, m)
  \/ CallAsk(t)

Next == (\E t \in Threads : Step(t) \/ Call(t)) \/ OnRemoteDied \/ Kill \/ Restart

Spec == Init /\ [][Next]_vars

(***************************************************************************)
(* Properties.                                                             *)
(***************************************************************************)

Steps == {"idle", "lock", "check", "watch", "callback", "valid", "send", "freeall", "map",
          "find", "free"}

Daemon == [epoch : 0 .. MaxCrashes, up : BOOLEAN, known : BOOLEAN,
           fds : SUBSET Fds, blocks : SUBSET (Fds \X Offsets)]
Entry  == [addr : Addrs, off : Offsets, fd : Fds]
Memory == [ctx : Ctxs \cup {None}, addr : Addrs \cup {ZeroPtr, None}]
Frame  == [at : Steps, op : Ops, c : Ctxs \cup {None}, m : Shms \cup {None},
           tries : 0 .. ConnectMax - 1, off : Offsets \cup {None}]

\* The types of the state.
TypeOK ==
  /\ daemon \in Daemon
  /\ {valid, news, alive, midInit, crossed} \subseteq BOOLEAN
  /\ service \in 0 .. MaxCrashes \cup {None}
  /\ notifier \in [made : BOOLEAN, watches : 0 .. MaxCrashes \cup {None}]
  /\ lock \in Threads \cup {None}
  /\ table \subseteq Entry
  /\ zeros \in Seq(Offsets)
  /\ mapped \subseteq Addrs
  /\ ctx \in [Ctxs -> Fds \cup {None}]
  /\ shm \in [Shms -> Memory]
  /\ thread \in [Threads -> Frame]
  /\ block \in [Shms -> (Fds \X Offsets) \cup {None}]
  /\ orphans \subseteq Fds \X Offsets

\* Memory an application has allocated stays mapped until it releases it or
\* finalizes its context: FreeAllShareMemoryInContext, which goes by the
\* number of the descriptor, hits no other context's memory, and the table
\* has exactly the mappings there are.  (Of size 0 it may have entries whose
\* memory is gone.)
MappedKept ==
  daemon.epoch = 0 /\ daemon.up =>
    /\ mapped = {e.addr : e \in table}
    /\ \A m \in Shms : shm[m].addr \notin {ZeroPtr, None} => shm[m].addr \in mapped

\* Between calls cadaemon's blocks are those of the application's memory:
\* a release reaches the block it is about, though the client tells it by
\* an offset it looks up by address and then drops from its table.  A block
\* whose mapping failed stays until its context is finalized.  Memories of
\* size 0 share one address: a release of one takes the first of them in the
\* table for it, and once that was another one nothing is promised.
BlocksMatch ==
  Quiet /\ alive /\ ~crossed /\ daemon.epoch = 0 /\ daemon.up =>
    daemon.blocks \ orphans = {block[m] : m \in Shms} \ ({None} \cup orphans)

\* A cadaemon that holds a descriptor for the application will hear of its
\* death: InitTeecService calls SetCallBack for each cadaemon it finds.
\* While it runs the promise is open: mTeecService is set before SetCallBack
\* and read without the lock, so a thread that passed InitTeecService before
\* a death may give the next cadaemon a context it does not yet watch.
DaemonKnowsClient == daemon.fds # {} /\ lock = None => daemon.known

\* The client does not stay bound to a dead cadaemon: as long as it takes
\* it for valid, the notifier that watched it is still to be called, which
\* makes the next InitTeecService look again.  Only the first cadaemon is
\* watched, and a death in the middle of InitTeecService may be forgotten.
DeathHeard ==
  valid /\ ~Reachable /\ ~midInit /\ service = 0 => news
=============================================================================
