-------------------------- MODULE CaDaemonService --------------------------
(***************************************************************************)
(* services/cadaemon/src/ca_daemon/cadaemon_service.cpp: the daemon that   *)
(* carries the requests of client applications (CAs) to the TEE.  Binder   *)
(* threads run the request handlers concurrently.  A handler is a sequence *)
(* of actions, one per critical section; pc[t] names the next one.  A      *)
(* handler that returns an error before it changed anything is a           *)
(* stuttering step and has no action.  The death of a CA is delivered on a *)
(* binder thread as well (Client::OnRemoteDied).                           *)
(***************************************************************************)
EXTENDS TeecInner

CONSTANTS
  CA,        \* client application processes (pid, uid and tokenid)
  Pid,       \* process identifiers
  PidOf,     \* [CA -> Pid]; two CAs may have the same pid one after the other
  Thread,    \* binder threads of cadaemon
  MaxCxt,    \* MAX_CXTCNT_ONECA
  Ops,       \* the requests the CAs issue in this instance
  Mortal,    \* the CAs that may die
  InFlight,  \* requests one CA may have in flight
  MaxParams, \* memory references one operation may carry
  Faults,    \* calls that may fail: "malloc", "tid" (AddTidData), "reply" (writing the
             \* answer), "decode" (the sizes of the operation's memory do not fit)
  MaxLost,   \* bound: no new session or memory request once this many references are lost
  NoCA, NoThread

Op   == {"init", "fin", "open", "invoke", "close", "reg", "alloc", "rel", "die"}
Slot == 1 .. MaxCxt
Obj  == Ctx \cup Sess \cup Shm

ASSUME ServiceAssumption ==
  /\ IsFiniteSet(Thread) /\ NoThread \notin Thread
  /\ NoCA \notin CA
  /\ PidOf \in [CA -> Pid]
  /\ MaxCxt \in Nat \ {0}
  /\ Ops \subseteq Op \ {"die"}
  /\ Mortal \subseteq CA
  /\ InFlight \in Nat /\ MaxParams \in Nat /\ MaxLost \in Nat
  /\ Faults \subseteq {"malloc", "tid", "reply", "decode"}
  /\ Ctx \cap Sess = {} /\ Ctx \cap Shm = {} /\ Sess \cap Shm = {}
  /\ {NoCtx, NoSess, NoShm} \cap Obj = {}

VARIABLES
  procOwner, \* g_teecProcDataList: the identity in the entry of a pid, or NoCA
  cxtFd,     \* the cxtFd slots of the entry of a pid
  procLock,  \* the thread holding mProcDataLock across actions, or NoThread
  caState,   \* "new", "alive" or "dead"
  mClients,  \* CAs with an entry (and a death recipient) in mClients
  pc,        \* next step of a binder thread
  loc,       \* locals of its handler, see Local
  cx,        \* the context it holds a reference to, or NoCtx
  se,        \* the session it holds a reference to, or NoSess
  sm,        \* the shared memories it holds references to
  fin,       \* the context it is inside TEEC_FinalizeContextInner for, or NoCtx
  owner,     \* history: the CA a context was initialized for
  lost       \* history: references a handler never gave back, per object

procVars   == <<procOwner, cxtFd>>
clientVars == <<caState, mClients>>
refVars    == <<cx, se, sm>>
histVars   == <<owner, lost>>
vars == <<ctxVars, sesVars, shmVars, procVars, procLock, clientVars, pc, loc,
          refVars, fin, histVars>>

PCs == {"idle", "proc", "remove", "get", "sess", "opt", "ioctl", "put_shm", "put_ses",
        "put", "open_reply", "blk", "buf", "put_blk", "rel_read", "reg_read", "undo",
        "fin_ses", "fin_shm", "fin_close", "fin_proc", "died", "clean", "clean_put"}

NoSlots == [i \in Slot |-> NoFd]

Local == [op   : Op,                        \* the handler
          ca   : CA \cup {NoCA},            \* calling CA, or the CA that died
          fd   : Fd \cup {NoFd},            \* descriptor a context is looked up by
          s    : Sess \cup {NoSess},        \* session named in the request
          off  : SUBSET (Bit \cup {NoBit}), \* offsets still to be resolved
          next : PCs,                       \* where PutBnContextAndReleaseFd returns to
          late : Obj \cup {NoCtx},          \* pointer used after its reference was given back
          blk  : Shm \cup {NoShm},          \* block being allocated, not yet on a list
          ok   : BOOLEAN,                   \* result so far
          dfds : [Slot -> Fd \cup {NoFd}]]  \* entry ProcessCaDied took off the list

NoLocal == [op |-> "init", ca |-> NoCA, fd |-> NoFd, s |-> NoSess, off |-> {},
            next |-> "idle", late |-> NoCtx, blk |-> NoShm, ok |-> TRUE, dfds |-> NoSlots]

TypeOK ==
  /\ InnerTypeOK
  /\ procOwner \in [Pid -> CA \cup {NoCA}]
  /\ cxtFd \in [Pid -> [Slot -> Fd \cup {NoFd}]]
  /\ procLock \in Thread \cup {NoThread}
  /\ caState \in [CA -> {"new", "alive", "dead"}]
  /\ mClients \in SUBSET CA
  /\ pc \in [Thread -> PCs]
  /\ loc \in [Thread -> Local]
  /\ cx \in [Thread -> Ctx \cup {NoCtx}]
  /\ se \in [Thread -> Sess \cup {NoSess}]
  /\ sm \in [Thread -> SUBSET Shm]
  /\ fin \in [Thread -> Ctx \cup {NoCtx}]
  /\ owner \in [Ctx -> CA \cup {NoCA}]
  /\ lost \in [Obj -> Nat]

Init ==
  /\ InnerInit
  /\ procOwner = [p \in Pid |-> NoCA]
  /\ cxtFd = [p \in Pid |-> NoSlots]
  /\ procLock = NoThread
  /\ caState = [a \in CA |-> "new"]
  /\ mClients = {}
  /\ pc = [t \in Thread |-> "idle"]
  /\ loc = [t \in Thread |-> NoLocal]
  /\ cx = [t \in Thread |-> NoCtx]
  /\ se = [t \in Thread |-> NoSess]
  /\ sm = [t \in Thread |-> {}]
  /\ fin = [t \in Thread |-> NoCtx]
  /\ owner = [c \in Ctx |-> NoCA]
  /\ lost = [o \in Obj |-> 0]

-----------------------------------------------------------------------------
(* Helpers *)

First(S) == CHOOSE i \in S : \A j \in S : i <= j

Goto(t, p) == pc' = [pc EXCEPT ![t] = p]

SetLoc(t, r) == loc' = [loc EXCEPT ![t] = r]

\* The handler returns.
Return(t) ==
  /\ pc' = [pc EXCEPT ![t] = "idle"]
  /\ SetLoc(t, NoLocal)

\* PutBnContextAndReleaseFd is next, then n.
PutThen(t, n) ==
  /\ pc' = [pc EXCEPT ![t] = "put"]
  /\ SetLoc(t, [loc[t] EXCEPT !.next = n])

\* mProcDataLock is free for a critical section that is one action.
ProcDataUnlocked == procLock = NoThread

\* mClientLock is held while a death is being handled.
ClientUnlocked == \A t \in Thread : loc[t].op # "die"

MutIsValidForAnyone(a, f) == \E p \in Pid, i \in Slot : cxtFd[p][i] = f

IsValidContext(a, f) ==
  /\ procOwner[PidOf[a]] = a
  /\ \E i \in Slot : cxtFd[PidOf[a]][i] = f

InFlightOf(a) == {t \in Thread : loc[t].ca = a /\ loc[t].op # "die"}

CanSend(a, o) ==
  /\ o \in Ops
  /\ caState[a] = "alive"
  /\ Cardinality(InFlightOf(a)) < InFlight

\* References that are in a handler's hands and are dropped without a Put.
Abandon(O) == lost' = [o \in Obj |-> IF o \in O THEN lost[o] + 1 ELSE lost[o]]

-----------------------------------------------------------------------------
(* CA processes *)

\* SetCallBack / AddClient: a CA connects.  An entry with the same pid is taken for
\* this client's own ("client exist") and no death recipient is added.  When the
\* Client cannot be made or linked to the CA's death the CA gets an error and is not
\* entered: it stays "new", and its library sends no request before a later try.
SetCallBack(a) ==
  /\ caState[a] = "new"
  /\ \A b \in CA : caState[b] = "alive" => PidOf[b] # PidOf[a]
  /\ ClientUnlocked
  /\ caState' = [caState EXCEPT ![a] = "alive"]
  /\ mClients' = IF \E b \in mClients : PidOf[b] = PidOf[a]
                 THEN mClients ELSE mClients \cup {a}
  /\ UNCHANGED <<ctxVars, sesVars, shmVars, procVars, procLock, pc, loc, refVars, fin, histVars>>

CaDies(a) ==
  /\ a \in Mortal
  /\ caState[a] = "alive"
  /\ caState' = [caState EXCEPT ![a] = "dead"]
  /\ UNCHANGED <<ctxVars, sesVars, shmVars, procVars, procLock, mClients, pc, loc, refVars, fin, histVars>>

-----------------------------------------------------------------------------
(* InitializeContext *)

\* TEEC_InitializeContextInner has put a context on the list.
InitializeContext(t, a, c, f) ==
  /\ pc[t] = "idle"
  /\ CanSend(a, "init")
  /\ c \notin ctxLive
  /\ f \in FreeFds
  /\ TEEC_InitializeContextInner(c, f)
  /\ owner' = [owner EXCEPT ![c] = a]
  /\ cx' = [cx EXCEPT ![t] = c]
  /\ SetLoc(t, [NoLocal EXCEPT !.ca = a])
  /\ Goto(t, "proc")
  /\ UNCHANGED <<sesVars, blkVars, procVars, procLock, clientVars, se, sm, fin, lost>>

\* CallGetProcDataPtr: the entry of the caller's pid is the caller's, or can be made.
ProcDataFor(a) == procOwner[PidOf[a]] \in {a, NoCA}

\* Once the entry records the context the reply is written: when that fails the
\* context is released again (ReleaseContext).
SetContextToProcData(t) ==
  LET a     == loc[t].ca
      p     == PidOf[a]
      empty == {i \in Slot : cxtFd[p][i] = NoFd}
  IN  /\ pc[t] = "proc"
      /\ ProcDataUnlocked
      /\ ProcDataFor(a)
      /\ empty # {}
      /\ procOwner' = [procOwner EXCEPT ![p] = a]
      /\ cxtFd' = [cxtFd EXCEPT ![p][First(empty)] = ctxFd[cx[t]]]
      /\ \/ PutThen(t, "idle")
         \/ /\ "reply" \in Faults
            /\ Goto(t, "put")
            /\ SetLoc(t, [loc[t] EXCEPT !.next = "rel_read", !.late = cx[t]])
      /\ UNCHANGED <<ctxVars, sesVars, shmVars, procLock, clientVars, refVars, fin, histVars>>

\* No slot, another identity under this pid, or no memory for an entry.
SetContextToProcDataFails(t) ==
  LET a == loc[t].ca
      p == PidOf[a]
  IN  /\ pc[t] = "proc"
      /\ ProcDataUnlocked
      /\ \/ ~ ProcDataFor(a)
         \/ \A i \in Slot : cxtFd[p][i] # NoFd
         \/ "malloc" \in Faults /\ procOwner[p] = NoCA
      /\ Goto(t, "put")
      /\ SetLoc(t, [loc[t] EXCEPT !.next = "rel_read", !.late = cx[t]])
      /\ UNCHANGED <<ctxVars, sesVars, shmVars, procVars, procLock, clientVars, refVars, fin, histVars>>

\* ReleaseContext reads (*contextInner)->fd after its Put, then finalizes that fd.
\* Read from freed memory, the value is arbitrary.
ReleaseContext(t) ==
  LET c == loc[t].late
  IN  /\ pc[t] = "rel_read"
      /\ \E f \in IF c \in ctxLive THEN {ctxFd[c]} ELSE Fd \cup {NoFd} :
           SetLoc(t, [loc[t] EXCEPT !.fd = f, !.late = NoCtx])
      /\ Goto(t, "remove")
      /\ UNCHANGED <<ctxVars, sesVars, shmVars, procVars, procLock, clientVars, refVars, fin, histVars>>

-----------------------------------------------------------------------------
(* FinalizeContext *)

FinalizeContext(t, a, f) ==
  /\ pc[t] = "idle"
  /\ CanSend(a, "fin")
  /\ ProcDataUnlocked
  /\ IsValidContext(a, f)
  /\ SetLoc(t, [NoLocal EXCEPT !.op = "fin", !.ca = a, !.fd = f])
  /\ Goto(t, "remove")
  /\ UNCHANGED <<ctxVars, sesVars, shmVars, procVars, procLock, clientVars, refVars, fin, histVars>>

\* The context found on the list is taken off it; the list's reference is now held by t.
CallFinalizeContext(t) ==
  /\ pc[t] = "remove"
  /\ \/ /\ FindBnContext(loc[t].fd) = {}
        /\ Return(t)
        /\ UNCHANGED <<ctxVars, cx>>
     \/ \E c \in FindBnContext(loc[t].fd) :
          /\ RemoveBnContext(c)
          /\ cx' = [cx EXCEPT ![t] = c]
          /\ PutThen(t, "idle")
  /\ UNCHANGED <<sesVars, shmVars, procVars, procLock, clientVars, se, sm, fin, histVars>>

-----------------------------------------------------------------------------
(* PutBnContextAndReleaseFd and TEEC_FinalizeContextInner *)

\* The last reference starts the finalization, with mProcDataLock held.
PutBnContextAndReleaseFd(t) ==
  LET c == cx[t]
  IN  /\ pc[t] = "put"
      /\ ProcDataUnlocked
      /\ DecBnContext(c)
      /\ cx' = [cx EXCEPT ![t] = NoCtx]
      /\ IF LastReference(c)
         THEN /\ fin' = [fin EXCEPT ![t] = c]
              /\ procLock' = t
              /\ Goto(t, "fin_ses")
              /\ SetLoc(t, [loc[t] EXCEPT !.fd = ctxFd[c]])
         ELSE /\ IF loc[t].next = "idle" THEN Return(t)
                 ELSE Goto(t, loc[t].next) /\ UNCHANGED loc
              /\ UNCHANGED <<fin, procLock>>
      /\ UNCHANGED <<sesVars, shmVars, procVars, clientVars, se, sm, histVars>>

\* TEEC_FinalizeContextInner, the part under sessionLock.
FinalizeSessionList(t) ==
  /\ pc[t] = "fin_ses"
  /\ FinalizeSessions(fin[t])
  /\ Goto(t, "fin_shm")
  /\ UNCHANGED <<ctxVars, shmVars, procVars, procLock, clientVars, loc, refVars, fin, histVars>>

\* TEEC_FinalizeContextInner, the part under shrMemLock.
FinalizeShmList(t) ==
  /\ pc[t] = "fin_shm"
  /\ FinalizeSharedMemory(fin[t])
  /\ Goto(t, "fin_close")
  /\ UNCHANGED <<ctxVars, sesVars, procVars, procLock, clientVars, loc, refVars, fin, histVars>>

\* close(fd) and free(context); ProcessCaDied does not hold mProcDataLock here.
FinalizeClose(t) ==
  /\ pc[t] = "fin_close"
  /\ FreeContext(fin[t])
  /\ owner' = [owner EXCEPT ![fin[t]] = NoCA]
  /\ fin' = [fin EXCEPT ![t] = NoCtx]
  /\ Goto(t, IF loc[t].op = "die" THEN "clean" ELSE "fin_proc")
  /\ UNCHANGED <<sesVars, shmVars, procVars, procLock, clientVars, loc, refVars, lost>>

MutSlotNotCleared(t) ==
  /\ pc[t] = "fin_proc"
  /\ procLock' = NoThread
  /\ IF loc[t].next = "idle" THEN Return(t)
     ELSE Goto(t, loc[t].next) /\ UNCHANGED loc
  /\ UNCHANGED <<ctxVars, sesVars, shmVars, procVars, clientVars, refVars, fin, histVars>>

\* The early return for a missing entry forgets the lock.
MutUnlockForgotten(t) ==
  LET p    == PidOf[loc[t].ca]
      hit  == {i \in Slot : cxtFd[p][i] = loc[t].fd}
      left == IF hit = {} THEN cxtFd[p] ELSE [cxtFd[p] EXCEPT ![First(hit)] = NoFd]
  IN  /\ pc[t] = "fin_proc"
      /\ procLock' = IF procOwner[p] = NoCA THEN procLock ELSE NoThread
      /\ cxtFd' = [cxtFd EXCEPT ![p] = left]
      /\ procOwner' = IF left = NoSlots THEN [procOwner EXCEPT ![p] = NoCA] ELSE procOwner
      /\ IF loc[t].next = "idle" THEN Return(t)
         ELSE Goto(t, loc[t].next) /\ UNCHANGED loc
      /\ UNCHANGED <<ctxVars, sesVars, shmVars, clientVars, refVars, fin, histVars>>

\* RemoveContextFromProcData, and the entry itself once it is empty.
RemoveContextFromProcData(t) ==
  LET p    == PidOf[loc[t].ca]
      hit  == {i \in Slot : cxtFd[p][i] = loc[t].fd}
      left == IF hit = {} THEN cxtFd[p] ELSE [cxtFd[p] EXCEPT ![First(hit)] = NoFd]
  IN  /\ pc[t] = "fin_proc"
      /\ procLock' = NoThread
      /\ IF procOwner[p] = NoCA
         THEN UNCHANGED procVars
         ELSE /\ cxtFd' = [cxtFd EXCEPT ![p] = left]
              /\ procOwner' = IF left = NoSlots THEN [procOwner EXCEPT ![p] = NoCA] ELSE procOwner
      /\ IF loc[t].next = "idle" THEN Return(t)
         ELSE Goto(t, loc[t].next) /\ UNCHANGED loc
      /\ UNCHANGED <<ctxVars, sesVars, shmVars, clientVars, refVars, fin, histVars>>

-----------------------------------------------------------------------------
(* Session and shared-memory requests: the context is validated, then looked up *)

\* IsValidContext succeeded for the descriptor in the request.
Begin(t, a, o, f, s, B) ==
  /\ pc[t] = "idle"
  /\ CanSend(a, o)
  /\ \A x \in Obj : lost[x] < MaxLost
  /\ ProcDataUnlocked
  /\ IsValidContext(a, f)
  /\ SetLoc(t, [NoLocal EXCEPT !.op = o, !.ca = a, !.fd = f, !.s = s, !.off = B])
  /\ Goto(t, "get")
  /\ UNCHANGED <<ctxVars, sesVars, shmVars, procVars, procLock, clientVars, refVars, fin, histVars>>

\* The offsets in an operation.  NoBit, the offset of every registered block, finds
\* one of those.
MemRefs == {B \in SUBSET (Bit \cup {NoBit}) : Cardinality(B) <= MaxParams}

OpenSession(t, a, f)          == \E B \in MemRefs : Begin(t, a, "open", f, NoSess, B)
InvokeCommand(t, a, f)        == \E s \in Sess, B \in MemRefs : Begin(t, a, "invoke", f, s, B)
CloseSession(t, a, f)         == \E s \in Sess : Begin(t, a, "close", f, s, {})
RegisterSharedMemory(t, a, f) == Begin(t, a, "reg", f, NoSess, {})
AllocateSharedMemory(t, a, f) == Begin(t, a, "alloc", f, NoSess, {})
ReleaseSharedMemory(t, a, f)  == \E b \in Bit \cup {NoBit} : Begin(t, a, "rel", f, NoSess, {b})

\* The step that follows GetBnContext in the handler of o.
AfterGet(o, B) ==
  CASE o \in {"invoke", "close"}      -> "sess"
    [] o = "open"                     -> IF B = {} THEN "ioctl" ELSE "opt"
    [] o \in {"reg", "alloc", "rel"}  -> "blk"
    [] OTHER                          -> "idle"

CallGetBnContext(t) ==
  /\ pc[t] = "get"
  /\ \/ /\ FindBnContext(loc[t].fd) = {}
        /\ Return(t)
        /\ UNCHANGED <<ctxVars, cx, lost>>
     \/ \E c \in FindBnContext(loc[t].fd) :
          /\ GetBnContext(c)
          /\ \/ /\ cx' = [cx EXCEPT ![t] = c]
                /\ Goto(t, AfterGet(loc[t].op, loc[t].off))
                /\ UNCHANGED <<loc, lost>>
             \/ /\ "malloc" \in Faults
                /\ loc[t].op \in {"open", "alloc"}
                /\ cx' = [cx EXCEPT ![t] = c]
                /\ PutThen(t, "idle")
                /\ UNCHANGED lost
             \* RegisterSharedMemory: outShm malloc failed, no Put on this path
             \/ /\ "malloc" \in Faults
                /\ loc[t].op = "reg"
                /\ Abandon({c})
                /\ Return(t)
                /\ UNCHANGED cx
  /\ UNCHANGED <<sesVars, shmVars, procVars, procLock, clientVars, se, sm, fin, owner>>

\* The error path for an unknown session forgets the context.
MutNoPutOnError(t) ==
  LET s == loc[t].s
  IN  /\ pc[t] = "sess"
      /\ \/ /\ ~ FindBnSession(s, cx[t])
            /\ cx' = [cx EXCEPT ![t] = NoCtx]
            /\ Return(t)
            /\ UNCHANGED <<sesVars, se>>
         \/ /\ FindBnSession(s, cx[t])
            /\ FindAndRemoveSession(s)
            /\ se' = [se EXCEPT ![t] = s]
            /\ Goto(t, "ioctl")
            /\ UNCHANGED <<loc, cx>>
      /\ UNCHANGED <<ctxVars, shmVars, procVars, procLock, clientVars, sm, fin, histVars>>

\* InvokeCommand takes a reference to the session, CloseSession takes it off the list.
CallGetBnSession(t) ==
  LET s == loc[t].s
  IN  /\ pc[t] = "sess"
      /\ \/ /\ ~ FindBnSession(s, cx[t])
            /\ PutThen(t, "idle")
            /\ UNCHANGED <<sesVars, se>>
         \/ /\ FindBnSession(s, cx[t])
            /\ loc[t].op = "invoke"
            /\ GetBnSession(s)
            /\ se' = [se EXCEPT ![t] = s]
            /\ Goto(t, IF loc[t].off = {} THEN "ioctl" ELSE "opt")
            /\ UNCHANGED loc
         \/ /\ FindBnSession(s, cx[t])
            /\ loc[t].op = "close"
            /\ FindAndRemoveSession(s)
            /\ se' = [se EXCEPT ![t] = s]
            /\ Goto(t, "ioctl")
            /\ UNCHANGED loc
      /\ UNCHANGED <<ctxVars, shmVars, procVars, procLock, clientVars, cx, sm, fin, histVars>>

\* The handlers' exits when decoding the operation or AddTidData fails after
\* CallGetBnContext: OpenSession goes to ERROR, where nothing is given back;
\* InvokeCommand gives back the session and the context but not the blocks;
\* CloseSession (AddTidData only) returns at once.
GiveUp(t) ==
  \/ /\ loc[t].op = "open"
     /\ Abandon({cx[t]} \cup sm[t])
     /\ cx' = [cx EXCEPT ![t] = NoCtx]
     /\ sm' = [sm EXCEPT ![t] = {}]
     /\ Return(t)
     /\ UNCHANGED se
  \/ /\ loc[t].op = "invoke"
     /\ Abandon(sm[t])
     /\ sm' = [sm EXCEPT ![t] = {}]
     /\ Goto(t, "put_ses")
     /\ UNCHANGED <<cx, se, loc>>
  \/ /\ loc[t].op = "close"
     /\ Abandon({cx[t], se[t]})
     /\ cx' = [cx EXCEPT ![t] = NoCtx]
     /\ se' = [se EXCEPT ![t] = NoSess]
     /\ Return(t)
     /\ UNCHANGED sm

\* GetTeecOptMem / TeecOptDecodePartialMem: one memory reference of the operation.
\* (Parameters that name the same block take and give back their references together
\* and count as one here.)
TeecOptDecodePartialMem(t) ==
  /\ pc[t] = "opt"
  /\ \E b \in loc[t].off :
       \/ \E m \in FindShmByOffset(b, cx[t]) :
            /\ GetBnShm(m)
            /\ sm' = [sm EXCEPT ![t] = @ \cup {m}]
            /\ SetLoc(t, [loc[t] EXCEPT !.off = @ \ {b}])
            /\ Goto(t, IF loc[t].off = {b} THEN "ioctl" ELSE "opt")
            /\ UNCHANGED <<cx, se, lost>>
       \/ /\ FindShmByOffset(b, cx[t]) = {} \/ "decode" \in Faults
          /\ GiveUp(t)
          /\ UNCHANGED <<blkVars, bitmap>>
  /\ UNCHANGED <<ctxVars, sesVars, procVars, procLock, clientVars, fin, owner>>

AddTidDataFails(t) ==
  /\ pc[t] = "ioctl"
  /\ "tid" \in Faults
  /\ GiveUp(t)
  /\ UNCHANGED <<ctxVars, sesVars, shmVars, procVars, procLock, clientVars, fin, owner>>

\* The blocks of the operation are not given back.
MutOpenKeepsBlocks(t) ==
  /\ pc[t] = "ioctl"
  /\ loc[t].op = "open"
  /\ \/ \E s \in Sess \ sesLive :
          /\ AddSessionList(s, cx[t])
          /\ se' = [se EXCEPT ![t] = s]
          /\ SetLoc(t, [loc[t] EXCEPT !.next = "open_reply"])
     \/ UNCHANGED <<sesVars, se, loc>>
  /\ Goto(t, "put")
  /\ UNCHANGED <<ctxVars, shmVars, procVars, procLock, clientVars, cx, sm, fin, histVars>>

\* The TEE call.  OpenSession: on success the new session enters the list.
TEEC_OpenSessionInner(t) ==
  /\ pc[t] = "ioctl"
  /\ loc[t].op = "open"
  /\ \/ \E s \in Sess \ sesLive :
          /\ AddSessionList(s, cx[t])
          /\ se' = [se EXCEPT ![t] = s]
          /\ SetLoc(t, [loc[t] EXCEPT !.next = "open_reply"])
     \/ UNCHANGED <<sesVars, se, loc>>
  /\ Goto(t, IF sm[t] = {} THEN "put" ELSE "put_shm")
  /\ UNCHANGED <<ctxVars, shmVars, procVars, procLock, clientVars, cx, sm, fin, histVars>>

\* TEEC_InvokeCommandInner and TEEC_CloseSessionInner leave the daemon's objects alone.
TEEC_CommandInner(t) ==
  /\ pc[t] = "ioctl"
  /\ loc[t].op \in {"invoke", "close"}
  /\ Goto(t, IF sm[t] = {} THEN "put_ses" ELSE "put_shm")
  /\ UNCHANGED <<ctxVars, sesVars, shmVars, procVars, procLock, clientVars, loc, refVars, fin, histVars>>

PutAllocShrMem(t) ==
  /\ pc[t] = "put_shm"
  /\ PutBnShrMem(sm[t])
  /\ UNCHANGED shmList
  /\ sm' = [sm EXCEPT ![t] = {}]
  /\ Goto(t, IF loc[t].op = "open" THEN "put" ELSE "put_ses")
  /\ UNCHANGED <<ctxVars, sesVars, procVars, procLock, clientVars, loc, cx, se, fin, histVars>>

ReleaseSession(t) ==
  /\ pc[t] = "put_ses"
  /\ PutBnSession(se[t])
  /\ se' = [se EXCEPT ![t] = NoSess]
  /\ PutThen(t, "idle")
  /\ UNCHANGED <<ctxVars, shmVars, procVars, procLock, clientVars, cx, sm, fin, histVars>>

\* After the context has been given back: the reply is written from the session,
\* which is then given back; when writing fails it is freed, on a list or not.
RecOpenReply(t) ==
  LET s == se[t]
  IN  /\ pc[t] = "open_reply"
      /\ \/ PutBnSession(s)
         \/ /\ "reply" \in Faults
            /\ sesLive' = sesLive \ {s}
            /\ UNCHANGED <<sesOps, sesList>>
      /\ se' = [se EXCEPT ![t] = NoSess]
      /\ Return(t)
      /\ UNCHANGED <<ctxVars, shmVars, procVars, procLock, clientVars, cx, sm, fin, histVars>>

-----------------------------------------------------------------------------
(* Shared memory *)

\* TEEC_RegisterSharedMemoryInner succeeds, or rejects its arguments.
RegisterBlock(t) ==
  /\ pc[t] = "blk"
  /\ loc[t].op = "reg"
  /\ \/ \E m \in Shm \ shmLive :
          /\ TEEC_RegisterSharedMemoryInner(m, cx[t])
          /\ sm' = [sm EXCEPT ![t] = {m}]
          /\ Goto(t, "put_blk")
          /\ UNCHANGED loc
     \/ PutThen(t, "idle") /\ UNCHANGED <<shmVars, sm>>
  /\ UNCHANGED <<ctxVars, sesVars, procVars, procLock, clientVars, cx, se, fin, histVars>>

\* TEEC_AllocateSharedMemoryInner takes an offset, or finds the arguments wrong or
\* the bitmap full.
AllocateOffset(t) ==
  /\ pc[t] = "blk"
  /\ loc[t].op = "alloc"
  /\ \/ \E m \in Shm \ shmLive :
          /\ GetAndSetBit(m, cx[t])
          /\ SetLoc(t, [loc[t] EXCEPT !.blk = m])
          /\ Goto(t, "buf")
     \/ PutThen(t, "idle") /\ UNCHANGED shmVars
  /\ UNCHANGED <<ctxVars, sesVars, procVars, procLock, clientVars, refVars, fin, histVars>>

\* The buffer is mapped and the block enters the list; or mapping fails.  The reply
\* (RecAllocReply) is written before the references are given back.
AllocateBuffer(t) ==
  LET m == loc[t].blk
  IN  /\ pc[t] = "buf"
      /\ \/ /\ InsertAllocated(m, cx[t])
            /\ sm' = [sm EXCEPT ![t] = {m}]
            /\ \E r \in {TRUE} \cup (IF "reply" \in Faults THEN {FALSE} ELSE {}) :
                 SetLoc(t, [loc[t] EXCEPT !.blk = NoShm, !.ok = r])
            /\ Goto(t, "put_blk")
         \/ /\ ReleaseBufferAndClearBit(m, cx[t])
            /\ pc' = [pc EXCEPT ![t] = "put"]
            /\ SetLoc(t, [loc[t] EXCEPT !.blk = NoShm, !.next = "idle"])
            /\ UNCHANGED sm
      /\ UNCHANGED <<ctxVars, sesVars, procVars, procLock, clientVars, cx, se, fin, histVars>>

\* TEEC_ReleaseSharedMemoryInner: the block named in the request leaves the list.  A
\* registered block is named by its buffer, which stands for the block itself.
ReleaseBlock(t) ==
  /\ pc[t] = "blk"
  /\ loc[t].op = "rel"
  /\ \E b \in loc[t].off :
       \/ \E m \in FindShmByOffset(b, cx[t]) :
            /\ TEEC_FindAndRemoveShrMemInner(m)
            /\ sm' = [sm EXCEPT ![t] = {m}]
            /\ Goto(t, "put_blk")
            /\ UNCHANGED loc
       \/ /\ FindShmByOffset(b, cx[t]) = {}
          /\ PutThen(t, "idle")
          /\ UNCHANGED <<shmVars, sm>>
  /\ UNCHANGED <<ctxVars, sesVars, procVars, procLock, clientVars, cx, se, fin, histVars>>

\* What still uses the block after its reference and the context's are given back.
LateUse(t) ==
  CASE loc[t].op = "reg"                  -> "reg_read"
    [] loc[t].op = "alloc" /\ ~ loc[t].ok -> "undo"
    [] OTHER                              -> "idle"

PutBlock(t) ==
  /\ pc[t] = "put_blk"
  /\ PutBnShrMem(sm[t])
  /\ UNCHANGED shmList
  /\ sm' = [sm EXCEPT ![t] = {}]
  /\ Goto(t, "put")
  /\ \E m \in sm[t] :
       SetLoc(t, [loc[t] EXCEPT !.next = LateUse(t),
                                !.late = IF LateUse(t) = "idle" THEN NoCtx ELSE m])
  /\ UNCHANGED <<ctxVars, sesVars, procVars, procLock, clientVars, cx, se, fin, histVars>>

\* RegisterSharedMemory reads outShm->ops_cnt and ->offset for the reply.
RegisterReply(t) ==
  /\ pc[t] = "reg_read"
  /\ Return(t)
  /\ UNCHANGED <<ctxVars, sesVars, shmVars, procVars, procLock, clientVars, refVars, fin, histVars>>

\* AllocateSharedMemory could not write the reply: the block leaves the list (without
\* shrMemLock) and the list's reference is given back.  A block that is freed already
\* belongs to no object of the model, so writing to it changes none.
UndoAllocate(t) ==
  LET m == loc[t].late
  IN  /\ pc[t] = "undo"
      /\ IF m \in shmLive /\ (shmOps[m] > 1 \/ shmCtx[m] \in ctxLive)
         THEN /\ PutBnShrMem({m})
              /\ shmList' = [shmList EXCEPT ![m] = NoCtx]
         ELSE UNCHANGED shmVars
      /\ Return(t)
      /\ UNCHANGED <<ctxVars, sesVars, procVars, procLock, clientVars, refVars, fin, histVars>>

-----------------------------------------------------------------------------
(* Death of a CA *)

\* OnRemoteDied takes mClientLock and keeps it to the end.
OnRemoteDied(t, a) ==
  /\ pc[t] = "idle"
  /\ a \in mClients
  /\ caState[a] = "dead"
  /\ ClientUnlocked
  /\ SetLoc(t, [NoLocal EXCEPT !.op = "die", !.ca = a])
  /\ Goto(t, "died")
  /\ UNCHANGED <<ctxVars, sesVars, shmVars, procVars, procLock, clientVars, refVars, fin, histVars>>

\* ProcessCaDied takes the entry of the pid off the list, under mProcDataLock.  Without
\* an entry only the client is erased.
ProcessCaDied(t) ==
  LET a == loc[t].ca
      p == PidOf[a]
  IN  /\ pc[t] = "died"
      /\ ProcDataUnlocked
      /\ \/ /\ procOwner[p] = NoCA
            /\ mClients' = mClients \ {a}
            /\ Return(t)
            /\ UNCHANGED procVars
         \/ /\ procOwner[p] # NoCA
            /\ procOwner' = [procOwner EXCEPT ![p] = NoCA]
            /\ cxtFd' = [cxtFd EXCEPT ![p] = NoSlots]
            /\ SetLoc(t, [loc[t] EXCEPT !.dfds = cxtFd[p]])
            /\ Goto(t, "clean")
            /\ UNCHANGED mClients
      /\ UNCHANGED <<ctxVars, sesVars, shmVars, procLock, caState, refVars, fin, histVars>>

\* CleanProcDataForOneCa: the next descriptor of the entry, looked up without
\* mProcDataLock; the client is erased after the last one.
CleanProcDataForOneCa(t) ==
  LET full == {i \in Slot : loc[t].dfds[i] # NoFd}
      f    == loc[t].dfds[First(full)]
      rest == [loc[t].dfds EXCEPT ![First(full)] = NoFd]
  IN  /\ pc[t] = "clean"
      /\ \/ /\ full = {}
            /\ mClients' = mClients \ {loc[t].ca}
            /\ Return(t)
            /\ UNCHANGED <<ctxVars, cx>>
         \/ /\ full # {}
            /\ FindBnContext(f) = {}
            /\ SetLoc(t, [loc[t] EXCEPT !.dfds = rest])
            /\ UNCHANGED <<ctxVars, cx, pc, mClients>>
         \/ /\ full # {}
            /\ \E c \in FindBnContext(f) :
                 /\ RemoveBnContext(c)
                 /\ cx' = [cx EXCEPT ![t] = c]
            /\ SetLoc(t, [loc[t] EXCEPT !.dfds = rest])
            /\ Goto(t, "clean_put")
            /\ UNCHANGED mClients
      /\ UNCHANGED <<sesVars, shmVars, procVars, procLock, caState, se, sm, fin, histVars>>

\* PutBnContext, without mProcDataLock.
CleanPutBnContext(t) ==
  LET c == cx[t]
  IN  /\ pc[t] = "clean_put"
      /\ DecBnContext(c)
      /\ cx' = [cx EXCEPT ![t] = NoCtx]
      /\ IF LastReference(c)
         THEN fin' = [fin EXCEPT ![t] = c] /\ Goto(t, "fin_ses")
         ELSE Goto(t, "clean") /\ UNCHANGED fin
      /\ UNCHANGED <<sesVars, shmVars, procVars, procLock, clientVars, loc, se, sm, histVars>>

-----------------------------------------------------------------------------
ContextStep(t) ==
  \/ SetContextToProcData(t) \/ SetContextToProcDataFails(t) \/ ReleaseContext(t)
  \/ CallFinalizeContext(t) \/ PutBnContextAndReleaseFd(t)
  \/ FinalizeSessionList(t) \/ FinalizeShmList(t) \/ FinalizeClose(t)
  \/ RemoveContextFromProcData(t) \/ CallGetBnContext(t)

SessionStep(t) ==
  \/ CallGetBnSession(t) \/ TeecOptDecodePartialMem(t) \/ AddTidDataFails(t)
  \/ TEEC_OpenSessionInner(t) \/ TEEC_CommandInner(t) \/ PutAllocShrMem(t)
  \/ ReleaseSession(t) \/ RecOpenReply(t)

SharedMemoryStep(t) ==
  \/ RegisterBlock(t) \/ AllocateOffset(t) \/ AllocateBuffer(t) \/ ReleaseBlock(t)
  \/ PutBlock(t) \/ RegisterReply(t) \/ UndoAllocate(t)

DeathStep(t) == ProcessCaDied(t) \/ CleanProcDataForOneCa(t) \/ CleanPutBnContext(t)

\* The next step of the handler thread t is running.
HandlerStep(t) == ContextStep(t) \/ SessionStep(t) \/ SharedMemoryStep(t) \/ DeathStep(t)

Request(t, a) ==
  \/ \E c \in Ctx, f \in Fd : InitializeContext(t, a, c, f)
  \/ \E f \in Fd : \/ FinalizeContext(t, a, f)
                   \/ OpenSession(t, a, f)
                   \/ InvokeCommand(t, a, f)
                   \/ CloseSession(t, a, f)
                   \/ RegisterSharedMemory(t, a, f)
                   \/ AllocateSharedMemory(t, a, f)
                   \/ ReleaseSharedMemory(t, a, f)

Next ==
  \/ \E a \in CA : SetCallBack(a) \/ CaDies(a)
  \/ \E t \in Thread, a \in CA : Request(t, a) \/ OnRemoteDied(t, a)
  \/ \E t \in Thread : HandlerStep(t)

Spec == Init /\ [][Next]_vars

\* What the scheduler and the kernel give: a handler that can go on does (TEE calls
\* return), a handler waiting for mProcDataLock gets it if it is free again and again,
\* and the notification of a death is delivered once a binder thread is free.
Fairness ==
  /\ \A t \in Thread : /\ WF_vars(HandlerStep(t))
                       /\ SF_vars(pc[t] \in {"proc", "put", "died"} /\ HandlerStep(t))
  /\ \A a \in CA : SF_vars(\E t \in Thread : OnRemoteDied(t, a))

FairSpec == Spec /\ Fairness

-----------------------------------------------------------------------------
(* Safety *)

Holders(c) == {t \in Thread : cx[t] = c}

\* ops_cnt of a context is exactly the number of references to it: one for
\* g_teecContextList, one per handler between its Get and its Put, and those that
\* error paths lost.  Every Get/Put pairing of cadaemon_service.cpp is behind it.
ContextRefCount ==
  \A c \in ctxLive :
    ctxOps[c] = Cardinality(Holders(c)) + (IF c \in ctxList THEN 1 ELSE 0) + lost[c]

\* No context is freed while it is on the list or a handler has a reference to it,
\* and a context being torn down by TEEC_FinalizeContextInner is out of everybody
\* else's reach: in the code, sessions are closed and the descriptor is closed there
\* without any lock that would keep a second user out.
ContextNotFreedInUse ==
  /\ ctxList \subseteq ctxLive
  /\ \A t \in Thread :
       /\ cx[t] # NoCtx => cx[t] \in ctxLive
       /\ fin[t] # NoCtx =>
            /\ fin[t] \in ctxLive \ ctxList
            /\ Holders(fin[t]) = {}
            /\ \A u \in Thread : fin[u] = fin[t] => u = t

SessionHolders(s) == {t \in Thread : se[t] = s}

\* The same for TEEC_Session.ops_cnt: PutBnSession in InvokeCommand, CloseSession,
\* OpenSession and TEEC_FinalizeContextInner balance GetBnSession and AddSessionList;
\* a session in use is never freed, and a listed one is listed in a live context.
SessionRefCount ==
  /\ \A s \in sesLive :
       sesOps[s] = Cardinality(SessionHolders(s)) + (IF sesList[s] # NoCtx THEN 1 ELSE 0) + lost[s]
  /\ \A t \in Thread : se[t] # NoSess => se[t] \in sesLive
  /\ \A s \in Sess : sesList[s] # NoCtx => s \in sesLive /\ sesList[s] \in ctxLive

ShmHolders(m) == {t \in Thread : m \in sm[t]}

\* The same for TEEC_SharedMemoryInner.ops_cnt, from the moment the block is listed.
ShmRefCount ==
  /\ \A m \in shmLive : (\A t \in Thread : loc[t].blk # m) =>
       shmOps[m] = Cardinality(ShmHolders(m)) + (IF shmList[m] # NoCtx THEN 1 ELSE 0) + lost[m]
  /\ \A t \in Thread : sm[t] \subseteq shmLive

\* Blocks that will still go through ReleaseSharedMemory.
Releasable == {m \in shmLive : shmList[m] # NoCtx \/ \E t \in Thread : m \in sm[t] \/ loc[t].blk = m}

\* ReleaseSharedMemory(sharedMem) clears a bit in sharedMem->context: that context is
\* still allocated whenever a block can be released, which is why the handlers give
\* their blocks back before the context.
ShmContextLive == \A m \in Releasable : shmCtx[m] \in ctxLive

\* Two blocks of one context never share an offset (an offset is the page the block is
\* mapped at), and the bit of a block that can still be used is set.
OffsetExclusive ==
  \A m \in Releasable : shmOff[m] # NoBit =>
    /\ shmOff[m] \in bitmap[shmCtx[m]]
    /\ \A n \in Releasable : shmCtx[n] = shmCtx[m] /\ shmOff[n] = shmOff[m] => n = m

Quiescent == \A t \in Thread : pc[t] = "idle"

\* When no handler is running nothing is left behind: every context is on the list,
\* every session and block belongs to a listed context, every set bit to a block.
NothingOrphaned ==
  Quiescent =>
    /\ ctxLive = ctxList
    /\ \A s \in sesLive : sesList[s] \in ctxList
    /\ \A m \in shmLive : shmList[m] \in ctxList
    /\ \A c \in ctxList : bitmap[c] = {shmOff[m] : m \in {n \in shmLive : shmList[n] = c}} \ {NoBit}

\* A handler only ever works on a context its own caller initialized.
CallerOwnsContext == \A t \in Thread : cx[t] # NoCtx => owner[cx[t]] = loc[t].ca

\* A descriptor recorded for a CA is that of a live context of that CA, and is
\* recorded once.  While mProcDataLock is held the record may lag behind.
ProcDataExact ==
  ProcDataUnlocked =>
    \A p \in Pid, i \in Slot : cxtFd[p][i] # NoFd =>
      /\ \E c \in ctxLive : ctxFd[c] = cxtFd[p][i] /\ owner[c] = procOwner[p]
      /\ \A q \in Pid, j \in Slot : cxtFd[q][j] = cxtFd[p][i] => p = q /\ i = j

\* The comment in ReleaseContext: "ops_cnt is 2, contextInner wn't be released in
\* PutBnContextAndReleaseFd".  It goes on to read the context.
ReleaseKeepsContext == \A t \in Thread : fin[t] # NoCtx => loc[t].next # "rel_read"

\* The comments "release resources" in OnRemoteDied and "pair with initialize context"
\* in CleanProcDataForOneCa: once the death of a CA is handled and no handler is
\* running, no context of that CA is left.
DeadClientReleased ==
  Quiescent => \A c \in ctxLive : caState[owner[c]] = "dead" => owner[c] \in mClients

-----------------------------------------------------------------------------
(* Liveness *)

\* Every handler returns: none waits for ever for mProcDataLock, which others hold across
\* TEE calls, and a death that waits for it gives mClientLock back in the end.
HandlerReturns == \A t \in Thread : pc[t] # "idle" ~> pc[t] = "idle"

\* A context taken off the list (by FinalizeContext or by a death) is freed in the end,
\* also when requests that use it are still running then.
FinalizedContextFreed ==
  \A c \in Ctx : c \in ctxLive \ ctxList ~> c \notin ctxLive

=============================================================================
