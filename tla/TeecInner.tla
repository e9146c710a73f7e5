----------------------------- MODULE TeecInner -----------------------------
(***************************************************************************)
(* The reference-counted objects of frameworks/libteec_vendor/             *)
(* tee_client_api.c: TEEC_ContextInner, TEEC_Session and                   *)
(* TEEC_SharedMemoryInner, the lists that hold them and the bitmap of      *)
(* shared-memory offsets.  The file is compiled into libteec_vendor.so and *)
(* into cadaemon; a module that models one of those programs extends this  *)
(* one and calls the operators below from its own actions.                 *)
(*                                                                         *)
(* Every operator is one critical section of the C code (one lock taken    *)
(* and given back), so an interleaving of actions built from them is an    *)
(* interleaving the code allows.  Every operator says what happens to the  *)
(* variables of its own object kind and nothing about the other kinds.     *)
(***************************************************************************)
EXTENDS Integers, FiniteSets

CONSTANTS
  Ctx,      \* heap addresses a TEEC_ContextInner can have
  Sess,     \* heap addresses (and TEE session identifiers) of TEEC_Session
  Shm,      \* heap addresses of TEEC_SharedMemoryInner
  Fd,       \* file descriptors of the tzdriver device
  NumBits,  \* bits of shm_bitmap (8 * NUM_OF_SHAREMEM_BITMAP in the code)
  NoCtx, NoSess, NoShm, NoFd

Bit == 0 .. NumBits - 1

\* The offset of a registered (not allocated) shared memory: (uint32_t)(-1).
NoBit == NumBits

ASSUME InnerAssumption ==
  /\ NumBits \in Nat
  /\ IsFiniteSet(Ctx) /\ IsFiniteSet(Sess) /\ IsFiniteSet(Shm)
  /\ NoCtx \notin Ctx /\ NoSess \notin Sess /\ NoShm \notin Shm /\ NoFd \notin Fd

VARIABLES
  ctxLive,   \* allocated contexts
  ctxList,   \* g_teecContextList
  ctxOps,    \* TEEC_ContextInner.ops_cnt
  ctxFd,     \* TEEC_ContextInner.fd
  bitmap,    \* TEEC_ContextInner.shm_bitmap: the bits that are set
  sesLive,   \* allocated sessions
  sesOps,    \* TEEC_Session.ops_cnt
  sesList,   \* the context whose session_list holds the session, or NoCtx
  shmLive,   \* allocated shared memories
  shmOps,    \* TEEC_SharedMemoryInner.ops_cnt
  shmList,   \* the context whose shrd_mem_list holds it, or NoCtx
  shmCtx,    \* TEEC_SharedMemoryInner.context
  shmOff     \* TEEC_SharedMemoryInner.offset

ctxVars   == <<ctxLive, ctxList, ctxOps, ctxFd>>
sesVars   == <<sesLive, sesOps, sesList>>
blkVars   == <<shmLive, shmOps, shmList, shmCtx, shmOff>>
shmVars   == <<blkVars, bitmap>>
innerVars == <<ctxVars, sesVars, shmVars>>

\* The counts are uint32_t in the code.  Only the step from 1 to 0 is ever tested, so a
\* count that would wrap around below 0 is an ordinary negative number here.
InnerTypeOK ==
  /\ ctxLive \in SUBSET Ctx
  /\ ctxList \in SUBSET Ctx
  /\ ctxOps \in [Ctx -> Int]
  /\ ctxFd \in [Ctx -> Fd \cup {NoFd}]
  /\ bitmap \in [Ctx -> SUBSET Bit]
  /\ sesLive \in SUBSET Sess
  /\ sesOps \in [Sess -> Int]
  /\ sesList \in [Sess -> Ctx \cup {NoCtx}]
  /\ shmLive \in SUBSET Shm
  /\ shmOps \in [Shm -> Int]
  /\ shmList \in [Shm -> Ctx \cup {NoCtx}]
  /\ shmCtx \in [Shm -> Ctx \cup {NoCtx}]
  /\ shmOff \in [Shm -> Bit \cup {NoBit}]

InnerInit ==
  /\ ctxLive = {} /\ ctxList = {}
  /\ ctxOps = [c \in Ctx |-> 0]
  /\ ctxFd = [c \in Ctx |-> NoFd]
  /\ bitmap = [c \in Ctx |-> {}]
  /\ sesLive = {}
  /\ sesOps = [s \in Sess |-> 0]
  /\ sesList = [s \in Sess |-> NoCtx]
  /\ shmLive = {}
  /\ shmOps = [m \in Shm |-> 0]
  /\ shmList = [m \in Shm |-> NoCtx]
  /\ shmCtx = [m \in Shm |-> NoCtx]
  /\ shmOff = [m \in Shm |-> NoBit]

-----------------------------------------------------------------------------
(* Contexts *)

\* The descriptors ObtainTzdriveFd's open() can return: those no context has open.
FreeFds == Fd \ {ctxFd[c] : c \in ctxLive}

\* A fresh context c on descriptor f, with an empty bitmap, is put on the list with
\* ops_cnt 2: one for the list, one for the caller.  (open, login and the insertion
\* are one step: nobody can reach the context before it is on the list.)
TEEC_InitializeContextInner(c, f) ==
  /\ ctxLive' = ctxLive \cup {c}
  /\ ctxList' = ctxList \cup {c}
  /\ ctxOps' = [ctxOps EXCEPT ![c] = 2]
  /\ ctxFd' = [ctxFd EXCEPT ![c] = f]
  /\ bitmap' = [bitmap EXCEPT ![c] = {}]

\* The contexts on the list whose descriptor is f.
FindBnContext(f) == {c \in ctxList : ctxFd[c] = f}

MutGetBnContextUncounted(c) == UNCHANGED ctxVars

GetBnContext(c) ==
  /\ ctxOps' = [ctxOps EXCEPT ![c] = @ + 1]
  /\ UNCHANGED <<ctxLive, ctxList, ctxFd>>

MutRemoveKeepsListed(c) == UNCHANGED ctxVars

\* FindAndRemoveBnContext: the list's reference passes to the caller.
RemoveBnContext(c) ==
  /\ ctxList' = ctxList \ {c}
  /\ UNCHANGED <<ctxLive, ctxOps, ctxFd>>

\* AtomDecAndCompareWithZero on ops_cnt; the caller goes on to
\* TEEC_FinalizeContextInner when LastReference(c).
LastReference(c) == ctxOps[c] = 1

DecBnContext(c) ==
  /\ ctxOps' = [ctxOps EXCEPT ![c] = @ - 1]
  /\ UNCHANGED <<ctxLive, ctxList, ctxFd>>

\* The end of TEEC_FinalizeContextInner: close(fd), fd = -1, free.
FreeContext(c) ==
  /\ ctxLive' = ctxLive \ {c}
  /\ ctxFd' = [ctxFd EXCEPT ![c] = NoFd]
  /\ UNCHANGED <<ctxList, ctxOps>>

-----------------------------------------------------------------------------
(* Sessions *)

\* A fresh session enters c's list with ops_cnt 2: the list's and the caller's.
AddSessionList(s, c) ==
  /\ sesLive' = sesLive \cup {s}
  /\ sesOps' = [sesOps EXCEPT ![s] = 2]
  /\ sesList' = [sesList EXCEPT ![s] = c]

FindBnSession(s, c) == sesList[s] = c

MutGetBnSessionUncounted(s) == UNCHANGED sesVars

GetBnSession(s) ==
  /\ sesOps' = [sesOps EXCEPT ![s] = @ + 1]
  /\ UNCHANGED <<sesLive, sesList>>

FindAndRemoveSession(s) ==
  /\ sesList' = [sesList EXCEPT ![s] = NoCtx]
  /\ UNCHANGED <<sesLive, sesOps>>

PutBnSession(s) ==
  /\ sesOps' = [sesOps EXCEPT ![s] = @ - 1]
  /\ sesLive' = IF sesOps[s] = 1 THEN sesLive \ {s} ELSE sesLive
  /\ UNCHANGED sesList

MutFinalizeKeepsReference(c) ==
  /\ sesList' = [s \in Sess |-> IF sesList[s] = c THEN NoCtx ELSE sesList[s]]
  /\ UNCHANGED <<sesLive, sesOps>>

\* TEEC_FinalizeContextInner under sessionLock: every session of c is taken off the
\* list, closed in the TEE and (callFromService) given back.
FinalizeSessions(c) ==
  LET mine == {s \in Sess : sesList[s] = c}
  IN  /\ sesList' = [s \in Sess |-> IF s \in mine THEN NoCtx ELSE sesList[s]]
      /\ sesOps' = [s \in Sess |-> IF s \in mine THEN sesOps[s] - 1 ELSE sesOps[s]]
      /\ sesLive' = sesLive \ {s \in mine : sesOps[s] = 1}

-----------------------------------------------------------------------------
(* Shared memory *)

\* IterateBitmap(SET): the lowest clear bit of c's bitmap.
LowestClear(c) == CHOOSE b \in Bit \ bitmap[c] : \A d \in Bit \ bitmap[c] : b <= d

\* GetAndSetBitWithLock for a block m not yet known to anyone.  The block gets its
\* address here; its other fields are set when it enters the list.
GetAndSetBit(m, c) ==
  /\ Bit \ bitmap[c] # {}
  /\ bitmap' = [bitmap EXCEPT ![c] = @ \cup {LowestClear(c)}]
  /\ shmOff' = [shmOff EXCEPT ![m] = LowestClear(c)]
  /\ shmLive' = shmLive \cup {m}
  /\ shmCtx' = [shmCtx EXCEPT ![m] = c]
  /\ UNCHANGED <<shmOps, shmList>>

\* RelaseBufferAndClearBit, and the free() of the block by the caller.
ReleaseBufferAndClearBit(m, c) ==
  /\ bitmap' = [bitmap EXCEPT ![c] = @ \ {shmOff[m]}]
  /\ shmOff' = [shmOff EXCEPT ![m] = NoBit]
  /\ shmLive' = shmLive \ {m}
  /\ shmCtx' = [shmCtx EXCEPT ![m] = NoCtx]
  /\ UNCHANGED <<shmOps, shmList>>

MutInsertOneReference(m, c) ==
  /\ shmOps' = [shmOps EXCEPT ![m] = 1]
  /\ shmList' = [shmList EXCEPT ![m] = c]
  /\ UNCHANGED <<shmLive, shmCtx, shmOff, bitmap>>

\* The tail of TEEC_AllocateSharedMemoryInner: on the list with ops_cnt 2.
InsertAllocated(m, c) ==
  /\ shmOps' = [shmOps EXCEPT ![m] = 2]
  /\ shmList' = [shmList EXCEPT ![m] = c]
  /\ UNCHANGED <<shmLive, shmCtx, shmOff, bitmap>>

\* TEEC_RegisterSharedMemoryInner: a fresh block without an offset, ops_cnt 2.
TEEC_RegisterSharedMemoryInner(m, c) ==
  /\ shmLive' = shmLive \cup {m}
  /\ shmOps' = [shmOps EXCEPT ![m] = 2]
  /\ shmList' = [shmList EXCEPT ![m] = c]
  /\ shmCtx' = [shmCtx EXCEPT ![m] = c]
  /\ shmOff' = [shmOff EXCEPT ![m] = NoBit]
  /\ UNCHANGED bitmap

\* GetBnShmByOffset: the blocks on c's list at offset b, for NoBit any registered one (the
\* code takes the first).
FindShmByOffset(b, c) == {m \in Shm : shmList[m] = c /\ shmOff[m] = b}

GetBnShm(m) ==
  /\ shmOps' = [shmOps EXCEPT ![m] = @ + 1]
  /\ UNCHANGED <<shmLive, shmList, shmCtx, shmOff, bitmap>>

MutRemoveClearsBit(m) ==
  /\ shmList' = [shmList EXCEPT ![m] = NoCtx]
  /\ bitmap' = [bitmap EXCEPT ![shmCtx[m]] = @ \ {shmOff[m]}]
  /\ UNCHANGED <<shmLive, shmOps, shmCtx, shmOff>>

\* TEEC_FindAndRemoveShrMemInner: off the list, the reference passes to the caller.
TEEC_FindAndRemoveShrMemInner(m) ==
  /\ shmList' = [shmList EXCEPT ![m] = NoCtx]
  /\ UNCHANGED <<shmLive, shmOps, shmCtx, shmOff, bitmap>>

\* PutBnShrMem on every block of M at once; a block whose count reaches zero goes
\* through ReleaseSharedMemory: its bit is cleared in its context, then it is freed.
PutBnShrMem(M) ==
  LET dead == {m \in M : shmOps[m] = 1}
  IN  /\ shmOps' = [m \in Shm |-> IF m \in M THEN shmOps[m] - 1 ELSE shmOps[m]]
      /\ shmLive' = shmLive \ dead
      /\ shmCtx' = [m \in Shm |-> IF m \in dead THEN NoCtx ELSE shmCtx[m]]
      /\ shmOff' = [m \in Shm |-> IF m \in dead THEN NoBit ELSE shmOff[m]]
      /\ bitmap' = [c \in Ctx |-> bitmap[c] \ {shmOff[m] : m \in {d \in dead : shmCtx[d] = c}}]

\* TEEC_FinalizeContextInner under shrMemLock: every block of c leaves the list and
\* gives back the list's reference.
FinalizeSharedMemory(c) ==
  LET mine == {m \in Shm : shmList[m] = c}
  IN  /\ PutBnShrMem(mine)
      /\ shmList' = [m \in Shm |-> IF m \in mine THEN NoCtx ELSE shmList[m]]

=============================================================================
