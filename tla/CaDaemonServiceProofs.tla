----------------------- MODULE CaDaemonServiceProofs -----------------------
(***************************************************************************)
(* Proofs about CaDaemonService for every number of CAs, binder threads,   *)
(* contexts, sessions and blocks and every set of requests.                *)
(*                                                                         *)
(* Contexts, with every set of faults: TypeOK, ContextRefCount and         *)
(* ContextNotFreedInUse.  None of the three is inductive.  What carries    *)
(* the induction is ContextInv: the program counter of a thread tells      *)
(* whether it holds a reference or is tearing a context down (ControlInv), *)
(* and the reference count is exact, with 0 exactly for a context being    *)
(* torn down (RefInv).                                                     *)
(*                                                                         *)
(* Sessions and shared memory, when the replies can be written ("reply" is *)
(* not a fault; with it RecOpenReply frees a session that others use):     *)
(* SessionRefCount, ShmRefCount, ShmContextLive and OffsetExclusive.       *)
(* ObjectControl tells from the program counter what else a handler has in *)
(* hand; SessionInv and BlockInv add that counts are positive, that a      *)
(* freed object has no lost reference, that a context being torn down has  *)
(* been emptied, and that a block being mapped is known to its allocating  *)
(* handler alone.  Both go through one lemma per kind of step (taking,     *)
(* giving back, listing, taking off the list, losing a reference) and then *)
(* one per action, which says of what kind it is.                          *)
(*                                                                         *)
(* Ownership, with every set of faults, when each CA has one request in    *)
(* flight and none dies: ProcDataExact.  OwnInv says that a CA is served   *)
(* by one thread, that a context is only touched by the thread that serves *)
(* its owner, and that a record of the table is current or about to be     *)
(* removed under mProcDataLock.                                            *)
(*                                                                         *)
(* Clean-up, without the reply fault: NothingOrphaned unless an error exit *)
(* forgot a reference.  TidyInv adds what the other invariants do not say: *)
(* a context without references has a thread that tears it down, and a set *)
(* bit has its block.                                                      *)
(***************************************************************************)
EXTENDS CaDaemonService, TLAPS, FiniteSetTheorems, WellFoundedInduction

\* Where a handler has a reference to a context in hand.
HoldPC == {"proc", "put", "sess", "opt", "ioctl", "put_shm", "put_ses", "blk", "buf",
           "put_blk", "clean_put"}

\* Where it is inside TEEC_FinalizeContextInner.
FinPC == {"fin_ses", "fin_shm", "fin_close"}

\* Where PutBnContextAndReleaseFd can return to.
ReturnPC == {"idle", "rel_read", "open_reply", "reg_read", "undo"}

RequestOp == {"open", "invoke", "close", "reg", "alloc", "rel"}

ControlInv ==
  \A t \in Thread :
    /\ cx[t] # NoCtx <=> pc[t] \in HoldPC
    /\ fin[t] # NoCtx <=> pc[t] \in FinPC
    /\ loc[t].next \in ReturnPC
    /\ pc[t] # "idle" => loc[t].ca \in CA
    /\ pc[t] = "get" => loc[t].op \in RequestOp
    /\ pc[t] = "buf" => loc[t].blk \in Shm

RefInv ==
  /\ ContextRefCount
  /\ ctxList \subseteq ctxLive
  /\ \A t \in Thread : cx[t] # NoCtx => cx[t] \in ctxLive
  /\ \A t \in Thread : fin[t] # NoCtx =>
       /\ fin[t] \in ctxLive
       /\ ctxOps[fin[t]] = 0
       /\ \A u \in Thread : fin[u] = fin[t] => u = t
  /\ \A c \in Ctx \ ctxLive : lost[c] = 0

ContextInv == TypeOK /\ ControlInv /\ RefInv

-----------------------------------------------------------------------------
(* Lemmas about the helpers *)

\* A non-empty set of natural numbers has a least member: the slot or the bit that the
\* loops of SetContextToProcData and IterateBitmap stop at.
LEMMA LeastMember ==
  ASSUME NEW S \in SUBSET Nat, S # {}
  PROVE  \E i \in S : \A j \in S : i <= j
<1>1. PICK i \in S : \A j \in S : ~ (<<j, i>> \in OpToRel(<, Nat))
  BY WFMin, NatLessThanWellFounded, Zenon
<1>2. \A j \in S : ~ (j < i)
  BY <1>1, Zenon DEF OpToRel
<1> QED
  BY <1>2, SMT

LEMMA FirstInSet ==
  ASSUME NEW S \in SUBSET Nat, S # {}
  PROVE  First(S) \in S
BY LeastMember DEF First

LEMMA LowestClearType ==
  ASSUME TypeOK, NEW c \in Ctx, Bit \ bitmap[c] # {}
  PROVE  LowestClear(c) \in Bit
<1>1. Bit \ bitmap[c] \in SUBSET Nat
  BY InnerAssumption DEF Bit
<1> QED
  BY <1>1, LeastMember DEF LowestClear

-----------------------------------------------------------------------------

LEMMA TypeInit == Init => TypeOK
BY InnerAssumption, ServiceAssumption
   DEF Init, InnerInit, TypeOK, InnerTypeOK, NoLocal, Local, NoSlots, PCs, Op, Bit, NoBit, Obj

\* Only t's locals change, and they keep their type.
LocStep(t) ==
  /\ loc' \in [Thread -> Local]
  /\ \A u \in Thread \ {t} : loc'[u] = loc[u]

LEMMA LocalOf ==
  ASSUME TypeOK, NEW t \in Thread
  PROVE  loc[t] \in Local
BY DEF TypeOK

LEMMA SetLocStep ==
  ASSUME TypeOK, NEW t \in Thread, NEW r \in Local, SetLoc(t, r)
  PROVE  LocStep(t) /\ loc'[t] = r
BY DEF TypeOK, SetLoc, LocStep

LEMMA SameLoc ==
  ASSUME TypeOK, NEW t \in Thread, UNCHANGED loc
  PROVE  LocStep(t) /\ loc'[t] = loc[t]
BY DEF TypeOK, LocStep

LEMMA NoLocalType ==
  /\ NoLocal \in Local /\ NoLocal.next = "idle" /\ NoLocal.op = "init"
  /\ NoLocal.blk = NoShm /\ NoLocal.ok
BY InnerAssumption DEF NoLocal, Local, NoSlots, PCs, Op

LEMMA ReturnStep ==
  ASSUME TypeOK, NEW t \in Thread, Return(t)
  PROVE  /\ LocStep(t) /\ loc'[t].next = "idle" /\ pc' = [pc EXCEPT ![t] = "idle"]
         /\ loc'[t] = NoLocal
BY NoLocalType, SetLocStep DEF Return

\* The updates the handlers make: the fields ControlInv is about change only where they
\* are named.
LEMMA SetNext ==
  ASSUME TypeOK, NEW t \in Thread, NEW n \in PCs,
         SetLoc(t, [loc[t] EXCEPT !.next = n])
  PROVE  /\ LocStep(t)
         /\ loc'[t].next = n /\ loc'[t].ca = loc[t].ca /\ loc'[t].op = loc[t].op
         /\ loc'[t].s = loc[t].s /\ loc'[t].blk = loc[t].blk /\ loc'[t].ok = loc[t].ok
<1>1. ASSUME NEW r \in Local
      PROVE  LET q == [r EXCEPT !.next = n]
             IN  /\ q \in Local /\ q.next = n /\ q.ca = r.ca /\ q.op = r.op
                 /\ q.s = r.s /\ q.blk = r.blk /\ q.ok = r.ok
  BY DEF Local
<1> DEFINE q == [loc[t] EXCEPT !.next = n]
<1>2. /\ q \in Local /\ q.next = n /\ q.ca = loc[t].ca /\ q.op = loc[t].op
      /\ q.s = loc[t].s /\ q.blk = loc[t].blk /\ q.ok = loc[t].ok
  BY <1>1, LocalOf, Zenon
<1>3. SetLoc(t, q)
  OBVIOUS
<1> HIDE DEF q
<1> QED
  BY <1>2, <1>3, SetLocStep, Zenon

LEMMA SetNextLate ==
  ASSUME TypeOK, NEW t \in Thread, NEW n \in PCs, NEW x \in Obj \cup {NoCtx},
         SetLoc(t, [loc[t] EXCEPT !.next = n, !.late = x])
  PROVE  /\ LocStep(t) /\ loc'[t].late = x
         /\ loc'[t].next = n /\ loc'[t].ca = loc[t].ca /\ loc'[t].op = loc[t].op
         /\ loc'[t].s = loc[t].s /\ loc'[t].blk = loc[t].blk /\ loc'[t].ok = loc[t].ok
<1>1. ASSUME NEW r \in Local
      PROVE  LET q == [r EXCEPT !.next = n, !.late = x]
             IN  /\ q \in Local /\ q.next = n /\ q.ca = r.ca /\ q.op = r.op
                 /\ q.s = r.s /\ q.blk = r.blk /\ q.ok = r.ok /\ q.late = x
  BY DEF Local
<1> DEFINE q == [loc[t] EXCEPT !.next = n, !.late = x]
<1>2. /\ q \in Local /\ q.next = n /\ q.ca = loc[t].ca /\ q.op = loc[t].op
      /\ q.s = loc[t].s /\ q.blk = loc[t].blk /\ q.ok = loc[t].ok /\ q.late = x
  BY <1>1, LocalOf, Zenon
<1>3. SetLoc(t, q)
  OBVIOUS
<1> HIDE DEF q
<1> QED
  BY <1>2, <1>3, SetLocStep, Zenon

LEMMA SetFd ==
  ASSUME TypeOK, NEW t \in Thread, NEW f \in Fd \cup {NoFd},
         SetLoc(t, [loc[t] EXCEPT !.fd = f])
  PROVE  /\ LocStep(t) /\ loc'[t].fd = f
         /\ loc'[t].next = loc[t].next /\ loc'[t].ca = loc[t].ca /\ loc'[t].op = loc[t].op
         /\ loc'[t].s = loc[t].s /\ loc'[t].blk = loc[t].blk /\ loc'[t].ok = loc[t].ok
<1>1. ASSUME NEW r \in Local
      PROVE  LET q == [r EXCEPT !.fd = f]
             IN  /\ q \in Local /\ q.next = r.next /\ q.ca = r.ca /\ q.op = r.op
                 /\ q.s = r.s /\ q.blk = r.blk /\ q.ok = r.ok /\ q.fd = f
  BY DEF Local
<1> DEFINE q == [loc[t] EXCEPT !.fd = f]
<1>2. /\ q \in Local /\ q.next = loc[t].next /\ q.ca = loc[t].ca /\ q.op = loc[t].op
      /\ q.s = loc[t].s /\ q.blk = loc[t].blk /\ q.ok = loc[t].ok /\ q.fd = f
  BY <1>1, LocalOf, Zenon
<1>3. SetLoc(t, q)
  OBVIOUS
<1> HIDE DEF q
<1> QED
  BY <1>2, <1>3, SetLocStep, Zenon

LEMMA SetFdLate ==
  ASSUME TypeOK, NEW t \in Thread, NEW f \in Fd \cup {NoFd},
         SetLoc(t, [loc[t] EXCEPT !.fd = f, !.late = NoCtx])
  PROVE  /\ LocStep(t) /\ loc'[t].fd = f
         /\ loc'[t].next = loc[t].next /\ loc'[t].ca = loc[t].ca /\ loc'[t].op = loc[t].op
         /\ loc'[t].s = loc[t].s /\ loc'[t].blk = loc[t].blk /\ loc'[t].ok = loc[t].ok
<1>1. ASSUME NEW r \in Local
      PROVE  LET q == [r EXCEPT !.fd = f, !.late = NoCtx]
             IN  /\ q \in Local /\ q.next = r.next /\ q.ca = r.ca /\ q.op = r.op
                 /\ q.s = r.s /\ q.blk = r.blk /\ q.ok = r.ok /\ q.fd = f
  BY DEF Local
<1> DEFINE q == [loc[t] EXCEPT !.fd = f, !.late = NoCtx]
<1>2. /\ q \in Local /\ q.next = loc[t].next /\ q.ca = loc[t].ca /\ q.op = loc[t].op
      /\ q.s = loc[t].s /\ q.blk = loc[t].blk /\ q.ok = loc[t].ok /\ q.fd = f
  BY <1>1, LocalOf, Zenon
<1>3. SetLoc(t, q)
  OBVIOUS
<1> HIDE DEF q
<1> QED
  BY <1>2, <1>3, SetLocStep, Zenon

LEMMA SetOff ==
  ASSUME TypeOK, NEW t \in Thread, NEW b \in Bit \cup {NoBit},
         SetLoc(t, [loc[t] EXCEPT !.off = @ \ {b}])
  PROVE  /\ LocStep(t)
         /\ loc'[t].next = loc[t].next /\ loc'[t].ca = loc[t].ca /\ loc'[t].op = loc[t].op
         /\ loc'[t].s = loc[t].s /\ loc'[t].blk = loc[t].blk /\ loc'[t].ok = loc[t].ok
<1>1. ASSUME NEW r \in Local
      PROVE  LET q == [r EXCEPT !.off = @ \ {b}]
             IN  /\ q \in Local /\ q.next = r.next /\ q.ca = r.ca /\ q.op = r.op
                 /\ q.s = r.s /\ q.blk = r.blk /\ q.ok = r.ok
  BY DEF Local
<1> DEFINE q == [loc[t] EXCEPT !.off = @ \ {b}]
<1>2. /\ q \in Local /\ q.next = loc[t].next /\ q.ca = loc[t].ca /\ q.op = loc[t].op
      /\ q.s = loc[t].s /\ q.blk = loc[t].blk /\ q.ok = loc[t].ok
  BY <1>1, LocalOf, Zenon
<1>3. SetLoc(t, q)
  OBVIOUS
<1> HIDE DEF q
<1> QED
  BY <1>2, <1>3, SetLocStep, Zenon

LEMMA SetBlk ==
  ASSUME TypeOK, NEW t \in Thread, NEW m \in Shm,
         SetLoc(t, [loc[t] EXCEPT !.blk = m])
  PROVE  /\ LocStep(t)
         /\ loc'[t].next = loc[t].next /\ loc'[t].ca = loc[t].ca /\ loc'[t].op = loc[t].op
         /\ loc'[t].s = loc[t].s /\ loc'[t].blk = m /\ loc'[t].ok = loc[t].ok
<1>1. ASSUME NEW r \in Local
      PROVE  LET q == [r EXCEPT !.blk = m]
             IN  /\ q \in Local /\ q.next = r.next /\ q.ca = r.ca /\ q.op = r.op
                 /\ q.s = r.s /\ q.blk = m /\ q.ok = r.ok
  BY DEF Local
<1> DEFINE q == [loc[t] EXCEPT !.blk = m]
<1>2. /\ q \in Local /\ q.next = loc[t].next /\ q.ca = loc[t].ca /\ q.op = loc[t].op
      /\ q.s = loc[t].s /\ q.blk = m /\ q.ok = loc[t].ok
  BY <1>1, LocalOf, Zenon
<1>3. SetLoc(t, q)
  OBVIOUS
<1> HIDE DEF q
<1> QED
  BY <1>2, <1>3, SetLocStep, Zenon

LEMMA SetBlkOk ==
  ASSUME TypeOK, NEW t \in Thread, NEW k \in BOOLEAN,
         SetLoc(t, [loc[t] EXCEPT !.blk = NoShm, !.ok = k])
  PROVE  /\ LocStep(t)
         /\ loc'[t].next = loc[t].next /\ loc'[t].ca = loc[t].ca /\ loc'[t].op = loc[t].op
         /\ loc'[t].s = loc[t].s /\ loc'[t].blk = NoShm /\ loc'[t].ok = k
<1>1. ASSUME NEW r \in Local
      PROVE  LET q == [r EXCEPT !.blk = NoShm, !.ok = k]
             IN  /\ q \in Local /\ q.next = r.next /\ q.ca = r.ca /\ q.op = r.op
                 /\ q.s = r.s /\ q.blk = NoShm /\ q.ok = k
  BY DEF Local
<1> DEFINE q == [loc[t] EXCEPT !.blk = NoShm, !.ok = k]
<1>2. /\ q \in Local /\ q.next = loc[t].next /\ q.ca = loc[t].ca /\ q.op = loc[t].op
      /\ q.s = loc[t].s /\ q.blk = NoShm /\ q.ok = k
  BY <1>1, LocalOf, Zenon
<1>3. SetLoc(t, q)
  OBVIOUS
<1> HIDE DEF q
<1> QED
  BY <1>2, <1>3, SetLocStep, Zenon

LEMMA SetBlkNext ==
  ASSUME TypeOK, NEW t \in Thread, NEW n \in PCs,
         SetLoc(t, [loc[t] EXCEPT !.blk = NoShm, !.next = n])
  PROVE  /\ LocStep(t)
         /\ loc'[t].next = n /\ loc'[t].ca = loc[t].ca /\ loc'[t].op = loc[t].op
         /\ loc'[t].s = loc[t].s /\ loc'[t].blk = NoShm /\ loc'[t].ok = loc[t].ok
<1>1. ASSUME NEW r \in Local
      PROVE  LET q == [r EXCEPT !.blk = NoShm, !.next = n]
             IN  /\ q \in Local /\ q.next = n /\ q.ca = r.ca /\ q.op = r.op
                 /\ q.s = r.s /\ q.blk = NoShm /\ q.ok = r.ok
  BY DEF Local
<1> DEFINE q == [loc[t] EXCEPT !.blk = NoShm, !.next = n]
<1>2. /\ q \in Local /\ q.next = n /\ q.ca = loc[t].ca /\ q.op = loc[t].op
      /\ q.s = loc[t].s /\ q.blk = NoShm /\ q.ok = loc[t].ok
  BY <1>1, LocalOf, Zenon
<1>3. SetLoc(t, q)
  OBVIOUS
<1> HIDE DEF q
<1> QED
  BY <1>2, <1>3, SetLocStep, Zenon

LEMMA SetDfds ==
  ASSUME TypeOK, NEW t \in Thread, NEW d \in [Slot -> Fd \cup {NoFd}],
         SetLoc(t, [loc[t] EXCEPT !.dfds = d])
  PROVE  /\ LocStep(t)
         /\ loc'[t].next = loc[t].next /\ loc'[t].ca = loc[t].ca /\ loc'[t].op = loc[t].op
         /\ loc'[t].s = loc[t].s /\ loc'[t].blk = loc[t].blk /\ loc'[t].ok = loc[t].ok
<1>1. ASSUME NEW r \in Local
      PROVE  LET q == [r EXCEPT !.dfds = d]
             IN  /\ q \in Local /\ q.next = r.next /\ q.ca = r.ca /\ q.op = r.op
                 /\ q.s = r.s /\ q.blk = r.blk /\ q.ok = r.ok
  BY DEF Local
<1> DEFINE q == [loc[t] EXCEPT !.dfds = d]
<1>2. /\ q \in Local /\ q.next = loc[t].next /\ q.ca = loc[t].ca /\ q.op = loc[t].op
      /\ q.s = loc[t].s /\ q.blk = loc[t].blk /\ q.ok = loc[t].ok
  BY <1>1, LocalOf, Zenon
<1>3. SetLoc(t, q)
  OBVIOUS
<1> HIDE DEF q
<1> QED
  BY <1>2, <1>3, SetLocStep, Zenon

\* The locals a handler starts with.
LEMMA StartInit ==
  ASSUME TypeOK, NEW t \in Thread, NEW a \in CA,
         SetLoc(t, [NoLocal EXCEPT !.ca = a])
  PROVE  /\ LocStep(t) /\ loc'[t].next = "idle" /\ loc'[t].ca = a
         /\ loc'[t].op = "init" /\ loc'[t].blk = NoShm /\ loc'[t].ok
<1>1. ASSUME NEW r \in Local,
             r.next = "idle" /\ r.blk = NoShm /\ r.ok /\ r.op = "init"
      PROVE  LET q == [r EXCEPT !.ca = a]
             IN  /\ q \in Local /\ q.next = "idle" /\ q.ca = a
                 /\ q.op = "init" /\ q.blk = NoShm /\ q.ok
  BY <1>1 DEF Local, Op
<1> DEFINE q == [NoLocal EXCEPT !.ca = a]
<1>2. /\ q \in Local /\ q.next = "idle" /\ q.ca = a
      /\ q.op = "init" /\ q.blk = NoShm /\ q.ok
  BY <1>1, NoLocalType, Zenon
<1>3. SetLoc(t, q)
  OBVIOUS
<1> HIDE DEF q
<1> QED
  BY <1>2, <1>3, SetLocStep, Zenon

LEMMA StartFin ==
  ASSUME TypeOK, NEW t \in Thread, NEW a \in CA, NEW f \in Fd,
         SetLoc(t, [NoLocal EXCEPT !.op = "fin", !.ca = a, !.fd = f])
  PROVE  /\ LocStep(t) /\ loc'[t].fd = f /\ loc'[t].next = "idle" /\ loc'[t].ca = a
         /\ loc'[t].op = "fin" /\ loc'[t].blk = NoShm /\ loc'[t].ok
<1>1. ASSUME NEW r \in Local,
             r.next = "idle" /\ r.blk = NoShm /\ r.ok
      PROVE  LET q == [r EXCEPT !.op = "fin", !.ca = a, !.fd = f]
             IN  /\ q \in Local /\ q.next = "idle" /\ q.ca = a
                 /\ q.op = "fin" /\ q.blk = NoShm /\ q.ok /\ q.fd = f
  BY <1>1 DEF Local, Op
<1> DEFINE q == [NoLocal EXCEPT !.op = "fin", !.ca = a, !.fd = f]
<1>2. /\ q \in Local /\ q.next = "idle" /\ q.ca = a
      /\ q.op = "fin" /\ q.blk = NoShm /\ q.ok /\ q.fd = f
  BY <1>1, NoLocalType, Zenon
<1>3. SetLoc(t, q)
  OBVIOUS
<1> HIDE DEF q
<1> QED
  BY <1>2, <1>3, SetLocStep, Zenon

RequestLocals(o, a, f, s, B) ==
  [NoLocal EXCEPT !.op = o, !.ca = a, !.fd = f, !.s = s, !.off = B]

LEMMA StartRequest ==
  ASSUME TypeOK, NEW t \in Thread, NEW a \in CA, NEW o \in Op, NEW f \in Fd, NEW s \in Sess \cup {NoSess},
         NEW B \in SUBSET (Bit \cup {NoBit}),
         SetLoc(t, RequestLocals(o, a, f, s, B))
  PROVE  /\ LocStep(t) /\ loc'[t].fd = f /\ loc'[t].next = "idle" /\ loc'[t].ca = a
         /\ loc'[t].op = o /\ loc'[t].blk = NoShm /\ loc'[t].ok /\ loc'[t].s = s
<1>1. ASSUME NEW r \in Local,
             r.next = "idle" /\ r.blk = NoShm /\ r.ok
      PROVE  LET q == [r EXCEPT !.op = o, !.ca = a, !.fd = f, !.s = s, !.off = B]
             IN  /\ q \in Local /\ q.next = "idle" /\ q.ca = a
                 /\ q.op = o /\ q.blk = NoShm /\ q.ok /\ q.s = s /\ q.fd = f
  BY <1>1 DEF Local
<1> DEFINE q == RequestLocals(o, a, f, s, B)
<1>2. /\ q \in Local /\ q.next = "idle" /\ q.ca = a
      /\ q.op = o /\ q.blk = NoShm /\ q.ok /\ q.s = s /\ q.fd = f
  BY <1>1, NoLocalType, Zenon DEF RequestLocals
<1>3. SetLoc(t, q)
  OBVIOUS
<1> HIDE DEF q
<1> QED
  BY <1>2, <1>3, SetLocStep, Zenon

LEMMA StartDie ==
  ASSUME TypeOK, NEW t \in Thread, NEW a \in CA,
         SetLoc(t, [NoLocal EXCEPT !.op = "die", !.ca = a])
  PROVE  /\ LocStep(t) /\ loc'[t].next = "idle" /\ loc'[t].ca = a
         /\ loc'[t].op = "die" /\ loc'[t].blk = NoShm /\ loc'[t].ok
<1>1. ASSUME NEW r \in Local,
             r.next = "idle" /\ r.blk = NoShm /\ r.ok
      PROVE  LET q == [r EXCEPT !.op = "die", !.ca = a]
             IN  /\ q \in Local /\ q.next = "idle" /\ q.ca = a
                 /\ q.op = "die" /\ q.blk = NoShm /\ q.ok
  BY <1>1 DEF Local, Op
<1> DEFINE q == [NoLocal EXCEPT !.op = "die", !.ca = a]
<1>2. /\ q \in Local /\ q.next = "idle" /\ q.ca = a
      /\ q.op = "die" /\ q.blk = NoShm /\ q.ok
  BY <1>1, NoLocalType, Zenon
<1>3. SetLoc(t, q)
  OBVIOUS
<1> HIDE DEF q
<1> QED
  BY <1>2, <1>3, SetLocStep, Zenon

-----------------------------------------------------------------------------
(* Types of the TEEC objects under the operators of TeecInner *)

LEMMA PutBnShrMemType ==
  ASSUME InnerTypeOK, NEW M \in SUBSET Shm, PutBnShrMem(M)
  PROVE  /\ bitmap' \in [Ctx -> SUBSET Bit]
         /\ shmLive' \in SUBSET Shm
         /\ shmOps' \in [Shm -> Int]
         /\ shmCtx' \in [Shm -> Ctx \cup {NoCtx}]
         /\ shmOff' \in [Shm -> Bit \cup {NoBit}]
<1> DEFINE dead == {m \in M : shmOps[m] = 1}
           cleared(c) == {shmOff[m] : m \in {d \in dead : shmCtx[d] = c}}
<1>1. bitmap' = [c \in Ctx |-> bitmap[c] \ cleared(c)]
  BY DEF PutBnShrMem
<1>2. \A c \in Ctx : bitmap[c] \ cleared(c) \in SUBSET Bit
  BY DEF InnerTypeOK
<1>3. bitmap' \in [Ctx -> SUBSET Bit]
  <2> HIDE DEF cleared
  <2> QED BY <1>1, <1>2
<1> QED
  BY <1>3 DEF InnerTypeOK, PutBnShrMem

LEMMA FinalizeSharedMemoryType ==
  ASSUME InnerTypeOK, NEW c, FinalizeSharedMemory(c)
  PROVE  /\ bitmap' \in [Ctx -> SUBSET Bit]
         /\ shmLive' \in SUBSET Shm
         /\ shmOps' \in [Shm -> Int]
         /\ shmList' \in [Shm -> Ctx \cup {NoCtx}]
         /\ shmCtx' \in [Shm -> Ctx \cup {NoCtx}]
         /\ shmOff' \in [Shm -> Bit \cup {NoBit}]
<1>1. {m \in Shm : shmList[m] = c} \in SUBSET Shm
  OBVIOUS
<1> QED
  BY <1>1, PutBnShrMemType DEF FinalizeSharedMemory, InnerTypeOK

LEMMA GetBnSessionType ==
  ASSUME InnerTypeOK, NEW s, GetBnSession(s)
  PROVE  /\ sesLive' \in SUBSET Sess
         /\ sesOps' \in [Sess -> Int]
         /\ sesList' \in [Sess -> Ctx \cup {NoCtx}]
<1>1. CASE s \in Sess
  BY <1>1 DEF GetBnSession, InnerTypeOK
<1>2. CASE s \notin Sess
  <2>1. sesOps' = sesOps
    BY <1>2 DEF GetBnSession, InnerTypeOK
  <2> QED BY <2>1 DEF GetBnSession, InnerTypeOK
<1> QED BY <1>1, <1>2

LEMMA PutBnSessionType ==
  ASSUME InnerTypeOK, NEW s, PutBnSession(s)
  PROVE  /\ sesLive' \in SUBSET Sess
         /\ sesOps' \in [Sess -> Int]
         /\ sesList' \in [Sess -> Ctx \cup {NoCtx}]
<1>1. CASE s \in Sess
  BY <1>1 DEF PutBnSession, InnerTypeOK
<1>2. CASE s \notin Sess
  <2>1. sesOps' = sesOps
    BY <1>2 DEF PutBnSession, InnerTypeOK
  <2> QED BY <2>1 DEF PutBnSession, InnerTypeOK
<1> QED BY <1>1, <1>2

LEMMA FinalizeSessionsType ==
  ASSUME InnerTypeOK, NEW c, FinalizeSessions(c)
  PROVE  /\ sesLive' \in SUBSET Sess
         /\ sesOps' \in [Sess -> Int]
         /\ sesList' \in [Sess -> Ctx \cup {NoCtx}]
BY DEF FinalizeSessions, InnerTypeOK

-----------------------------------------------------------------------------
(* The reference count under each kind of step *)

LEMMA HoldersFinite ==
  ASSUME NEW c
  PROVE  IsFiniteSet(Holders(c)) /\ Cardinality(Holders(c)) \in Nat
<1>1. Holders(c) \in SUBSET Thread
  BY DEF Holders
<1> QED
  BY <1>1, ServiceAssumption, FS_Subset, FS_CardinalityType

LEMMA HoldersGain ==
  ASSUME TypeOK, NEW t \in Thread, NEW c \in Ctx, cx[t] = NoCtx,
         cx' = [cx EXCEPT ![t] = c]
  PROVE  \A d \in Ctx : Cardinality(Holders(d)')
                          = IF d = c THEN Cardinality(Holders(d)) + 1 ELSE Cardinality(Holders(d))
<1> TAKE d \in Ctx
<1>1. CASE d = c
  <2>1. Holders(d)' = Holders(d) \cup {t}
    BY <1>1 DEF TypeOK, Holders
  <2>2. t \notin Holders(d)
    BY InnerAssumption DEF Holders
  <2> QED
    BY <1>1, <2>1, <2>2, HoldersFinite, FS_AddElement
<1>2. CASE d # c
  <2>1. Holders(d)' = Holders(d)
    BY <1>2, InnerAssumption DEF TypeOK, Holders
  <2> QED
    BY <1>2, <2>1
<1> QED
  BY <1>1, <1>2

LEMMA HoldersDrop ==
  ASSUME TypeOK, NEW t \in Thread, NEW c \in Ctx, cx[t] = c,
         cx' = [cx EXCEPT ![t] = NoCtx]
  PROVE  /\ Cardinality(Holders(c)) >= 1
         /\ \A d \in Ctx : Cardinality(Holders(d)')
                             = IF d = c THEN Cardinality(Holders(d)) - 1 ELSE Cardinality(Holders(d))
<1>1. t \in Holders(c)
  BY DEF Holders
<1>2. Cardinality(Holders(c)) >= 1
  <2>1. Cardinality(Holders(c)) # 0
    BY <1>1, HoldersFinite, FS_EmptySet
  <2> QED
    BY <2>1, HoldersFinite
<1>3. ASSUME NEW d \in Ctx
      PROVE  Cardinality(Holders(d)')
               = IF d = c THEN Cardinality(Holders(d)) - 1 ELSE Cardinality(Holders(d))
  <2>1. CASE d = c
    <3>1. Holders(d)' = Holders(d) \ {t}
      BY <2>1, InnerAssumption DEF TypeOK, Holders
    <3> QED
      BY <1>1, <2>1, <3>1, HoldersFinite, FS_RemoveElement
  <2>2. CASE d # c
    <3>1. Holders(d)' = Holders(d)
      BY <2>2, InnerAssumption DEF TypeOK, Holders
    <3> QED
      BY <2>2, <3>1
  <2> QED
    BY <2>1, <2>2
<1> QED
  BY <1>2, <1>3

\* Steps that touch no reference to a context.
LEMMA RefKeep ==
  ASSUME RefInv, UNCHANGED <<ctxLive, ctxList, ctxOps, cx, fin>>,
         \A c \in Ctx : lost'[c] = lost[c], TypeOK
  PROVE  RefInv'
<1>1. \A c \in Ctx : Holders(c)' = Holders(c)
  BY DEF Holders
<1>2. ctxLive \subseteq Ctx
  BY DEF TypeOK, InnerTypeOK
<1> QED
  BY <1>1, <1>2 DEF RefInv, ContextRefCount

\* TEEC_InitializeContextInner: the list's reference and the caller's.
LEMMA RefInitialize ==
  ASSUME TypeOK, RefInv, NEW t \in Thread, NEW c \in Ctx \ ctxLive, cx[t] = NoCtx,
         ctxLive' = ctxLive \cup {c}, ctxList' = ctxList \cup {c},
         ctxOps' = [ctxOps EXCEPT ![c] = 2], cx' = [cx EXCEPT ![t] = c],
         UNCHANGED <<fin, lost>>
  PROVE  RefInv'
<1>1. Holders(c) = {}
  BY InnerAssumption DEF RefInv, Holders, TypeOK
<1>2. \A d \in Ctx : Cardinality(Holders(d)') = IF d = c THEN 1 ELSE Cardinality(Holders(d))
  <2>1. Cardinality(Holders(c)) = 0
    BY <1>1, FS_EmptySet
  <2>2. c \in Ctx
    OBVIOUS
  <2>3. \A d \in Ctx : Cardinality(Holders(d)')
                         = IF d = c THEN Cardinality(Holders(d)) + 1 ELSE Cardinality(Holders(d))
    BY <2>2, HoldersGain
  <2> QED BY <2>1, <2>3
<1>3. ContextRefCount'
  BY <1>2 DEF RefInv, ContextRefCount, TypeOK, InnerTypeOK
<1> QED
  BY <1>3 DEF RefInv, TypeOK, InnerTypeOK

\* GetBnContext: a listed context gets a reference, held by t.
LEMMA RefGet ==
  ASSUME TypeOK, RefInv, NEW t \in Thread, NEW c \in ctxList, cx[t] = NoCtx,
         ctxOps' = [ctxOps EXCEPT ![c] = @ + 1], cx' = [cx EXCEPT ![t] = c],
         UNCHANGED <<ctxLive, ctxList, fin, lost>>
  PROVE  RefInv'
<1>0. c \in Ctx
  BY DEF TypeOK, InnerTypeOK
<1>1. \A d \in Ctx : Cardinality(Holders(d)')
                       = IF d = c THEN Cardinality(Holders(d)) + 1 ELSE Cardinality(Holders(d))
  BY <1>0, HoldersGain
<1>2. ContextRefCount'
  <2> SUFFICES ASSUME NEW d \in ctxLive
               PROVE  ctxOps'[d] = Cardinality(Holders(d)')
                                     + (IF d \in ctxList' THEN 1 ELSE 0) + lost'[d]
    BY DEF ContextRefCount
  <2>0. /\ d \in Ctx /\ ctxOps[d] \in Int /\ lost[d] \in Nat
        /\ ctxOps[d] = Cardinality(Holders(d)) + (IF d \in ctxList THEN 1 ELSE 0) + lost[d]
        /\ Cardinality(Holders(d)) \in Nat
    BY HoldersFinite DEF TypeOK, InnerTypeOK, RefInv, ContextRefCount, Obj
  <2>1. CASE d = c
    <3>1. Cardinality(Holders(d)') = Cardinality(Holders(d)) + 1
      BY <1>1, <2>0, <2>1
    <3>2. ctxOps'[d] = ctxOps[d] + 1
      BY <2>0, <2>1 DEF TypeOK, InnerTypeOK
    <3> QED BY <2>0, <3>1, <3>2
  <2>2. CASE d # c
    BY <1>0, <1>1, <2>0, <2>2 DEF TypeOK, InnerTypeOK
  <2> QED BY <2>1, <2>2
<1>3. ctxOps[c] # 0
  BY <1>0, HoldersFinite DEF RefInv, ContextRefCount, TypeOK, Obj
<1> QED
  BY <1>0, <1>2, <1>3 DEF RefInv, TypeOK, InnerTypeOK

\* The same, but the reference is lost at once.
LEMMA RefGetLost ==
  ASSUME TypeOK, RefInv, NEW c \in ctxList,
         ctxOps' = [ctxOps EXCEPT ![c] = @ + 1], Abandon({c}),
         UNCHANGED <<ctxLive, ctxList, cx, fin>>
  PROVE  RefInv'
<1>0. c \in Ctx /\ c \in ctxLive
  BY DEF TypeOK, InnerTypeOK, RefInv
<1>1. \A d \in Ctx : Holders(d)' = Holders(d)
  BY DEF Holders
<1>2. \A d \in Ctx : lost'[d] = IF d = c THEN lost[d] + 1 ELSE lost[d]
  BY DEF Abandon, Obj
<1>3. ContextRefCount'
  <2> SUFFICES ASSUME NEW d \in ctxLive
               PROVE  ctxOps'[d] = Cardinality(Holders(d)')
                                     + (IF d \in ctxList' THEN 1 ELSE 0) + lost'[d]
    BY DEF ContextRefCount
  <2>0. /\ d \in Ctx /\ ctxOps[d] \in Int /\ lost[d] \in Nat
        /\ ctxOps[d] = Cardinality(Holders(d)) + (IF d \in ctxList THEN 1 ELSE 0) + lost[d]
        /\ Cardinality(Holders(d)) \in Nat
    BY HoldersFinite DEF TypeOK, InnerTypeOK, RefInv, ContextRefCount, Obj
  <2>1. CASE d = c
    BY <1>0, <1>1, <1>2, <2>0, <2>1 DEF TypeOK, InnerTypeOK
  <2>2. CASE d # c
    BY <1>0, <1>1, <1>2, <2>0, <2>2 DEF TypeOK, InnerTypeOK
  <2> QED BY <2>1, <2>2
<1>4. ctxOps[c] # 0
  BY <1>0, HoldersFinite DEF RefInv, ContextRefCount, TypeOK, Obj
<1> QED
  BY <1>0, <1>2, <1>3, <1>4 DEF RefInv, TypeOK, InnerTypeOK

\* FindAndRemoveBnContext: the list's reference becomes t's.
LEMMA RefRemove ==
  ASSUME TypeOK, RefInv, NEW t \in Thread, NEW c \in ctxList, cx[t] = NoCtx,
         ctxList' = ctxList \ {c}, cx' = [cx EXCEPT ![t] = c],
         UNCHANGED <<ctxLive, ctxOps, fin, lost>>
  PROVE  RefInv'
<1>0. c \in Ctx
  BY DEF TypeOK, InnerTypeOK
<1>1. \A d \in Ctx : Cardinality(Holders(d)')
                       = IF d = c THEN Cardinality(Holders(d)) + 1 ELSE Cardinality(Holders(d))
  BY <1>0, HoldersGain
<1>2. ContextRefCount'
  BY <1>0, <1>1, HoldersFinite DEF RefInv, ContextRefCount, TypeOK, InnerTypeOK, Obj
<1> QED
  BY <1>0, <1>2 DEF RefInv, TypeOK, InnerTypeOK

\* PutBnContext: t gives its reference back; with the last one it starts the
\* finalization.
LEMMA RefPut ==
  ASSUME TypeOK, RefInv, NEW t \in Thread, NEW c \in Ctx, cx[t] = c, fin[t] = NoCtx,
         ctxOps' = [ctxOps EXCEPT ![c] = @ - 1], cx' = [cx EXCEPT ![t] = NoCtx],
         fin' = IF ctxOps[c] = 1 THEN [fin EXCEPT ![t] = c] ELSE fin,
         UNCHANGED <<ctxLive, ctxList, lost>>
  PROVE  RefInv'
<1>1. /\ Cardinality(Holders(c)) >= 1
      /\ \A d \in Ctx : Cardinality(Holders(d)')
                          = IF d = c THEN Cardinality(Holders(d)) - 1 ELSE Cardinality(Holders(d))
  BY HoldersDrop
<1>2. c \in ctxLive
  BY InnerAssumption DEF RefInv
<1>3. ContextRefCount'
  BY <1>1, <1>2, HoldersFinite DEF RefInv, ContextRefCount, TypeOK, InnerTypeOK, Obj
<1>4. ctxOps[c] >= 1
  BY <1>1, <1>2, HoldersFinite DEF RefInv, ContextRefCount, TypeOK, Obj
<1>5. \A u \in Thread : fin[u] # c
  BY <1>4, InnerAssumption DEF RefInv
<1>6. \A u \in Thread : fin'[u] # NoCtx =>
        /\ fin'[u] \in ctxLive'
        /\ ctxOps'[fin'[u]] = 0
        /\ \A v \in Thread : fin'[v] = fin'[u] => v = u
  BY <1>2, <1>4, <1>5 DEF RefInv, TypeOK, InnerTypeOK
<1> QED
  BY <1>3, <1>6 DEF RefInv, TypeOK, InnerTypeOK

\* The end of TEEC_FinalizeContextInner: nobody has a reference any more.
LEMMA RefFree ==
  ASSUME TypeOK, RefInv, NEW t \in Thread, NEW c \in Ctx, fin[t] = c,
         ctxLive' = ctxLive \ {c}, fin' = [fin EXCEPT ![t] = NoCtx],
         UNCHANGED <<ctxList, ctxOps, cx, lost>>
  PROVE  RefInv'
<1>1. c \in ctxLive /\ ctxOps[c] = 0
  BY InnerAssumption DEF RefInv
<1>2. c \notin ctxList /\ lost[c] = 0 /\ Cardinality(Holders(c)) = 0
  BY <1>1, HoldersFinite DEF RefInv, ContextRefCount, TypeOK, Obj
<1>3. \A u \in Thread : cx[u] # c
  BY <1>2, HoldersFinite, FS_EmptySet DEF Holders
<1>4. \A d \in Ctx : Holders(d)' = Holders(d)
  BY DEF Holders
<1>5. ContextRefCount'
  BY <1>4 DEF RefInv, ContextRefCount, TypeOK, InnerTypeOK
<1>6. \A u \in Thread : fin'[u] # NoCtx => u # t /\ fin'[u] = fin[u] /\ fin[u] # c
  BY InnerAssumption DEF RefInv, TypeOK
<1> QED
  BY <1>2, <1>3, <1>5, <1>6 DEF RefInv, TypeOK, InnerTypeOK

\* An error path drops t's reference without giving it back.
LEMMA RefAbandon ==
  ASSUME TypeOK, RefInv, NEW t \in Thread, NEW c \in Ctx, cx[t] = c,
         cx' = [cx EXCEPT ![t] = NoCtx],
         \A d \in Ctx : lost'[d] = IF d = c THEN lost[d] + 1 ELSE lost[d],
         UNCHANGED <<ctxLive, ctxList, ctxOps, fin>>
  PROVE  RefInv'
<1>1. /\ Cardinality(Holders(c)) >= 1
      /\ \A d \in Ctx : Cardinality(Holders(d)')
                          = IF d = c THEN Cardinality(Holders(d)) - 1 ELSE Cardinality(Holders(d))
  BY HoldersDrop
<1>2. c \in ctxLive
  BY InnerAssumption DEF RefInv
<1>3. ContextRefCount'
  BY <1>1, HoldersFinite DEF RefInv, ContextRefCount, TypeOK, InnerTypeOK, Obj
<1> QED
  BY <1>2, <1>3 DEF RefInv, TypeOK, InnerTypeOK

-----------------------------------------------------------------------------
(* The control part *)

\* A step of t leaves ControlInv alone for the other threads.
LEMMA ControlStep ==
  ASSUME ControlInv, NEW t \in Thread,
         LocStep(t),
         \A u \in Thread \ {t} : pc'[u] = pc[u] /\ cx'[u] = cx[u] /\ fin'[u] = fin[u],
         cx'[t] # NoCtx <=> pc'[t] \in HoldPC,
         fin'[t] # NoCtx <=> pc'[t] \in FinPC,
         loc'[t].next \in ReturnPC,
         pc'[t] # "idle" => loc'[t].ca \in CA,
         pc'[t] = "get" => loc'[t].op \in RequestOp,
         pc'[t] = "buf" => loc'[t].blk \in Shm
  PROVE  ControlInv'
BY DEF ControlInv, LocStep

-----------------------------------------------------------------------------
(* One lemma per action *)

\* The tuples of variables are expanded everywhere below.
USE DEF ctxVars, sesVars, blkVars, shmVars, procVars, clientVars, refVars, histVars

LEMMA SetContextToProcDataInv ==
  ASSUME ContextInv, NEW t \in Thread, SetContextToProcData(t)
  PROVE  ContextInv'
<1>0. TypeOK /\ ControlInv /\ RefInv
  BY DEF ContextInv
<1>1. pc[t] = "proc" /\ cx[t] \in Ctx /\ loc[t].ca \in CA /\ fin[t] = NoCtx
  BY <1>0 DEF SetContextToProcData, ControlInv, TypeOK, HoldPC, FinPC
<1>2. LocStep(t) /\ loc'[t].next \in ReturnPC /\ loc'[t].ca \in CA /\ pc' = [pc EXCEPT ![t] = "put"]
  <2>1. /\ "idle" \in PCs /\ "rel_read" \in PCs /\ cx[t] \in Obj \cup {NoCtx}
        /\ "idle" \in ReturnPC /\ "rel_read" \in ReturnPC
    BY <1>1 DEF PCs, Obj, ReturnPC
  <2>2. CASE PutThen(t, "idle")
    BY <1>0, <1>1, <2>1, <2>2, SetNext, Zenon DEF PutThen
  <2>3. CASE /\ Goto(t, "put")
             /\ SetLoc(t, [loc[t] EXCEPT !.next = "rel_read", !.late = cx[t]])
    BY <1>0, <1>1, <2>1, <2>3, SetNextLate, Zenon DEF Goto
  <2> QED
    BY <2>2, <2>3, Zenon DEF SetContextToProcData
<1>4. TypeOK'
  <2>1. procOwner' \in [Pid -> CA \cup {NoCA}]
    BY <1>0, <1>1, ServiceAssumption DEF SetContextToProcData, TypeOK
  <2>2. cxtFd' \in [Pid -> [Slot -> Fd \cup {NoFd}]]
    BY <1>0, <1>1, ServiceAssumption DEF SetContextToProcData, TypeOK, InnerTypeOK
  <2> QED
    BY <1>0, <1>2, <2>1, <2>2
       DEF SetContextToProcData, TypeOK, InnerTypeOK, LocStep, PCs
<1>5. ControlInv'
  BY <1>0, <1>1, <1>2, ControlStep, InnerAssumption
     DEF SetContextToProcData, TypeOK, HoldPC, FinPC, ReturnPC, Goto
<1>6. RefInv'
  BY <1>0, <1>1, <1>2, RefKeep DEF SetContextToProcData
<1> QED
  BY <1>4, <1>5, <1>6 DEF ContextInv

LEMMA SetContextToProcDataFailsInv ==
  ASSUME ContextInv, NEW t \in Thread, SetContextToProcDataFails(t)
  PROVE  ContextInv'
<1>0. TypeOK /\ ControlInv /\ RefInv
  BY DEF ContextInv
<1>1. pc[t] = "proc" /\ cx[t] \in Ctx /\ loc[t].ca \in CA /\ fin[t] = NoCtx
  BY <1>0 DEF SetContextToProcDataFails, ControlInv, TypeOK, HoldPC, FinPC
<1>2. LocStep(t) /\ loc'[t].next \in ReturnPC /\ loc'[t].ca \in CA
  <2>1. /\ "idle" \in PCs /\ "rel_read" \in PCs /\ cx[t] \in Obj \cup {NoCtx}
        /\ "idle" \in ReturnPC /\ "rel_read" \in ReturnPC
    BY <1>1 DEF PCs, Obj, ReturnPC
  <2> QED
    BY <1>0, <1>1, <2>1, SetNextLate, Zenon DEF SetContextToProcDataFails
<1>4. TypeOK'
  BY <1>0, <1>1, <1>2 DEF SetContextToProcDataFails, TypeOK, InnerTypeOK, LocStep, PCs, Goto
<1>5. ControlInv'
  BY <1>0, <1>1, <1>2, ControlStep, InnerAssumption
     DEF SetContextToProcDataFails, TypeOK, HoldPC, FinPC, ReturnPC, Goto
<1>6. RefInv'
  BY <1>0, <1>1, <1>2, RefKeep DEF SetContextToProcDataFails
<1> QED
  BY <1>4, <1>5, <1>6 DEF ContextInv

LEMMA ReleaseContextInv ==
  ASSUME ContextInv, NEW t \in Thread, ReleaseContext(t)
  PROVE  ContextInv'
<1>0. TypeOK /\ ControlInv /\ RefInv
  BY DEF ContextInv
<1>1. pc[t] = "rel_read" /\ cx[t] = NoCtx /\ loc[t].ca \in CA /\ fin[t] = NoCtx /\ loc[t].next \in ReturnPC
  BY <1>0 DEF ReleaseContext, ControlInv, TypeOK, HoldPC, FinPC
<1>2. LocStep(t) /\ loc'[t].next \in ReturnPC /\ loc'[t].ca \in CA
  <2>1. PICK f \in Fd \cup {NoFd} : SetLoc(t, [loc[t] EXCEPT !.fd = f, !.late = NoCtx])
    <3>1. \A c \in ctxLive : ctxFd[c] \in Fd \cup {NoFd}
      BY <1>0 DEF TypeOK, InnerTypeOK
    <3> QED BY <3>1, Zenon DEF ReleaseContext
  <2> QED
    BY <1>0, <1>1, <2>1, SetFdLate, Zenon
<1>4. TypeOK'
  BY <1>0, <1>1, <1>2 DEF ReleaseContext, TypeOK, InnerTypeOK, LocStep, PCs, Goto
<1>5. ControlInv'
  BY <1>0, <1>1, <1>2, ControlStep, InnerAssumption
     DEF ReleaseContext, TypeOK, HoldPC, FinPC, ReturnPC, Goto
<1>6. RefInv'
  BY <1>0, <1>1, <1>2, RefKeep DEF ReleaseContext
<1> QED
  BY <1>4, <1>5, <1>6 DEF ContextInv

LEMMA InitializeContextInv ==
  ASSUME ContextInv, NEW t \in Thread, NEW a \in CA, NEW c \in Ctx, NEW f \in Fd, InitializeContext(t, a, c, f)
  PROVE  ContextInv'
<1>0. TypeOK /\ ControlInv /\ RefInv
  BY DEF ContextInv
<1>1. pc[t] = "idle" /\ cx[t] = NoCtx /\ fin[t] = NoCtx /\ c \notin ctxLive
  BY <1>0 DEF InitializeContext, ControlInv, TypeOK, HoldPC, FinPC
<1>2. LocStep(t) /\ loc'[t].next \in ReturnPC /\ loc'[t].ca \in CA
  BY <1>0, StartInit, Zenon DEF InitializeContext, ReturnPC
<1>4. TypeOK'
  BY <1>0, <1>1, <1>2 DEF InitializeContext, TypeOK, InnerTypeOK, LocStep, PCs, Goto, TEEC_InitializeContextInner
<1>5. ControlInv'
  BY <1>0, <1>1, <1>2, ControlStep, InnerAssumption
     DEF InitializeContext, TypeOK, HoldPC, FinPC, ReturnPC, Goto
<1>6. RefInv'
  BY <1>0, <1>1, <1>2, RefInitialize DEF InitializeContext, TEEC_InitializeContextInner
<1> QED
  BY <1>4, <1>5, <1>6 DEF ContextInv

LEMMA FinalizeContextInv ==
  ASSUME ContextInv, NEW t \in Thread, NEW a \in CA, NEW f \in Fd, FinalizeContext(t, a, f)
  PROVE  ContextInv'
<1>0. TypeOK /\ ControlInv /\ RefInv
  BY DEF ContextInv
<1>1. pc[t] = "idle" /\ cx[t] = NoCtx /\ fin[t] = NoCtx
  BY <1>0 DEF FinalizeContext, ControlInv, TypeOK, HoldPC, FinPC
<1>2. LocStep(t) /\ loc'[t].next \in ReturnPC /\ loc'[t].ca \in CA
  BY <1>0, StartFin, Zenon DEF FinalizeContext, ReturnPC
<1>4. TypeOK'
  BY <1>0, <1>1, <1>2 DEF FinalizeContext, TypeOK, InnerTypeOK, LocStep, PCs, Goto
<1>5. ControlInv'
  BY <1>0, <1>1, <1>2, ControlStep, InnerAssumption
     DEF FinalizeContext, TypeOK, HoldPC, FinPC, ReturnPC, Goto
<1>6. RefInv'
  BY <1>0, <1>1, <1>2, RefKeep DEF FinalizeContext
<1> QED
  BY <1>4, <1>5, <1>6 DEF ContextInv

LEMMA CallFinalizeContextInv ==
  ASSUME ContextInv, NEW t \in Thread, CallFinalizeContext(t)
  PROVE  ContextInv'
<1>0. TypeOK /\ ControlInv /\ RefInv
  BY DEF ContextInv
<1>1. pc[t] = "remove" /\ cx[t] = NoCtx /\ fin[t] = NoCtx /\ loc[t].ca \in CA
  BY <1>0 DEF CallFinalizeContext, ControlInv, TypeOK, HoldPC, FinPC
<1>2. CASE Return(t) /\ UNCHANGED <<ctxVars, cx>>
  <2>1. LocStep(t) /\ loc'[t].next = "idle" /\ pc' = [pc EXCEPT ![t] = "idle"]
    BY <1>0, <1>2, ReturnStep
  <2>2. TypeOK'
    BY <1>0, <1>2, <2>1 DEF CallFinalizeContext, TypeOK, InnerTypeOK, LocStep, PCs
  <2>3. ControlInv'
    BY <1>0, <1>1, <1>2, <2>1, ControlStep
       DEF CallFinalizeContext, TypeOK, HoldPC, FinPC, ReturnPC
  <2>4. RefInv'
    BY <1>0, <1>2, RefKeep DEF CallFinalizeContext
  <2> QED
    BY <2>2, <2>3, <2>4 DEF ContextInv
<1>3. ASSUME NEW c \in FindBnContext(loc[t].fd), RemoveBnContext(c),
             cx' = [cx EXCEPT ![t] = c], PutThen(t, "idle")
      PROVE  ContextInv'
  <2>0. c \in ctxList /\ c \in Ctx
    BY <1>0 DEF FindBnContext, TypeOK, InnerTypeOK
  <2>1. /\ LocStep(t) /\ loc'[t].next = "idle" /\ loc'[t].ca \in CA
        /\ pc' = [pc EXCEPT ![t] = "put"]
    <3>1. "idle" \in PCs
      BY DEF PCs
    <3> QED BY <1>0, <1>1, <1>3, <3>1, SetNext, Zenon DEF PutThen
  <2>2. TypeOK'
    BY <1>0, <1>3, <2>0, <2>1
       DEF CallFinalizeContext, TypeOK, InnerTypeOK, LocStep, PCs, RemoveBnContext
  <2>3. ControlInv'
    BY <1>0, <1>1, <1>3, <2>0, <2>1, ControlStep, InnerAssumption
       DEF CallFinalizeContext, TypeOK, HoldPC, FinPC, ReturnPC
  <2>4. RefInv'
    BY <1>0, <1>1, <1>3, <2>0, RefRemove DEF CallFinalizeContext, RemoveBnContext
  <2> QED
    BY <2>2, <2>3, <2>4 DEF ContextInv
<1> QED
  BY <1>2, <1>3, Zenon DEF CallFinalizeContext

LEMMA PutBnContextAndReleaseFdInv ==
  ASSUME ContextInv, NEW t \in Thread, PutBnContextAndReleaseFd(t)
  PROVE  ContextInv'
<1>0. TypeOK /\ ControlInv /\ RefInv
  BY DEF ContextInv
<1>1. /\ pc[t] = "put" /\ cx[t] \in Ctx /\ fin[t] = NoCtx
      /\ loc[t].ca \in CA /\ loc[t].next \in ReturnPC
  BY <1>0 DEF PutBnContextAndReleaseFd, ControlInv, TypeOK, HoldPC, FinPC
<1>2. CASE LastReference(cx[t])
  <2>1. LocStep(t) /\ loc'[t].next \in ReturnPC /\ loc'[t].ca \in CA
    <3>1. ctxFd[cx[t]] \in Fd \cup {NoFd}
      BY <1>0, <1>1 DEF TypeOK, InnerTypeOK
    <3>2. SetLoc(t, [loc[t] EXCEPT !.fd = ctxFd[cx[t]]])
      BY <1>2 DEF PutBnContextAndReleaseFd
    <3> QED BY <1>0, <1>1, <3>1, <3>2, SetFd, Zenon
  <2>2. TypeOK'
    <3>1. ctxOps' \in [Ctx -> Int] /\ fin' \in [Thread -> Ctx \cup {NoCtx}] /\ procLock' = t
      BY <1>0, <1>1, <1>2 DEF PutBnContextAndReleaseFd, DecBnContext, TypeOK, InnerTypeOK
    <3>2. pc' = [pc EXCEPT ![t] = "fin_ses"] /\ cx' = [cx EXCEPT ![t] = NoCtx]
      BY <1>2 DEF PutBnContextAndReleaseFd, Goto
    <3>3. UNCHANGED <<ctxLive, ctxList, ctxFd, sesVars, shmVars, procVars, clientVars, se, sm, histVars>>
      BY DEF PutBnContextAndReleaseFd, DecBnContext
    <3> QED
      BY <1>0, <2>1, <3>1, <3>2, <3>3 DEF TypeOK, InnerTypeOK, LocStep, PCs
  <2>3. ControlInv'
    BY <1>0, <1>1, <1>2, <2>1, ControlStep, InnerAssumption
       DEF PutBnContextAndReleaseFd, TypeOK, HoldPC, FinPC, ReturnPC, Goto
  <2>4. RefInv'
    BY <1>0, <1>1, <1>2, RefPut DEF PutBnContextAndReleaseFd, DecBnContext, LastReference
  <2> QED
    BY <2>2, <2>3, <2>4 DEF ContextInv
<1>3. CASE ~ LastReference(cx[t])
  <2>1. /\ LocStep(t) /\ loc'[t].next \in ReturnPC
        /\ loc'[t].ca \in CA \/ pc'[t] = "idle"
        /\ \E p \in ReturnPC : pc' = [pc EXCEPT ![t] = p]
    <3>1. CASE Return(t)
      BY <1>0, <3>1, ReturnStep DEF TypeOK, ReturnPC
    <3>2. CASE Goto(t, loc[t].next) /\ UNCHANGED loc
      BY <1>0, <1>1, <3>2, SameLoc DEF Goto
    <3> QED BY <1>3, <3>1, <3>2 DEF PutBnContextAndReleaseFd
  <2>2. TypeOK'
    BY <1>0, <1>1, <1>3, <2>1 DEF PutBnContextAndReleaseFd, TypeOK, InnerTypeOK, LocStep, PCs, Goto, DecBnContext, ReturnPC
  <2>3. ControlInv'
    BY <1>0, <1>1, <1>3, <2>1, ControlStep, InnerAssumption
       DEF PutBnContextAndReleaseFd, TypeOK, HoldPC, FinPC, ReturnPC, Goto
  <2>4. RefInv'
    BY <1>0, <1>1, <1>3, RefPut DEF PutBnContextAndReleaseFd, DecBnContext, LastReference
  <2> QED
    BY <2>2, <2>3, <2>4 DEF ContextInv
<1> QED
  BY <1>2, <1>3 DEF PutBnContextAndReleaseFd

LEMMA FinalizeSessionListInv ==
  ASSUME ContextInv, NEW t \in Thread, FinalizeSessionList(t)
  PROVE  ContextInv'
<1>0. TypeOK /\ ControlInv /\ RefInv
  BY DEF ContextInv
<1>1. pc[t] = "fin_ses" /\ cx[t] = NoCtx /\ fin[t] \in Ctx /\ loc[t].ca \in CA /\ loc[t].next \in ReturnPC
  BY <1>0 DEF FinalizeSessionList, ControlInv, TypeOK, HoldPC, FinPC
<1>2. LocStep(t) /\ loc'[t] = loc[t]
  BY <1>0, SameLoc DEF FinalizeSessionList
<1>3. TypeOK'
  <2>1. /\ sesLive' \in SUBSET Sess /\ sesOps' \in [Sess -> Int]
        /\ sesList' \in [Sess -> Ctx \cup {NoCtx}]
    BY <1>0, FinalizeSessionsType DEF FinalizeSessionList, TypeOK
  <2> QED
    BY <1>0, <1>2, <2>1 DEF FinalizeSessionList, TypeOK, InnerTypeOK, LocStep, PCs, Goto
<1>4. ControlInv'
  BY <1>0, <1>1, <1>2, ControlStep, InnerAssumption
     DEF FinalizeSessionList, TypeOK, HoldPC, FinPC, ReturnPC, Goto
<1>5. RefInv'
  BY <1>0, <1>1, RefKeep DEF FinalizeSessionList
<1> QED
  BY <1>3, <1>4, <1>5 DEF ContextInv

LEMMA FinalizeShmListInv ==
  ASSUME ContextInv, NEW t \in Thread, FinalizeShmList(t)
  PROVE  ContextInv'
<1>0. TypeOK /\ ControlInv /\ RefInv
  BY DEF ContextInv
<1>1. pc[t] = "fin_shm" /\ cx[t] = NoCtx /\ fin[t] \in Ctx /\ loc[t].ca \in CA /\ loc[t].next \in ReturnPC
  BY <1>0 DEF FinalizeShmList, ControlInv, TypeOK, HoldPC, FinPC
<1>2. LocStep(t) /\ loc'[t] = loc[t]
  BY <1>0, SameLoc DEF FinalizeShmList
<1>3. TypeOK'
  <2>1. /\ bitmap' \in [Ctx -> SUBSET Bit] /\ shmLive' \in SUBSET Shm
        /\ shmOps' \in [Shm -> Int] /\ shmList' \in [Shm -> Ctx \cup {NoCtx}]
        /\ shmCtx' \in [Shm -> Ctx \cup {NoCtx}] /\ shmOff' \in [Shm -> Bit \cup {NoBit}]
    BY <1>0, FinalizeSharedMemoryType DEF FinalizeShmList, TypeOK
  <2> QED
    BY <1>0, <1>2, <2>1 DEF FinalizeShmList, TypeOK, InnerTypeOK, LocStep, PCs, Goto
<1>4. ControlInv'
  BY <1>0, <1>1, <1>2, ControlStep, InnerAssumption
     DEF FinalizeShmList, TypeOK, HoldPC, FinPC, ReturnPC, Goto
<1>5. RefInv'
  BY <1>0, <1>1, RefKeep DEF FinalizeShmList
<1> QED
  BY <1>3, <1>4, <1>5 DEF ContextInv

LEMMA FinalizeCloseInv ==
  ASSUME ContextInv, NEW t \in Thread, FinalizeClose(t)
  PROVE  ContextInv'
<1>0. TypeOK /\ ControlInv /\ RefInv
  BY DEF ContextInv
<1>1. pc[t] = "fin_close" /\ cx[t] = NoCtx /\ fin[t] \in Ctx /\ loc[t].ca \in CA /\ loc[t].next \in ReturnPC
  BY <1>0 DEF FinalizeClose, ControlInv, TypeOK, HoldPC, FinPC
<1>2. LocStep(t) /\ loc'[t] = loc[t]
  BY <1>0, SameLoc DEF FinalizeClose
<1>3. TypeOK'
  BY <1>0, <1>1, <1>2 DEF FinalizeClose, TypeOK, InnerTypeOK, LocStep, PCs, Goto, FreeContext
<1>4. ControlInv'
  BY <1>0, <1>1, <1>2, ControlStep, InnerAssumption
     DEF FinalizeClose, TypeOK, HoldPC, FinPC, ReturnPC, Goto
<1>5. RefInv'
  BY <1>0, <1>1, RefFree DEF FinalizeClose, FreeContext
<1> QED
  BY <1>3, <1>4, <1>5 DEF ContextInv

LEMMA RemoveContextFromProcDataInv ==
  ASSUME ContextInv, NEW t \in Thread, RemoveContextFromProcData(t)
  PROVE  ContextInv'
<1>0. TypeOK /\ ControlInv /\ RefInv
  BY DEF ContextInv
<1>1. pc[t] = "fin_proc" /\ cx[t] = NoCtx /\ fin[t] = NoCtx /\ loc[t].ca \in CA /\ loc[t].next \in ReturnPC
  BY <1>0 DEF RemoveContextFromProcData, ControlInv, TypeOK, HoldPC, FinPC
<1>2. /\ LocStep(t) /\ loc'[t].next \in ReturnPC
      /\ loc'[t].ca \in CA \/ pc'[t] = "idle"
      /\ \E p \in ReturnPC : pc' = [pc EXCEPT ![t] = p]
  <2>1. CASE Return(t)
    BY <1>0, <2>1, ReturnStep DEF TypeOK, ReturnPC
  <2>2. CASE Goto(t, loc[t].next) /\ UNCHANGED loc
    BY <1>0, <1>1, <2>2, SameLoc DEF Goto
  <2> QED BY <2>1, <2>2 DEF RemoveContextFromProcData
<1>3. TypeOK'
  <2> DEFINE p == PidOf[loc[t].ca]
             hit == {i \in Slot : cxtFd[p][i] = loc[t].fd}
             left == IF hit = {} THEN cxtFd[p] ELSE [cxtFd[p] EXCEPT ![First(hit)] = NoFd]
  <2>1. p \in Pid
    BY <1>1, ServiceAssumption
  <2>2. left \in [Slot -> Fd \cup {NoFd}]
    <3>1. cxtFd[p] \in [Slot -> Fd \cup {NoFd}]
      BY <1>0, <2>1 DEF TypeOK
    <3> HIDE DEF hit, p
    <3> QED BY <3>1
  <2>3. \/ UNCHANGED procVars
        \/ cxtFd' = [cxtFd EXCEPT ![p] = left] /\ procOwner' \in {procOwner, [procOwner EXCEPT ![p] = NoCA]}
    BY DEF RemoveContextFromProcData
  <2> HIDE DEF left, p
  <2>4. cxtFd' \in [Pid -> [Slot -> Fd \cup {NoFd}]] /\ procOwner' \in [Pid -> CA \cup {NoCA}]
    BY <1>0, <2>1, <2>2, <2>3 DEF TypeOK, procVars
  <2> QED
    BY <1>0, <1>2, <2>4
       DEF RemoveContextFromProcData, TypeOK, InnerTypeOK, LocStep, PCs, ReturnPC
<1>4. ControlInv'
  BY <1>0, <1>1, <1>2, ControlStep, InnerAssumption
     DEF RemoveContextFromProcData, TypeOK, HoldPC, FinPC, ReturnPC, Goto
<1>5. RefInv'
  BY <1>0, <1>1, RefKeep DEF RemoveContextFromProcData
<1> QED
  BY <1>3, <1>4, <1>5 DEF ContextInv

LEMMA BeginInv ==
  ASSUME ContextInv, NEW t \in Thread, NEW a \in CA, NEW o \in RequestOp, NEW f \in Fd,
         NEW s \in Sess \cup {NoSess}, NEW B \in SUBSET (Bit \cup {NoBit}), Begin(t, a, o, f, s, B)
  PROVE  ContextInv'
<1>0. TypeOK /\ ControlInv /\ RefInv
  BY DEF ContextInv
<1>1. pc[t] = "idle" /\ cx[t] = NoCtx /\ fin[t] = NoCtx
  BY <1>0 DEF Begin, ControlInv, TypeOK, HoldPC, FinPC
<1>2. LocStep(t) /\ loc'[t].next \in ReturnPC /\ loc'[t].ca \in CA /\ loc'[t].op \in RequestOp
  <2>1. o \in Op
    BY DEF RequestOp, Op
  <2>2. SetLoc(t, RequestLocals(o, a, f, s, B))
    BY Zenon DEF Begin, RequestLocals
  <2>3. TypeOK
    BY <1>0
  <2>4. LocStep(t) /\ loc'[t].next = "idle" /\ loc'[t].ca = a /\ loc'[t].op = o
    BY <2>1, <2>2, <2>3, StartRequest
  <2> QED BY <2>4, Zenon DEF ReturnPC
<1>3. TypeOK'
  BY <1>0, <1>1, <1>2 DEF Begin, TypeOK, InnerTypeOK, LocStep, PCs, Goto
<1>4. ControlInv'
  BY <1>0, <1>1, <1>2, ControlStep, InnerAssumption
     DEF Begin, TypeOK, HoldPC, FinPC, ReturnPC, Goto
<1>5. RefInv'
  BY <1>0, <1>1, RefKeep DEF Begin
<1> QED
  BY <1>3, <1>4, <1>5 DEF ContextInv

LEMMA CallGetBnContextInv ==
  ASSUME ContextInv, NEW t \in Thread, CallGetBnContext(t)
  PROVE  ContextInv'
<1>0. TypeOK /\ ControlInv /\ RefInv
  BY DEF ContextInv
<1>1. /\ pc[t] = "get" /\ loc[t].op \in RequestOp
      /\ cx[t] = NoCtx /\ fin[t] = NoCtx /\ loc[t].ca \in CA /\ loc[t].next \in ReturnPC
  BY <1>0 DEF CallGetBnContext, ControlInv, TypeOK, HoldPC, FinPC
<1>2. CASE Return(t) /\ UNCHANGED <<ctxVars, cx, lost>>
  <2>1. LocStep(t) /\ loc'[t].next = "idle" /\ pc' = [pc EXCEPT ![t] = "idle"]
    BY <1>0, <1>2, ReturnStep
  <2>2. TypeOK'
    BY <1>0, <1>1, <1>2, <2>1 DEF CallGetBnContext, TypeOK, InnerTypeOK, LocStep, PCs, Goto
  <2>3. ControlInv'
    BY <1>0, <1>1, <1>2, <2>1, ControlStep, InnerAssumption
       DEF CallGetBnContext, TypeOK, HoldPC, FinPC, ReturnPC, Goto
  <2>4. RefInv'
    BY <1>0, <1>1, <1>2, RefKeep DEF CallGetBnContext
  <2> QED
    BY <2>2, <2>3, <2>4 DEF ContextInv
<1>3. ASSUME NEW c \in FindBnContext(loc[t].fd), GetBnContext(c), cx' = [cx EXCEPT ![t] = c],
             Goto(t, AfterGet(loc[t].op, loc[t].off)), UNCHANGED <<loc, lost>>
      PROVE  ContextInv'
  <2>0. c \in ctxList /\ c \in Ctx
    BY <1>0 DEF FindBnContext, TypeOK, InnerTypeOK
  <2>1. LocStep(t) /\ loc'[t] = loc[t] /\ AfterGet(loc[t].op, loc[t].off) \in {"sess", "ioctl", "opt", "blk"}
    BY <1>0, <1>1, <1>3, SameLoc DEF AfterGet, RequestOp
  <2>2. TypeOK'
    BY <1>0, <1>1, <1>3, <2>0, <2>1 DEF CallGetBnContext, TypeOK, InnerTypeOK, LocStep, PCs, Goto, GetBnContext
  <2>3. ControlInv'
    BY <1>0, <1>1, <1>3, <2>0, <2>1, ControlStep, InnerAssumption
       DEF CallGetBnContext, TypeOK, HoldPC, FinPC, ReturnPC, Goto
  <2>4. RefInv'
    BY <1>0, <1>1, <1>3, <2>0, RefGet DEF CallGetBnContext, GetBnContext
  <2> QED
    BY <2>2, <2>3, <2>4 DEF ContextInv
<1>4. ASSUME NEW c \in FindBnContext(loc[t].fd), GetBnContext(c), cx' = [cx EXCEPT ![t] = c],
             PutThen(t, "idle"), UNCHANGED lost
      PROVE  ContextInv'
  <2>0. c \in ctxList /\ c \in Ctx
    BY <1>0 DEF FindBnContext, TypeOK, InnerTypeOK
  <2>1. /\ LocStep(t) /\ loc'[t].next = "idle" /\ loc'[t].ca \in CA
        /\ pc' = [pc EXCEPT ![t] = "put"]
    <3>1. "idle" \in PCs
      BY DEF PCs
    <3> QED BY <1>0, <1>1, <1>4, <3>1, SetNext, Zenon DEF PutThen
  <2>2. TypeOK'
    BY <1>0, <1>1, <1>4, <2>0, <2>1 DEF CallGetBnContext, TypeOK, InnerTypeOK, LocStep, PCs, Goto, GetBnContext
  <2>3. ControlInv'
    BY <1>0, <1>1, <1>4, <2>0, <2>1, ControlStep, InnerAssumption
       DEF CallGetBnContext, TypeOK, HoldPC, FinPC, ReturnPC, Goto
  <2>4. RefInv'
    BY <1>0, <1>1, <1>4, <2>0, RefGet DEF CallGetBnContext, GetBnContext
  <2> QED
    BY <2>2, <2>3, <2>4 DEF ContextInv
<1>5. ASSUME NEW c \in FindBnContext(loc[t].fd), GetBnContext(c), Abandon({c}), Return(t),
             UNCHANGED cx
      PROVE  ContextInv'
  <2>0. c \in ctxList /\ c \in Ctx
    BY <1>0 DEF FindBnContext, TypeOK, InnerTypeOK
  <2>1. LocStep(t) /\ loc'[t].next = "idle" /\ pc' = [pc EXCEPT ![t] = "idle"]
    BY <1>0, <1>5, ReturnStep
  <2>2. TypeOK'
    BY <1>0, <1>1, <1>5, <2>0, <2>1 DEF CallGetBnContext, TypeOK, InnerTypeOK, LocStep, PCs, Goto, GetBnContext, Abandon
  <2>3. ControlInv'
    BY <1>0, <1>1, <1>5, <2>0, <2>1, ControlStep, InnerAssumption
       DEF CallGetBnContext, TypeOK, HoldPC, FinPC, ReturnPC, Goto
  <2>4. RefInv'
    BY <1>0, <1>1, <1>5, <2>0, RefGetLost DEF CallGetBnContext, GetBnContext
  <2> QED
    BY <2>2, <2>3, <2>4 DEF ContextInv
<1> QED
  BY <1>2, <1>3, <1>4, <1>5, Zenon DEF CallGetBnContext

LEMMA CallGetBnSessionInv ==
  ASSUME ContextInv, NEW t \in Thread, CallGetBnSession(t)
  PROVE  ContextInv'
<1>0. TypeOK /\ ControlInv /\ RefInv
  BY DEF ContextInv
<1>1. /\ pc[t] = "sess"
      /\ cx[t] \in Ctx /\ fin[t] = NoCtx /\ loc[t].ca \in CA /\ loc[t].next \in ReturnPC
  BY <1>0 DEF CallGetBnSession, ControlInv, TypeOK, HoldPC, FinPC
<1>2. CASE PutThen(t, "idle") /\ UNCHANGED <<sesVars, se>>
  <2>1. /\ LocStep(t) /\ loc'[t].next = "idle" /\ loc'[t].ca \in CA
        /\ pc' = [pc EXCEPT ![t] = "put"]
    <3>1. "idle" \in PCs
      BY DEF PCs
    <3> QED BY <1>0, <1>1, <1>2, <3>1, SetNext, Zenon DEF PutThen
  <2>2. TypeOK'
    BY <1>0, <1>1, <1>2, <2>1 DEF CallGetBnSession, TypeOK, InnerTypeOK, LocStep, PCs, Goto
  <2>3. ControlInv'
    BY <1>0, <1>1, <1>2, <2>1, ControlStep, InnerAssumption
       DEF CallGetBnSession, TypeOK, HoldPC, FinPC, ReturnPC, Goto
  <2>4. RefInv'
    BY <1>0, <1>1, <1>2, RefKeep DEF CallGetBnSession
  <2> QED
    BY <2>2, <2>3, <2>4 DEF ContextInv
<1>3. CASE /\ GetBnSession(loc[t].s) /\ se' = [se EXCEPT ![t] = loc[t].s]
           /\ Goto(t, IF loc[t].off = {} THEN "ioctl" ELSE "opt") /\ UNCHANGED loc
  <2>0. loc[t].s \in Sess \cup {NoSess}
    BY <1>0, LocalOf DEF Local
  <2>1. LocStep(t) /\ loc'[t] = loc[t]
    BY <1>0, <1>3, SameLoc
  <2>2. TypeOK'
    <3>1. /\ sesLive' \in SUBSET Sess /\ sesOps' \in [Sess -> Int]
          /\ sesList' \in [Sess -> Ctx \cup {NoCtx}]
      BY <1>0, <1>3, GetBnSessionType DEF TypeOK
    <3> QED
      BY <1>0, <1>3, <2>0, <2>1, <3>1 DEF CallGetBnSession, TypeOK, InnerTypeOK, LocStep, PCs, Goto
  <2>3. ControlInv'
    BY <1>0, <1>1, <1>3, <2>0, <2>1, ControlStep, InnerAssumption
       DEF CallGetBnSession, TypeOK, HoldPC, FinPC, ReturnPC, Goto
  <2>4. RefInv'
    BY <1>0, <1>1, <1>3, <2>0, RefKeep DEF CallGetBnSession
  <2> QED
    BY <2>2, <2>3, <2>4 DEF ContextInv
<1>4. CASE /\ FindAndRemoveSession(loc[t].s) /\ se' = [se EXCEPT ![t] = loc[t].s]
           /\ Goto(t, "ioctl") /\ UNCHANGED loc
  <2>0. loc[t].s \in Sess \cup {NoSess}
    BY <1>0, LocalOf DEF Local
  <2>1. LocStep(t) /\ loc'[t] = loc[t]
    BY <1>0, <1>4, SameLoc
  <2>2. TypeOK'
    BY <1>0, <1>1, <1>4, <2>0, <2>1 DEF CallGetBnSession, TypeOK, InnerTypeOK, LocStep, PCs, Goto, FindAndRemoveSession
  <2>3. ControlInv'
    BY <1>0, <1>1, <1>4, <2>0, <2>1, ControlStep, InnerAssumption
       DEF CallGetBnSession, TypeOK, HoldPC, FinPC, ReturnPC, Goto
  <2>4. RefInv'
    BY <1>0, <1>1, <1>4, <2>0, RefKeep DEF CallGetBnSession
  <2> QED
    BY <2>2, <2>3, <2>4 DEF ContextInv
<1> QED
  BY <1>2, <1>3, <1>4, Zenon DEF CallGetBnSession

\* The error exits after CallGetBnContext, for the actions that take them.
LEMMA GiveUpInv ==
  ASSUME ContextInv, NEW t \in Thread, pc[t] \in {"opt", "ioctl"},
         UNCHANGED <<ctxVars, sesVars, shmVars, procVars, procLock, clientVars, fin, owner>>, GiveUp(t)
  PROVE  ContextInv'
<1>0. TypeOK /\ ControlInv /\ RefInv
  BY DEF ContextInv
<1>1. /\ pc[t] \in {"opt", "ioctl"}
      /\ cx[t] \in Ctx /\ fin[t] = NoCtx /\ loc[t].ca \in CA /\ loc[t].next \in ReturnPC
  BY <1>0 DEF GiveUp, ControlInv, TypeOK, HoldPC, FinPC
<1>2. CASE /\ Abandon({cx[t]} \cup sm[t])
           /\ cx' = [cx EXCEPT ![t] = NoCtx] /\ sm' = [sm EXCEPT ![t] = {}]
           /\ Return(t) /\ UNCHANGED se
  <2>1. LocStep(t) /\ loc'[t].next = "idle" /\ pc' = [pc EXCEPT ![t] = "idle"]
    BY <1>0, <1>2, ReturnStep
  <2>2. TypeOK'
    BY <1>0, <1>1, <1>2, <2>1 DEF GiveUp, TypeOK, InnerTypeOK, LocStep, PCs, Goto, Abandon
  <2>3. ControlInv'
    BY <1>0, <1>1, <1>2, <2>1, ControlStep, InnerAssumption
       DEF GiveUp, TypeOK, HoldPC, FinPC, ReturnPC, Goto
  <2>4. RefInv'
    <3>1. \A d \in Ctx : lost'[d] = IF d = cx[t] THEN lost[d] + 1 ELSE lost[d]
      BY <1>0, <1>1, <1>2, ServiceAssumption DEF Abandon, Obj, TypeOK
    <3> QED BY <1>0, <1>1, <1>2, <3>1, RefAbandon
  <2> QED
    BY <2>2, <2>3, <2>4 DEF ContextInv
<1>3. CASE /\ Abandon(sm[t])
           /\ sm' = [sm EXCEPT ![t] = {}]
           /\ Goto(t, "put_ses") /\ UNCHANGED <<cx, se, loc>>
  <2>1. LocStep(t) /\ loc'[t] = loc[t]
    BY <1>0, <1>3, SameLoc
  <2>2. TypeOK'
    BY <1>0, <1>1, <1>3, <2>1 DEF GiveUp, TypeOK, InnerTypeOK, LocStep, PCs, Goto, Abandon
  <2>3. ControlInv'
    BY <1>0, <1>1, <1>3, <2>1, ControlStep, InnerAssumption
       DEF GiveUp, TypeOK, HoldPC, FinPC, ReturnPC, Goto
  <2>4. RefInv'
    <3>1. \A d \in Ctx : lost'[d] = lost[d]
      BY <1>0, <1>1, <1>3, ServiceAssumption DEF Abandon, Obj, TypeOK
    <3> QED BY <1>0, <1>1, <1>3, <3>1, RefKeep
  <2> QED
    BY <2>2, <2>3, <2>4 DEF ContextInv
<1>4. CASE /\ Abandon({cx[t], se[t]})
           /\ cx' = [cx EXCEPT ![t] = NoCtx] /\ se' = [se EXCEPT ![t] = NoSess]
           /\ Return(t) /\ UNCHANGED sm
  <2>1. LocStep(t) /\ loc'[t].next = "idle" /\ pc' = [pc EXCEPT ![t] = "idle"]
    BY <1>0, <1>4, ReturnStep
  <2>2. TypeOK'
    BY <1>0, <1>1, <1>4, <2>1 DEF GiveUp, TypeOK, InnerTypeOK, LocStep, PCs, Goto, Abandon
  <2>3. ControlInv'
    BY <1>0, <1>1, <1>4, <2>1, ControlStep, InnerAssumption
       DEF GiveUp, TypeOK, HoldPC, FinPC, ReturnPC, Goto
  <2>4. RefInv'
    <3>1. \A d \in Ctx : lost'[d] = IF d = cx[t] THEN lost[d] + 1 ELSE lost[d]
      BY <1>0, <1>1, <1>4, ServiceAssumption DEF Abandon, Obj, TypeOK
    <3> QED BY <1>0, <1>1, <1>4, <3>1, RefAbandon
  <2> QED
    BY <2>2, <2>3, <2>4 DEF ContextInv
<1> QED
  BY <1>2, <1>3, <1>4, Zenon DEF GiveUp

LEMMA TeecOptDecodePartialMemInv ==
  ASSUME ContextInv, NEW t \in Thread, TeecOptDecodePartialMem(t)
  PROVE  ContextInv'
<1>0. TypeOK /\ ControlInv /\ RefInv
  BY DEF ContextInv
<1>1. /\ pc[t] = "opt" /\ loc[t].off \subseteq Bit \cup {NoBit}
      /\ cx[t] \in Ctx /\ fin[t] = NoCtx /\ loc[t].ca \in CA /\ loc[t].next \in ReturnPC
  BY <1>0 DEF TeecOptDecodePartialMem, ControlInv, TypeOK, HoldPC, FinPC, Local
<1>2. ASSUME NEW b \in loc[t].off, NEW m \in FindShmByOffset(b, cx[t]), GetBnShm(m),
             sm' = [sm EXCEPT ![t] = @ \cup {m}],
             SetLoc(t, [loc[t] EXCEPT !.off = @ \ {b}]),
             Goto(t, IF loc[t].off = {b} THEN "ioctl" ELSE "opt"),
             UNCHANGED <<cx, se, lost>>
      PROVE  ContextInv'
  <2>0. b \in Bit \cup {NoBit} /\ m \in Shm
    BY <1>1 DEF FindShmByOffset
  <2>1. /\ LocStep(t) /\ loc'[t].next \in ReturnPC /\ loc'[t].ca \in CA
    BY <1>0, <1>1, <1>2, <2>0, SetOff, Zenon
  <2>2. TypeOK'
    <3>1. UNCHANGED <<ctxVars, sesVars, procVars, procLock, clientVars, fin, owner>>
      BY DEF TeecOptDecodePartialMem
    <3>2. /\ bitmap' \in [Ctx -> SUBSET Bit] /\ shmLive' \in SUBSET Shm
          /\ shmOps' \in [Shm -> Int] /\ shmCtx' \in [Shm -> Ctx \cup {NoCtx}]
          /\ shmOff' \in [Shm -> Bit \cup {NoBit}] /\ shmList' \in [Shm -> Ctx \cup {NoCtx}]
      BY <1>0, <1>1, <1>2, <2>0, InnerAssumption DEF GetBnShm, TypeOK, InnerTypeOK, NoBit
    <3>3. /\ pc' \in [Thread -> PCs] /\ sm' \in [Thread -> SUBSET Shm]
      BY <1>0, <1>1, <1>2, <2>0, <2>1 DEF TypeOK, PCs, Goto
    <3> QED
      BY <1>0, <1>2, <2>1, <3>1, <3>2, <3>3 DEF TypeOK, InnerTypeOK, LocStep
  <2>3. ControlInv'
    BY <1>0, <1>1, <1>2, <2>0, <2>1, ControlStep, InnerAssumption
       DEF TeecOptDecodePartialMem, TypeOK, HoldPC, FinPC, ReturnPC, Goto
  <2>4. RefInv'
    BY <1>0, <1>1, <1>2, <2>0, RefKeep DEF TeecOptDecodePartialMem
  <2> QED
    BY <2>2, <2>3, <2>4 DEF ContextInv
<1>3. ASSUME GiveUp(t), UNCHANGED <<blkVars, bitmap>>
      PROVE  ContextInv'
  BY <1>3, GiveUpInv, <1>0, <1>1 DEF TeecOptDecodePartialMem
<1> QED
  BY <1>2, <1>3, Zenon DEF TeecOptDecodePartialMem

LEMMA AddTidDataFailsInv ==
  ASSUME ContextInv, NEW t \in Thread, AddTidDataFails(t)
  PROVE  ContextInv'
BY GiveUpInv DEF AddTidDataFails

LEMMA TEEC_OpenSessionInnerInv ==
  ASSUME ContextInv, NEW t \in Thread, TEEC_OpenSessionInner(t)
  PROVE  ContextInv'
<1>0. TypeOK /\ ControlInv /\ RefInv
  BY DEF ContextInv
<1>1. /\ pc[t] = "ioctl"
      /\ cx[t] \in Ctx /\ fin[t] = NoCtx /\ loc[t].ca \in CA /\ loc[t].next \in ReturnPC
  BY <1>0 DEF TEEC_OpenSessionInner, ControlInv, TypeOK, HoldPC, FinPC
<1>2. ASSUME NEW s \in Sess \ sesLive, AddSessionList(s, cx[t]), se' = [se EXCEPT ![t] = s],
             SetLoc(t, [loc[t] EXCEPT !.next = "open_reply"])
      PROVE  ContextInv'
  <2>1. /\ LocStep(t) /\ loc'[t].next \in ReturnPC /\ loc'[t].ca \in CA
    <3>1. "open_reply" \in PCs /\ "open_reply" \in ReturnPC
      BY DEF PCs, ReturnPC
    <3> QED BY <1>0, <1>1, <1>2, <3>1, SetNext, Zenon
  <2>2. TypeOK'
    <3>1. UNCHANGED <<ctxVars, shmVars, procVars, procLock, clientVars, fin, owner, cx, sm, lost>>
      BY DEF TEEC_OpenSessionInner
    <3>2. sesLive' \in SUBSET Sess /\ sesOps' \in [Sess -> Int] /\ sesList' \in [Sess -> Ctx \cup {NoCtx}]
      BY <1>0, <1>1, <1>2, InnerAssumption DEF AddSessionList, TypeOK, InnerTypeOK, NoBit
    <3>3. pc' \in [Thread -> PCs] /\ se' \in [Thread -> Sess \cup {NoSess}]
      BY <1>0, <1>1, <1>2, <2>1 DEF TEEC_OpenSessionInner, TypeOK, PCs, Goto
    <3> QED
      BY <1>0, <1>2, <2>1, <3>1, <3>2, <3>3 DEF TypeOK, InnerTypeOK, LocStep
  <2>3. ControlInv'
    BY <1>0, <1>1, <1>2, <2>1, ControlStep, InnerAssumption
       DEF TEEC_OpenSessionInner, TypeOK, HoldPC, FinPC, ReturnPC, Goto
  <2>4. RefInv'
    BY <1>0, <1>1, <1>2, RefKeep DEF TEEC_OpenSessionInner
  <2> QED
    BY <2>2, <2>3, <2>4 DEF ContextInv
<1>3. CASE UNCHANGED <<sesVars, se, loc>>
  <2>1. LocStep(t) /\ loc'[t] = loc[t]
    BY <1>0, <1>3, SameLoc
  <2>2. TypeOK'
    BY <1>0, <1>1, <1>3, <2>1 DEF TEEC_OpenSessionInner, TypeOK, InnerTypeOK, LocStep, PCs, Goto
  <2>3. ControlInv'
    BY <1>0, <1>1, <1>3, <2>1, ControlStep, InnerAssumption
       DEF TEEC_OpenSessionInner, TypeOK, HoldPC, FinPC, ReturnPC, Goto
  <2>4. RefInv'
    BY <1>0, <1>1, <1>3, RefKeep DEF TEEC_OpenSessionInner
  <2> QED
    BY <2>2, <2>3, <2>4 DEF ContextInv
<1> QED
  BY <1>2, <1>3, Zenon DEF TEEC_OpenSessionInner

LEMMA TEEC_CommandInnerInv ==
  ASSUME ContextInv, NEW t \in Thread, TEEC_CommandInner(t)
  PROVE  ContextInv'
<1>0. TypeOK /\ ControlInv /\ RefInv
  BY DEF ContextInv
<1>1. /\ pc[t] = "ioctl"
      /\ cx[t] \in Ctx /\ fin[t] = NoCtx /\ loc[t].ca \in CA /\ loc[t].next \in ReturnPC
  BY <1>0 DEF TEEC_CommandInner, ControlInv, TypeOK, HoldPC, FinPC
<1>2. LocStep(t) /\ loc'[t] = loc[t]
  BY <1>0, SameLoc DEF TEEC_CommandInner
<1>3. TypeOK'
  BY <1>0, <1>1, <1>2 DEF TEEC_CommandInner, TypeOK, InnerTypeOK, LocStep, PCs, Goto
<1>4. ControlInv'
  BY <1>0, <1>1, <1>2, ControlStep, InnerAssumption
     DEF TEEC_CommandInner, TypeOK, HoldPC, FinPC, ReturnPC, Goto
<1>5. RefInv'
  BY <1>0, <1>1, RefKeep DEF TEEC_CommandInner
<1> QED
  BY <1>3, <1>4, <1>5 DEF ContextInv

LEMMA PutAllocShrMemInv ==
  ASSUME ContextInv, NEW t \in Thread, PutAllocShrMem(t)
  PROVE  ContextInv'
<1>0. TypeOK /\ ControlInv /\ RefInv
  BY DEF ContextInv
<1>1. /\ pc[t] = "put_shm"
      /\ cx[t] \in Ctx /\ fin[t] = NoCtx /\ loc[t].ca \in CA /\ loc[t].next \in ReturnPC
  BY <1>0 DEF PutAllocShrMem, ControlInv, TypeOK, HoldPC, FinPC
<1>2. LocStep(t) /\ loc'[t] = loc[t]
  BY <1>0, SameLoc DEF PutAllocShrMem
<1>3. TypeOK'
  <2>1. sm[t] \in SUBSET Shm
    BY <1>0 DEF TypeOK
  <2>2. /\ bitmap' \in [Ctx -> SUBSET Bit] /\ shmLive' \in SUBSET Shm
        /\ shmOps' \in [Shm -> Int] /\ shmCtx' \in [Shm -> Ctx \cup {NoCtx}]
        /\ shmOff' \in [Shm -> Bit \cup {NoBit}]
    BY <1>0, <2>1, PutBnShrMemType DEF PutAllocShrMem, TypeOK
  <2> QED
    BY <1>0, <1>1, <1>2, <2>2 DEF PutAllocShrMem, TypeOK, InnerTypeOK, LocStep, PCs, Goto
<1>4. ControlInv'
  BY <1>0, <1>1, <1>2, ControlStep, InnerAssumption
     DEF PutAllocShrMem, TypeOK, HoldPC, FinPC, ReturnPC, Goto
<1>5. RefInv'
  BY <1>0, <1>1, RefKeep DEF PutAllocShrMem
<1> QED
  BY <1>3, <1>4, <1>5 DEF ContextInv

LEMMA ReleaseSessionInv ==
  ASSUME ContextInv, NEW t \in Thread, ReleaseSession(t)
  PROVE  ContextInv'
<1>0. TypeOK /\ ControlInv /\ RefInv
  BY DEF ContextInv
<1>1. /\ pc[t] = "put_ses"
      /\ cx[t] \in Ctx /\ fin[t] = NoCtx /\ loc[t].ca \in CA /\ loc[t].next \in ReturnPC
  BY <1>0 DEF ReleaseSession, ControlInv, TypeOK, HoldPC, FinPC
<1>2. /\ LocStep(t) /\ loc'[t].next = "idle" /\ loc'[t].ca \in CA
      /\ pc' = [pc EXCEPT ![t] = "put"]
  <2>1. "idle" \in PCs
    BY DEF PCs
  <2> QED BY <1>0, <1>1, <2>1, SetNext, Zenon DEF PutThen, ReleaseSession
<1>3. TypeOK'
  <2>1. /\ sesLive' \in SUBSET Sess /\ sesOps' \in [Sess -> Int]
        /\ sesList' \in [Sess -> Ctx \cup {NoCtx}]
    BY <1>0, PutBnSessionType DEF TypeOK, ReleaseSession
  <2> QED
    BY <1>0, <1>2, <2>1 DEF ReleaseSession, TypeOK, InnerTypeOK, LocStep, PCs
<1>4. ControlInv'
  BY <1>0, <1>1, <1>2, ControlStep, InnerAssumption
     DEF ReleaseSession, TypeOK, HoldPC, FinPC, ReturnPC, Goto
<1>5. RefInv'
  BY <1>0, <1>1, RefKeep DEF ReleaseSession
<1> QED
  BY <1>3, <1>4, <1>5 DEF ContextInv

LEMMA RecOpenReplyInv ==
  ASSUME ContextInv, NEW t \in Thread, RecOpenReply(t)
  PROVE  ContextInv'
<1>0. TypeOK /\ ControlInv /\ RefInv
  BY DEF ContextInv
<1>1. /\ pc[t] = "open_reply"
      /\ cx[t] = NoCtx /\ fin[t] = NoCtx /\ loc[t].ca \in CA /\ loc[t].next \in ReturnPC
  BY <1>0 DEF RecOpenReply, ControlInv, TypeOK, HoldPC, FinPC
<1>2. LocStep(t) /\ loc'[t].next = "idle" /\ pc' = [pc EXCEPT ![t] = "idle"]
  BY <1>0, ReturnStep DEF RecOpenReply
<1>3. TypeOK'
  <2>1. /\ sesLive' \in SUBSET Sess /\ sesOps' \in [Sess -> Int]
        /\ sesList' \in [Sess -> Ctx \cup {NoCtx}]
    BY <1>0, PutBnSessionType DEF TypeOK, InnerTypeOK, RecOpenReply
  <2> QED
    BY <1>0, <1>2, <2>1 DEF RecOpenReply, TypeOK, InnerTypeOK, LocStep, PCs
<1>4. ControlInv'
  BY <1>0, <1>1, <1>2, ControlStep, InnerAssumption
     DEF RecOpenReply, TypeOK, HoldPC, FinPC, ReturnPC, Goto
<1>5. RefInv'
  BY <1>0, <1>1, RefKeep DEF RecOpenReply
<1> QED
  BY <1>3, <1>4, <1>5 DEF ContextInv

LEMMA RegisterBlockInv ==
  ASSUME ContextInv, NEW t \in Thread, RegisterBlock(t)
  PROVE  ContextInv'
<1>0. TypeOK /\ ControlInv /\ RefInv
  BY DEF ContextInv
<1>1. /\ pc[t] = "blk"
      /\ cx[t] \in Ctx /\ fin[t] = NoCtx /\ loc[t].ca \in CA /\ loc[t].next \in ReturnPC
  BY <1>0 DEF RegisterBlock, ControlInv, TypeOK, HoldPC, FinPC
<1>2. ASSUME NEW m \in Shm \ shmLive, TEEC_RegisterSharedMemoryInner(m, cx[t]),
             sm' = [sm EXCEPT ![t] = {m}], Goto(t, "put_blk"), UNCHANGED loc
      PROVE  ContextInv'
  <2>1. LocStep(t) /\ loc'[t] = loc[t]
    BY <1>0, <1>2, SameLoc
  <2>2. TypeOK'
    <3>1. UNCHANGED <<ctxVars, sesVars, procVars, procLock, clientVars, fin, owner, cx, se, lost>>
      BY DEF RegisterBlock
    <3>2. /\ bitmap' \in [Ctx -> SUBSET Bit] /\ shmLive' \in SUBSET Shm
          /\ shmOps' \in [Shm -> Int] /\ shmCtx' \in [Shm -> Ctx \cup {NoCtx}]
          /\ shmOff' \in [Shm -> Bit \cup {NoBit}] /\ shmList' \in [Shm -> Ctx \cup {NoCtx}]
      BY <1>0, <1>1, <1>2, InnerAssumption DEF TEEC_RegisterSharedMemoryInner, TypeOK, InnerTypeOK, NoBit
    <3>3. /\ pc' \in [Thread -> PCs] /\ sm' \in [Thread -> SUBSET Shm]
      BY <1>0, <1>1, <1>2, <2>1 DEF TypeOK, PCs, Goto
    <3> QED
      BY <1>0, <1>2, <2>1, <3>1, <3>2, <3>3 DEF TypeOK, InnerTypeOK, LocStep
  <2>3. ControlInv'
    BY <1>0, <1>1, <1>2, <2>1, ControlStep, InnerAssumption
       DEF RegisterBlock, TypeOK, HoldPC, FinPC, ReturnPC, Goto
  <2>4. RefInv'
    BY <1>0, <1>1, <1>2, RefKeep DEF RegisterBlock
  <2> QED
    BY <2>2, <2>3, <2>4 DEF ContextInv
<1>3. CASE PutThen(t, "idle") /\ UNCHANGED <<shmVars, sm>>
  <2>1. /\ LocStep(t) /\ loc'[t].next = "idle" /\ loc'[t].ca \in CA
        /\ pc' = [pc EXCEPT ![t] = "put"]
    <3>1. "idle" \in PCs
      BY DEF PCs
    <3> QED BY <1>0, <1>1, <1>3, <3>1, SetNext, Zenon DEF PutThen
  <2>2. TypeOK'
    BY <1>0, <1>1, <1>3, <2>1 DEF RegisterBlock, TypeOK, InnerTypeOK, LocStep, PCs, Goto
  <2>3. ControlInv'
    BY <1>0, <1>1, <1>3, <2>1, ControlStep, InnerAssumption
       DEF RegisterBlock, TypeOK, HoldPC, FinPC, ReturnPC, Goto
  <2>4. RefInv'
    BY <1>0, <1>1, <1>3, RefKeep DEF RegisterBlock
  <2> QED
    BY <2>2, <2>3, <2>4 DEF ContextInv
<1> QED
  BY <1>2, <1>3, Zenon DEF RegisterBlock

LEMMA AllocateOffsetInv ==
  ASSUME ContextInv, NEW t \in Thread, AllocateOffset(t)
  PROVE  ContextInv'
<1>0. TypeOK /\ ControlInv /\ RefInv
  BY DEF ContextInv
<1>1. /\ pc[t] = "blk"
      /\ cx[t] \in Ctx /\ fin[t] = NoCtx /\ loc[t].ca \in CA /\ loc[t].next \in ReturnPC
  BY <1>0 DEF AllocateOffset, ControlInv, TypeOK, HoldPC, FinPC
<1>2. ASSUME NEW m \in Shm \ shmLive, GetAndSetBit(m, cx[t]),
             SetLoc(t, [loc[t] EXCEPT !.blk = m]), Goto(t, "buf")
      PROVE  ContextInv'
  <2>0. LowestClear(cx[t]) \in Bit
    BY <1>0, <1>1, <1>2, LowestClearType DEF GetAndSetBit
  <2>1. /\ LocStep(t) /\ loc'[t].next \in ReturnPC /\ loc'[t].ca \in CA /\ loc'[t].blk \in Shm
    BY <1>0, <1>1, <1>2, SetBlk, Zenon
  <2>2. TypeOK'
    BY <1>0, <1>1, <1>2, <2>0, <2>1 DEF AllocateOffset, TypeOK, InnerTypeOK, LocStep, PCs, Goto, GetAndSetBit
  <2>3. ControlInv'
    BY <1>0, <1>1, <1>2, <2>0, <2>1, ControlStep, InnerAssumption
       DEF AllocateOffset, TypeOK, HoldPC, FinPC, ReturnPC, Goto
  <2>4. RefInv'
    BY <1>0, <1>1, <1>2, <2>0, RefKeep DEF AllocateOffset
  <2> QED
    BY <2>2, <2>3, <2>4 DEF ContextInv
<1>3. CASE PutThen(t, "idle") /\ UNCHANGED shmVars
  <2>1. /\ LocStep(t) /\ loc'[t].next = "idle" /\ loc'[t].ca \in CA
        /\ pc' = [pc EXCEPT ![t] = "put"]
    <3>1. "idle" \in PCs
      BY DEF PCs
    <3> QED BY <1>0, <1>1, <1>3, <3>1, SetNext, Zenon DEF PutThen
  <2>2. TypeOK'
    BY <1>0, <1>1, <1>3, <2>1 DEF AllocateOffset, TypeOK, InnerTypeOK, LocStep, PCs, Goto
  <2>3. ControlInv'
    BY <1>0, <1>1, <1>3, <2>1, ControlStep, InnerAssumption
       DEF AllocateOffset, TypeOK, HoldPC, FinPC, ReturnPC, Goto
  <2>4. RefInv'
    BY <1>0, <1>1, <1>3, RefKeep DEF AllocateOffset
  <2> QED
    BY <2>2, <2>3, <2>4 DEF ContextInv
<1> QED
  BY <1>2, <1>3, Zenon DEF AllocateOffset

LEMMA AllocateBufferInv ==
  ASSUME ContextInv, NEW t \in Thread, AllocateBuffer(t)
  PROVE  ContextInv'
<1>0. TypeOK /\ ControlInv /\ RefInv
  BY DEF ContextInv
<1>1. /\ pc[t] = "buf" /\ loc[t].blk \in Shm
      /\ cx[t] \in Ctx /\ fin[t] = NoCtx /\ loc[t].ca \in CA /\ loc[t].next \in ReturnPC
  BY <1>0 DEF AllocateBuffer, ControlInv, TypeOK, HoldPC, FinPC
<1>2. ASSUME InsertAllocated(loc[t].blk, cx[t]), sm' = [sm EXCEPT ![t] = {loc[t].blk}],
             NEW r \in BOOLEAN, SetLoc(t, [loc[t] EXCEPT !.blk = NoShm, !.ok = r]),
             Goto(t, "put_blk")
      PROVE  ContextInv'
  <2>1. /\ LocStep(t) /\ loc'[t].next \in ReturnPC /\ loc'[t].ca \in CA
    BY <1>0, <1>1, <1>2, SetBlkOk, Zenon
  <2>2. TypeOK'
    <3>1. UNCHANGED <<ctxVars, sesVars, procVars, procLock, clientVars, fin, owner, cx, se, lost>>
      BY DEF AllocateBuffer
    <3>2. /\ bitmap' \in [Ctx -> SUBSET Bit] /\ shmLive' \in SUBSET Shm
          /\ shmOps' \in [Shm -> Int] /\ shmCtx' \in [Shm -> Ctx \cup {NoCtx}]
          /\ shmOff' \in [Shm -> Bit \cup {NoBit}] /\ shmList' \in [Shm -> Ctx \cup {NoCtx}]
      BY <1>0, <1>1, <1>2, InnerAssumption DEF InsertAllocated, TypeOK, InnerTypeOK, NoBit
    <3>3. /\ pc' \in [Thread -> PCs] /\ sm' \in [Thread -> SUBSET Shm]
      BY <1>0, <1>1, <1>2, <2>1 DEF TypeOK, PCs, Goto
    <3> QED
      BY <1>0, <1>2, <2>1, <3>1, <3>2, <3>3 DEF TypeOK, InnerTypeOK, LocStep
  <2>3. ControlInv'
    BY <1>0, <1>1, <1>2, <2>1, ControlStep, InnerAssumption
       DEF AllocateBuffer, TypeOK, HoldPC, FinPC, ReturnPC, Goto
  <2>4. RefInv'
    BY <1>0, <1>1, <1>2, RefKeep DEF AllocateBuffer
  <2> QED
    BY <2>2, <2>3, <2>4 DEF ContextInv
<1>3. CASE /\ ReleaseBufferAndClearBit(loc[t].blk, cx[t])
           /\ pc' = [pc EXCEPT ![t] = "put"]
           /\ SetLoc(t, [loc[t] EXCEPT !.blk = NoShm, !.next = "idle"])
           /\ UNCHANGED sm
  <2>1. /\ LocStep(t) /\ loc'[t].next = "idle" /\ loc'[t].ca \in CA
        /\ pc' = [pc EXCEPT ![t] = "put"]
    <3>1. "idle" \in PCs
      BY DEF PCs
    <3> QED BY <1>0, <1>1, <1>3, <3>1, SetBlkNext, Zenon
  <2>2. TypeOK'
    BY <1>0, <1>1, <1>3, <2>1 DEF AllocateBuffer, TypeOK, InnerTypeOK, LocStep, PCs, Goto, ReleaseBufferAndClearBit
  <2>3. ControlInv'
    BY <1>0, <1>1, <1>3, <2>1, ControlStep, InnerAssumption
       DEF AllocateBuffer, TypeOK, HoldPC, FinPC, ReturnPC, Goto
  <2>4. RefInv'
    BY <1>0, <1>1, <1>3, RefKeep DEF AllocateBuffer
  <2> QED
    BY <2>2, <2>3, <2>4 DEF ContextInv
<1> QED
  BY <1>2, <1>3, Zenon DEF AllocateBuffer

LEMMA ReleaseBlockInv ==
  ASSUME ContextInv, NEW t \in Thread, ReleaseBlock(t)
  PROVE  ContextInv'
<1>0. TypeOK /\ ControlInv /\ RefInv
  BY DEF ContextInv
<1>1. /\ pc[t] = "blk"
      /\ cx[t] \in Ctx /\ fin[t] = NoCtx /\ loc[t].ca \in CA /\ loc[t].next \in ReturnPC
  BY <1>0 DEF ReleaseBlock, ControlInv, TypeOK, HoldPC, FinPC
<1>2. ASSUME NEW b, NEW m \in FindShmByOffset(b, cx[t]), TEEC_FindAndRemoveShrMemInner(m),
             sm' = [sm EXCEPT ![t] = {m}], Goto(t, "put_blk"), UNCHANGED loc
      PROVE  ContextInv'
  <2>0. m \in Shm
    BY DEF FindShmByOffset
  <2>1. LocStep(t) /\ loc'[t] = loc[t]
    BY <1>0, <1>2, SameLoc
  <2>2. TypeOK'
    BY <1>0, <1>1, <1>2, <2>0, <2>1 DEF ReleaseBlock, TypeOK, InnerTypeOK, LocStep, PCs, Goto, TEEC_FindAndRemoveShrMemInner
  <2>3. ControlInv'
    BY <1>0, <1>1, <1>2, <2>0, <2>1, ControlStep, InnerAssumption
       DEF ReleaseBlock, TypeOK, HoldPC, FinPC, ReturnPC, Goto
  <2>4. RefInv'
    BY <1>0, <1>1, <1>2, <2>0, RefKeep DEF ReleaseBlock
  <2> QED
    BY <2>2, <2>3, <2>4 DEF ContextInv
<1>3. CASE PutThen(t, "idle") /\ UNCHANGED <<shmVars, sm>>
  <2>1. /\ LocStep(t) /\ loc'[t].next = "idle" /\ loc'[t].ca \in CA
        /\ pc' = [pc EXCEPT ![t] = "put"]
    <3>1. "idle" \in PCs
      BY DEF PCs
    <3> QED BY <1>0, <1>1, <1>3, <3>1, SetNext, Zenon DEF PutThen
  <2>2. TypeOK'
    BY <1>0, <1>1, <1>3, <2>1 DEF ReleaseBlock, TypeOK, InnerTypeOK, LocStep, PCs, Goto
  <2>3. ControlInv'
    BY <1>0, <1>1, <1>3, <2>1, ControlStep, InnerAssumption
       DEF ReleaseBlock, TypeOK, HoldPC, FinPC, ReturnPC, Goto
  <2>4. RefInv'
    BY <1>0, <1>1, <1>3, RefKeep DEF ReleaseBlock
  <2> QED
    BY <2>2, <2>3, <2>4 DEF ContextInv
<1> QED
  BY <1>2, <1>3, Zenon DEF ReleaseBlock

LEMMA PutBlockInv ==
  ASSUME ContextInv, NEW t \in Thread, PutBlock(t)
  PROVE  ContextInv'
<1>0. TypeOK /\ ControlInv /\ RefInv
  BY DEF ContextInv
<1>1. /\ pc[t] = "put_blk"
      /\ cx[t] \in Ctx /\ fin[t] = NoCtx /\ loc[t].ca \in CA /\ loc[t].next \in ReturnPC
  BY <1>0 DEF PutBlock, ControlInv, TypeOK, HoldPC, FinPC
<1>2. /\ LocStep(t) /\ loc'[t].next \in ReturnPC /\ loc'[t].ca \in CA
  <2>1. LateUse(t) \in PCs /\ LateUse(t) \in ReturnPC
    BY DEF LateUse, PCs, ReturnPC
  <2>2. PICK x \in Obj \cup {NoCtx} : SetLoc(t, [loc[t] EXCEPT !.next = LateUse(t), !.late = x])
    <3>1. \A m \in sm[t] : m \in Obj
      BY <1>0 DEF TypeOK, Obj
    <3> QED BY <3>1, Zenon DEF PutBlock
  <2> HIDE DEF LateUse
  <2> QED BY <1>0, <1>1, <2>1, <2>2, SetNextLate, Zenon
<1>3. TypeOK'
  <2>1. sm[t] \in SUBSET Shm
    BY <1>0 DEF TypeOK
  <2>2. /\ bitmap' \in [Ctx -> SUBSET Bit] /\ shmLive' \in SUBSET Shm
        /\ shmOps' \in [Shm -> Int] /\ shmCtx' \in [Shm -> Ctx \cup {NoCtx}]
        /\ shmOff' \in [Shm -> Bit \cup {NoBit}]
    BY <1>0, <2>1, PutBnShrMemType DEF PutBlock, TypeOK
  <2> QED
    BY <1>0, <1>1, <1>2, <2>2 DEF PutBlock, TypeOK, InnerTypeOK, LocStep, PCs, Goto
<1>4. ControlInv'
  BY <1>0, <1>1, <1>2, ControlStep, InnerAssumption
     DEF PutBlock, TypeOK, HoldPC, FinPC, ReturnPC, Goto
<1>5. RefInv'
  BY <1>0, <1>1, RefKeep DEF PutBlock
<1> QED
  BY <1>3, <1>4, <1>5 DEF ContextInv

LEMMA RegisterReplyInv ==
  ASSUME ContextInv, NEW t \in Thread, RegisterReply(t)
  PROVE  ContextInv'
<1>0. TypeOK /\ ControlInv /\ RefInv
  BY DEF ContextInv
<1>1. /\ pc[t] = "reg_read"
      /\ cx[t] = NoCtx /\ fin[t] = NoCtx /\ loc[t].ca \in CA /\ loc[t].next \in ReturnPC
  BY <1>0 DEF RegisterReply, ControlInv, TypeOK, HoldPC, FinPC
<1>2. LocStep(t) /\ loc'[t].next = "idle" /\ pc' = [pc EXCEPT ![t] = "idle"]
  BY <1>0, ReturnStep DEF RegisterReply
<1>3. TypeOK'
  BY <1>0, <1>1, <1>2 DEF RegisterReply, TypeOK, InnerTypeOK, LocStep, PCs, Goto
<1>4. ControlInv'
  BY <1>0, <1>1, <1>2, ControlStep, InnerAssumption
     DEF RegisterReply, TypeOK, HoldPC, FinPC, ReturnPC, Goto
<1>5. RefInv'
  BY <1>0, <1>1, RefKeep DEF RegisterReply
<1> QED
  BY <1>3, <1>4, <1>5 DEF ContextInv

LEMMA UndoAllocateInv ==
  ASSUME ContextInv, NEW t \in Thread, UndoAllocate(t)
  PROVE  ContextInv'
<1>0. TypeOK /\ ControlInv /\ RefInv
  BY DEF ContextInv
<1>1. /\ pc[t] = "undo"
      /\ cx[t] = NoCtx /\ fin[t] = NoCtx /\ loc[t].ca \in CA /\ loc[t].next \in ReturnPC
  BY <1>0 DEF UndoAllocate, ControlInv, TypeOK, HoldPC, FinPC
<1>2. CASE /\ loc[t].late \in shmLive /\ PutBnShrMem({loc[t].late})
           /\ shmList' = [shmList EXCEPT ![loc[t].late] = NoCtx]
  <2>1. LocStep(t) /\ loc'[t].next = "idle" /\ pc' = [pc EXCEPT ![t] = "idle"]
    BY <1>0, ReturnStep DEF UndoAllocate
  <2>2. TypeOK'
    <3>1. {loc[t].late} \in SUBSET Shm
      BY <1>0, <1>2 DEF TypeOK, InnerTypeOK
    <3>2. /\ bitmap' \in [Ctx -> SUBSET Bit] /\ shmLive' \in SUBSET Shm
          /\ shmOps' \in [Shm -> Int] /\ shmCtx' \in [Shm -> Ctx \cup {NoCtx}]
          /\ shmOff' \in [Shm -> Bit \cup {NoBit}]
      BY <1>0, <1>2, <3>1, PutBnShrMemType DEF TypeOK
    <3>3. shmList' \in [Shm -> Ctx \cup {NoCtx}]
      BY <1>0, <1>2 DEF TypeOK, InnerTypeOK
    <3> QED
      BY <1>0, <2>1, <3>2, <3>3 DEF UndoAllocate, TypeOK, InnerTypeOK, LocStep, PCs
  <2>3. ControlInv'
    BY <1>0, <1>1, <1>2, <2>1, ControlStep, InnerAssumption
       DEF UndoAllocate, TypeOK, HoldPC, FinPC, ReturnPC, Goto
  <2>4. RefInv'
    BY <1>0, <1>1, <1>2, RefKeep DEF UndoAllocate
  <2> QED
    BY <2>2, <2>3, <2>4 DEF ContextInv
<1>3. CASE UNCHANGED shmVars
  <2>1. LocStep(t) /\ loc'[t].next = "idle" /\ pc' = [pc EXCEPT ![t] = "idle"]
    BY <1>0, ReturnStep DEF UndoAllocate
  <2>2. TypeOK'
    BY <1>0, <1>1, <1>3, <2>1 DEF UndoAllocate, TypeOK, InnerTypeOK, LocStep, PCs, Goto
  <2>3. ControlInv'
    BY <1>0, <1>1, <1>3, <2>1, ControlStep, InnerAssumption
       DEF UndoAllocate, TypeOK, HoldPC, FinPC, ReturnPC, Goto
  <2>4. RefInv'
    BY <1>0, <1>1, <1>3, RefKeep DEF UndoAllocate
  <2> QED
    BY <2>2, <2>3, <2>4 DEF ContextInv
<1> QED
  BY <1>2, <1>3, Zenon DEF UndoAllocate

LEMMA OnRemoteDiedInv ==
  ASSUME ContextInv, NEW t \in Thread, NEW a \in CA, OnRemoteDied(t, a)
  PROVE  ContextInv'
<1>0. TypeOK /\ ControlInv /\ RefInv
  BY DEF ContextInv
<1>1. pc[t] = "idle" /\ cx[t] = NoCtx /\ fin[t] = NoCtx
  BY <1>0 DEF OnRemoteDied, ControlInv, TypeOK, HoldPC, FinPC
<1>2. /\ LocStep(t) /\ loc'[t].next \in ReturnPC /\ loc'[t].ca \in CA
  <2>1. SetLoc(t, [NoLocal EXCEPT !.op = "die", !.ca = a])
    BY DEF OnRemoteDied
  <2>2. LocStep(t) /\ loc'[t].next = "idle" /\ loc'[t].ca = a
    BY <1>0, <2>1, StartDie, Zenon
  <2> QED BY <2>2, Zenon DEF ReturnPC
<1>3. TypeOK'
  BY <1>0, <1>2 DEF OnRemoteDied, TypeOK, InnerTypeOK, LocStep, PCs, Goto
<1>4. ControlInv'
  BY <1>0, <1>1, <1>2, ControlStep, InnerAssumption
     DEF OnRemoteDied, TypeOK, HoldPC, FinPC, ReturnPC, Goto
<1>5. RefInv'
  BY <1>0, <1>1, RefKeep DEF OnRemoteDied
<1> QED
  BY <1>3, <1>4, <1>5 DEF ContextInv

LEMMA ProcessCaDiedInv ==
  ASSUME ContextInv, NEW t \in Thread, ProcessCaDied(t)
  PROVE  ContextInv'
<1>0. TypeOK /\ ControlInv /\ RefInv
  BY DEF ContextInv
<1>1. /\ pc[t] = "died"
      /\ cx[t] = NoCtx /\ fin[t] = NoCtx /\ loc[t].ca \in CA /\ loc[t].next \in ReturnPC
  BY <1>0 DEF ProcessCaDied, ControlInv, TypeOK, HoldPC, FinPC
<1>2. CASE /\ mClients' = mClients \ {loc[t].ca}
           /\ Return(t) /\ UNCHANGED procVars
  <2>1. LocStep(t) /\ loc'[t].next = "idle" /\ pc' = [pc EXCEPT ![t] = "idle"]
    BY <1>0, <1>2, ReturnStep
  <2>2. TypeOK'
    BY <1>0, <1>1, <1>2, <2>1 DEF ProcessCaDied, TypeOK, InnerTypeOK, LocStep, PCs, Goto
  <2>3. ControlInv'
    BY <1>0, <1>1, <1>2, <2>1, ControlStep, InnerAssumption
       DEF ProcessCaDied, TypeOK, HoldPC, FinPC, ReturnPC, Goto
  <2>4. RefInv'
    BY <1>0, <1>1, <1>2, RefKeep DEF ProcessCaDied
  <2> QED
    BY <2>2, <2>3, <2>4 DEF ContextInv
<1>3. ASSUME NEW p \in Pid,
             procOwner' = [procOwner EXCEPT ![p] = NoCA],
             cxtFd' = [cxtFd EXCEPT ![p] = NoSlots],
             SetLoc(t, [loc[t] EXCEPT !.dfds = cxtFd[p]]),
             Goto(t, "clean"), UNCHANGED mClients
      PROVE  ContextInv'
  <2>0. cxtFd[p] \in [Slot -> Fd \cup {NoFd}] /\ NoSlots \in [Slot -> Fd \cup {NoFd}]
    BY <1>0 DEF TypeOK, NoSlots
  <2>1. /\ LocStep(t) /\ loc'[t].next \in ReturnPC /\ loc'[t].ca \in CA
    BY <1>0, <1>1, <1>3, <2>0, SetDfds, Zenon
  <2>2. TypeOK'
    <3>1. UNCHANGED <<ctxVars, sesVars, shmVars, procLock, clientVars, refVars, fin, histVars>>
      BY <1>3 DEF ProcessCaDied
    <3>2. procOwner' \in [Pid -> CA \cup {NoCA}] /\ cxtFd' \in [Pid -> [Slot -> Fd \cup {NoFd}]]
      BY <1>0, <1>3, <2>0 DEF TypeOK
    <3>3. pc' \in [Thread -> PCs]
      BY <1>0, <1>3 DEF TypeOK, Goto, PCs
    <3> QED
      BY <1>0, <2>1, <3>1, <3>2, <3>3 DEF TypeOK, InnerTypeOK, LocStep
  <2>3. ControlInv'
    BY <1>0, <1>1, <1>3, <2>0, <2>1, ControlStep, InnerAssumption
       DEF ProcessCaDied, TypeOK, HoldPC, FinPC, ReturnPC, Goto
  <2>4. RefInv'
    BY <1>0, <1>1, <1>3, <2>0, RefKeep DEF ProcessCaDied
  <2> QED
    BY <2>2, <2>3, <2>4 DEF ContextInv
<1>4. PidOf[loc[t].ca] \in Pid
  BY <1>1, ServiceAssumption
<1> QED
  BY <1>2, <1>3, <1>4, Zenon DEF ProcessCaDied

LEMMA CleanProcDataForOneCaInv ==
  ASSUME ContextInv, NEW t \in Thread, CleanProcDataForOneCa(t)
  PROVE  ContextInv'
<1>0. TypeOK /\ ControlInv /\ RefInv
  BY DEF ContextInv
<1>1. /\ pc[t] = "clean"
      /\ cx[t] = NoCtx /\ fin[t] = NoCtx /\ loc[t].ca \in CA /\ loc[t].next \in ReturnPC
  BY <1>0 DEF CleanProcDataForOneCa, ControlInv, TypeOK, HoldPC, FinPC
<1>2. CASE /\ mClients' = mClients \ {loc[t].ca}
           /\ Return(t) /\ UNCHANGED <<ctxVars, cx>>
  <2>1. LocStep(t) /\ loc'[t].next = "idle" /\ pc' = [pc EXCEPT ![t] = "idle"]
    BY <1>0, <1>2, ReturnStep
  <2>2. TypeOK'
    BY <1>0, <1>1, <1>2, <2>1 DEF CleanProcDataForOneCa, TypeOK, InnerTypeOK, LocStep, PCs, Goto
  <2>3. ControlInv'
    BY <1>0, <1>1, <1>2, <2>1, ControlStep, InnerAssumption
       DEF CleanProcDataForOneCa, TypeOK, HoldPC, FinPC, ReturnPC, Goto
  <2>4. RefInv'
    BY <1>0, <1>1, <1>2, RefKeep DEF CleanProcDataForOneCa
  <2> QED
    BY <2>2, <2>3, <2>4 DEF ContextInv
<1>3. CASE /\ SetLoc(t, [loc[t] EXCEPT !.dfds =
                 [loc[t].dfds EXCEPT ![First({i \in Slot : loc[t].dfds[i] # NoFd})] = NoFd]])
           /\ UNCHANGED <<ctxVars, cx, pc, mClients>>
  <2>1. /\ LocStep(t) /\ loc'[t].next \in ReturnPC /\ loc'[t].ca \in CA
    <3>1. loc[t].dfds \in [Slot -> Fd \cup {NoFd}]
      BY <1>0, LocalOf DEF Local
    <3> DEFINE k == First({i \in Slot : loc[t].dfds[i] # NoFd})
    <3>2. [loc[t].dfds EXCEPT ![k] = NoFd] \in [Slot -> Fd \cup {NoFd}]
      <4> HIDE DEF k
      <4> QED BY <3>1
    <3> QED BY <1>0, <1>1, <1>3, <3>2, SetDfds, Zenon
  <2>2. TypeOK'
    BY <1>0, <1>1, <1>3, <2>1 DEF CleanProcDataForOneCa, TypeOK, InnerTypeOK, LocStep, PCs, Goto
  <2>3. ControlInv'
    BY <1>0, <1>1, <1>3, <2>1, ControlStep, InnerAssumption
       DEF CleanProcDataForOneCa, TypeOK, HoldPC, FinPC, ReturnPC, Goto
  <2>4. RefInv'
    BY <1>0, <1>1, <1>3, RefKeep DEF CleanProcDataForOneCa
  <2> QED
    BY <2>2, <2>3, <2>4 DEF ContextInv
<1>4. ASSUME NEW x, NEW c \in FindBnContext(x), RemoveBnContext(c), cx' = [cx EXCEPT ![t] = c],
             SetLoc(t, [loc[t] EXCEPT !.dfds =
                 [loc[t].dfds EXCEPT ![First({i \in Slot : loc[t].dfds[i] # NoFd})] = NoFd]]),
             Goto(t, "clean_put"), UNCHANGED mClients
      PROVE  ContextInv'
  <2>0. c \in ctxList /\ c \in Ctx
    BY <1>0 DEF FindBnContext, TypeOK, InnerTypeOK
  <2>1. /\ LocStep(t) /\ loc'[t].next \in ReturnPC /\ loc'[t].ca \in CA
    <3>1. loc[t].dfds \in [Slot -> Fd \cup {NoFd}]
      BY <1>0, LocalOf DEF Local
    <3> DEFINE k == First({i \in Slot : loc[t].dfds[i] # NoFd})
    <3>2. [loc[t].dfds EXCEPT ![k] = NoFd] \in [Slot -> Fd \cup {NoFd}]
      <4> HIDE DEF k
      <4> QED BY <3>1
    <3> QED BY <1>0, <1>1, <1>4, <3>2, SetDfds, Zenon
  <2>2. TypeOK'
    BY <1>0, <1>1, <1>4, <2>0, <2>1 DEF CleanProcDataForOneCa, TypeOK, InnerTypeOK, LocStep, PCs, Goto, RemoveBnContext
  <2>3. ControlInv'
    BY <1>0, <1>1, <1>4, <2>0, <2>1, ControlStep, InnerAssumption
       DEF CleanProcDataForOneCa, TypeOK, HoldPC, FinPC, ReturnPC, Goto
  <2>4. RefInv'
    BY <1>0, <1>1, <1>4, <2>0, RefRemove DEF CleanProcDataForOneCa, RemoveBnContext
  <2> QED
    BY <2>2, <2>3, <2>4 DEF ContextInv
<1> QED
  BY <1>2, <1>3, <1>4, Zenon DEF CleanProcDataForOneCa

LEMMA CleanPutBnContextInv ==
  ASSUME ContextInv, NEW t \in Thread, CleanPutBnContext(t)
  PROVE  ContextInv'
<1>0. TypeOK /\ ControlInv /\ RefInv
  BY DEF ContextInv
<1>1. /\ pc[t] = "clean_put"
      /\ cx[t] \in Ctx /\ fin[t] = NoCtx /\ loc[t].ca \in CA /\ loc[t].next \in ReturnPC
  BY <1>0 DEF CleanPutBnContext, ControlInv, TypeOK, HoldPC, FinPC
<1>2. LocStep(t) /\ loc'[t] = loc[t]
  BY <1>0, SameLoc DEF CleanPutBnContext
<1>3. TypeOK'
  <2>1. ctxOps' \in [Ctx -> Int] /\ cx' \in [Thread -> Ctx \cup {NoCtx}]
    BY <1>0, <1>1 DEF CleanPutBnContext, DecBnContext, TypeOK, InnerTypeOK
  <2>2. fin' \in [Thread -> Ctx \cup {NoCtx}] /\ pc' \in [Thread -> PCs]
    BY <1>0, <1>1 DEF CleanPutBnContext, TypeOK, PCs, Goto
  <2>3. UNCHANGED <<ctxLive, ctxList, ctxFd, sesVars, shmVars, procVars, procLock, clientVars, se, sm, histVars>>
    BY DEF CleanPutBnContext, DecBnContext
  <2> QED
    BY <1>0, <1>2, <2>1, <2>2, <2>3 DEF TypeOK, InnerTypeOK, LocStep
<1>4. ControlInv'
  BY <1>0, <1>1, <1>2, ControlStep, InnerAssumption
     DEF CleanPutBnContext, TypeOK, HoldPC, FinPC, ReturnPC, Goto
<1>5. RefInv'
  BY <1>0, <1>1, RefPut DEF CleanPutBnContext, DecBnContext, LastReference
<1> QED
  BY <1>3, <1>4, <1>5 DEF ContextInv

\* Steps that leave the contexts and the handlers alone.
LEMMA IdleStepInv ==
  ASSUME ContextInv, TypeOK',
         UNCHANGED <<ctxVars, pc, loc, cx, fin, lost>>
  PROVE  ContextInv'
<1>1. ControlInv'
  BY DEF ContextInv, ControlInv
<1>2. RefInv'
  BY RefKeep DEF ContextInv
<1> QED
  BY <1>1, <1>2 DEF ContextInv

LEMMA SetCallBackInv ==
  ASSUME ContextInv, NEW a \in CA, SetCallBack(a)
  PROVE  ContextInv'
<1>1. TypeOK'
  BY DEF ContextInv, SetCallBack, TypeOK, InnerTypeOK
<1> QED
  BY <1>1, IdleStepInv DEF SetCallBack

LEMMA CaDiesInv ==
  ASSUME ContextInv, NEW a \in CA, CaDies(a)
  PROVE  ContextInv'
<1>1. TypeOK'
  BY DEF ContextInv, CaDies, TypeOK, InnerTypeOK
<1> QED
  BY <1>1, IdleStepInv DEF CaDies

-----------------------------------------------------------------------------
(* The induction *)

LEMMA ContextInvInit == Init => ContextInv
<1> SUFFICES ASSUME Init PROVE ContextInv
  OBVIOUS
<1>1. TypeOK
  BY TypeInit
<1>2. ControlInv
  <2>1. \A t \in Thread : loc[t] = NoLocal /\ pc[t] = "idle" /\ cx[t] = NoCtx /\ fin[t] = NoCtx
    BY DEF Init
  <2> QED
    BY <2>1, NoLocalType DEF ControlInv, HoldPC, FinPC, ReturnPC
<1>3. RefInv
  BY DEF Init, InnerInit, RefInv, ContextRefCount, Obj
<1> QED
  BY <1>1, <1>2, <1>3 DEF ContextInv

\* A request arrives on an idle thread.
LEMMA RequestInv ==
  ASSUME ContextInv, NEW t \in Thread, NEW a \in CA, Request(t, a)
  PROVE  ContextInv'
<1>1. ASSUME NEW c \in Ctx, NEW f \in Fd, InitializeContext(t, a, c, f) PROVE ContextInv'
  BY <1>1, InitializeContextInv
<1>2. ASSUME NEW f \in Fd, FinalizeContext(t, a, f) PROVE ContextInv'
  BY <1>2, FinalizeContextInv
<1>3. ASSUME NEW f \in Fd,
             \/ OpenSession(t, a, f) \/ InvokeCommand(t, a, f) \/ CloseSession(t, a, f)
             \/ RegisterSharedMemory(t, a, f) \/ AllocateSharedMemory(t, a, f)
             \/ ReleaseSharedMemory(t, a, f)
      PROVE  ContextInv'
  <2>1. \A B \in MemRefs : B \in SUBSET (Bit \cup {NoBit})
    BY DEF MemRefs
  <2>2. PICK o \in RequestOp, s \in Sess \cup {NoSess}, B \in SUBSET (Bit \cup {NoBit}) :
          Begin(t, a, o, f, s, B)
    <3>1. CASE OpenSession(t, a, f)
      BY <2>1, <3>1 DEF OpenSession, RequestOp
    <3>2. CASE InvokeCommand(t, a, f)
      BY <2>1, <3>2 DEF InvokeCommand, RequestOp
    <3>3. CASE CloseSession(t, a, f)
      BY <3>3 DEF CloseSession, RequestOp
    <3>4. CASE RegisterSharedMemory(t, a, f)
      BY <3>4 DEF RegisterSharedMemory, RequestOp
    <3>5. CASE AllocateSharedMemory(t, a, f)
      BY <3>5 DEF AllocateSharedMemory, RequestOp
    <3>6. CASE ReleaseSharedMemory(t, a, f)
      BY <3>6 DEF ReleaseSharedMemory, RequestOp
    <3> QED
      BY <1>3, <3>1, <3>2, <3>3, <3>4, <3>5, <3>6
  <2> QED
    BY <2>2, BeginInv
<1> QED
  BY <1>1, <1>2, <1>3, Zenon DEF Request

LEMMA HandlerStepInv ==
  ASSUME ContextInv, NEW t \in Thread, HandlerStep(t)
  PROVE  ContextInv'
<1>1. CASE ContextStep(t)
  BY <1>1, SetContextToProcDataInv, SetContextToProcDataFailsInv, ReleaseContextInv,
     CallFinalizeContextInv, PutBnContextAndReleaseFdInv, FinalizeSessionListInv,
     FinalizeShmListInv, FinalizeCloseInv, RemoveContextFromProcDataInv,
     CallGetBnContextInv, Zenon DEF ContextStep
<1>2. CASE SessionStep(t)
  BY <1>2, CallGetBnSessionInv, TeecOptDecodePartialMemInv, AddTidDataFailsInv,
     TEEC_OpenSessionInnerInv, TEEC_CommandInnerInv, PutAllocShrMemInv,
     ReleaseSessionInv, RecOpenReplyInv, Zenon DEF SessionStep
<1>3. CASE SharedMemoryStep(t)
  BY <1>3, RegisterBlockInv, AllocateOffsetInv, AllocateBufferInv, ReleaseBlockInv,
     PutBlockInv, RegisterReplyInv, UndoAllocateInv, Zenon DEF SharedMemoryStep
<1>4. CASE DeathStep(t)
  BY <1>4, ProcessCaDiedInv, CleanProcDataForOneCaInv, CleanPutBnContextInv, Zenon DEF DeathStep
<1> QED
  BY <1>1, <1>2, <1>3, <1>4, Zenon DEF HandlerStep

LEMMA ContextInvNext == ContextInv /\ [Next]_vars => ContextInv'
<1> SUFFICES ASSUME ContextInv, [Next]_vars PROVE ContextInv'
  OBVIOUS
<1>1. ASSUME NEW a \in CA, SetCallBack(a) \/ CaDies(a) PROVE ContextInv'
  BY <1>1, SetCallBackInv, CaDiesInv
<1>2. ASSUME NEW t \in Thread, NEW a \in CA, Request(t, a) \/ OnRemoteDied(t, a) PROVE ContextInv'
  BY <1>2, RequestInv, OnRemoteDiedInv
<1>3. ASSUME NEW t \in Thread, HandlerStep(t) PROVE ContextInv'
  BY <1>3, HandlerStepInv
<1>4. CASE UNCHANGED vars
  <2>1. TypeOK'
    BY <1>4 DEF ContextInv, vars, TypeOK, InnerTypeOK
  <2> QED
    BY <1>4, <2>1, IdleStepInv DEF vars
<1> QED
  BY <1>1, <1>2, <1>3, <1>4, Zenon DEF Next

LEMMA ContextInvAlways == Spec => []ContextInv
BY ContextInvInit, ContextInvNext, PTL DEF Spec

\* What the invariant says of a context that is being torn down: its count is 0, so it
\* is neither on the list nor in a handler's hands.
LEMMA TornDownUnreachable ==
  ASSUME ContextInv, NEW t \in Thread, fin[t] # NoCtx
  PROVE  fin[t] \in ctxLive /\ fin[t] \notin ctxList /\ Holders(fin[t]) = {}
<1>1. TypeOK /\ RefInv
  BY DEF ContextInv
<1>2. PICK c \in Ctx : c = fin[t]
  BY <1>1 DEF TypeOK
<1>3. c \in ctxLive /\ ctxOps[c] = 0 /\ lost[c] \in Nat /\ Cardinality(Holders(c)) \in Nat
  BY <1>1, <1>2, HoldersFinite DEF RefInv, TypeOK, Obj
<1>4. c \notin ctxList /\ Cardinality(Holders(c)) = 0
  BY <1>1, <1>3 DEF RefInv, ContextRefCount
<1>5. Holders(c) = {}
  BY <1>4, HoldersFinite, FS_EmptySet
<1> QED
  BY <1>2, <1>3, <1>4, <1>5

-----------------------------------------------------------------------------

\* Every variable of the daemon's model keeps its type, whatever the numbers of CAs,
\* threads, descriptors, slots and bits: in particular the offset GetAndSetBitWithLock
\* hands out is a bit of shm_bitmap, and the slot SetContextToProcData fills is one of
\* the entry's cxtFd.
THEOREM TypeCorrect == Spec => []TypeOK
<1>1. ContextInv => TypeOK
  BY DEF ContextInv
<1> QED
  BY <1>1, ContextInvAlways, PTL

\* ops_cnt of every context counts exactly its references, through every interleaving of
\* the handlers of cadaemon_service.cpp and every error path (the references those lose
\* are counted in lost).
THEOREM ContextCounted == Spec => []ContextRefCount
<1>1. ContextInv => ContextRefCount
  BY DEF ContextInv, RefInv
<1> QED
  BY <1>1, ContextInvAlways, PTL

\* TEEC_FinalizeContextInner runs for a context only when it is off g_teecContextList and
\* in no handler's hands, and for one context in one thread at a time: no handler of
\* cadaemon_service.cpp uses a context that another one frees.
THEOREM ContextSafe == Spec => []ContextNotFreedInUse
<1>1. ContextInv => ContextNotFreedInUse
  BY TornDownUnreachable DEF ContextInv, RefInv, ContextNotFreedInUse
<1> QED
  BY <1>1, ContextInvAlways, PTL

-----------------------------------------------------------------------------
(* Sessions and shared memory: the control part *)

\* Where a handler has a reference to a session in hand: OpenSession keeps the one it
\* opened until the reply, beyond the Put of the context.
UsesSession(t) ==
  \/ pc[t] \in {"put_ses", "open_reply"}
  \/ pc[t] \in {"opt", "ioctl", "put_shm"} /\ loc[t].op # "open"
  \/ pc[t] \in {"put_shm", "put", "fin_proc"} \cup FinPC /\ loc[t].next = "open_reply"

\* What the program counter of a handler tells about its session, its blocks and its
\* locals.
ThreadControl(t) ==
  /\ se[t] # NoSess <=> UsesSession(t)
  /\ sm[t] # {} => pc[t] \in {"opt", "ioctl", "put_shm", "put_blk"}
  /\ loc[t].blk # NoShm <=> pc[t] = "buf"
  /\ loc[t].ok
  /\ pc[t] # "undo" /\ loc[t].next # "undo"
  /\ pc[t] \in {"get", "sess"} /\ loc[t].op \in {"invoke", "close"} => loc[t].s \in Sess
  /\ pc[t] = "proc" => loc[t].op = "init"
  /\ pc[t] = "sess" => loc[t].op \in {"invoke", "close"}
  /\ pc[t] \in {"blk", "buf"} => loc[t].op \in {"reg", "alloc", "rel"}
  /\ pc[t] \in {"opt", "ioctl", "put_shm"} => loc[t].op \in {"open", "invoke", "close"}
  /\ pc[t] \in {"get", "sess", "opt", "ioctl", "blk", "buf", "died", "clean", "clean_put"}
       => loc[t].next = "idle"
  /\ pc[t] = "put_shm" /\ loc[t].op # "open" => loc[t].next = "idle"
  /\ loc[t].op = "die" => loc[t].next = "idle"
  /\ loc[t].op = "close" => sm[t] = {} /\ pc[t] # "opt"

ObjectControl == \A t \in Thread : ThreadControl(t)

\* A step of t leaves the others' part alone.
LEMMA ObjectStep ==
  ASSUME ObjectControl, NEW t \in Thread, LocStep(t),
         \A u \in Thread \ {t} : pc'[u] = pc[u] /\ se'[u] = se[u] /\ sm'[u] = sm[u],
         ThreadControl(t)'
  PROVE  ObjectControl'
<1>1. ASSUME NEW u \in Thread \ {t} PROVE ThreadControl(u)'
  <2>1. pc'[u] = pc[u] /\ se'[u] = se[u] /\ sm'[u] = sm[u] /\ loc'[u] = loc[u]
    BY DEF LocStep
  <2>2. ThreadControl(u)
    BY DEF ObjectControl
  <2> QED
    BY <2>1, <2>2, Zenon DEF ThreadControl, UsesSession
<1> QED
  BY <1>1 DEF ObjectControl

LEMMA SetContextToProcDataCtl ==
  ASSUME ContextInv, ObjectControl, NEW t \in Thread, SetContextToProcData(t)
  PROVE  ObjectControl'
<1>0. TypeOK /\ ThreadControl(t)
  BY DEF ContextInv, ObjectControl
<1>1. pc[t] = "proc" /\ cx[t] \in Obj \cup {NoCtx}
  BY <1>0 DEF SetContextToProcData, TypeOK, Obj
<1>2. LocStep(t) /\ loc'[t].next \in {"idle", "rel_read"} /\ loc'[t].op = loc[t].op
      /\ loc'[t].s = loc[t].s /\ loc'[t].blk = loc[t].blk /\ loc'[t].ok = loc[t].ok
  <2>1. "idle" \in PCs /\ "rel_read" \in PCs
    BY DEF PCs
  <2>2. CASE PutThen(t, "idle")
    BY <1>0, <2>1, <2>2, SetNext, Zenon DEF PutThen
  <2>3. CASE SetLoc(t, [loc[t] EXCEPT !.next = "rel_read", !.late = cx[t]])
    BY <1>0, <1>1, <2>1, <2>3, SetNextLate, Zenon
  <2> QED BY <2>2, <2>3, Zenon DEF SetContextToProcData
<1>3. pc'[t] = "put" /\ se'[t] = se[t] /\ sm'[t] = sm[t]
  BY <1>0 DEF TypeOK, SetContextToProcData, PutThen, Goto
<1>4. \A u \in Thread \ {t} : pc'[u] = pc[u] /\ se'[u] = se[u] /\ sm'[u] = sm[u]
  BY <1>0 DEF TypeOK, SetContextToProcData, PutThen, Goto
<1>5. ThreadControl(t)'
  BY <1>0, <1>1, <1>2, <1>3 DEF ThreadControl, UsesSession, FinPC
<1> QED
  BY <1>2, <1>4, <1>5, ObjectStep

LEMMA SetContextToProcDataFailsCtl ==
  ASSUME ContextInv, ObjectControl, NEW t \in Thread, SetContextToProcDataFails(t)
  PROVE  ObjectControl'
<1>0. TypeOK /\ ThreadControl(t)
  BY DEF ContextInv, ObjectControl
<1>1. pc[t] = "proc" /\ cx[t] \in Obj \cup {NoCtx}
  BY <1>0 DEF SetContextToProcDataFails, TypeOK, Obj
<1>2. LocStep(t) /\ loc'[t].next = "rel_read" /\ loc'[t].op = loc[t].op
      /\ loc'[t].s = loc[t].s /\ loc'[t].blk = loc[t].blk /\ loc'[t].ok = loc[t].ok
  <2>1. "rel_read" \in PCs
    BY DEF PCs
  <2> QED BY <1>0, <1>1, <2>1, SetNextLate, Zenon DEF SetContextToProcDataFails
<1>3. pc'[t] = "put" /\ se'[t] = se[t] /\ sm'[t] = sm[t]
  BY <1>0 DEF TypeOK, SetContextToProcDataFails, Goto
<1>4. \A u \in Thread \ {t} : pc'[u] = pc[u] /\ se'[u] = se[u] /\ sm'[u] = sm[u]
  BY <1>0 DEF TypeOK, SetContextToProcDataFails, Goto
<1>5. ThreadControl(t)'
  BY <1>0, <1>1, <1>2, <1>3 DEF ThreadControl, UsesSession, FinPC
<1> QED
  BY <1>2, <1>4, <1>5, ObjectStep

LEMMA ReleaseContextCtl ==
  ASSUME ContextInv, ObjectControl, NEW t \in Thread, ReleaseContext(t)
  PROVE  ObjectControl'
<1>0. TypeOK /\ ThreadControl(t)
  BY DEF ContextInv, ObjectControl
<1>1. pc[t] = "rel_read"
  BY DEF ReleaseContext
<1>2. LocStep(t) /\ loc'[t].next = loc[t].next /\ loc'[t].op = loc[t].op
      /\ loc'[t].s = loc[t].s /\ loc'[t].blk = loc[t].blk /\ loc'[t].ok = loc[t].ok
  <2>1. PICK f \in Fd \cup {NoFd} : SetLoc(t, [loc[t] EXCEPT !.fd = f, !.late = NoCtx])
    <3>1. \A c \in ctxLive : ctxFd[c] \in Fd \cup {NoFd}
      BY <1>0 DEF TypeOK, InnerTypeOK
    <3> QED BY <3>1, Zenon DEF ReleaseContext
  <2> QED BY <1>0, <2>1, SetFdLate, Zenon
<1>3. pc'[t] = "remove" /\ se'[t] = se[t] /\ sm'[t] = sm[t]
  BY <1>0 DEF TypeOK, ReleaseContext, Goto
<1>4. \A u \in Thread \ {t} : pc'[u] = pc[u] /\ se'[u] = se[u] /\ sm'[u] = sm[u]
  BY <1>0 DEF TypeOK, ReleaseContext, Goto
<1>5. ThreadControl(t)'
  BY <1>0, <1>1, <1>2, <1>3 DEF ThreadControl, UsesSession, FinPC
<1> QED
  BY <1>2, <1>4, <1>5, ObjectStep

LEMMA InitializeContextCtl ==
  ASSUME ContextInv, ObjectControl, NEW t \in Thread, NEW a \in CA, NEW c \in Ctx,
         NEW f \in Fd, InitializeContext(t, a, c, f)
  PROVE  ObjectControl'
<1>0. TypeOK /\ ThreadControl(t)
  BY DEF ContextInv, ObjectControl
<1>1. pc[t] = "idle"
  BY DEF InitializeContext
<1>2. LocStep(t) /\ loc'[t].next = "idle" /\ loc'[t].op = "init" /\ loc'[t].blk = NoShm
      /\ loc'[t].ok
  BY <1>0, StartInit, Zenon DEF InitializeContext
<1>3. pc'[t] = "proc" /\ se'[t] = se[t] /\ sm'[t] = sm[t]
  BY <1>0 DEF TypeOK, InitializeContext, Goto
<1>4. \A u \in Thread \ {t} : pc'[u] = pc[u] /\ se'[u] = se[u] /\ sm'[u] = sm[u]
  BY <1>0 DEF TypeOK, InitializeContext, Goto
<1>5. ThreadControl(t)'
  BY <1>0, <1>1, <1>2, <1>3 DEF ThreadControl, UsesSession, FinPC
<1> QED
  BY <1>2, <1>4, <1>5, ObjectStep

LEMMA FinalizeContextCtl ==
  ASSUME ContextInv, ObjectControl, NEW t \in Thread, NEW a \in CA,
         NEW f \in Fd, FinalizeContext(t, a, f)
  PROVE  ObjectControl'
<1>0. TypeOK /\ ThreadControl(t)
  BY DEF ContextInv, ObjectControl
<1>1. pc[t] = "idle"
  BY DEF FinalizeContext
<1>2. LocStep(t) /\ loc'[t].next = "idle" /\ loc'[t].op = "fin" /\ loc'[t].blk = NoShm
      /\ loc'[t].ok
  BY <1>0, StartFin, Zenon DEF FinalizeContext
<1>3. pc'[t] = "remove" /\ se'[t] = se[t] /\ sm'[t] = sm[t]
  BY <1>0 DEF TypeOK, FinalizeContext, Goto
<1>4. \A u \in Thread \ {t} : pc'[u] = pc[u] /\ se'[u] = se[u] /\ sm'[u] = sm[u]
  BY <1>0 DEF TypeOK, FinalizeContext, Goto
<1>5. ThreadControl(t)'
  BY <1>0, <1>1, <1>2, <1>3 DEF ThreadControl, UsesSession, FinPC
<1> QED
  BY <1>2, <1>4, <1>5, ObjectStep

LEMMA CallFinalizeContextCtl ==
  ASSUME ContextInv, ObjectControl, NEW t \in Thread, CallFinalizeContext(t)
  PROVE  ObjectControl'
<1>0. TypeOK /\ ThreadControl(t)
  BY DEF ContextInv, ObjectControl
<1>1. pc[t] = "remove"
  BY DEF CallFinalizeContext
<1>2. CASE Return(t)
  <2>2. LocStep(t) /\ loc'[t] = NoLocal
    BY <1>0, <1>2, ReturnStep
  <2>3. pc'[t] = "idle" /\ se'[t] = se[t] /\ sm'[t] = sm[t]
    BY <1>0, <1>2 DEF TypeOK, CallFinalizeContext, Return
  <2>4. \A u \in Thread \ {t} : pc'[u] = pc[u] /\ se'[u] = se[u] /\ sm'[u] = sm[u]
    BY <1>0, <1>2 DEF TypeOK, CallFinalizeContext, Return
  <2>5. ThreadControl(t)'
    BY <1>0, <1>1, <1>2, <2>2, <2>3, NoLocalType DEF ThreadControl, UsesSession, FinPC
  <2> QED
    BY <2>2, <2>4, <2>5, ObjectStep
<1>3. CASE PutThen(t, "idle")
  <2>2. LocStep(t) /\ loc'[t].next = "idle" /\ loc'[t].op = loc[t].op /\ loc'[t].s = loc[t].s
        /\ loc'[t].blk = loc[t].blk /\ loc'[t].ok = loc[t].ok
    <3>1. "idle" \in PCs
      BY DEF PCs
    <3> QED BY <1>0, <1>3, <3>1, SetNext, Zenon DEF PutThen
  <2>3. pc'[t] = "put" /\ se'[t] = se[t] /\ sm'[t] = sm[t]
    BY <1>0, <1>3 DEF TypeOK, CallFinalizeContext, PutThen
  <2>4. \A u \in Thread \ {t} : pc'[u] = pc[u] /\ se'[u] = se[u] /\ sm'[u] = sm[u]
    BY <1>0, <1>3 DEF TypeOK, CallFinalizeContext, PutThen
  <2>5. ThreadControl(t)'
    BY <1>0, <1>1, <1>3, <2>2, <2>3 DEF ThreadControl, UsesSession, FinPC
  <2> QED
    BY <2>2, <2>4, <2>5, ObjectStep
<1> QED
  BY <1>2, <1>3, Zenon DEF CallFinalizeContext

LEMMA PutBnContextAndReleaseFdCtl ==
  ASSUME ContextInv, ObjectControl, NEW t \in Thread, PutBnContextAndReleaseFd(t)
  PROVE  ObjectControl'
<1>0. TypeOK /\ ThreadControl(t)
  BY DEF ContextInv, ObjectControl
<1>1. pc[t] = "put" /\ cx[t] \in Ctx
  BY <1>0 DEF PutBnContextAndReleaseFd, TypeOK, ContextInv, ControlInv, HoldPC
<1>5. loc[t].next \in ReturnPC
  BY DEF ContextInv, ControlInv
<1>2. CASE LastReference(cx[t])
  <2>2. LocStep(t) /\ loc'[t].next = loc[t].next /\ loc'[t].op = loc[t].op
        /\ loc'[t].s = loc[t].s /\ loc'[t].blk = loc[t].blk /\ loc'[t].ok = loc[t].ok
    <3>1. ctxFd[cx[t]] \in Fd \cup {NoFd}
      BY <1>0, <1>1 DEF TypeOK, InnerTypeOK
    <3>2. SetLoc(t, [loc[t] EXCEPT !.fd = ctxFd[cx[t]]])
      BY <1>2 DEF PutBnContextAndReleaseFd
    <3> QED BY <1>0, <3>1, <3>2, SetFd, Zenon
  <2>3. pc'[t] = "fin_ses" /\ se'[t] = se[t] /\ sm'[t] = sm[t]
    BY <1>0, <1>2 DEF TypeOK, PutBnContextAndReleaseFd, Goto
  <2>4. \A u \in Thread \ {t} : pc'[u] = pc[u] /\ se'[u] = se[u] /\ sm'[u] = sm[u]
    BY <1>0, <1>2 DEF TypeOK, PutBnContextAndReleaseFd, Goto
  <2>5. ThreadControl(t)'
    BY <1>0, <1>1, <1>2, <2>2, <2>3 DEF ThreadControl, UsesSession, FinPC
  <2> QED
    BY <2>2, <2>4, <2>5, ObjectStep
<1>3. CASE Return(t) /\ loc[t].next = "idle"
  <2>2. LocStep(t) /\ loc'[t] = NoLocal
    BY <1>0, <1>3, ReturnStep
  <2>3. pc'[t] = "idle" /\ se'[t] = se[t] /\ sm'[t] = sm[t]
    BY <1>0, <1>3 DEF TypeOK, PutBnContextAndReleaseFd, Return
  <2>4. \A u \in Thread \ {t} : pc'[u] = pc[u] /\ se'[u] = se[u] /\ sm'[u] = sm[u]
    BY <1>0, <1>3 DEF TypeOK, PutBnContextAndReleaseFd, Return
  <2>5. ThreadControl(t)'
    BY <1>0, <1>1, <1>3, <2>2, <2>3, NoLocalType DEF ThreadControl, UsesSession, FinPC
  <2> QED
    BY <2>2, <2>4, <2>5, ObjectStep
<1>4. CASE loc[t].next # "idle" /\ Goto(t, loc[t].next) /\ UNCHANGED loc
  <2>2. LocStep(t) /\ loc'[t] = loc[t]
    BY <1>0, <1>4, SameLoc
  <2>3. pc'[t] = loc[t].next /\ se'[t] = se[t] /\ sm'[t] = sm[t]
    BY <1>0, <1>4 DEF TypeOK, PutBnContextAndReleaseFd, Goto
  <2>4. \A u \in Thread \ {t} : pc'[u] = pc[u] /\ se'[u] = se[u] /\ sm'[u] = sm[u]
    BY <1>0, <1>4 DEF TypeOK, PutBnContextAndReleaseFd, Goto
  <2>5. ThreadControl(t)'
    BY <1>0, <1>1, <1>4, <2>2, <2>3, <1>5 DEF ReturnPC, ThreadControl, UsesSession, FinPC
  <2> QED
    BY <2>2, <2>4, <2>5, ObjectStep
<1> QED
  BY <1>2, <1>3, <1>4, Zenon DEF PutBnContextAndReleaseFd

LEMMA RemoveContextFromProcDataCtl ==
  ASSUME ContextInv, ObjectControl, NEW t \in Thread, RemoveContextFromProcData(t)
  PROVE  ObjectControl'
<1>0. TypeOK /\ ThreadControl(t)
  BY DEF ContextInv, ObjectControl
<1>1. pc[t] = "fin_proc"
  BY DEF RemoveContextFromProcData
<1>5. loc[t].next \in ReturnPC
  BY DEF ContextInv, ControlInv
<1>3. CASE Return(t) /\ loc[t].next = "idle"
  <2>2. LocStep(t) /\ loc'[t] = NoLocal
    BY <1>0, <1>3, ReturnStep
  <2>3. pc'[t] = "idle" /\ se'[t] = se[t] /\ sm'[t] = sm[t]
    BY <1>0, <1>3 DEF TypeOK, RemoveContextFromProcData, Return
  <2>4. \A u \in Thread \ {t} : pc'[u] = pc[u] /\ se'[u] = se[u] /\ sm'[u] = sm[u]
    BY <1>0, <1>3 DEF TypeOK, RemoveContextFromProcData, Return
  <2>5. ThreadControl(t)'
    BY <1>0, <1>1, <1>3, <2>2, <2>3, NoLocalType DEF ThreadControl, UsesSession, FinPC
  <2> QED
    BY <2>2, <2>4, <2>5, ObjectStep
<1>4. CASE loc[t].next # "idle" /\ Goto(t, loc[t].next) /\ UNCHANGED loc
  <2>2. LocStep(t) /\ loc'[t] = loc[t]
    BY <1>0, <1>4, SameLoc
  <2>3. pc'[t] = loc[t].next /\ se'[t] = se[t] /\ sm'[t] = sm[t]
    BY <1>0, <1>4 DEF TypeOK, RemoveContextFromProcData, Goto
  <2>4. \A u \in Thread \ {t} : pc'[u] = pc[u] /\ se'[u] = se[u] /\ sm'[u] = sm[u]
    BY <1>0, <1>4 DEF TypeOK, RemoveContextFromProcData, Goto
  <2>5. ThreadControl(t)'
    BY <1>0, <1>1, <1>4, <2>2, <2>3, <1>5 DEF ReturnPC, ThreadControl, UsesSession, FinPC
  <2> QED
    BY <2>2, <2>4, <2>5, ObjectStep
<1> QED
  BY <1>3, <1>4, Zenon DEF RemoveContextFromProcData

LEMMA FinalizeSessionListCtl ==
  ASSUME ContextInv, ObjectControl, NEW t \in Thread, FinalizeSessionList(t)
  PROVE  ObjectControl'
<1>0. TypeOK /\ ThreadControl(t)
  BY DEF ContextInv, ObjectControl
<1>1. pc[t] = "fin_ses"
  BY DEF FinalizeSessionList
<1>2. LocStep(t) /\ loc'[t] = loc[t]
  BY <1>0, SameLoc DEF FinalizeSessionList
<1>3. pc'[t] = "fin_shm" /\ se'[t] = se[t] /\ sm'[t] = sm[t]
  BY <1>0 DEF TypeOK, FinalizeSessionList, Goto
<1>4. \A u \in Thread \ {t} : pc'[u] = pc[u] /\ se'[u] = se[u] /\ sm'[u] = sm[u]
  BY <1>0 DEF TypeOK, FinalizeSessionList, Goto
<1>5. ThreadControl(t)'
  BY <1>0, <1>1, <1>2, <1>3 DEF ThreadControl, UsesSession, FinPC
<1> QED
  BY <1>2, <1>4, <1>5, ObjectStep

LEMMA FinalizeShmListCtl ==
  ASSUME ContextInv, ObjectControl, NEW t \in Thread, FinalizeShmList(t)
  PROVE  ObjectControl'
<1>0. TypeOK /\ ThreadControl(t)
  BY DEF ContextInv, ObjectControl
<1>1. pc[t] = "fin_shm"
  BY DEF FinalizeShmList
<1>2. LocStep(t) /\ loc'[t] = loc[t]
  BY <1>0, SameLoc DEF FinalizeShmList
<1>3. pc'[t] = "fin_close" /\ se'[t] = se[t] /\ sm'[t] = sm[t]
  BY <1>0 DEF TypeOK, FinalizeShmList, Goto
<1>4. \A u \in Thread \ {t} : pc'[u] = pc[u] /\ se'[u] = se[u] /\ sm'[u] = sm[u]
  BY <1>0 DEF TypeOK, FinalizeShmList, Goto
<1>5. ThreadControl(t)'
  BY <1>0, <1>1, <1>2, <1>3 DEF ThreadControl, UsesSession, FinPC
<1> QED
  BY <1>2, <1>4, <1>5, ObjectStep

LEMMA FinalizeCloseCtl ==
  ASSUME ContextInv, ObjectControl, NEW t \in Thread, FinalizeClose(t)
  PROVE  ObjectControl'
<1>0. TypeOK /\ ThreadControl(t)
  BY DEF ContextInv, ObjectControl
<1>1. pc[t] = "fin_close"
  BY DEF FinalizeClose
<1>2. LocStep(t) /\ loc'[t] = loc[t]
  BY <1>0, SameLoc DEF FinalizeClose
<1>3. pc'[t] = (IF loc[t].op = "die" THEN "clean" ELSE "fin_proc") /\ se'[t] = se[t]
      /\ sm'[t] = sm[t]
  BY <1>0 DEF TypeOK, FinalizeClose, Goto
<1>4. \A u \in Thread \ {t} : pc'[u] = pc[u] /\ se'[u] = se[u] /\ sm'[u] = sm[u]
  BY <1>0 DEF TypeOK, FinalizeClose, Goto
<1>5. ThreadControl(t)'
  BY <1>0, <1>1, <1>2, <1>3 DEF ThreadControl, UsesSession, FinPC
<1> QED
  BY <1>2, <1>4, <1>5, ObjectStep

LEMMA BeginCtl ==
  ASSUME ContextInv, ObjectControl, NEW t \in Thread, NEW a \in CA, NEW o \in RequestOp,
         NEW f \in Fd, NEW s \in Sess \cup {NoSess}, NEW B \in SUBSET (Bit \cup {NoBit}), 
         o \in {"invoke", "close"} => s \in Sess, Begin(t, a, o, f, s, B)
  PROVE  ObjectControl'
<1>0. TypeOK /\ ThreadControl(t)
  BY DEF ContextInv, ObjectControl
<1>1. pc[t] = "idle" /\ o \in Op /\ o # "die"
  BY DEF Begin, RequestOp, Op
<1>2. LocStep(t) /\ loc'[t].next = "idle" /\ loc'[t].op = o /\ loc'[t].blk = NoShm
      /\ loc'[t].ok /\ loc'[t].s = s
  <2>1. SetLoc(t, RequestLocals(o, a, f, s, B))
    BY Zenon DEF Begin, RequestLocals
  <2>2. f \in Fd /\ s \in Sess \cup {NoSess} /\ B \in SUBSET (Bit \cup {NoBit})
    OBVIOUS
  <2> QED BY <1>0, <1>1, <2>1, <2>2, StartRequest
<1>3. pc'[t] = "get" /\ se'[t] = se[t] /\ sm'[t] = sm[t]
  BY <1>0 DEF TypeOK, Begin, Goto
<1>4. \A u \in Thread \ {t} : pc'[u] = pc[u] /\ se'[u] = se[u] /\ sm'[u] = sm[u]
  BY <1>0 DEF TypeOK, Begin, Goto
<1>5. ThreadControl(t)'
  BY <1>0, <1>1, <1>2, <1>3 DEF ThreadControl, UsesSession, FinPC
<1> QED
  BY <1>2, <1>4, <1>5, ObjectStep

LEMMA CallGetBnContextCtl ==
  ASSUME ContextInv, ObjectControl, NEW t \in Thread, CallGetBnContext(t)
  PROVE  ObjectControl'
<1>0. TypeOK /\ ThreadControl(t)
  BY DEF ContextInv, ObjectControl
<1>1. pc[t] = "get" /\ loc[t].op \in RequestOp
  BY DEF CallGetBnContext, ContextInv, ControlInv
<1>2. CASE Return(t)
  <2>2. LocStep(t) /\ loc'[t] = NoLocal
    BY <1>0, <1>2, ReturnStep
  <2>3. pc'[t] = "idle" /\ se'[t] = se[t] /\ sm'[t] = sm[t]
    BY <1>0, <1>2 DEF TypeOK, CallGetBnContext, Return
  <2>4. \A u \in Thread \ {t} : pc'[u] = pc[u] /\ se'[u] = se[u] /\ sm'[u] = sm[u]
    BY <1>0, <1>2 DEF TypeOK, CallGetBnContext, Return
  <2>5. ThreadControl(t)'
    BY <1>0, <1>1, <1>2, <2>2, <2>3, NoLocalType DEF ThreadControl, UsesSession, FinPC
  <2> QED
    BY <2>2, <2>4, <2>5, ObjectStep
<1>3. CASE Goto(t, AfterGet(loc[t].op, loc[t].off)) /\ UNCHANGED loc
  <2>2. LocStep(t) /\ loc'[t] = loc[t]
    BY <1>0, <1>3, SameLoc
  <2>3. pc'[t] = AfterGet(loc[t].op, loc[t].off) /\ se'[t] = se[t] /\ sm'[t] = sm[t]
    BY <1>0, <1>3 DEF TypeOK, CallGetBnContext, Goto
  <2>4. \A u \in Thread \ {t} : pc'[u] = pc[u] /\ se'[u] = se[u] /\ sm'[u] = sm[u]
    BY <1>0, <1>3 DEF TypeOK, CallGetBnContext, Goto
  <2>5. ThreadControl(t)'
    BY <1>0, <1>1, <1>3, <2>2, <2>3 DEF ThreadControl, UsesSession, FinPC, AfterGet, RequestOp
  <2> QED
    BY <2>2, <2>4, <2>5, ObjectStep
<1>4. CASE PutThen(t, "idle")
  <2>2. LocStep(t) /\ loc'[t].next = "idle" /\ loc'[t].op = loc[t].op /\ loc'[t].s = loc[t].s
        /\ loc'[t].blk = loc[t].blk /\ loc'[t].ok = loc[t].ok
    <3>1. "idle" \in PCs
      BY DEF PCs
    <3> QED BY <1>0, <1>4, <3>1, SetNext, Zenon DEF PutThen
  <2>3. pc'[t] = "put" /\ se'[t] = se[t] /\ sm'[t] = sm[t]
    BY <1>0, <1>4 DEF TypeOK, CallGetBnContext, PutThen
  <2>4. \A u \in Thread \ {t} : pc'[u] = pc[u] /\ se'[u] = se[u] /\ sm'[u] = sm[u]
    BY <1>0, <1>4 DEF TypeOK, CallGetBnContext, PutThen
  <2>5. ThreadControl(t)'
    BY <1>0, <1>1, <1>4, <2>2, <2>3 DEF ThreadControl, UsesSession, FinPC
  <2> QED
    BY <2>2, <2>4, <2>5, ObjectStep
<1> QED
  BY <1>2, <1>3, <1>4, Zenon DEF CallGetBnContext

LEMMA CallGetBnSessionCtl ==
  ASSUME ContextInv, ObjectControl, NEW t \in Thread, CallGetBnSession(t)
  PROVE  ObjectControl'
<1>0. TypeOK /\ ThreadControl(t)
  BY DEF ContextInv, ObjectControl
<1>1. pc[t] = "sess" /\ loc[t].s \in Sess
  BY <1>0 DEF CallGetBnSession, ThreadControl
<1>2. CASE PutThen(t, "idle") /\ UNCHANGED se
  <2>2. LocStep(t) /\ loc'[t].next = "idle" /\ loc'[t].op = loc[t].op /\ loc'[t].s = loc[t].s
        /\ loc'[t].blk = loc[t].blk /\ loc'[t].ok = loc[t].ok
    <3>1. "idle" \in PCs
      BY DEF PCs
    <3> QED BY <1>0, <1>2, <3>1, SetNext, Zenon DEF PutThen
  <2>3. pc'[t] = "put" /\ se'[t] = se[t] /\ sm'[t] = sm[t]
    BY <1>0, <1>2 DEF TypeOK, CallGetBnSession, PutThen
  <2>4. \A u \in Thread \ {t} : pc'[u] = pc[u] /\ se'[u] = se[u] /\ sm'[u] = sm[u]
    BY <1>0, <1>2 DEF TypeOK, CallGetBnSession, PutThen
  <2>5. ThreadControl(t)'
    BY <1>0, <1>1, <1>2, <2>2, <2>3 DEF ThreadControl, UsesSession, FinPC
  <2> QED
    BY <2>2, <2>4, <2>5, ObjectStep
<1>3. CASE /\ se' = [se EXCEPT ![t] = loc[t].s] /\ UNCHANGED loc
           /\ \/ loc[t].op = "invoke" /\ Goto(t, IF loc[t].off = {} THEN "ioctl" ELSE "opt")
              \/ Goto(t, "ioctl")
  <2>2. LocStep(t) /\ loc'[t] = loc[t]
    BY <1>0, <1>3, SameLoc
  <2>3. /\ pc'[t] \in {"ioctl", "opt"} /\ (loc[t].op = "close" => pc'[t] = "ioctl")
        /\ se'[t] = loc[t].s /\ sm'[t] = sm[t]
    BY <1>0, <1>3 DEF TypeOK, CallGetBnSession, Goto
  <2>4. \A u \in Thread \ {t} : pc'[u] = pc[u] /\ se'[u] = se[u] /\ sm'[u] = sm[u]
    BY <1>0, <1>3 DEF TypeOK, CallGetBnSession, Goto
  <2>5. ThreadControl(t)'
    BY <1>0, <1>1, <1>3, <2>2, <2>3, InnerAssumption DEF ThreadControl, UsesSession, FinPC
  <2> QED
    BY <2>2, <2>4, <2>5, ObjectStep
<1> QED
  BY <1>2, <1>3, Zenon DEF CallGetBnSession

LEMMA GiveUpCtl ==
  ASSUME ContextInv, ObjectControl, NEW t \in Thread, pc[t] \in {"opt", "ioctl"}, GiveUp(t)
  PROVE  ObjectControl'
<1>0. TypeOK /\ ThreadControl(t)
  BY DEF ContextInv, ObjectControl
<1>1. pc[t] \in {"opt", "ioctl"}
  OBVIOUS
<1>2. CASE loc[t].op = "open" /\ Return(t) /\ UNCHANGED se /\ sm' = [sm EXCEPT ![t] = {}]
  <2>2. LocStep(t) /\ loc'[t] = NoLocal
    BY <1>0, <1>2, ReturnStep
  <2>3. pc'[t] = "idle" /\ se'[t] = se[t] /\ sm'[t] = {}
    BY <1>0, <1>2 DEF TypeOK, Return
  <2>4. \A u \in Thread \ {t} : pc'[u] = pc[u] /\ se'[u] = se[u] /\ sm'[u] = sm[u]
    BY <1>0, <1>2 DEF TypeOK, Return
  <2>5. ThreadControl(t)'
    BY <1>0, <1>1, <1>2, <2>2, <2>3, NoLocalType DEF ThreadControl, UsesSession, FinPC
  <2> QED
    BY <2>2, <2>4, <2>5, ObjectStep
<1>3. CASE /\ loc[t].op = "invoke" /\ sm' = [sm EXCEPT ![t] = {}]
           /\ Goto(t, "put_ses") /\ UNCHANGED <<se, loc>>
  <2>2. LocStep(t) /\ loc'[t] = loc[t]
    BY <1>0, <1>3, SameLoc
  <2>3. pc'[t] = "put_ses" /\ se'[t] = se[t] /\ sm'[t] = {}
    BY <1>0, <1>3 DEF TypeOK, Goto
  <2>4. \A u \in Thread \ {t} : pc'[u] = pc[u] /\ se'[u] = se[u] /\ sm'[u] = sm[u]
    BY <1>0, <1>3 DEF TypeOK, Goto
  <2>5. ThreadControl(t)'
    BY <1>0, <1>1, <1>3, <2>2, <2>3 DEF ThreadControl, UsesSession, FinPC
  <2> QED
    BY <2>2, <2>4, <2>5, ObjectStep
<1>4. CASE /\ loc[t].op = "close" /\ se' = [se EXCEPT ![t] = NoSess]
           /\ Return(t) /\ UNCHANGED sm
  <2>2. LocStep(t) /\ loc'[t] = NoLocal
    BY <1>0, <1>4, ReturnStep
  <2>3. pc'[t] = "idle" /\ se'[t] = NoSess /\ sm'[t] = sm[t]
    BY <1>0, <1>4 DEF TypeOK, Return
  <2>4. \A u \in Thread \ {t} : pc'[u] = pc[u] /\ se'[u] = se[u] /\ sm'[u] = sm[u]
    BY <1>0, <1>4 DEF TypeOK, Return
  <2>5. ThreadControl(t)'
    BY <1>0, <1>1, <1>4, <2>2, <2>3, NoLocalType DEF ThreadControl, UsesSession, FinPC
  <2> QED
    BY <2>2, <2>4, <2>5, ObjectStep
<1> QED
  BY <1>2, <1>3, <1>4, Zenon DEF GiveUp

LEMMA TeecOptDecodePartialMemCtl ==
  ASSUME ContextInv, ObjectControl, NEW t \in Thread, TeecOptDecodePartialMem(t)
  PROVE  ObjectControl'
<1>0. TypeOK /\ ThreadControl(t)
  BY DEF ContextInv, ObjectControl
<1>1. pc[t] = "opt" /\ loc[t].off \subseteq Bit \cup {NoBit}
  BY <1>0 DEF TeecOptDecodePartialMem, TypeOK, Local
<1>2. ASSUME NEW b \in loc[t].off, NEW m, sm' = [sm EXCEPT ![t] = @ \cup {m}],
             SetLoc(t, [loc[t] EXCEPT !.off = @ \ {b}]),
             Goto(t, IF loc[t].off = {b} THEN "ioctl" ELSE "opt"), UNCHANGED se
      PROVE  ObjectControl'
  <2>2. LocStep(t) /\ loc'[t].next = loc[t].next /\ loc'[t].op = loc[t].op
        /\ loc'[t].s = loc[t].s /\ loc'[t].blk = loc[t].blk /\ loc'[t].ok = loc[t].ok
    BY <1>0, <1>1, <1>2, SetOff, Zenon
  <2>3. pc'[t] \in {"ioctl", "opt"} /\ se'[t] = se[t]
    BY <1>0, <1>2 DEF TypeOK, Goto
  <2>4. \A u \in Thread \ {t} : pc'[u] = pc[u] /\ se'[u] = se[u] /\ sm'[u] = sm[u]
    BY <1>0, <1>2 DEF TypeOK, Goto
  <2>5. ThreadControl(t)'
    BY <1>0, <1>1, <1>2, <2>2, <2>3 DEF ThreadControl, UsesSession, FinPC
  <2> QED
    BY <2>2, <2>4, <2>5, ObjectStep
<1>3. CASE GiveUp(t)
  BY <1>1, <1>3, GiveUpCtl
<1> QED
  BY <1>2, <1>3, Zenon DEF TeecOptDecodePartialMem

LEMMA AddTidDataFailsCtl ==
  ASSUME ContextInv, ObjectControl, NEW t \in Thread, AddTidDataFails(t)
  PROVE  ObjectControl'
BY GiveUpCtl DEF AddTidDataFails

LEMMA TEEC_OpenSessionInnerCtl ==
  ASSUME ContextInv, ObjectControl, NEW t \in Thread, TEEC_OpenSessionInner(t)
  PROVE  ObjectControl'
<1>0. TypeOK /\ ThreadControl(t)
  BY DEF ContextInv, ObjectControl
<1>1. pc[t] = "ioctl" /\ loc[t].op = "open"
  BY DEF TEEC_OpenSessionInner
<1>2. ASSUME NEW s \in Sess \ sesLive, se' = [se EXCEPT ![t] = s],
             SetLoc(t, [loc[t] EXCEPT !.next = "open_reply"])
      PROVE  ObjectControl'
  <2>2. LocStep(t) /\ loc'[t].next = "open_reply" /\ loc'[t].op = loc[t].op
        /\ loc'[t].s = loc[t].s /\ loc'[t].blk = loc[t].blk /\ loc'[t].ok = loc[t].ok
    <3>1. "open_reply" \in PCs
      BY DEF PCs
    <3> QED BY <1>0, <1>2, <3>1, SetNext, Zenon
  <2>3. pc'[t] = (IF sm[t] = {} THEN "put" ELSE "put_shm") /\ se'[t] = s /\ sm'[t] = sm[t]
    BY <1>0, <1>2 DEF TypeOK, TEEC_OpenSessionInner, Goto
  <2>4. \A u \in Thread \ {t} : pc'[u] = pc[u] /\ se'[u] = se[u] /\ sm'[u] = sm[u]
    BY <1>0, <1>2 DEF TypeOK, TEEC_OpenSessionInner, Goto
  <2>5. ThreadControl(t)'
    BY <1>0, <1>1, <1>2, <2>2, <2>3, InnerAssumption DEF ThreadControl, UsesSession, FinPC
  <2> QED
    BY <2>2, <2>4, <2>5, ObjectStep
<1>3. CASE UNCHANGED <<se, loc>>
  <2>2. LocStep(t) /\ loc'[t] = loc[t]
    BY <1>0, <1>3, SameLoc
  <2>3. pc'[t] = (IF sm[t] = {} THEN "put" ELSE "put_shm") /\ se'[t] = se[t] /\ sm'[t] = sm[t]
    BY <1>0, <1>3 DEF TypeOK, TEEC_OpenSessionInner, Goto
  <2>4. \A u \in Thread \ {t} : pc'[u] = pc[u] /\ se'[u] = se[u] /\ sm'[u] = sm[u]
    BY <1>0, <1>3 DEF TypeOK, TEEC_OpenSessionInner, Goto
  <2>5. ThreadControl(t)'
    BY <1>0, <1>1, <1>3, <2>2, <2>3 DEF ThreadControl, UsesSession, FinPC
  <2> QED
    BY <2>2, <2>4, <2>5, ObjectStep
<1> QED
  BY <1>2, <1>3, Zenon DEF TEEC_OpenSessionInner, sesVars

LEMMA TEEC_CommandInnerCtl ==
  ASSUME ContextInv, ObjectControl, NEW t \in Thread, TEEC_CommandInner(t)
  PROVE  ObjectControl'
<1>0. TypeOK /\ ThreadControl(t)
  BY DEF ContextInv, ObjectControl
<1>1. pc[t] = "ioctl" /\ loc[t].op \in {"invoke", "close"}
  BY DEF TEEC_CommandInner
<1>2. LocStep(t) /\ loc'[t] = loc[t]
  BY <1>0, SameLoc DEF TEEC_CommandInner
<1>3. pc'[t] = (IF sm[t] = {} THEN "put_ses" ELSE "put_shm") /\ se'[t] = se[t] /\ sm'[t] = sm[t]
  BY <1>0 DEF TypeOK, TEEC_CommandInner, Goto
<1>4. \A u \in Thread \ {t} : pc'[u] = pc[u] /\ se'[u] = se[u] /\ sm'[u] = sm[u]
  BY <1>0 DEF TypeOK, TEEC_CommandInner, Goto
<1>5. ThreadControl(t)'
  BY <1>0, <1>1, <1>2, <1>3 DEF ThreadControl, UsesSession, FinPC
<1> QED
  BY <1>2, <1>4, <1>5, ObjectStep

LEMMA PutAllocShrMemCtl ==
  ASSUME ContextInv, ObjectControl, NEW t \in Thread, PutAllocShrMem(t)
  PROVE  ObjectControl'
<1>0. TypeOK /\ ThreadControl(t)
  BY DEF ContextInv, ObjectControl
<1>1. pc[t] = "put_shm"
  BY <1>0 DEF PutAllocShrMem, ThreadControl
<1>2. LocStep(t) /\ loc'[t] = loc[t]
  BY <1>0, SameLoc DEF PutAllocShrMem
<1>3. pc'[t] = (IF loc[t].op = "open" THEN "put" ELSE "put_ses") /\ se'[t] = se[t]
      /\ sm'[t] = {}
  BY <1>0 DEF TypeOK, PutAllocShrMem, Goto
<1>4. \A u \in Thread \ {t} : pc'[u] = pc[u] /\ se'[u] = se[u] /\ sm'[u] = sm[u]
  BY <1>0 DEF TypeOK, PutAllocShrMem, Goto
<1>5. ThreadControl(t)'
  BY <1>0, <1>1, <1>2, <1>3 DEF ThreadControl, UsesSession, FinPC
<1> QED
  BY <1>2, <1>4, <1>5, ObjectStep

LEMMA ReleaseSessionCtl ==
  ASSUME ContextInv, ObjectControl, NEW t \in Thread, ReleaseSession(t)
  PROVE  ObjectControl'
<1>0. TypeOK /\ ThreadControl(t)
  BY DEF ContextInv, ObjectControl
<1>1. pc[t] = "put_ses"
  BY <1>0 DEF ReleaseSession, ThreadControl
<1>2. LocStep(t) /\ loc'[t].next = "idle" /\ loc'[t].op = loc[t].op /\ loc'[t].s = loc[t].s
      /\ loc'[t].blk = loc[t].blk /\ loc'[t].ok = loc[t].ok
  <2>1. "idle" \in PCs
    BY DEF PCs
  <2> QED BY <1>0, <2>1, SetNext, Zenon DEF PutThen, ReleaseSession
<1>3. pc'[t] = "put" /\ se'[t] = NoSess /\ sm'[t] = sm[t]
  BY <1>0 DEF TypeOK, ReleaseSession, PutThen
<1>4. \A u \in Thread \ {t} : pc'[u] = pc[u] /\ se'[u] = se[u] /\ sm'[u] = sm[u]
  BY <1>0 DEF TypeOK, ReleaseSession, PutThen
<1>5. ThreadControl(t)'
  BY <1>0, <1>1, <1>2, <1>3 DEF ThreadControl, UsesSession, FinPC
<1> QED
  BY <1>2, <1>4, <1>5, ObjectStep

LEMMA RecOpenReplyCtl ==
  ASSUME ContextInv, ObjectControl, NEW t \in Thread, RecOpenReply(t)
  PROVE  ObjectControl'
<1>0. TypeOK /\ ThreadControl(t)
  BY DEF ContextInv, ObjectControl
<1>1. pc[t] = "open_reply"
  BY <1>0 DEF RecOpenReply, ThreadControl
<1>2. LocStep(t) /\ loc'[t] = NoLocal
  BY <1>0, ReturnStep DEF RecOpenReply
<1>3. pc'[t] = "idle" /\ se'[t] = NoSess /\ sm'[t] = sm[t]
  BY <1>0 DEF TypeOK, RecOpenReply, Return
<1>4. \A u \in Thread \ {t} : pc'[u] = pc[u] /\ se'[u] = se[u] /\ sm'[u] = sm[u]
  BY <1>0 DEF TypeOK, RecOpenReply, Return
<1>5. ThreadControl(t)'
  BY <1>0, <1>1, <1>2, <1>3, NoLocalType DEF ThreadControl, UsesSession, FinPC
<1> QED
  BY <1>2, <1>4, <1>5, ObjectStep

LEMMA RegisterBlockCtl ==
  ASSUME ContextInv, ObjectControl, NEW t \in Thread, RegisterBlock(t)
  PROVE  ObjectControl'
<1>0. TypeOK /\ ThreadControl(t)
  BY DEF ContextInv, ObjectControl
<1>1. pc[t] = "blk" /\ loc[t].op = "reg"
  BY DEF RegisterBlock
<1>2. CASE Goto(t, "put_blk") /\ UNCHANGED loc /\ (\E m : sm' = [sm EXCEPT ![t] = {m}])
  <2>2. LocStep(t) /\ loc'[t] = loc[t]
    BY <1>0, <1>2, SameLoc
  <2>3. pc'[t] = "put_blk" /\ se'[t] = se[t]
    BY <1>0, <1>2 DEF TypeOK, RegisterBlock, Goto
  <2>4. \A u \in Thread \ {t} : pc'[u] = pc[u] /\ se'[u] = se[u] /\ sm'[u] = sm[u]
    BY <1>0, <1>2 DEF TypeOK, RegisterBlock, Goto
  <2>5. ThreadControl(t)'
    BY <1>0, <1>1, <1>2, <2>2, <2>3 DEF ThreadControl, UsesSession, FinPC
  <2> QED
    BY <2>2, <2>4, <2>5, ObjectStep
<1>3. CASE PutThen(t, "idle") /\ UNCHANGED sm
  <2>2. LocStep(t) /\ loc'[t].next = "idle" /\ loc'[t].op = loc[t].op /\ loc'[t].s = loc[t].s
        /\ loc'[t].blk = loc[t].blk /\ loc'[t].ok = loc[t].ok
    <3>1. "idle" \in PCs
      BY DEF PCs
    <3> QED BY <1>0, <1>3, <3>1, SetNext, Zenon DEF PutThen
  <2>3. pc'[t] = "put" /\ se'[t] = se[t] /\ sm'[t] = sm[t]
    BY <1>0, <1>3 DEF TypeOK, RegisterBlock, PutThen
  <2>4. \A u \in Thread \ {t} : pc'[u] = pc[u] /\ se'[u] = se[u] /\ sm'[u] = sm[u]
    BY <1>0, <1>3 DEF TypeOK, RegisterBlock, PutThen
  <2>5. ThreadControl(t)'
    BY <1>0, <1>1, <1>3, <2>2, <2>3 DEF ThreadControl, UsesSession, FinPC
  <2> QED
    BY <2>2, <2>4, <2>5, ObjectStep
<1> QED
  BY <1>2, <1>3, Zenon DEF RegisterBlock

LEMMA ReleaseBlockCtl ==
  ASSUME ContextInv, ObjectControl, NEW t \in Thread, ReleaseBlock(t)
  PROVE  ObjectControl'
<1>0. TypeOK /\ ThreadControl(t)
  BY DEF ContextInv, ObjectControl
<1>1. pc[t] = "blk" /\ loc[t].op = "rel"
  BY DEF ReleaseBlock
<1>2. CASE Goto(t, "put_blk") /\ UNCHANGED loc /\ (\E m : sm' = [sm EXCEPT ![t] = {m}])
  <2>2. LocStep(t) /\ loc'[t] = loc[t]
    BY <1>0, <1>2, SameLoc
  <2>3. pc'[t] = "put_blk" /\ se'[t] = se[t]
    BY <1>0, <1>2 DEF TypeOK, ReleaseBlock, Goto
  <2>4. \A u \in Thread \ {t} : pc'[u] = pc[u] /\ se'[u] = se[u] /\ sm'[u] = sm[u]
    BY <1>0, <1>2 DEF TypeOK, ReleaseBlock, Goto
  <2>5. ThreadControl(t)'
    BY <1>0, <1>1, <1>2, <2>2, <2>3 DEF ThreadControl, UsesSession, FinPC
  <2> QED
    BY <2>2, <2>4, <2>5, ObjectStep
<1>3. CASE PutThen(t, "idle") /\ UNCHANGED sm
  <2>2. LocStep(t) /\ loc'[t].next = "idle" /\ loc'[t].op = loc[t].op /\ loc'[t].s = loc[t].s
        /\ loc'[t].blk = loc[t].blk /\ loc'[t].ok = loc[t].ok
    <3>1. "idle" \in PCs
      BY DEF PCs
    <3> QED BY <1>0, <1>3, <3>1, SetNext, Zenon DEF PutThen
  <2>3. pc'[t] = "put" /\ se'[t] = se[t] /\ sm'[t] = sm[t]
    BY <1>0, <1>3 DEF TypeOK, ReleaseBlock, PutThen
  <2>4. \A u \in Thread \ {t} : pc'[u] = pc[u] /\ se'[u] = se[u] /\ sm'[u] = sm[u]
    BY <1>0, <1>3 DEF TypeOK, ReleaseBlock, PutThen
  <2>5. ThreadControl(t)'
    BY <1>0, <1>1, <1>3, <2>2, <2>3 DEF ThreadControl, UsesSession, FinPC
  <2> QED
    BY <2>2, <2>4, <2>5, ObjectStep
<1> QED
  BY <1>2, <1>3, Zenon DEF ReleaseBlock

LEMMA AllocateOffsetCtl ==
  ASSUME ContextInv, ObjectControl, NEW t \in Thread, AllocateOffset(t)
  PROVE  ObjectControl'
<1>0. TypeOK /\ ThreadControl(t)
  BY DEF ContextInv, ObjectControl
<1>1. pc[t] = "blk" /\ loc[t].op = "alloc"
  BY DEF AllocateOffset
<1>2. ASSUME NEW m \in Shm \ shmLive, SetLoc(t, [loc[t] EXCEPT !.blk = m]), Goto(t, "buf")
      PROVE  ObjectControl'
  <2>2. LocStep(t) /\ loc'[t].next = loc[t].next /\ loc'[t].op = loc[t].op
        /\ loc'[t].s = loc[t].s /\ loc'[t].blk = m /\ loc'[t].ok = loc[t].ok
    BY <1>0, <1>2, SetBlk, Zenon
  <2>3. pc'[t] = "buf" /\ se'[t] = se[t] /\ sm'[t] = sm[t]
    BY <1>0, <1>2 DEF TypeOK, AllocateOffset, Goto
  <2>4. \A u \in Thread \ {t} : pc'[u] = pc[u] /\ se'[u] = se[u] /\ sm'[u] = sm[u]
    BY <1>0, <1>2 DEF TypeOK, AllocateOffset, Goto
  <2>5. ThreadControl(t)'
    BY <1>0, <1>1, <1>2, <2>2, <2>3, InnerAssumption DEF ThreadControl, UsesSession, FinPC
  <2> QED
    BY <2>2, <2>4, <2>5, ObjectStep
<1>3. CASE PutThen(t, "idle")
  <2>2. LocStep(t) /\ loc'[t].next = "idle" /\ loc'[t].op = loc[t].op /\ loc'[t].s = loc[t].s
        /\ loc'[t].blk = loc[t].blk /\ loc'[t].ok = loc[t].ok
    <3>1. "idle" \in PCs
      BY DEF PCs
    <3> QED BY <1>0, <1>3, <3>1, SetNext, Zenon DEF PutThen
  <2>3. pc'[t] = "put" /\ se'[t] = se[t] /\ sm'[t] = sm[t]
    BY <1>0, <1>3 DEF TypeOK, AllocateOffset, PutThen
  <2>4. \A u \in Thread \ {t} : pc'[u] = pc[u] /\ se'[u] = se[u] /\ sm'[u] = sm[u]
    BY <1>0, <1>3 DEF TypeOK, AllocateOffset, PutThen
  <2>5. ThreadControl(t)'
    BY <1>0, <1>1, <1>3, <2>2, <2>3 DEF ThreadControl, UsesSession, FinPC
  <2> QED
    BY <2>2, <2>4, <2>5, ObjectStep
<1> QED
  BY <1>2, <1>3, Zenon DEF AllocateOffset

LEMMA AllocateBufferCtl ==
  ASSUME ContextInv, ObjectControl, "reply" \notin Faults, NEW t \in Thread, AllocateBuffer(t)
  PROVE  ObjectControl'
<1>0. TypeOK /\ ThreadControl(t)
  BY DEF ContextInv, ObjectControl
<1>1. pc[t] = "buf"
  BY DEF AllocateBuffer
<1>2. CASE /\ SetLoc(t, [loc[t] EXCEPT !.blk = NoShm, !.ok = TRUE]) /\ Goto(t, "put_blk")
           /\ sm' = [sm EXCEPT ![t] = {loc[t].blk}]
  <2>2. LocStep(t) /\ loc'[t].next = loc[t].next /\ loc'[t].op = loc[t].op
        /\ loc'[t].s = loc[t].s /\ loc'[t].blk = NoShm /\ loc'[t].ok
    BY <1>0, <1>2, SetBlkOk, Zenon
  <2>3. pc'[t] = "put_blk" /\ se'[t] = se[t]
    BY <1>0, <1>2 DEF TypeOK, AllocateBuffer, Goto
  <2>4. \A u \in Thread \ {t} : pc'[u] = pc[u] /\ se'[u] = se[u] /\ sm'[u] = sm[u]
    BY <1>0, <1>2 DEF TypeOK, AllocateBuffer, Goto
  <2>5. ThreadControl(t)'
    BY <1>0, <1>1, <1>2, <2>2, <2>3 DEF ThreadControl, UsesSession, FinPC
  <2> QED
    BY <2>2, <2>4, <2>5, ObjectStep
<1>3. CASE /\ pc' = [pc EXCEPT ![t] = "put"] /\ UNCHANGED sm
           /\ SetLoc(t, [loc[t] EXCEPT !.blk = NoShm, !.next = "idle"])
  <2>2. LocStep(t) /\ loc'[t].next = "idle" /\ loc'[t].op = loc[t].op /\ loc'[t].s = loc[t].s
        /\ loc'[t].blk = NoShm /\ loc'[t].ok = loc[t].ok
    <3>1. "idle" \in PCs
      BY DEF PCs
    <3> QED BY <1>0, <1>3, <3>1, SetBlkNext, Zenon
  <2>3. pc'[t] = "put" /\ se'[t] = se[t] /\ sm'[t] = sm[t]
    BY <1>0, <1>3 DEF TypeOK, AllocateBuffer, PutThen
  <2>4. \A u \in Thread \ {t} : pc'[u] = pc[u] /\ se'[u] = se[u] /\ sm'[u] = sm[u]
    BY <1>0, <1>3 DEF TypeOK, AllocateBuffer, PutThen
  <2>5. ThreadControl(t)'
    BY <1>0, <1>1, <1>3, <2>2, <2>3 DEF ThreadControl, UsesSession, FinPC
  <2> QED
    BY <2>2, <2>4, <2>5, ObjectStep
<1> QED
  BY <1>2, <1>3, Zenon DEF AllocateBuffer

LEMMA PutBlockCtl ==
  ASSUME ContextInv, ObjectControl, NEW t \in Thread, PutBlock(t)
  PROVE  ObjectControl'
<1>0. TypeOK /\ ThreadControl(t)
  BY DEF ContextInv, ObjectControl
<1>1. /\ pc[t] = "put_blk" /\ LateUse(t) \in {"reg_read", "idle"}
      /\ loc[t].op = "die" => LateUse(t) = "idle"
  BY <1>0 DEF PutBlock, ThreadControl, LateUse
<1>2. LocStep(t) /\ loc'[t].next = LateUse(t) /\ loc'[t].op = loc[t].op
      /\ loc'[t].s = loc[t].s /\ loc'[t].blk = loc[t].blk /\ loc'[t].ok = loc[t].ok
  <2>1. LateUse(t) \in PCs
    BY <1>1 DEF PCs
  <2>2. PICK x \in Obj \cup {NoCtx} : SetLoc(t, [loc[t] EXCEPT !.next = LateUse(t), !.late = x])
    <3>1. \A m \in sm[t] : m \in Obj
      BY <1>0 DEF TypeOK, Obj
    <3> QED BY <3>1, Zenon DEF PutBlock
  <2> QED BY <1>0, <2>1, <2>2, SetNextLate, Zenon
<1>3. pc'[t] = "put" /\ se'[t] = se[t] /\ sm'[t] = {}
  BY <1>0 DEF TypeOK, PutBlock, Goto
<1>4. \A u \in Thread \ {t} : pc'[u] = pc[u] /\ se'[u] = se[u] /\ sm'[u] = sm[u]
  BY <1>0 DEF TypeOK, PutBlock, Goto
<1>5. ThreadControl(t)'
  BY <1>0, <1>1, <1>2, <1>3 DEF ThreadControl, UsesSession, FinPC
<1> QED
  BY <1>2, <1>4, <1>5, ObjectStep

LEMMA RegisterReplyCtl ==
  ASSUME ContextInv, ObjectControl, NEW t \in Thread, RegisterReply(t)
  PROVE  ObjectControl'
<1>0. TypeOK /\ ThreadControl(t)
  BY DEF ContextInv, ObjectControl
<1>1. pc[t] = "reg_read"
  BY <1>0 DEF RegisterReply, ThreadControl
<1>2. LocStep(t) /\ loc'[t] = NoLocal
  BY <1>0, ReturnStep DEF RegisterReply
<1>3. pc'[t] = "idle" /\ se'[t] = se[t] /\ sm'[t] = sm[t]
  BY <1>0 DEF TypeOK, RegisterReply, Return
<1>4. \A u \in Thread \ {t} : pc'[u] = pc[u] /\ se'[u] = se[u] /\ sm'[u] = sm[u]
  BY <1>0 DEF TypeOK, RegisterReply, Return
<1>5. ThreadControl(t)'
  BY <1>0, <1>1, <1>2, <1>3, NoLocalType DEF ThreadControl, UsesSession, FinPC
<1> QED
  BY <1>2, <1>4, <1>5, ObjectStep

LEMMA OnRemoteDiedCtl ==
  ASSUME ContextInv, ObjectControl, NEW t \in Thread, NEW a \in CA, OnRemoteDied(t, a)
  PROVE  ObjectControl'
<1>0. TypeOK /\ ThreadControl(t)
  BY DEF ContextInv, ObjectControl
<1>1. pc[t] = "idle"
  BY DEF OnRemoteDied
<1>2. LocStep(t) /\ loc'[t].next = "idle" /\ loc'[t].op = "die" /\ loc'[t].blk = NoShm
      /\ loc'[t].ok
  <2>1. SetLoc(t, [NoLocal EXCEPT !.op = "die", !.ca = a])
    BY DEF OnRemoteDied
  <2> QED BY <1>0, <2>1, StartDie, Zenon
<1>3. pc'[t] = "died" /\ se'[t] = se[t] /\ sm'[t] = sm[t]
  BY <1>0 DEF TypeOK, OnRemoteDied, Goto
<1>4. \A u \in Thread \ {t} : pc'[u] = pc[u] /\ se'[u] = se[u] /\ sm'[u] = sm[u]
  BY <1>0 DEF TypeOK, OnRemoteDied, Goto
<1>5. ThreadControl(t)'
  BY <1>0, <1>1, <1>2, <1>3 DEF ThreadControl, UsesSession, FinPC
<1> QED
  BY <1>2, <1>4, <1>5, ObjectStep

LEMMA ProcessCaDiedCtl ==
  ASSUME ContextInv, ObjectControl, NEW t \in Thread, ProcessCaDied(t)
  PROVE  ObjectControl'
<1>0. TypeOK /\ ThreadControl(t)
  BY DEF ContextInv, ObjectControl
<1>1. pc[t] = "died" /\ PidOf[loc[t].ca] \in Pid
  BY <1>0, ServiceAssumption DEF ProcessCaDied, ContextInv, ControlInv
<1>2. CASE Return(t)
  <2>2. LocStep(t) /\ loc'[t] = NoLocal
    BY <1>0, <1>2, ReturnStep
  <2>3. pc'[t] = "idle" /\ se'[t] = se[t] /\ sm'[t] = sm[t]
    BY <1>0, <1>2 DEF TypeOK, ProcessCaDied, Return
  <2>4. \A u \in Thread \ {t} : pc'[u] = pc[u] /\ se'[u] = se[u] /\ sm'[u] = sm[u]
    BY <1>0, <1>2 DEF TypeOK, ProcessCaDied, Return
  <2>5. ThreadControl(t)'
    BY <1>0, <1>1, <1>2, <2>2, <2>3, NoLocalType DEF ThreadControl, UsesSession, FinPC
  <2> QED
    BY <2>2, <2>4, <2>5, ObjectStep
<1>3. ASSUME NEW p \in Pid, SetLoc(t, [loc[t] EXCEPT !.dfds = cxtFd[p]]), Goto(t, "clean")
      PROVE  ObjectControl'
  <2>2. LocStep(t) /\ loc'[t].next = loc[t].next /\ loc'[t].op = loc[t].op
        /\ loc'[t].s = loc[t].s /\ loc'[t].blk = loc[t].blk /\ loc'[t].ok = loc[t].ok
    <3>1. cxtFd[p] \in [Slot -> Fd \cup {NoFd}]
      BY <1>0 DEF TypeOK
    <3> QED BY <1>0, <1>3, <3>1, SetDfds, Zenon
  <2>3. pc'[t] = "clean" /\ se'[t] = se[t] /\ sm'[t] = sm[t]
    BY <1>0, <1>3 DEF TypeOK, ProcessCaDied, Goto
  <2>4. \A u \in Thread \ {t} : pc'[u] = pc[u] /\ se'[u] = se[u] /\ sm'[u] = sm[u]
    BY <1>0, <1>3 DEF TypeOK, ProcessCaDied, Goto
  <2>5. ThreadControl(t)'
    BY <1>0, <1>1, <2>2, <2>3 DEF ThreadControl, UsesSession, FinPC
  <2> QED
    BY <2>2, <2>4, <2>5, ObjectStep
<1> QED
  BY <1>1, <1>2, <1>3, Zenon DEF ProcessCaDied

LEMMA CleanProcDataForOneCaCtl ==
  ASSUME ContextInv, ObjectControl, NEW t \in Thread, CleanProcDataForOneCa(t)
  PROVE  ObjectControl'
<1>0. TypeOK /\ ThreadControl(t)
  BY DEF ContextInv, ObjectControl
<1>1. pc[t] = "clean"
  BY DEF CleanProcDataForOneCa
<1>2. CASE Return(t)
  <2>2. LocStep(t) /\ loc'[t] = NoLocal
    BY <1>0, <1>2, ReturnStep
  <2>3. pc'[t] = "idle" /\ se'[t] = se[t] /\ sm'[t] = sm[t]
    BY <1>0, <1>2 DEF TypeOK, CleanProcDataForOneCa, Return
  <2>4. \A u \in Thread \ {t} : pc'[u] = pc[u] /\ se'[u] = se[u] /\ sm'[u] = sm[u]
    BY <1>0, <1>2 DEF TypeOK, CleanProcDataForOneCa, Return
  <2>5. ThreadControl(t)'
    BY <1>0, <1>1, <1>2, <2>2, <2>3, NoLocalType DEF ThreadControl, UsesSession, FinPC
  <2> QED
    BY <2>2, <2>4, <2>5, ObjectStep
<1>3. CASE /\ SetLoc(t, [loc[t] EXCEPT !.dfds =
                 [loc[t].dfds EXCEPT ![First({i \in Slot : loc[t].dfds[i] # NoFd})] = NoFd]])
           /\ UNCHANGED pc \/ Goto(t, "clean_put")
  <2>2. LocStep(t) /\ loc'[t].next = loc[t].next /\ loc'[t].op = loc[t].op
        /\ loc'[t].s = loc[t].s /\ loc'[t].blk = loc[t].blk /\ loc'[t].ok = loc[t].ok
    <3>1. loc[t].dfds \in [Slot -> Fd \cup {NoFd}]
      BY <1>0, LocalOf DEF Local
    <3> DEFINE k == First({i \in Slot : loc[t].dfds[i] # NoFd})
    <3>2. [loc[t].dfds EXCEPT ![k] = NoFd] \in [Slot -> Fd \cup {NoFd}]
      <4> HIDE DEF k
      <4> QED BY <3>1
    <3> QED BY <1>0, <1>3, <3>2, SetDfds, Zenon
  <2>3. pc'[t] \in {"clean", "clean_put"} /\ se'[t] = se[t] /\ sm'[t] = sm[t]
    BY <1>0, <1>3, <1>1 DEF TypeOK, CleanProcDataForOneCa, Goto
  <2>4. \A u \in Thread \ {t} : pc'[u] = pc[u] /\ se'[u] = se[u] /\ sm'[u] = sm[u]
    BY <1>0, <1>3, <1>1 DEF TypeOK, CleanProcDataForOneCa, Goto
  <2>5. ThreadControl(t)'
    BY <1>0, <1>1, <1>3, <1>1, <2>2, <2>3 DEF ThreadControl, UsesSession, FinPC
  <2> QED
    BY <2>2, <2>4, <2>5, ObjectStep
<1> QED
  BY <1>2, <1>3, Zenon DEF CleanProcDataForOneCa

LEMMA CleanPutBnContextCtl ==
  ASSUME ContextInv, ObjectControl, NEW t \in Thread, CleanPutBnContext(t)
  PROVE  ObjectControl'
<1>0. TypeOK /\ ThreadControl(t)
  BY DEF ContextInv, ObjectControl
<1>1. pc[t] = "clean_put"
  BY DEF CleanPutBnContext
<1>2. LocStep(t) /\ loc'[t] = loc[t]
  BY <1>0, SameLoc DEF CleanPutBnContext
<1>3. pc'[t] \in {"fin_ses", "clean"} /\ se'[t] = se[t] /\ sm'[t] = sm[t]
  BY <1>0 DEF TypeOK, CleanPutBnContext, Goto
<1>4. \A u \in Thread \ {t} : pc'[u] = pc[u] /\ se'[u] = se[u] /\ sm'[u] = sm[u]
  BY <1>0 DEF TypeOK, CleanPutBnContext, Goto
<1>5. ThreadControl(t)'
  BY <1>0, <1>1, <1>2, <1>3 DEF ThreadControl, UsesSession, FinPC
<1> QED
  BY <1>2, <1>4, <1>5, ObjectStep

LEMMA RequestCtl ==
  ASSUME ContextInv, ObjectControl, NEW t \in Thread, NEW a \in CA, Request(t, a)
  PROVE  ObjectControl'
<1>1. ASSUME NEW c \in Ctx, NEW f \in Fd, InitializeContext(t, a, c, f) PROVE ObjectControl'
  BY <1>1, InitializeContextCtl
<1>2. ASSUME NEW f \in Fd, FinalizeContext(t, a, f) PROVE ObjectControl'
  BY <1>2, FinalizeContextCtl
<1>3. ASSUME NEW f \in Fd,
             \/ OpenSession(t, a, f) \/ InvokeCommand(t, a, f) \/ CloseSession(t, a, f)
             \/ RegisterSharedMemory(t, a, f) \/ AllocateSharedMemory(t, a, f)
             \/ ReleaseSharedMemory(t, a, f)
      PROVE  ObjectControl'
  <2>1. \A B \in MemRefs : B \in SUBSET (Bit \cup {NoBit})
    BY DEF MemRefs
  <2>2. PICK o \in RequestOp, s \in Sess \cup {NoSess}, B \in SUBSET (Bit \cup {NoBit}) :
          Begin(t, a, o, f, s, B) /\ (o \in {"invoke", "close"} => s \in Sess)
    <3>1. CASE OpenSession(t, a, f)
      BY <2>1, <3>1 DEF OpenSession, RequestOp
    <3>2. CASE InvokeCommand(t, a, f)
      BY <2>1, <3>2 DEF InvokeCommand, RequestOp
    <3>3. CASE CloseSession(t, a, f)
      BY <3>3 DEF CloseSession, RequestOp
    <3>4. CASE RegisterSharedMemory(t, a, f)
      BY <3>4 DEF RegisterSharedMemory, RequestOp
    <3>5. CASE AllocateSharedMemory(t, a, f)
      BY <3>5 DEF AllocateSharedMemory, RequestOp
    <3>6. CASE ReleaseSharedMemory(t, a, f)
      BY <3>6 DEF ReleaseSharedMemory, RequestOp
    <3> QED
      BY <1>3, <3>1, <3>2, <3>3, <3>4, <3>5, <3>6
  <2> QED
    BY <2>2, BeginCtl
<1> QED
  BY <1>1, <1>2, <1>3, Zenon DEF Request

\* Without failing replies no handler reaches the undo of AllocateSharedMemory.
LEMMA HandlerStepCtl ==
  ASSUME ContextInv, ObjectControl, "reply" \notin Faults, NEW t \in Thread, HandlerStep(t)
  PROVE  ObjectControl'
<1>1. CASE ContextStep(t)
  BY <1>1, SetContextToProcDataCtl, SetContextToProcDataFailsCtl, ReleaseContextCtl,
     CallFinalizeContextCtl, PutBnContextAndReleaseFdCtl, FinalizeSessionListCtl,
     FinalizeShmListCtl, FinalizeCloseCtl, RemoveContextFromProcDataCtl,
     CallGetBnContextCtl, Zenon DEF ContextStep
<1>2. CASE SessionStep(t)
  BY <1>2, CallGetBnSessionCtl, TeecOptDecodePartialMemCtl, AddTidDataFailsCtl,
     TEEC_OpenSessionInnerCtl, TEEC_CommandInnerCtl, PutAllocShrMemCtl,
     ReleaseSessionCtl, RecOpenReplyCtl, Zenon DEF SessionStep
<1>3. CASE SharedMemoryStep(t)
  <2>1. ~ UndoAllocate(t)
    BY DEF UndoAllocate, ObjectControl, ThreadControl
  <2> QED
    BY <1>3, <2>1, RegisterBlockCtl, AllocateOffsetCtl, AllocateBufferCtl, ReleaseBlockCtl,
       PutBlockCtl, RegisterReplyCtl, Zenon DEF SharedMemoryStep
<1>4. CASE DeathStep(t)
  BY <1>4, ProcessCaDiedCtl, CleanProcDataForOneCaCtl, CleanPutBnContextCtl, Zenon DEF DeathStep
<1> QED
  BY <1>1, <1>2, <1>3, <1>4, Zenon DEF HandlerStep

LEMMA ObjectControlNext ==
  ASSUME "reply" \notin Faults, ContextInv, ObjectControl, [Next]_vars
  PROVE  ObjectControl'
<1>1. ASSUME UNCHANGED <<pc, loc, se, sm>> PROVE ObjectControl'
  BY <1>1, Zenon DEF ObjectControl, ThreadControl, UsesSession
<1>2. ASSUME NEW a \in CA, SetCallBack(a) \/ CaDies(a) PROVE ObjectControl'
  BY <1>1, <1>2 DEF SetCallBack, CaDies
<1>3. ASSUME NEW t \in Thread, NEW a \in CA, Request(t, a) \/ OnRemoteDied(t, a)
      PROVE  ObjectControl'
  BY <1>3, RequestCtl, OnRemoteDiedCtl
<1>4. ASSUME NEW t \in Thread, HandlerStep(t) PROVE ObjectControl'
  BY <1>4, HandlerStepCtl
<1>5. CASE UNCHANGED vars
  BY <1>1, <1>5 DEF vars
<1> QED
  BY <1>2, <1>3, <1>4, <1>5, Zenon DEF Next

LEMMA ObjectControlInit == Init => ObjectControl
<1> SUFFICES ASSUME Init, NEW t \in Thread PROVE ThreadControl(t)
  BY DEF ObjectControl
<1>1. loc[t] = NoLocal /\ pc[t] = "idle" /\ se[t] = NoSess /\ sm[t] = {}
  BY DEF Init
<1> QED
  BY <1>1, NoLocalType DEF ThreadControl, UsesSession, FinPC

-----------------------------------------------------------------------------
(* Sessions: the count under each kind of step *)

SessionInv ==
  /\ SessionRefCount
  /\ \A s \in sesLive : sesOps[s] > 0
  /\ \A s \in Sess \ sesLive : lost[s] = 0
  /\ \A t \in Thread : pc[t] \in {"fin_shm", "fin_close"} =>
       \A s \in Sess : sesList[s] # fin[t]

SessionCounted(s) ==
  sesOps[s] = Cardinality(SessionHolders(s)) + (IF sesList[s] # NoCtx THEN 1 ELSE 0) + lost[s]

\* No thread gets past the emptying of the session list in this step.
SessionListsKept ==
  \A u \in Thread : pc'[u] \in {"fin_shm", "fin_close"} =>
    pc[u] \in {"fin_shm", "fin_close"} /\ fin'[u] = fin[u]

LEMMA SessionHoldersFinite ==
  ASSUME NEW s
  PROVE  IsFiniteSet(SessionHolders(s)) /\ Cardinality(SessionHolders(s)) \in Nat
<1>1. SessionHolders(s) \in SUBSET Thread
  BY DEF SessionHolders
<1> QED
  BY <1>1, ServiceAssumption, FS_Subset, FS_CardinalityType

LEMMA SessionHoldersGain ==
  ASSUME TypeOK, NEW t \in Thread, NEW s \in Sess, se[t] = NoSess,
         se' = [se EXCEPT ![t] = s]
  PROVE  \A r \in Sess : Cardinality(SessionHolders(r)')
           = IF r = s THEN Cardinality(SessionHolders(r)) + 1 ELSE Cardinality(SessionHolders(r))
<1> TAKE r \in Sess
<1>1. CASE r = s
  <2>1. SessionHolders(r)' = SessionHolders(r) \cup {t}
    BY <1>1 DEF TypeOK, SessionHolders
  <2>2. t \notin SessionHolders(r)
    BY InnerAssumption DEF SessionHolders
  <2> QED
    BY <1>1, <2>1, <2>2, SessionHoldersFinite, FS_AddElement
<1>2. CASE r # s
  <2>1. SessionHolders(r)' = SessionHolders(r)
    BY <1>2, InnerAssumption DEF TypeOK, SessionHolders
  <2> QED
    BY <1>2, <2>1
<1> QED
  BY <1>1, <1>2

LEMMA SessionHoldersDrop ==
  ASSUME TypeOK, NEW t \in Thread, NEW s \in Sess, se[t] = s,
         se' = [se EXCEPT ![t] = NoSess]
  PROVE  /\ Cardinality(SessionHolders(s)) >= 1
         /\ \A r \in Sess : Cardinality(SessionHolders(r)')
              = IF r = s THEN Cardinality(SessionHolders(r)) - 1 ELSE Cardinality(SessionHolders(r))
<1>1. t \in SessionHolders(s)
  BY DEF SessionHolders
<1>2. Cardinality(SessionHolders(s)) >= 1
  <2>1. Cardinality(SessionHolders(s)) # 0
    BY <1>1, SessionHoldersFinite, FS_EmptySet
  <2> QED
    BY <2>1, SessionHoldersFinite
<1>3. ASSUME NEW r \in Sess
      PROVE  Cardinality(SessionHolders(r)')
               = IF r = s THEN Cardinality(SessionHolders(r)) - 1 ELSE Cardinality(SessionHolders(r))
  <2>1. CASE r = s
    <3>1. SessionHolders(r)' = SessionHolders(r) \ {t}
      BY <2>1, InnerAssumption DEF TypeOK, SessionHolders
    <3> QED
      BY <1>1, <2>1, <3>1, SessionHoldersFinite, FS_RemoveElement
  <2>2. CASE r # s
    <3>1. SessionHolders(r)' = SessionHolders(r)
      BY <2>2, InnerAssumption DEF TypeOK, SessionHolders
    <3> QED
      BY <2>2, <3>1
  <2> QED
    BY <2>1, <2>2
<1> QED
  BY <1>2, <1>3

LEMMA SessionTypes ==
  ASSUME TypeOK, NEW s \in Sess
  PROVE  /\ sesOps[s] \in Int /\ lost[s] \in Nat /\ Cardinality(SessionHolders(s)) \in Nat
         /\ sesList[s] \in Ctx \cup {NoCtx}
BY SessionHoldersFinite DEF TypeOK, InnerTypeOK, Obj

\* Steps that touch no reference to a session.  A context that is freed has no session
\* on its list any more.
LEMMA SessionKeep ==
  ASSUME ContextInv, SessionInv, NEW t \in Thread,
         UNCHANGED <<sesLive, sesOps, sesList, se>>,
         \A s \in Sess : lost'[s] = lost[s],
         SessionListsKept,
         \A c \in ctxLive \ ctxLive' : pc[t] = "fin_close" /\ c = fin[t]
  PROVE  SessionInv'
<1>1. \A s : SessionHolders(s)' = SessionHolders(s)
  BY DEF SessionHolders
<1>2. sesLive \subseteq Sess
  BY DEF ContextInv, TypeOK, InnerTypeOK
<1>3. SessionRefCount'
  BY <1>1, <1>2 DEF SessionInv, SessionRefCount
<1> QED
  BY <1>2, <1>3 DEF SessionInv, SessionListsKept

\* GetBnSession: a session on a list gets a reference, held by t.
LEMMA SessionGet ==
  ASSUME ContextInv, SessionInv, NEW t \in Thread, NEW s \in Sess, se[t] = NoSess,
         sesList[s] # NoCtx, GetBnSession(s), se' = [se EXCEPT ![t] = s],
         SessionListsKept, UNCHANGED <<ctxLive, lost>>
  PROVE  SessionInv'
<1>0. TypeOK /\ s \in sesLive /\ sesLive \subseteq Sess
  BY DEF ContextInv, SessionInv, SessionRefCount, TypeOK, InnerTypeOK
<1>1. \A r \in Sess : Cardinality(SessionHolders(r)')
        = IF r = s THEN Cardinality(SessionHolders(r)) + 1 ELSE Cardinality(SessionHolders(r))
  BY <1>0, SessionHoldersGain
<1>2. \A r \in Sess : sesOps'[r] = IF r = s THEN sesOps[r] + 1 ELSE sesOps[r]
  BY <1>0 DEF GetBnSession, TypeOK, InnerTypeOK
<1>3. \A r \in sesLive : SessionCounted(r)' /\ sesOps'[r] > 0
  BY <1>0, <1>1, <1>2, SessionTypes
     DEF SessionInv, SessionRefCount, SessionCounted, GetBnSession
<1>4. \A u \in Thread : se'[u] # NoSess => se'[u] \in sesLive
  BY <1>0 DEF SessionInv, SessionRefCount, TypeOK
<1> QED
  BY <1>3, <1>4 DEF SessionInv, SessionRefCount, SessionCounted, GetBnSession, SessionListsKept

\* FindAndRemoveSession: the list's reference becomes t's.
LEMMA SessionRemove ==
  ASSUME ContextInv, SessionInv, NEW t \in Thread, NEW s \in Sess, se[t] = NoSess,
         sesList[s] # NoCtx, FindAndRemoveSession(s), se' = [se EXCEPT ![t] = s],
         SessionListsKept, UNCHANGED <<ctxLive, lost>>
  PROVE  SessionInv'
<1>0. TypeOK /\ s \in sesLive /\ sesLive \subseteq Sess
  BY DEF ContextInv, SessionInv, SessionRefCount, TypeOK, InnerTypeOK
<1>1. \A r \in Sess : Cardinality(SessionHolders(r)')
        = IF r = s THEN Cardinality(SessionHolders(r)) + 1 ELSE Cardinality(SessionHolders(r))
  BY <1>0, SessionHoldersGain
<1>2. \A r \in Sess : sesList'[r] = IF r = s THEN NoCtx ELSE sesList[r]
  BY <1>0 DEF FindAndRemoveSession, TypeOK, InnerTypeOK
<1>3. \A r \in sesLive : SessionCounted(r)' /\ sesOps'[r] > 0
  BY <1>0, <1>1, <1>2, SessionTypes
     DEF SessionInv, SessionRefCount, SessionCounted, FindAndRemoveSession
<1>4. \A u \in Thread : se'[u] # NoSess => se'[u] \in sesLive
  BY <1>0 DEF SessionInv, SessionRefCount, TypeOK
<1>5. \A u \in Thread : pc'[u] \in {"fin_shm",
      "fin_close"} => \A r \in Sess : sesList'[r] # fin'[u]
  <2> SUFFICES ASSUME NEW u \in Thread, pc'[u] \in {"fin_shm", "fin_close"}, NEW r \in Sess
               PROVE  sesList'[r] # fin'[u]
    OBVIOUS
  <2>1. fin'[u] = fin[u] /\ sesList[r] # fin[u] /\ pc[u] \in {"fin_shm", "fin_close"}
    BY DEF SessionListsKept, SessionInv
  <2>2. fin[u] # NoCtx
    BY <2>1 DEF ContextInv, ControlInv, FinPC
  <2> QED BY <1>2, <2>1, <2>2
<1> QED
  BY <1>2, <1>3, <1>4, <1>5
     DEF SessionInv, SessionRefCount, SessionCounted, FindAndRemoveSession

\* AddSessionList: the list's reference and the opener's.  The context is in t's hands,
\* so nobody is tearing it down.
LEMMA SessionAdd ==
  ASSUME ContextInv, SessionInv, NEW t \in Thread, NEW s \in Sess \ sesLive, se[t] = NoSess,
         cx[t] # NoCtx, AddSessionList(s, cx[t]), se' = [se EXCEPT ![t] = s],
         SessionListsKept, UNCHANGED <<ctxLive, lost>>
  PROVE  SessionInv'
<1>0. TypeOK /\ s \in Sess /\ sesLive \subseteq Sess /\ cx[t] \in ctxLive
  BY DEF ContextInv, RefInv, TypeOK, InnerTypeOK
<1>1. \A r \in Sess : Cardinality(SessionHolders(r)')
        = IF r = s THEN Cardinality(SessionHolders(r)) + 1 ELSE Cardinality(SessionHolders(r))
  BY <1>0, SessionHoldersGain
<1>2. Cardinality(SessionHolders(s)) = 0 /\ lost[s] = 0
  <2>1. SessionHolders(s) = {}
    BY <1>0, InnerAssumption DEF SessionInv, SessionRefCount, SessionHolders
  <2> QED BY <2>1, FS_EmptySet DEF SessionInv
<1>3. /\ sesLive' = sesLive \cup {s}
      /\ \A r \in Sess : sesOps'[r] = IF r = s THEN 2 ELSE sesOps[r]
      /\ \A r \in Sess : sesList'[r] = IF r = s THEN cx[t] ELSE sesList[r]
  BY <1>0 DEF AddSessionList, TypeOK, InnerTypeOK
<1>4. \A r \in sesLive' : SessionCounted(r)' /\ sesOps'[r] > 0
  <2>1. SessionCounted(s)' /\ sesOps'[s] > 0
    BY <1>0, <1>1, <1>2, <1>3 DEF SessionCounted
  <2>2. ASSUME NEW r \in sesLive PROVE SessionCounted(r)' /\ sesOps'[r] > 0
    BY <1>0, <1>1, <1>3, <2>2 DEF SessionInv, SessionRefCount, SessionCounted
  <2> QED BY <1>3, <2>1, <2>2
<1>5. \A u \in Thread : se'[u] # NoSess => se'[u] \in sesLive'
  BY <1>0, <1>3 DEF SessionInv, SessionRefCount, TypeOK
<1>6. \A u \in Thread : fin[u] # NoCtx => fin[u] # cx[t]
  BY TornDownUnreachable DEF Holders
<1>7. \A u \in Thread : pc'[u] \in {"fin_shm",
      "fin_close"} => \A r \in Sess : sesList'[r] # fin'[u]
  <2> SUFFICES ASSUME NEW u \in Thread, pc'[u] \in {"fin_shm", "fin_close"}, NEW r \in Sess
               PROVE  sesList'[r] # fin'[u]
    OBVIOUS
  <2>1. fin'[u] = fin[u] /\ sesList[r] # fin[u] /\ pc[u] \in {"fin_shm", "fin_close"}
    BY DEF SessionListsKept, SessionInv
  <2>2. fin[u] # NoCtx
    BY <2>1 DEF ContextInv, ControlInv, FinPC
  <2> QED BY <1>3, <1>6, <2>1, <2>2
<1>8. \A r \in Sess : sesList'[r] # NoCtx => r \in sesLive' /\ sesList'[r] \in ctxLive'
  BY <1>0, <1>3 DEF SessionInv, SessionRefCount
<1>9. \A r \in Sess \ sesLive' : lost'[r] = 0
  BY <1>3 DEF SessionInv
<1> QED
  BY <1>4, <1>5, <1>7, <1>8, <1>9 DEF SessionInv, SessionRefCount, SessionCounted

\* PutBnSession: t gives its reference back; the session is freed with the last one, and
\* then it is on no list and no reference to it was lost.
LEMMA SessionPut ==
  ASSUME ContextInv, SessionInv, NEW t \in Thread, NEW s \in Sess, se[t] = s,
         PutBnSession(s), se' = [se EXCEPT ![t] = NoSess],
         SessionListsKept, UNCHANGED <<ctxLive, lost>>
  PROVE  SessionInv'
<1>0. TypeOK /\ s \in sesLive /\ sesLive \subseteq Sess
  BY InnerAssumption DEF ContextInv, SessionInv, SessionRefCount, TypeOK, InnerTypeOK
<1>1. /\ Cardinality(SessionHolders(s)) >= 1
      /\ \A r \in Sess : Cardinality(SessionHolders(r)')
           = IF r = s THEN Cardinality(SessionHolders(r)) - 1 ELSE Cardinality(SessionHolders(r))
  BY <1>0, SessionHoldersDrop
<1>2. /\ \A r \in Sess : sesOps'[r] = IF r = s THEN sesOps[r] - 1 ELSE sesOps[r]
      /\ sesLive' = IF sesOps[s] = 1 THEN sesLive \ {s} ELSE sesLive
      /\ sesList' = sesList
  BY <1>0 DEF PutBnSession, TypeOK, InnerTypeOK
<1>3. SessionCounted(s) /\ sesOps[s] > 0
  BY <1>0 DEF SessionInv, SessionRefCount, SessionCounted
<1>4. \A r \in sesLive' : SessionCounted(r)' /\ sesOps'[r] > 0
  <2>1. ASSUME sesOps[s] # 1 PROVE SessionCounted(s)' /\ sesOps'[s] > 0
    BY <1>0, <1>1, <1>2, <1>3, <2>1, SessionTypes DEF SessionCounted
  <2>2. ASSUME NEW r \in sesLive, r # s PROVE SessionCounted(r)' /\ sesOps'[r] > 0
    BY <1>0, <1>1, <1>2, <2>2 DEF SessionInv, SessionRefCount, SessionCounted
  <2> QED BY <1>2, <2>1, <2>2
<1>5. sesOps[s] = 1 => sesList[s] = NoCtx /\ lost[s] = 0 /\ Cardinality(SessionHolders(s)) = 1
  BY <1>0, <1>1, <1>3, SessionTypes DEF SessionCounted
<1>6. \A u \in Thread : se'[u] # NoSess => se'[u] \in sesLive'
  <2> SUFFICES ASSUME NEW u \in Thread, se'[u] # NoSess, sesOps[s] = 1, se'[u] = s
               PROVE  FALSE
    BY <1>2 DEF SessionInv, SessionRefCount, TypeOK, ContextInv
  <2>1. u \in SessionHolders(s)'
    BY DEF SessionHolders
  <2>2. Cardinality(SessionHolders(s)') = 0
    BY <1>0, <1>1, <1>5
  <2>3. IsFiniteSet(SessionHolders(s)')
    <3>1. SessionHolders(s)' \in SUBSET Thread
      BY DEF SessionHolders
    <3> QED BY <3>1, ServiceAssumption, FS_Subset
  <2> QED BY <2>1, <2>2, <2>3, FS_EmptySet
<1>7. \A r \in Sess : sesList'[r] # NoCtx => r \in sesLive' /\ sesList'[r] \in ctxLive'
  BY <1>2, <1>5 DEF SessionInv, SessionRefCount
<1>8. \A r \in Sess \ sesLive' : lost'[r] = 0
  BY <1>2, <1>5 DEF SessionInv
<1> QED
  BY <1>2, <1>4, <1>6, <1>7, <1>8
     DEF SessionInv, SessionRefCount, SessionCounted, SessionListsKept

\* TEEC_FinalizeContextInner: the sessions of the context leave the list, and the list's
\* reference to each is given back.
LEMMA SessionFinalize ==
  ASSUME ContextInv, SessionInv, NEW t \in Thread, NEW c \in Ctx, fin[t] = c,
         FinalizeSessions(c),
         \A u \in Thread \ {t} : pc'[u] = pc[u],
         UNCHANGED <<ctxLive, lost, se, fin>>
  PROVE  SessionInv'
<1>0. TypeOK /\ sesLive \subseteq Sess
  BY DEF ContextInv, TypeOK, InnerTypeOK
<1>1. \A r : SessionHolders(r)' = SessionHolders(r)
  BY DEF SessionHolders
<1>2. /\ \A r \in Sess : sesOps'[r] = IF sesList[r] = c THEN sesOps[r] - 1 ELSE sesOps[r]
      /\ \A r \in Sess : sesList'[r] = IF sesList[r] = c THEN NoCtx ELSE sesList[r]
      /\ \A r \in Sess : r \in sesLive' <=> r \in sesLive /\ ~ (sesList[r] = c /\ sesOps[r] = 1)
      /\ sesLive' \subseteq sesLive
  BY <1>0 DEF FinalizeSessions, TypeOK, InnerTypeOK
<1>3. c # NoCtx
  BY InnerAssumption
<1>4. ASSUME NEW r \in sesLive' PROVE SessionCounted(r)' /\ sesOps'[r] > 0
  <2>1. r \in sesLive /\ r \in Sess /\ SessionCounted(r) /\ sesOps[r] > 0
    BY <1>0, <1>2 DEF SessionInv, SessionRefCount, SessionCounted
  <2>2. CASE sesList[r] = c
    BY <1>1, <1>2, <1>3, <2>1, <2>2, <1>0, SessionTypes DEF SessionCounted
  <2>3. CASE sesList[r] # c
    BY <1>1, <1>2, <2>1, <2>3 DEF SessionCounted
  <2> QED BY <2>2, <2>3
<1>5. ASSUME NEW r \in Sess \ sesLive' PROVE lost'[r] = 0 /\ SessionHolders(r) = {}
  <2>1. CASE r \notin sesLive
    BY <1>0, <2>1, InnerAssumption DEF SessionInv, SessionRefCount, SessionHolders
  <2>2. CASE r \in sesLive
    <3>1. SessionCounted(r) /\ sesOps[r] = 1 /\ sesList[r] # NoCtx
      BY <1>2, <1>3, <2>2 DEF SessionInv, SessionRefCount, SessionCounted
    <3>2. lost[r] = 0 /\ Cardinality(SessionHolders(r)) = 0
      BY <1>0, <3>1, SessionTypes DEF SessionCounted
    <3> QED BY <3>2, SessionHoldersFinite, FS_EmptySet
  <2> QED BY <2>1, <2>2
<1>6. \A u \in Thread : se'[u] # NoSess => se'[u] \in sesLive'
  <2> SUFFICES ASSUME NEW u \in Thread, se[u] # NoSess PROVE se[u] \in sesLive'
    OBVIOUS
  <2>1. se[u] \in Sess /\ u \in SessionHolders(se[u])
    BY <1>0 DEF TypeOK, SessionHolders
  <2> QED BY <1>5, <2>1
<1>7. \A r \in Sess : sesList'[r] # NoCtx => r \in sesLive' /\ sesList'[r] \in ctxLive'
  BY <1>2 DEF SessionInv, SessionRefCount
<1>8. \A u \in Thread : pc'[u] \in {"fin_shm",
      "fin_close"} => \A r \in Sess : sesList'[r] # fin'[u]
  <2> SUFFICES ASSUME NEW u \in Thread, pc'[u] \in {"fin_shm", "fin_close"}, NEW r \in Sess
               PROVE  sesList'[r] # fin[u]
    OBVIOUS
  <2>1. CASE u = t
    BY <1>2, <1>3, <2>1
  <2>2. CASE u # t
    <3>1. pc[u] \in {"fin_shm", "fin_close"} /\ sesList[r] # fin[u]
      BY <2>2 DEF SessionInv
    <3>2. fin[u] # NoCtx
      BY <3>1 DEF ContextInv, ControlInv, FinPC
    <3> QED BY <1>2, <3>1, <3>2
  <2> QED BY <2>1, <2>2
<1> QED
  BY <1>4, <1>5, <1>6, <1>7, <1>8 DEF SessionInv, SessionRefCount, SessionCounted

\* CloseSession after a failing AddTidData: t's reference is dropped without a Put.
LEMMA SessionAbandon ==
  ASSUME ContextInv, SessionInv, NEW t \in Thread, NEW s \in Sess, se[t] = s,
         se' = [se EXCEPT ![t] = NoSess],
         \A r \in Sess : lost'[r] = IF r = s THEN lost[r] + 1 ELSE lost[r],
         SessionListsKept, UNCHANGED <<ctxLive, sesLive, sesOps, sesList>>
  PROVE  SessionInv'
<1>0. TypeOK /\ s \in sesLive /\ sesLive \subseteq Sess
  BY InnerAssumption DEF ContextInv, SessionInv, SessionRefCount, TypeOK, InnerTypeOK
<1>1. \A r \in Sess : Cardinality(SessionHolders(r)')
        = IF r = s THEN Cardinality(SessionHolders(r)) - 1 ELSE Cardinality(SessionHolders(r))
  BY <1>0, SessionHoldersDrop
<1>2. \A r \in sesLive : SessionCounted(r)' /\ sesOps'[r] > 0
  BY <1>0, <1>1, SessionTypes DEF SessionInv, SessionRefCount, SessionCounted
<1>3. \A u \in Thread : se'[u] # NoSess => se'[u] \in sesLive
  BY <1>0 DEF SessionInv, SessionRefCount, TypeOK
<1> QED
  BY <1>0, <1>2, <1>3 DEF SessionInv, SessionRefCount, SessionCounted, SessionListsKept

-----------------------------------------------------------------------------
(* Sessions: one lemma per kind of action *)

\* The step touches no session; a context it frees has been emptied before.
QuietSessions(t) ==
  /\ UNCHANGED <<sesLive, sesOps, sesList, se>>
  /\ \A s \in Sess : lost'[s] = lost[s]
  /\ SessionListsKept
  /\ \A c \in ctxLive \ ctxLive' : pc[t] = "fin_close" /\ c = fin[t]

LEMMA QuietSessionStep ==
  ASSUME ContextInv, SessionInv, NEW t \in Thread, QuietSessions(t)
  PROVE  SessionInv'
BY SessionKeep DEF QuietSessions

\* A thread that goes to p, outside the end of TEEC_FinalizeContextInner.
LEMMA ListsKeptBy ==
  ASSUME TypeOK, NEW t \in Thread, NEW p, p \notin {"fin_shm", "fin_close"},
         pc' = [pc EXCEPT ![t] = p], \A u \in Thread \ {t} : fin'[u] = fin[u]
  PROVE  SessionListsKept
BY DEF SessionListsKept, TypeOK

LEMMA SetContextToProcDataQuiet ==
  ASSUME ContextInv, NEW t \in Thread, SetContextToProcData(t)
  PROVE  QuietSessions(t)
<1>0. TypeOK
  BY DEF ContextInv
<1>1. UNCHANGED <<sesLive, sesOps, sesList, se>>
  BY DEF SetContextToProcData
<1>2. \A s \in Sess : lost'[s] = lost[s]
  BY DEF SetContextToProcData
<1>3. SessionListsKept
  <2>1. \E p : pc' = [pc EXCEPT ![t] = p] /\ p \notin {"fin_shm", "fin_close"}
    BY <1>0 DEF SetContextToProcData, Goto, Return, PutThen
  <2>2. \A u \in Thread \ {t} : fin'[u] = fin[u]
    BY <1>0 DEF SetContextToProcData, TypeOK
  <2> QED BY <1>0, <2>1, <2>2, ListsKeptBy
<1>4. \A c \in ctxLive \ ctxLive' : pc[t] = "fin_close" /\ c = fin[t]
  BY DEF SetContextToProcData
<1> QED
  BY <1>1, <1>2, <1>3, <1>4 DEF QuietSessions

LEMMA SetContextToProcDataFailsQuiet ==
  ASSUME ContextInv, NEW t \in Thread, SetContextToProcDataFails(t)
  PROVE  QuietSessions(t)
<1>0. TypeOK
  BY DEF ContextInv
<1>1. UNCHANGED <<sesLive, sesOps, sesList, se>>
  BY DEF SetContextToProcDataFails
<1>2. \A s \in Sess : lost'[s] = lost[s]
  BY DEF SetContextToProcDataFails
<1>3. SessionListsKept
  <2>1. pc' = [pc EXCEPT ![t] = "put"]
    BY <1>0 DEF SetContextToProcDataFails, Goto, Return, PutThen
  <2>2. \A u \in Thread \ {t} : fin'[u] = fin[u]
    BY <1>0 DEF SetContextToProcDataFails, TypeOK
  <2> QED BY <1>0, <2>1, <2>2, ListsKeptBy
<1>4. \A c \in ctxLive \ ctxLive' : pc[t] = "fin_close" /\ c = fin[t]
  BY DEF SetContextToProcDataFails
<1> QED
  BY <1>1, <1>2, <1>3, <1>4 DEF QuietSessions

LEMMA ReleaseContextQuiet ==
  ASSUME ContextInv, NEW t \in Thread, ReleaseContext(t)
  PROVE  QuietSessions(t)
<1>0. TypeOK
  BY DEF ContextInv
<1>1. UNCHANGED <<sesLive, sesOps, sesList, se>>
  BY DEF ReleaseContext
<1>2. \A s \in Sess : lost'[s] = lost[s]
  BY DEF ReleaseContext
<1>3. SessionListsKept
  <2>1. pc' = [pc EXCEPT ![t] = "remove"]
    BY <1>0 DEF ReleaseContext, Goto, Return, PutThen
  <2>2. \A u \in Thread \ {t} : fin'[u] = fin[u]
    BY <1>0 DEF ReleaseContext, TypeOK
  <2> QED BY <1>0, <2>1, <2>2, ListsKeptBy
<1>4. \A c \in ctxLive \ ctxLive' : pc[t] = "fin_close" /\ c = fin[t]
  BY DEF ReleaseContext
<1> QED
  BY <1>1, <1>2, <1>3, <1>4 DEF QuietSessions

LEMMA CallFinalizeContextQuiet ==
  ASSUME ContextInv, NEW t \in Thread, CallFinalizeContext(t)
  PROVE  QuietSessions(t)
<1>0. TypeOK
  BY DEF ContextInv
<1>1. UNCHANGED <<sesLive, sesOps, sesList, se>>
  BY DEF CallFinalizeContext
<1>2. \A s \in Sess : lost'[s] = lost[s]
  BY DEF CallFinalizeContext
<1>3. SessionListsKept
  <2>1. \E p : pc' = [pc EXCEPT ![t] = p] /\ p \notin {"fin_shm", "fin_close"}
    BY <1>0 DEF CallFinalizeContext, Goto, Return, PutThen
  <2>2. \A u \in Thread \ {t} : fin'[u] = fin[u]
    BY <1>0 DEF CallFinalizeContext, TypeOK
  <2> QED BY <1>0, <2>1, <2>2, ListsKeptBy
<1>4. \A c \in ctxLive \ ctxLive' : pc[t] = "fin_close" /\ c = fin[t]
  BY DEF CallFinalizeContext, RemoveBnContext
<1> QED
  BY <1>1, <1>2, <1>3, <1>4 DEF QuietSessions

LEMMA FinalizeCloseQuiet ==
  ASSUME ContextInv, NEW t \in Thread, FinalizeClose(t)
  PROVE  QuietSessions(t)
<1>0. TypeOK
  BY DEF ContextInv
<1>1. UNCHANGED <<sesLive, sesOps, sesList, se>>
  BY DEF FinalizeClose
<1>2. \A s \in Sess : lost'[s] = lost[s]
  BY DEF FinalizeClose
<1>3. SessionListsKept
  <2>1. pc' = [pc EXCEPT ![t] = "clean"] \/ pc' = [pc EXCEPT ![t] = "fin_proc"]
    BY <1>0 DEF FinalizeClose, Goto, Return, PutThen
  <2>2. \A u \in Thread \ {t} : fin'[u] = fin[u]
    BY <1>0 DEF FinalizeClose, TypeOK
  <2> QED BY <1>0, <2>1, <2>2, ListsKeptBy
<1>4. \A c \in ctxLive \ ctxLive' : pc[t] = "fin_close" /\ c = fin[t]
  BY DEF FinalizeClose, FreeContext
<1> QED
  BY <1>1, <1>2, <1>3, <1>4 DEF QuietSessions

LEMMA TEEC_CommandInnerQuiet ==
  ASSUME ContextInv, NEW t \in Thread, TEEC_CommandInner(t)
  PROVE  QuietSessions(t)
<1>0. TypeOK
  BY DEF ContextInv
<1>1. UNCHANGED <<sesLive, sesOps, sesList, se>>
  BY DEF TEEC_CommandInner
<1>2. \A s \in Sess : lost'[s] = lost[s]
  BY DEF TEEC_CommandInner
<1>3. SessionListsKept
  <2>1. \E p : pc' = [pc EXCEPT ![t] = p] /\ p \notin {"fin_shm", "fin_close"}
    BY <1>0 DEF TEEC_CommandInner, Goto, Return, PutThen
  <2>2. \A u \in Thread \ {t} : fin'[u] = fin[u]
    BY <1>0 DEF TEEC_CommandInner, TypeOK
  <2> QED BY <1>0, <2>1, <2>2, ListsKeptBy
<1>4. \A c \in ctxLive \ ctxLive' : pc[t] = "fin_close" /\ c = fin[t]
  BY DEF TEEC_CommandInner
<1> QED
  BY <1>1, <1>2, <1>3, <1>4 DEF QuietSessions

LEMMA PutAllocShrMemQuiet ==
  ASSUME ContextInv, NEW t \in Thread, PutAllocShrMem(t)
  PROVE  QuietSessions(t)
<1>0. TypeOK
  BY DEF ContextInv
<1>1. UNCHANGED <<sesLive, sesOps, sesList, se>>
  BY DEF PutAllocShrMem
<1>2. \A s \in Sess : lost'[s] = lost[s]
  BY DEF PutAllocShrMem
<1>3. SessionListsKept
  <2>1. pc' = [pc EXCEPT ![t] = "put"] \/ pc' = [pc EXCEPT ![t] = "put_ses"]
    BY <1>0 DEF PutAllocShrMem, Goto, Return, PutThen
  <2>2. \A u \in Thread \ {t} : fin'[u] = fin[u]
    BY <1>0 DEF PutAllocShrMem, TypeOK
  <2> QED BY <1>0, <2>1, <2>2, ListsKeptBy
<1>4. \A c \in ctxLive \ ctxLive' : pc[t] = "fin_close" /\ c = fin[t]
  BY DEF PutAllocShrMem
<1> QED
  BY <1>1, <1>2, <1>3, <1>4 DEF QuietSessions

LEMMA RegisterBlockQuiet ==
  ASSUME ContextInv, NEW t \in Thread, RegisterBlock(t)
  PROVE  QuietSessions(t)
<1>0. TypeOK
  BY DEF ContextInv
<1>1. UNCHANGED <<sesLive, sesOps, sesList, se>>
  BY DEF RegisterBlock
<1>2. \A s \in Sess : lost'[s] = lost[s]
  BY DEF RegisterBlock
<1>3. SessionListsKept
  <2>1. \E p : pc' = [pc EXCEPT ![t] = p] /\ p \notin {"fin_shm", "fin_close"}
    BY <1>0 DEF RegisterBlock, Goto, Return, PutThen
  <2>2. \A u \in Thread \ {t} : fin'[u] = fin[u]
    BY <1>0 DEF RegisterBlock, TypeOK
  <2> QED BY <1>0, <2>1, <2>2, ListsKeptBy
<1>4. \A c \in ctxLive \ ctxLive' : pc[t] = "fin_close" /\ c = fin[t]
  BY DEF RegisterBlock
<1> QED
  BY <1>1, <1>2, <1>3, <1>4 DEF QuietSessions

LEMMA AllocateOffsetQuiet ==
  ASSUME ContextInv, NEW t \in Thread, AllocateOffset(t)
  PROVE  QuietSessions(t)
<1>0. TypeOK
  BY DEF ContextInv
<1>1. UNCHANGED <<sesLive, sesOps, sesList, se>>
  BY DEF AllocateOffset
<1>2. \A s \in Sess : lost'[s] = lost[s]
  BY DEF AllocateOffset
<1>3. SessionListsKept
  <2>1. \E p : pc' = [pc EXCEPT ![t] = p] /\ p \notin {"fin_shm", "fin_close"}
    BY <1>0 DEF AllocateOffset, Goto, Return, PutThen
  <2>2. \A u \in Thread \ {t} : fin'[u] = fin[u]
    BY <1>0 DEF AllocateOffset, TypeOK
  <2> QED BY <1>0, <2>1, <2>2, ListsKeptBy
<1>4. \A c \in ctxLive \ ctxLive' : pc[t] = "fin_close" /\ c = fin[t]
  BY DEF AllocateOffset
<1> QED
  BY <1>1, <1>2, <1>3, <1>4 DEF QuietSessions

LEMMA AllocateBufferQuiet ==
  ASSUME ContextInv, NEW t \in Thread, AllocateBuffer(t)
  PROVE  QuietSessions(t)
<1>0. TypeOK
  BY DEF ContextInv
<1>1. UNCHANGED <<sesLive, sesOps, sesList, se>>
  BY DEF AllocateBuffer
<1>2. \A s \in Sess : lost'[s] = lost[s]
  BY DEF AllocateBuffer
<1>3. SessionListsKept
  <2>1. \E p : pc' = [pc EXCEPT ![t] = p] /\ p \notin {"fin_shm", "fin_close"}
    BY <1>0 DEF AllocateBuffer, Goto, Return, PutThen
  <2>2. \A u \in Thread \ {t} : fin'[u] = fin[u]
    BY <1>0 DEF AllocateBuffer, TypeOK
  <2> QED BY <1>0, <2>1, <2>2, ListsKeptBy
<1>4. \A c \in ctxLive \ ctxLive' : pc[t] = "fin_close" /\ c = fin[t]
  BY DEF AllocateBuffer
<1> QED
  BY <1>1, <1>2, <1>3, <1>4 DEF QuietSessions

LEMMA ReleaseBlockQuiet ==
  ASSUME ContextInv, NEW t \in Thread, ReleaseBlock(t)
  PROVE  QuietSessions(t)
<1>0. TypeOK
  BY DEF ContextInv
<1>1. UNCHANGED <<sesLive, sesOps, sesList, se>>
  BY DEF ReleaseBlock
<1>2. \A s \in Sess : lost'[s] = lost[s]
  BY DEF ReleaseBlock
<1>3. SessionListsKept
  <2>1. \E p : pc' = [pc EXCEPT ![t] = p] /\ p \notin {"fin_shm", "fin_close"}
    BY <1>0 DEF ReleaseBlock, Goto, Return, PutThen
  <2>2. \A u \in Thread \ {t} : fin'[u] = fin[u]
    BY <1>0 DEF ReleaseBlock, TypeOK
  <2> QED BY <1>0, <2>1, <2>2, ListsKeptBy
<1>4. \A c \in ctxLive \ ctxLive' : pc[t] = "fin_close" /\ c = fin[t]
  BY DEF ReleaseBlock
<1> QED
  BY <1>1, <1>2, <1>3, <1>4 DEF QuietSessions

LEMMA PutBlockQuiet ==
  ASSUME ContextInv, NEW t \in Thread, PutBlock(t)
  PROVE  QuietSessions(t)
<1>0. TypeOK
  BY DEF ContextInv
<1>1. UNCHANGED <<sesLive, sesOps, sesList, se>>
  BY DEF PutBlock
<1>2. \A s \in Sess : lost'[s] = lost[s]
  BY DEF PutBlock
<1>3. SessionListsKept
  <2>1. pc' = [pc EXCEPT ![t] = "put"]
    BY <1>0 DEF PutBlock, Goto, Return, PutThen
  <2>2. \A u \in Thread \ {t} : fin'[u] = fin[u]
    BY <1>0 DEF PutBlock, TypeOK
  <2> QED BY <1>0, <2>1, <2>2, ListsKeptBy
<1>4. \A c \in ctxLive \ ctxLive' : pc[t] = "fin_close" /\ c = fin[t]
  BY DEF PutBlock
<1> QED
  BY <1>1, <1>2, <1>3, <1>4 DEF QuietSessions

LEMMA RegisterReplyQuiet ==
  ASSUME ContextInv, NEW t \in Thread, RegisterReply(t)
  PROVE  QuietSessions(t)
<1>0. TypeOK
  BY DEF ContextInv
<1>1. UNCHANGED <<sesLive, sesOps, sesList, se>>
  BY DEF RegisterReply
<1>2. \A s \in Sess : lost'[s] = lost[s]
  BY DEF RegisterReply
<1>3. SessionListsKept
  <2>1. pc' = [pc EXCEPT ![t] = "idle"]
    BY <1>0 DEF RegisterReply, Goto, Return, PutThen
  <2>2. \A u \in Thread \ {t} : fin'[u] = fin[u]
    BY <1>0 DEF RegisterReply, TypeOK
  <2> QED BY <1>0, <2>1, <2>2, ListsKeptBy
<1>4. \A c \in ctxLive \ ctxLive' : pc[t] = "fin_close" /\ c = fin[t]
  BY DEF RegisterReply
<1> QED
  BY <1>1, <1>2, <1>3, <1>4 DEF QuietSessions

LEMMA UndoAllocateQuiet ==
  ASSUME ContextInv, NEW t \in Thread, UndoAllocate(t)
  PROVE  QuietSessions(t)
<1>0. TypeOK
  BY DEF ContextInv
<1>1. UNCHANGED <<sesLive, sesOps, sesList, se>>
  BY DEF UndoAllocate
<1>2. \A s \in Sess : lost'[s] = lost[s]
  BY DEF UndoAllocate
<1>3. SessionListsKept
  <2>1. pc' = [pc EXCEPT ![t] = "idle"]
    BY <1>0 DEF UndoAllocate, Goto, Return, PutThen
  <2>2. \A u \in Thread \ {t} : fin'[u] = fin[u]
    BY <1>0 DEF UndoAllocate, TypeOK
  <2> QED BY <1>0, <2>1, <2>2, ListsKeptBy
<1>4. \A c \in ctxLive \ ctxLive' : pc[t] = "fin_close" /\ c = fin[t]
  BY DEF UndoAllocate
<1> QED
  BY <1>1, <1>2, <1>3, <1>4 DEF QuietSessions

LEMMA CleanPutBnContextQuiet ==
  ASSUME ContextInv, NEW t \in Thread, CleanPutBnContext(t)
  PROVE  QuietSessions(t)
<1>0. TypeOK
  BY DEF ContextInv
<1>1. UNCHANGED <<sesLive, sesOps, sesList, se>>
  BY DEF CleanPutBnContext
<1>2. \A s \in Sess : lost'[s] = lost[s]
  BY DEF CleanPutBnContext
<1>3. SessionListsKept
  <2>1. \E p : pc' = [pc EXCEPT ![t] = p] /\ p \notin {"fin_shm", "fin_close"}
    BY <1>0 DEF CleanPutBnContext, Goto, Return, PutThen
  <2>2. \A u \in Thread \ {t} : fin'[u] = fin[u]
    BY <1>0 DEF CleanPutBnContext, TypeOK
  <2> QED BY <1>0, <2>1, <2>2, ListsKeptBy
<1>4. \A c \in ctxLive \ ctxLive' : pc[t] = "fin_close" /\ c = fin[t]
  BY DEF CleanPutBnContext, DecBnContext
<1> QED
  BY <1>1, <1>2, <1>3, <1>4 DEF QuietSessions

LEMMA PutBnContextAndReleaseFdQuiet ==
  ASSUME ContextInv, NEW t \in Thread, PutBnContextAndReleaseFd(t)
  PROVE  QuietSessions(t)
<1>0. TypeOK
  BY DEF ContextInv
<1>1. UNCHANGED <<sesLive, sesOps, sesList, se>>
  BY DEF PutBnContextAndReleaseFd
<1>2. \A s \in Sess : lost'[s] = lost[s]
  BY DEF PutBnContextAndReleaseFd
<1>3. SessionListsKept
  <2>1. \E p : pc' = [pc EXCEPT ![t] = p] /\ p \notin {"fin_shm", "fin_close"}
    <3>1. loc[t].next \in ReturnPC
      BY DEF ContextInv, ControlInv
    <3> QED BY <3>1 DEF PutBnContextAndReleaseFd, Goto, Return, ReturnPC
  <2>2. \A u \in Thread \ {t} : fin'[u] = fin[u]
    BY <1>0 DEF PutBnContextAndReleaseFd, TypeOK
  <2> QED BY <1>0, <2>1, <2>2, ListsKeptBy
<1>4. \A c \in ctxLive \ ctxLive' : pc[t] = "fin_close" /\ c = fin[t]
  BY DEF PutBnContextAndReleaseFd, DecBnContext
<1> QED
  BY <1>1, <1>2, <1>3, <1>4 DEF QuietSessions

LEMMA RemoveContextFromProcDataQuiet ==
  ASSUME ContextInv, NEW t \in Thread, RemoveContextFromProcData(t)
  PROVE  QuietSessions(t)
<1>0. TypeOK
  BY DEF ContextInv
<1>1. UNCHANGED <<sesLive, sesOps, sesList, se>>
  BY DEF RemoveContextFromProcData
<1>2. \A s \in Sess : lost'[s] = lost[s]
  BY DEF RemoveContextFromProcData
<1>3. SessionListsKept
  <2>1. \E p : pc' = [pc EXCEPT ![t] = p] /\ p \notin {"fin_shm", "fin_close"}
    <3>1. loc[t].next \in ReturnPC
      BY DEF ContextInv, ControlInv
    <3> QED BY <3>1 DEF RemoveContextFromProcData, Goto, Return, ReturnPC
  <2>2. \A u \in Thread \ {t} : fin'[u] = fin[u]
    BY <1>0 DEF RemoveContextFromProcData, TypeOK
  <2> QED BY <1>0, <2>1, <2>2, ListsKeptBy
<1>4. \A c \in ctxLive \ ctxLive' : pc[t] = "fin_close" /\ c = fin[t]
  BY DEF RemoveContextFromProcData
<1> QED
  BY <1>1, <1>2, <1>3, <1>4 DEF QuietSessions

LEMMA FinalizeShmListQuiet ==
  ASSUME ContextInv, NEW t \in Thread, FinalizeShmList(t)
  PROVE  QuietSessions(t)
<1>0. TypeOK
  BY DEF ContextInv
<1>1. UNCHANGED <<sesLive, sesOps, sesList, se>>
  BY DEF FinalizeShmList
<1>2. \A s \in Sess : lost'[s] = lost[s]
  BY DEF FinalizeShmList
<1>3. SessionListsKept
  BY <1>0 DEF FinalizeShmList, Goto, SessionListsKept, TypeOK
<1>4. \A c \in ctxLive \ ctxLive' : pc[t] = "fin_close" /\ c = fin[t]
  BY DEF FinalizeShmList
<1> QED
  BY <1>1, <1>2, <1>3, <1>4 DEF QuietSessions

LEMMA CallGetBnContextQuiet ==
  ASSUME ContextInv, NEW t \in Thread, CallGetBnContext(t)
  PROVE  QuietSessions(t)
<1>0. TypeOK
  BY DEF ContextInv
<1>1. UNCHANGED <<sesLive, sesOps, sesList, se>>
  BY DEF CallGetBnContext
<1>2. \A s \in Sess : lost'[s] = lost[s]
  <2>1. ASSUME NEW c \in FindBnContext(loc[t].fd),
        Abandon({c}) PROVE \A s \in Sess : lost'[s] = lost[s]
    BY <1>0, <2>1, ServiceAssumption DEF Abandon, FindBnContext, Obj, TypeOK, InnerTypeOK
  <2> QED BY <2>1, Zenon DEF CallGetBnContext
<1>3. SessionListsKept
  <2>1. \E p : pc' = [pc EXCEPT ![t] = p] /\ p \notin {"fin_shm", "fin_close"}
    <3>1. AfterGet(loc[t].op, loc[t].off) \notin {"fin_shm", "fin_close"}
      BY DEF AfterGet
    <3> QED BY <3>1, Zenon DEF CallGetBnContext, Goto, Return, PutThen
  <2>2. \A u \in Thread \ {t} : fin'[u] = fin[u]
    BY <1>0 DEF CallGetBnContext, TypeOK
  <2> QED BY <1>0, <2>1, <2>2, ListsKeptBy
<1>4. \A c \in ctxLive \ ctxLive' : pc[t] = "fin_close" /\ c = fin[t]
  BY DEF CallGetBnContext, GetBnContext
<1> QED
  BY <1>1, <1>2, <1>3, <1>4 DEF QuietSessions

LEMMA CleanProcDataForOneCaQuiet ==
  ASSUME ContextInv, NEW t \in Thread, CleanProcDataForOneCa(t)
  PROVE  QuietSessions(t)
<1>0. TypeOK
  BY DEF ContextInv
<1>1. UNCHANGED <<sesLive, sesOps, sesList, se>>
  BY DEF CleanProcDataForOneCa
<1>2. \A s \in Sess : lost'[s] = lost[s]
  BY DEF CleanProcDataForOneCa
<1>3. SessionListsKept
  <2>1. \/ UNCHANGED pc
        \/ \E p : pc' = [pc EXCEPT ![t] = p] /\ p \notin {"fin_shm", "fin_close"}
    BY Zenon DEF CleanProcDataForOneCa, Goto, Return
  <2>2. \A u \in Thread : fin'[u] = fin[u]
    BY <1>0 DEF CleanProcDataForOneCa
  <2>3. CASE UNCHANGED pc
    BY <2>2, <2>3 DEF SessionListsKept
  <2> QED BY <1>0, <2>1, <2>2, <2>3, ListsKeptBy
<1>4. \A c \in ctxLive \ ctxLive' : pc[t] = "fin_close" /\ c = fin[t]
  BY DEF CleanProcDataForOneCa, RemoveBnContext
<1> QED
  BY <1>1, <1>2, <1>3, <1>4 DEF QuietSessions

LEMMA OnRemoteDiedQuiet ==
  ASSUME ContextInv, NEW t \in Thread, NEW a \in CA, OnRemoteDied(t, a)
  PROVE  QuietSessions(t)
<1>0. TypeOK
  BY DEF ContextInv
<1>1. UNCHANGED <<sesLive, sesOps, sesList, se>>
  BY DEF OnRemoteDied
<1>2. \A s \in Sess : lost'[s] = lost[s]
  BY DEF OnRemoteDied
<1>3. SessionListsKept
  <2>1. pc' = [pc EXCEPT ![t] = "died"]
    BY Zenon DEF OnRemoteDied, Goto
  <2>2. \A u \in Thread \ {t} : fin'[u] = fin[u]
    BY DEF OnRemoteDied
  <2> QED BY <1>0, <2>1, <2>2, ListsKeptBy
<1>4. \A c \in ctxLive \ ctxLive' : pc[t] = "fin_close" /\ c = fin[t]
  BY DEF OnRemoteDied
<1> QED
  BY <1>1, <1>2, <1>3, <1>4 DEF QuietSessions

LEMMA ProcessCaDiedQuiet ==
  ASSUME ContextInv, NEW t \in Thread, ProcessCaDied(t)
  PROVE  QuietSessions(t)
<1>0. TypeOK
  BY DEF ContextInv
<1>1. UNCHANGED <<sesLive, sesOps, sesList, se>>
  BY DEF ProcessCaDied
<1>2. \A s \in Sess : lost'[s] = lost[s]
  BY DEF ProcessCaDied
<1>3. SessionListsKept
  <2>1. \/ UNCHANGED pc
        \/ \E p : pc' = [pc EXCEPT ![t] = p] /\ p \notin {"fin_shm", "fin_close"}
    BY Zenon DEF ProcessCaDied, Goto, Return
  <2>2. \A u \in Thread : fin'[u] = fin[u]
    BY <1>0 DEF ProcessCaDied
  <2>3. CASE UNCHANGED pc
    BY <2>2, <2>3 DEF SessionListsKept
  <2> QED BY <1>0, <2>1, <2>2, <2>3, ListsKeptBy
<1>4. \A c \in ctxLive \ ctxLive' : pc[t] = "fin_close" /\ c = fin[t]
  BY DEF ProcessCaDied
<1> QED
  BY <1>1, <1>2, <1>3, <1>4 DEF QuietSessions

LEMMA InitializeContextQuiet ==
  ASSUME ContextInv, NEW t \in Thread, NEW a \in CA, NEW c \in Ctx,
         NEW f \in Fd, InitializeContext(t, a, c, f)
  PROVE  QuietSessions(t)
<1>0. TypeOK
  BY DEF ContextInv
<1>1. UNCHANGED <<sesLive, sesOps, sesList, se>>
  BY DEF InitializeContext
<1>2. \A s \in Sess : lost'[s] = lost[s]
  BY DEF InitializeContext
<1>3. SessionListsKept
  <2>1. pc' = [pc EXCEPT ![t] = "proc"]
    BY <1>0 DEF InitializeContext, Goto, Return, PutThen
  <2>2. \A u \in Thread \ {t} : fin'[u] = fin[u]
    BY <1>0 DEF InitializeContext, TypeOK
  <2> QED BY <1>0, <2>1, <2>2, ListsKeptBy
<1>4. \A d \in ctxLive \ ctxLive' : pc[t] = "fin_close" /\ d = fin[t]
  BY DEF InitializeContext, TEEC_InitializeContextInner
<1> QED
  BY <1>1, <1>2, <1>3, <1>4 DEF QuietSessions

LEMMA FinalizeContextQuiet ==
  ASSUME ContextInv, NEW t \in Thread, NEW a \in CA, NEW f \in Fd, FinalizeContext(t, a, f)
  PROVE  QuietSessions(t)
<1>0. TypeOK
  BY DEF ContextInv
<1>1. UNCHANGED <<sesLive, sesOps, sesList, se>>
  BY DEF FinalizeContext
<1>2. \A s \in Sess : lost'[s] = lost[s]
  BY DEF FinalizeContext
<1>3. SessionListsKept
  <2>1. pc' = [pc EXCEPT ![t] = "remove"]
    BY <1>0 DEF FinalizeContext, Goto, Return, PutThen
  <2>2. \A u \in Thread \ {t} : fin'[u] = fin[u]
    BY <1>0 DEF FinalizeContext, TypeOK
  <2> QED BY <1>0, <2>1, <2>2, ListsKeptBy
<1>4. \A c \in ctxLive \ ctxLive' : pc[t] = "fin_close" /\ c = fin[t]
  BY DEF FinalizeContext
<1> QED
  BY <1>1, <1>2, <1>3, <1>4 DEF QuietSessions

LEMMA BeginQuiet ==
  ASSUME ContextInv, NEW t \in Thread, NEW a, NEW o, NEW f, NEW s,
         NEW B, Begin(t, a, o, f, s, B)
  PROVE  QuietSessions(t)
<1>0. TypeOK
  BY DEF ContextInv
<1>1. UNCHANGED <<sesLive, sesOps, sesList, se>>
  BY DEF Begin
<1>2. \A x \in Sess : lost'[x] = lost[x]
  BY DEF Begin
<1>3. SessionListsKept
  <2>1. pc' = [pc EXCEPT ![t] = "get"]
    BY <1>0 DEF Begin, Goto, Return, PutThen
  <2>2. \A u \in Thread \ {t} : fin'[u] = fin[u]
    BY <1>0 DEF Begin, TypeOK
  <2> QED BY <1>0, <2>1, <2>2, ListsKeptBy
<1>4. \A c \in ctxLive \ ctxLive' : pc[t] = "fin_close" /\ c = fin[t]
  BY DEF Begin
<1> QED
  BY <1>1, <1>2, <1>3, <1>4 DEF QuietSessions

LEMMA CallGetBnSessionSes ==
  ASSUME ContextInv, ObjectControl, SessionInv, NEW t \in Thread, CallGetBnSession(t)
  PROVE  SessionInv'
<1>0. TypeOK /\ ThreadControl(t)
  BY DEF ContextInv, ObjectControl
<1>1. pc[t] = "sess" /\ loc[t].s \in Sess /\ se[t] = NoSess /\ cx[t] # NoCtx
  BY <1>0 DEF CallGetBnSession, ThreadControl, UsesSession, FinPC, ContextInv, ControlInv,
    HoldPC
<1>2. SessionListsKept /\ UNCHANGED <<ctxLive, lost>>
  <2>1. \E p : pc' = [pc EXCEPT ![t] = p] /\ p \notin {"fin_shm", "fin_close"}
    BY DEF CallGetBnSession, Goto, PutThen
  <2>2. \A u \in Thread \ {t} : fin'[u] = fin[u]
    BY DEF CallGetBnSession
  <2> QED BY <1>0, <2>1, <2>2, ListsKeptBy DEF CallGetBnSession
<1>3. CASE UNCHANGED <<sesVars, se>>
  BY <1>0, <1>2, <1>3, SessionKeep
<1>4. CASE FindBnSession(loc[t].s, cx[t]) /\ GetBnSession(loc[t].s)
      /\ se' = [se EXCEPT ![t] = loc[t].s]
  BY <1>1, <1>2, <1>4, SessionGet DEF FindBnSession
<1>5. CASE /\ FindBnSession(loc[t].s, cx[t]) /\ FindAndRemoveSession(loc[t].s)
           /\ se' = [se EXCEPT ![t] = loc[t].s]
  BY <1>1, <1>2, <1>5, SessionRemove DEF FindBnSession
<1> QED
  BY <1>3, <1>4, <1>5, Zenon DEF CallGetBnSession

LEMMA GiveUpSes ==
  ASSUME ContextInv, ObjectControl, SessionInv, NEW t \in Thread, pc[t] \in {"opt", "ioctl"},
         UNCHANGED <<ctxVars, sesVars, fin>>, GiveUp(t)
  PROVE  SessionInv'
<1>0. TypeOK /\ ThreadControl(t)
  BY DEF ContextInv, ObjectControl
<1>1. cx[t] \in Ctx /\ sm[t] \subseteq Shm /\ (loc[t].op = "close" => se[t] \in Sess)
  BY <1>0 DEF ThreadControl, UsesSession, ContextInv, ControlInv, HoldPC, TypeOK
<1>2. SessionListsKept
  <2>1. \E p : pc' = [pc EXCEPT ![t] = p] /\ p \notin {"fin_shm", "fin_close"}
    BY DEF GiveUp, Goto, Return
  <2> QED BY <1>0, <2>1, ListsKeptBy
<1>3. CASE (Abandon({cx[t]} \cup sm[t]) \/ Abandon(sm[t])) /\ UNCHANGED se
  <2>1. \A s \in Sess : lost'[s] = lost[s]
    BY <1>0, <1>1, <1>3, ServiceAssumption DEF Abandon, Obj, TypeOK
  <2> QED BY <1>2, <1>3, <2>1, SessionKeep
<1>4. CASE loc[t].op = "close" /\ Abandon({cx[t], se[t]}) /\ se' = [se EXCEPT ![t] = NoSess]
  <2>1. \A s \in Sess : lost'[s] = IF s = se[t] THEN lost[s] + 1 ELSE lost[s]
    BY <1>0, <1>1, <1>4, ServiceAssumption DEF Abandon, Obj, TypeOK
  <2> QED BY <1>1, <1>2, <1>4, <2>1, SessionAbandon
<1> QED
  BY <1>3, <1>4, Zenon DEF GiveUp

LEMMA TeecOptDecodePartialMemSes ==
  ASSUME ContextInv, ObjectControl, SessionInv, NEW t \in Thread, TeecOptDecodePartialMem(t)
  PROVE  SessionInv'
<1>0. TypeOK /\ pc[t] = "opt" /\ UNCHANGED <<ctxVars, sesVars, fin>>
  BY DEF ContextInv, TeecOptDecodePartialMem
<1>1. CASE UNCHANGED <<se, lost>> /\ \E b : Goto(t, IF loc[t].off = {b} THEN "ioctl" ELSE "opt")
  <2>1. \E p : pc' = [pc EXCEPT ![t] = p] /\ p \notin {"fin_shm", "fin_close"}
    BY <1>1 DEF Goto
  <2>2. SessionListsKept
    BY <1>0, <2>1, ListsKeptBy
  <2> QED BY <1>0, <1>1, <2>2, SessionKeep
<1>2. CASE GiveUp(t)
  BY <1>0, <1>2, GiveUpSes
<1> QED
  BY <1>1, <1>2, Zenon DEF TeecOptDecodePartialMem

LEMMA AddTidDataFailsSes ==
  ASSUME ContextInv, ObjectControl, SessionInv, NEW t \in Thread, AddTidDataFails(t)
  PROVE  SessionInv'
BY GiveUpSes DEF AddTidDataFails

LEMMA TEEC_OpenSessionInnerSes ==
  ASSUME ContextInv, ObjectControl, SessionInv, NEW t \in Thread, TEEC_OpenSessionInner(t)
  PROVE  SessionInv'
<1>0. TypeOK /\ ThreadControl(t)
  BY DEF ContextInv, ObjectControl
<1>1. se[t] = NoSess /\ cx[t] # NoCtx
  BY <1>0 DEF TEEC_OpenSessionInner, ThreadControl, UsesSession, FinPC, ContextInv, ControlInv,
    HoldPC
<1>2. SessionListsKept /\ UNCHANGED <<ctxLive, lost>>
  <2>1. \E p : pc' = [pc EXCEPT ![t] = p] /\ p \notin {"fin_shm", "fin_close"}
    BY DEF TEEC_OpenSessionInner, Goto
  <2> QED BY <1>0, <2>1, ListsKeptBy DEF TEEC_OpenSessionInner
<1>3. ASSUME NEW s \in Sess \ sesLive, AddSessionList(s, cx[t]), se' = [se EXCEPT ![t] = s]
      PROVE  SessionInv'
  BY <1>1, <1>2, <1>3, SessionAdd
<1>4. CASE UNCHANGED <<sesVars, se>>
  BY <1>2, <1>4, SessionKeep
<1> QED
  BY <1>3, <1>4, Zenon DEF TEEC_OpenSessionInner, sesVars

LEMMA ReleaseSessionSes ==
  ASSUME ContextInv, ObjectControl, SessionInv, NEW t \in Thread, ReleaseSession(t)
  PROVE  SessionInv'
<1>0. TypeOK /\ ThreadControl(t)
  BY DEF ContextInv, ObjectControl
<1>1. se[t] \in Sess
  BY <1>0 DEF ReleaseSession, ThreadControl, UsesSession, TypeOK
<1>2. SessionListsKept
  BY <1>0, ListsKeptBy DEF ReleaseSession, PutThen
<1> QED
  BY <1>1, <1>2, SessionPut DEF ReleaseSession

\* The reply was written, so the session is given back and not just freed.
LEMMA RecOpenReplySes ==
  ASSUME ContextInv, ObjectControl, SessionInv, "reply" \notin Faults, NEW t \in Thread,
         RecOpenReply(t)
  PROVE  SessionInv'
<1>0. TypeOK /\ ThreadControl(t)
  BY DEF ContextInv, ObjectControl
<1>1. se[t] \in Sess
  BY <1>0 DEF RecOpenReply, ThreadControl, UsesSession, TypeOK
<1>2. SessionListsKept
  BY <1>0, ListsKeptBy DEF RecOpenReply, Return
<1> QED
  BY <1>1, <1>2, SessionPut DEF RecOpenReply

LEMMA FinalizeSessionListSes ==
  ASSUME ContextInv, SessionInv, NEW t \in Thread, FinalizeSessionList(t)
  PROVE  SessionInv'
<1>1. fin[t] \in Ctx
  BY DEF FinalizeSessionList, ContextInv, TypeOK, ControlInv, FinPC
<1>2. \A u \in Thread \ {t} : pc'[u] = pc[u]
  BY DEF FinalizeSessionList, Goto, ContextInv, TypeOK
<1> QED
  BY <1>1, <1>2, SessionFinalize DEF FinalizeSessionList

LEMMA RequestSes ==
  ASSUME ContextInv, SessionInv, NEW t \in Thread, NEW a \in CA, Request(t, a)
  PROVE  SessionInv'
<1>1. ASSUME NEW c \in Ctx, NEW f \in Fd, InitializeContext(t, a, c, f) PROVE SessionInv'
  BY <1>1, InitializeContextQuiet, QuietSessionStep
<1>2. ASSUME NEW f \in Fd, FinalizeContext(t, a, f) PROVE SessionInv'
  BY <1>2, FinalizeContextQuiet, QuietSessionStep
<1>3. ASSUME NEW o, NEW f, NEW s, NEW B, Begin(t, a, o, f, s, B) PROVE SessionInv'
  BY <1>3, BeginQuiet, QuietSessionStep
<1> QED
  BY <1>1, <1>2, <1>3, Zenon
     DEF Request, OpenSession, InvokeCommand, CloseSession, RegisterSharedMemory,
         AllocateSharedMemory, ReleaseSharedMemory

LEMMA HandlerStepSes ==
  ASSUME ContextInv, ObjectControl, SessionInv, "reply" \notin Faults, NEW t \in Thread,
         HandlerStep(t)
  PROVE  SessionInv'
<1>0. QuietSessions(t) => SessionInv'
  BY QuietSessionStep
<1>1. CASE ContextStep(t)
  BY <1>0, <1>1, SetContextToProcDataQuiet, SetContextToProcDataFailsQuiet, ReleaseContextQuiet,
     CallFinalizeContextQuiet, PutBnContextAndReleaseFdQuiet, FinalizeSessionListSes,
     FinalizeShmListQuiet, FinalizeCloseQuiet, RemoveContextFromProcDataQuiet,
     CallGetBnContextQuiet, Zenon DEF ContextStep
<1>2. CASE SessionStep(t)
  BY <1>0, <1>2, CallGetBnSessionSes, TeecOptDecodePartialMemSes, AddTidDataFailsSes,
     TEEC_OpenSessionInnerSes, TEEC_CommandInnerQuiet, PutAllocShrMemQuiet,
     ReleaseSessionSes, RecOpenReplySes, Zenon DEF SessionStep
<1>3. CASE SharedMemoryStep(t)
  BY <1>0, <1>3, RegisterBlockQuiet, AllocateOffsetQuiet, AllocateBufferQuiet,
     ReleaseBlockQuiet, PutBlockQuiet, RegisterReplyQuiet, UndoAllocateQuiet, Zenon
     DEF SharedMemoryStep
<1>4. CASE DeathStep(t)
  BY <1>0, <1>4, ProcessCaDiedQuiet, CleanProcDataForOneCaQuiet, CleanPutBnContextQuiet, Zenon
     DEF DeathStep
<1> QED
  BY <1>1, <1>2, <1>3, <1>4, Zenon DEF HandlerStep

\* The inductive invariant: contexts, control and sessions together.
ServiceInv == ContextInv /\ ObjectControl /\ SessionInv

LEMMA ServiceInvNext ==
  ASSUME "reply" \notin Faults, ServiceInv, [Next]_vars
  PROVE  ServiceInv'
<1>0. ContextInv /\ ObjectControl /\ SessionInv
  BY DEF ServiceInv
<1>1. ContextInv' /\ ObjectControl'
  BY <1>0, ContextInvNext, ObjectControlNext
<1>2. ASSUME UNCHANGED <<ctxVars, sesVars, pc, se, fin, lost>> PROVE SessionInv'
  <2>1. \A s : SessionHolders(s)' = SessionHolders(s)
    BY <1>2 DEF SessionHolders
  <2> QED BY <1>0, <1>2, <2>1 DEF SessionInv, SessionRefCount
<1>3. ASSUME NEW a \in CA, SetCallBack(a) \/ CaDies(a) PROVE SessionInv'
  BY <1>2, <1>3 DEF SetCallBack, CaDies
<1>4. ASSUME NEW t \in Thread, NEW a \in CA, Request(t, a) \/ OnRemoteDied(t, a)
      PROVE  SessionInv'
  BY <1>0, <1>4, RequestSes, OnRemoteDiedQuiet, QuietSessionStep
<1>5. ASSUME NEW t \in Thread, HandlerStep(t) PROVE SessionInv'
  BY <1>0, <1>5, HandlerStepSes
<1>6. ASSUME UNCHANGED vars PROVE SessionInv'
  <2>1. UNCHANGED <<ctxVars, sesVars, pc, se, fin, lost>>
    BY <1>6 DEF vars
  <2> QED BY <1>2, <2>1
<1>7. ASSUME Next PROVE SessionInv'
  BY <1>3, <1>4, <1>5, <1>7, Zenon DEF Next
<1>8. SessionInv'
  BY <1>6, <1>7
<1> QED
  BY <1>1, <1>8 DEF ServiceInv

LEMMA ServiceInvInit == Init => ServiceInv
<1>1. Init => SessionInv
  BY DEF Init, InnerInit, SessionInv, SessionRefCount, Obj
<1> QED
  BY <1>1, ContextInvInit, ObjectControlInit DEF ServiceInv

LEMMA ServiceInvAlways ==
  ASSUME "reply" \notin Faults
  PROVE  Spec => []ServiceInv
<1>1. ServiceInv /\ [Next]_vars => ServiceInv'
  BY ServiceInvNext
<1> QED
  BY <1>1, ServiceInvInit, PTL DEF Spec

\* ops_cnt of every session counts exactly its references, a session in a handler's hands
\* is never freed and a listed one is listed in a live context, as long as the replies of
\* OpenSession can be written: the handler that fails to write one frees the session
\* whoever else has it (RecOpenReply).
THEOREM SessionsCounted ==
  ASSUME "reply" \notin Faults
  PROVE  Spec => []SessionRefCount
<1>1. ServiceInv => SessionRefCount
  BY DEF ServiceInv, SessionInv
<1> QED
  BY <1>1, ServiceInvAlways, PTL

-----------------------------------------------------------------------------
(* Shared memory: the count and the offsets under each kind of step *)

\* The block has its offset but is on no list yet: AllocateSharedMemory is mapping it.
Fresh(m) == \E t \in Thread : loc[t].blk = m

BlockCounted(m) ==
  shmOps[m] = Cardinality(ShmHolders(m)) + (IF shmList[m] # NoCtx THEN 1 ELSE 0) + lost[m]

BlockCount == \A m \in shmLive : Fresh(m) \/ (BlockCounted(m) /\ shmOps[m] > 0)

\* Where blocks are: a listed block is listed in its own live context; a handler only has
\* blocks of the context it holds, each of them once; a context is freed with no block left.
BlockPlace ==
  /\ \A m \in Shm \ shmLive : lost[m] = 0 /\ shmList[m] = NoCtx
  /\ \A m \in Shm : shmList[m] # NoCtx => shmList[m] = shmCtx[m] /\ shmCtx[m] \in ctxLive
  /\ \A t \in Thread : \A m \in sm[t] :
       /\ m \in shmLive /\ shmCtx[m] = cx[t]
       /\ pc[t] = "opt" => shmOff[m] \notin loc[t].off
  /\ \A t \in Thread : pc[t] = "fin_close" => \A m \in Shm : shmList[m] # fin[t]

\* A fresh block is known to its allocating handler alone.
FreshAlone ==
  \A t \in Thread : \A m \in Shm : loc[t].blk = m =>
    /\ m \in shmLive /\ shmList[m] = NoCtx /\ lost[m] = 0 /\ shmCtx[m] = cx[t]
    /\ \A u \in Thread : m \notin sm[u] /\ (loc[u].blk = m => u = t)

BlockInv == BlockCount /\ BlockPlace /\ FreshAlone /\ OffsetExclusive

LEMMA ReleasableIs ==
  ASSUME NEW m
  PROVE  m \in Releasable <=>
           m \in shmLive /\ (shmList[m] # NoCtx \/ Fresh(m) \/ \E t \in Thread : m \in sm[t])
BY DEF Releasable, Fresh

LEMMA ReleasableNext ==
  ASSUME NEW m
  PROVE  m \in Releasable' <=>
           m \in shmLive'
             /\ (shmList'[m] # NoCtx \/ Fresh(m)' \/ \E t \in Thread : m \in sm'[t])
BY DEF Releasable, Fresh

LEMMA ShmHoldersFinite ==
  ASSUME NEW m
  PROVE  IsFiniteSet(ShmHolders(m)) /\ Cardinality(ShmHolders(m)) \in Nat
<1>1. ShmHolders(m) \in SUBSET Thread
  BY DEF ShmHolders
<1> QED
  BY <1>1, ServiceAssumption, FS_Subset, FS_CardinalityType

LEMMA ShmHoldersGain ==
  ASSUME TypeOK, NEW t \in Thread, NEW m \in Shm, m \notin sm[t],
         sm' = [sm EXCEPT ![t] = sm[t] \cup {m}]
  PROVE  \A n \in Shm : Cardinality(ShmHolders(n)')
           = IF n = m THEN Cardinality(ShmHolders(n)) + 1 ELSE Cardinality(ShmHolders(n))
<1> TAKE n \in Shm
<1>1. CASE n = m
  <2>1. ShmHolders(n)' = ShmHolders(n) \cup {t}
    BY <1>1 DEF TypeOK, ShmHolders
  <2>2. t \notin ShmHolders(n)
    BY <1>1 DEF ShmHolders
  <2> QED
    BY <1>1, <2>1, <2>2, ShmHoldersFinite, FS_AddElement
<1>2. CASE n # m
  <2>1. ShmHolders(n)' = ShmHolders(n)
    BY <1>2 DEF TypeOK, ShmHolders
  <2> QED
    BY <1>2, <2>1
<1> QED
  BY <1>1, <1>2

LEMMA ShmHoldersDrop ==
  ASSUME TypeOK, NEW t \in Thread, sm' = [sm EXCEPT ![t] = {}]
  PROVE  \A n \in Shm :
           /\ n \in sm[t] => Cardinality(ShmHolders(n)) >= 1
           /\ Cardinality(ShmHolders(n)')
                = IF n \in sm[t] THEN Cardinality(ShmHolders(n)) - 1 ELSE Cardinality(ShmHolders(n))
<1> TAKE n \in Shm
<1>1. CASE n \in sm[t]
  <2>1. ShmHolders(n)' = ShmHolders(n) \ {t}
    BY <1>1 DEF TypeOK, ShmHolders
  <2>2. t \in ShmHolders(n)
    BY <1>1 DEF ShmHolders
  <2>3. Cardinality(ShmHolders(n)) # 0
    BY <2>2, ShmHoldersFinite, FS_EmptySet
  <2>4. Cardinality(ShmHolders(n)) \in Nat
    BY ShmHoldersFinite
  <2>5. Cardinality(ShmHolders(n)) >= 1
    BY <2>3, <2>4
  <2>6. Cardinality(ShmHolders(n)') = Cardinality(ShmHolders(n)) - 1
    BY <2>1, <2>2, ShmHoldersFinite, FS_RemoveElement
  <2> QED
    BY <1>1, <2>5, <2>6
<1>2. CASE n \notin sm[t]
  <2>1. ShmHolders(n)' = ShmHolders(n)
    BY <1>2 DEF TypeOK, ShmHolders
  <2> QED
    BY <1>2, <2>1
<1> QED
  BY <1>1, <1>2

LEMMA BlockTypes ==
  ASSUME TypeOK, NEW m \in Shm
  PROVE  shmOps[m] \in Int /\ lost[m] \in Nat /\ Cardinality(ShmHolders(m)) \in Nat
BY ShmHoldersFinite DEF TypeOK, InnerTypeOK, Obj

\* Blocks that stay releasable keep their offset, and its bit.
LEMMA OffsetsKept ==
  ASSUME OffsetExclusive,
         \A m \in Releasable' : shmOff'[m] # NoBit =>
           /\ m \in Releasable /\ shmOff'[m] = shmOff[m] /\ shmCtx'[m] = shmCtx[m]
           /\ shmOff[m] \in bitmap[shmCtx[m]] => shmOff[m] \in bitmap'[shmCtx[m]]
  PROVE  OffsetExclusive'
<1> SUFFICES ASSUME NEW m \in Releasable', shmOff'[m] # NoBit
             PROVE  /\ shmOff'[m] \in bitmap'[shmCtx'[m]]
                    /\ \A n \in Releasable' : shmCtx'[n] = shmCtx'[m]
                      /\ shmOff'[n] = shmOff'[m] => n = m
  BY DEF OffsetExclusive
<1>1. /\ m \in Releasable /\ shmOff'[m] = shmOff[m] /\ shmCtx'[m] = shmCtx[m]
      /\ shmOff[m] \in bitmap[shmCtx[m]] => shmOff[m] \in bitmap'[shmCtx[m]]
  OBVIOUS
<1>2. shmOff'[m] \in bitmap'[shmCtx'[m]]
  BY <1>1 DEF OffsetExclusive
<1>3. ASSUME NEW n \in Releasable', shmCtx'[n] = shmCtx'[m], shmOff'[n] = shmOff'[m] PROVE n = m
  <2>1. n \in Releasable /\ shmOff'[n] = shmOff[n] /\ shmCtx'[n] = shmCtx[n]
    BY <1>3
  <2> QED BY <1>1, <1>3, <2>1 DEF OffsetExclusive
<1> QED
  BY <1>2, <1>3

\* What a step of t leaves alone in the other handlers.
OthersKept(t) ==
  \A u \in Thread \ {t} :
    /\ pc'[u] = pc[u] /\ loc'[u] = loc[u] /\ cx'[u] = cx[u] /\ fin'[u] = fin[u]
    /\ sm'[u] = sm[u]

\* The allocated blocks are in the hands of handlers that hold a live context.
LEMMA ReleasableLive ==
  ASSUME ContextInv, ObjectControl, BlockInv
  PROVE  ShmContextLive
<1> SUFFICES ASSUME NEW m \in Releasable PROVE shmCtx[m] \in ctxLive
  BY DEF ShmContextLive
<1>0. m \in Shm /\ TypeOK
  BY DEF Releasable, ContextInv, TypeOK, InnerTypeOK
<1>1. CASE shmList[m] # NoCtx
  BY <1>0, <1>1 DEF BlockInv, BlockPlace
<1>2. ASSUME NEW t \in Thread, m \in sm[t] PROVE shmCtx[m] \in ctxLive
  <2>1. pc[t] \in HoldPC
    BY <1>2 DEF ObjectControl, ThreadControl, HoldPC
  <2> QED BY <1>2, <2>1 DEF BlockInv, BlockPlace, ContextInv, ControlInv, RefInv
<1>3. ASSUME NEW t \in Thread, loc[t].blk = m PROVE shmCtx[m] \in ctxLive
  <2>1. pc[t] \in HoldPC
    BY <1>0, <1>3, InnerAssumption DEF ObjectControl, ThreadControl, HoldPC
  <2> QED BY <1>0, <1>3, <2>1 DEF BlockInv, FreshAlone, ContextInv, ControlInv, RefInv
<1> QED
  BY <1>1, <1>2, <1>3 DEF Releasable

\* Steps that touch no reference to a block.
LEMMA BlockKeep ==
  ASSUME ContextInv, ObjectControl, BlockInv, NEW t \in Thread, OthersKept(t),
         UNCHANGED <<shmLive, shmOps, shmList, shmCtx, shmOff, sm>>,
         loc[t].blk = NoShm, loc'[t].blk = NoShm,
         sm[t] # {} => cx'[t] = cx[t] /\ pc'[t] # "opt",
         \A m \in Shm : lost'[m] = lost[m],
         \A c \in ctxLive : bitmap'[c] = bitmap[c],
         pc'[t] # "fin_close",
         \A c \in ctxLive \ ctxLive' : pc[t] = "fin_close" /\ c = fin[t]
  PROVE  BlockInv'
<1>0. TypeOK /\ shmLive \subseteq Shm
  BY DEF ContextInv, TypeOK, InnerTypeOK
<1>1. \A m : ShmHolders(m)' = ShmHolders(m)
  BY DEF ShmHolders
<1>2. \A u \in Thread : loc'[u].blk = loc[u].blk
  BY DEF OthersKept
<1>3. \A m : Fresh(m)' <=> Fresh(m)
  BY <1>2 DEF Fresh
<1>4. BlockCount'
  BY <1>0, <1>1, <1>3 DEF BlockInv, BlockCount, BlockCounted
<1>5. BlockPlace'
  <2>1. \A m \in Shm : shmList'[m] # NoCtx => shmList'[m] = shmCtx'[m]
        /\ shmCtx'[m] \in ctxLive'
    BY DEF BlockInv, BlockPlace
  <2>2. ASSUME NEW u \in Thread, NEW m \in sm'[u]
        PROVE  /\ m \in shmLive' /\ shmCtx'[m] = cx'[u]
               /\ pc'[u] = "opt" => shmOff'[m] \notin loc'[u].off
    <3>1. CASE u = t
      BY <2>2, <3>1 DEF BlockInv, BlockPlace
    <3>2. CASE u # t
      BY <2>2, <3>2 DEF BlockInv, BlockPlace, OthersKept
    <3> QED BY <3>1, <3>2
  <2>3. \A u \in Thread : pc'[u] = "fin_close" => \A m \in Shm : shmList'[m] # fin'[u]
    BY DEF BlockInv, BlockPlace, OthersKept
  <2>4. \A m \in Shm \ shmLive' : lost'[m] = 0 /\ shmList'[m] = NoCtx
    BY DEF BlockInv, BlockPlace
  <2> QED BY <2>1, <2>2, <2>3, <2>4 DEF BlockPlace
<1>6. FreshAlone'
  <2> SUFFICES ASSUME NEW u \in Thread, NEW m \in Shm, loc'[u].blk = m
               PROVE  /\ m \in shmLive' /\ shmList'[m] = NoCtx /\ lost'[m] = 0
                 /\ shmCtx'[m] = cx'[u]
                      /\ \A v \in Thread : m \notin sm'[v] /\ (loc'[v].blk = m => v = u)
    BY DEF FreshAlone
  <2>1. u # t /\ loc[u].blk = m /\ cx'[u] = cx[u]
    BY InnerAssumption DEF OthersKept
  <2> QED BY <1>2, <2>1 DEF BlockInv, FreshAlone
<1>7. OffsetExclusive'
  <2>1. \A m : m \in Releasable' <=> m \in Releasable
    BY <1>3, ReleasableIs, ReleasableNext
  <2>2. \A m \in Releasable : shmCtx[m] \in ctxLive
    BY ReleasableLive DEF ShmContextLive
  <2>3. OffsetExclusive
    BY DEF BlockInv
  <2> QED BY <2>1, <2>2, <2>3, OffsetsKept
<1> QED
  BY <1>4, <1>5, <1>6, <1>7 DEF BlockInv

-----------------------------------------------------------------------------
(* Shared memory: the parts of the invariant under a step of t *)

\* A context a handler has a reference to is not being torn down.
LEMMA HeldNotTornDown ==
  ASSUME ContextInv, NEW t \in Thread, NEW u \in Thread, cx[t] # NoCtx, fin[u] # NoCtx
  PROVE  cx[t] # fin[u]
<1>1. Holders(fin[u]) = {}
  BY TornDownUnreachable
<1> QED
  BY <1>1 DEF Holders

\* What holds of a block in a handler's hands, on a list, or being mapped.
LEMMA BlockFacts ==
  ASSUME ContextInv, ObjectControl, BlockInv
  PROVE  /\ \A u \in Thread : sm[u] # {} => cx[u] \in ctxLive /\ cx[u] # NoCtx
         /\ \A u \in Thread : \A m \in sm[u] :
              m \in Shm /\ m \in shmLive /\ shmCtx[m] = cx[u] /\ ~ Fresh(m)
         /\ \A m \in Shm : shmList[m] # NoCtx => m \in shmLive /\ ~ Fresh(m)
         /\ \A m \in Shm : Fresh(m) => m \in shmLive
<1>0. TypeOK /\ NoCtx \notin Ctx /\ ctxLive \subseteq Ctx
  BY InnerAssumption DEF ContextInv, TypeOK, InnerTypeOK
<1>1. ASSUME NEW u \in Thread, sm[u] # {} PROVE cx[u] \in ctxLive /\ cx[u] # NoCtx
  <2>1. pc[u] \in HoldPC
    BY <1>1 DEF ObjectControl, ThreadControl, HoldPC
  <2> QED BY <2>1 DEF ContextInv, ControlInv, RefInv
<1>2. ASSUME NEW u \in Thread, NEW m \in sm[u]
      PROVE  m \in Shm /\ m \in shmLive /\ shmCtx[m] = cx[u] /\ ~ Fresh(m)
  <2>1. m \in Shm
    BY <1>0 DEF TypeOK
  <2> QED BY <2>1 DEF BlockInv, BlockPlace, FreshAlone, Fresh
<1>3. \A m \in Shm : shmList[m] # NoCtx => m \in shmLive /\ ~ Fresh(m)
  BY DEF BlockInv, BlockPlace, FreshAlone, Fresh
<1>4. \A m \in Shm : Fresh(m) => m \in shmLive
  BY DEF BlockInv, FreshAlone, Fresh
<1> QED
  BY <1>1, <1>2, <1>3, <1>4

\* After a step that leaves no block of t unlisted, a fresh block is one of another handler.
LEMMA FreshKept ==
  ASSUME FreshAlone, NEW t \in Thread, OthersKept(t), loc'[t].blk = NoShm,
         \A u \in Thread \ {t} : \A m \in Shm : loc[u].blk = m =>
           /\ m \in shmLive' /\ shmList'[m] = shmList[m] /\ lost'[m] = lost[m]
           /\ shmCtx'[m] = shmCtx[m] /\ m \notin sm'[t]
  PROVE  FreshAlone'
<1> SUFFICES ASSUME NEW u \in Thread, NEW m \in Shm, loc'[u].blk = m
             PROVE  /\ m \in shmLive' /\ shmList'[m] = NoCtx /\ lost'[m] = 0
               /\ shmCtx'[m] = cx'[u]
                    /\ \A v \in Thread : m \notin sm'[v] /\ (loc'[v].blk = m => v = u)
  BY DEF FreshAlone
<1>1. u # t /\ loc[u].blk = m /\ cx'[u] = cx[u]
  BY InnerAssumption DEF OthersKept
<1>2. /\ m \in shmLive' /\ shmList'[m] = NoCtx /\ lost'[m] = 0 /\ shmCtx'[m] = cx'[u]
  BY <1>1 DEF FreshAlone
<1>3. ASSUME NEW v \in Thread PROVE m \notin sm'[v] /\ (loc'[v].blk = m => v = u)
  <2>1. CASE v = t
    BY <1>1, <2>1, InnerAssumption
  <2>2. CASE v # t
    BY <1>1, <2>2 DEF FreshAlone, OthersKept
  <2> QED BY <2>1, <2>2
<1> QED
  BY <1>2, <1>3

\* The blocks of the other handlers keep their context and offset; t lists blocks only in
\* the context it holds.
LEMMA PlaceKept ==
  ASSUME ContextInv, BlockPlace, NEW t \in Thread, OthersKept(t),
         UNCHANGED ctxLive, cx[t] # NoCtx, pc'[t] # "fin_close",
         \A m \in Shm \ shmLive' : lost'[m] = 0 /\ shmList'[m] = NoCtx,
         \A m \in Shm : shmList'[m] # NoCtx =>
           \/ shmList'[m] = cx[t] /\ shmCtx'[m] = cx[t]
           \/ shmList'[m] = shmList[m] /\ shmCtx'[m] = shmCtx[m],
         \A u \in Thread \ {t} : \A m \in sm[u] :
           m \in shmLive' /\ shmCtx'[m] = shmCtx[m] /\ shmOff'[m] = shmOff[m],
         \A m \in sm'[t] :
           /\ m \in shmLive' /\ shmCtx'[m] = cx'[t]
           /\ pc'[t] = "opt" => shmOff'[m] \notin loc'[t].off
  PROVE  BlockPlace'
<1>1. cx[t] \in ctxLive
  BY DEF ContextInv, RefInv
<1>2. \A m \in Shm : shmList'[m] # NoCtx => shmList'[m] = shmCtx'[m] /\ shmCtx'[m] \in ctxLive'
  BY <1>1 DEF BlockPlace
<1>3. ASSUME NEW u \in Thread, NEW m \in sm'[u]
      PROVE  /\ m \in shmLive' /\ shmCtx'[m] = cx'[u]
             /\ pc'[u] = "opt" => shmOff'[m] \notin loc'[u].off
  <2>1. CASE u = t
    BY <1>3, <2>1
  <2>2. CASE u # t
    BY <1>3, <2>2 DEF BlockPlace, OthersKept
  <2> QED BY <2>1, <2>2
<1>4. ASSUME NEW u \in Thread, pc'[u] = "fin_close", NEW m \in Shm PROVE shmList'[m] # fin'[u]
  <2>1. u # t /\ pc[u] = "fin_close" /\ fin'[u] = fin[u]
    BY <1>4 DEF OthersKept
  <2>2. fin[u] # NoCtx
    BY <2>1 DEF ContextInv, ControlInv, FinPC
  <2>3. fin[u] # cx[t]
    BY <2>2, HeldNotTornDown
  <2> QED BY <2>1, <2>2, <2>3 DEF BlockPlace
<1> QED
  BY <1>2, <1>3, <1>4 DEF BlockPlace

\* PutBnShrMem, block by block.
LEMMA PutShm ==
  ASSUME TypeOK, NEW M \in SUBSET Shm, PutBnShrMem(M)
  PROVE  /\ shmLive' \subseteq shmLive
         /\ \A m \in Shm :
              /\ shmOps'[m] = IF m \in M THEN shmOps[m] - 1 ELSE shmOps[m]
              /\ m \in shmLive' <=> m \in shmLive /\ ~ (m \in M /\ shmOps[m] = 1)
              /\ ~ (m \in M /\ shmOps[m] = 1) => shmCtx'[m] = shmCtx[m]
                /\ shmOff'[m] = shmOff[m]
BY DEF PutBnShrMem

\* It clears the bits of the blocks it frees and no other bit: no two blocks share one.
LEMMA PutOffsets ==
  ASSUME TypeOK, OffsetExclusive, ShmContextLive, NEW M \in SUBSET Shm, M \subseteq Releasable,
         PutBnShrMem(M), Releasable' \subseteq Releasable
  PROVE  OffsetExclusive'
<1>1. ASSUME NEW m \in Releasable', shmOff'[m] # NoBit
      PROVE  /\ m \in Releasable /\ shmOff'[m] = shmOff[m] /\ shmCtx'[m] = shmCtx[m]
             /\ shmOff[m] \in bitmap[shmCtx[m]] => shmOff[m] \in bitmap'[shmCtx[m]]
  <2>1. m \in Releasable /\ m \in shmLive' /\ m \in Shm /\ shmCtx[m] \in Ctx
    BY DEF Releasable, ShmContextLive, TypeOK, InnerTypeOK
  <2>2. ~ (m \in M /\ shmOps[m] = 1) /\ shmCtx'[m] = shmCtx[m] /\ shmOff'[m] = shmOff[m]
    BY <2>1, PutShm
  <2>3. ASSUME NEW d \in M, shmOps[d] = 1, shmCtx[d] = shmCtx[m]
        PROVE  shmOff[d] # shmOff[m]
    BY <1>1, <2>1, <2>2, <2>3 DEF OffsetExclusive
  <2>4. bitmap'[shmCtx[m]] = bitmap[shmCtx[m]] \
          {shmOff[n] : n \in {d \in {k \in M : shmOps[k] = 1} : shmCtx[d] = shmCtx[m]}}
    BY <2>1 DEF PutBnShrMem
  <2> QED BY <2>1, <2>2, <2>3, <2>4
<1> QED
  BY <1>1, OffsetsKept

-----------------------------------------------------------------------------
(* Shared memory: the kinds of step *)

LEMMA BlockGet ==
  ASSUME ContextInv, ObjectControl, BlockInv, NEW t \in Thread, OthersKept(t),
         UNCHANGED <<ctxLive, lost>>, pc[t] = "opt", NEW b \in loc[t].off,
         NEW m \in FindShmByOffset(b, cx[t]), GetBnShm(m),
         sm' = [sm EXCEPT ![t] = sm[t] \cup {m}], cx'[t] = cx[t],
         loc'[t].off = loc[t].off \ {b}, loc'[t].blk = NoShm, pc'[t] # "fin_close"
  PROVE  BlockInv'
<1>0. TypeOK /\ shmLive \subseteq Shm /\ cx[t] # NoCtx
  BY DEF ContextInv, TypeOK, InnerTypeOK, ControlInv, HoldPC
<1>1. m \in Shm /\ shmList[m] = cx[t] /\ shmOff[m] = b /\ m \in shmLive /\ ~ Fresh(m)
      /\ shmCtx[m] = cx[t]
  BY <1>0, BlockFacts DEF FindShmByOffset, BlockInv, BlockPlace
<1>2. m \notin sm[t]
  BY <1>1 DEF BlockInv, BlockPlace
<1>3. loc[t].blk = NoShm
  BY DEF ObjectControl, ThreadControl
<1>4. \A n : Fresh(n)' <=> Fresh(n)
  BY <1>3 DEF Fresh, OthersKept
<1>5. sm'[t] = sm[t] \cup {m}
  BY <1>0 DEF TypeOK
<1>6. BlockCount'
  <2> SUFFICES ASSUME NEW n \in shmLive, ~ Fresh(n)
               PROVE  BlockCounted(n)' /\ shmOps'[n] > 0
    BY <1>4 DEF BlockCount, GetBnShm
  <2>1. BlockCounted(n) /\ shmOps[n] > 0 /\ n \in Shm
    BY <1>0 DEF BlockInv, BlockCount
  <2>2. Cardinality(ShmHolders(n)')
          = IF n = m THEN Cardinality(ShmHolders(n)) + 1 ELSE Cardinality(ShmHolders(n))
    BY <1>0, <1>1, <1>2, <2>1, ShmHoldersGain
  <2>3. shmOps'[n] = (IF n = m THEN shmOps[n] + 1 ELSE shmOps[n]) /\ shmList'[n] = shmList[n]
    BY <1>0, <2>1 DEF GetBnShm, TypeOK, InnerTypeOK
  <2> QED BY <1>0, <2>1, <2>2, <2>3, BlockTypes DEF BlockCounted
<1>7. BlockPlace'
  <2>1. \A n \in sm'[t] :
           /\ n \in shmLive' /\ shmCtx'[n] = cx'[t]
           /\ pc'[t] = "opt" => shmOff'[n] \notin loc'[t].off
    BY <1>1, <1>5 DEF BlockInv, BlockPlace, GetBnShm
  <2>2. /\ \A n \in Shm \ shmLive' : lost'[n] = 0 /\ shmList'[n] = NoCtx
        /\ \A u \in Thread \ {t} : \A n \in sm[u] : n \in shmLive' 
    BY DEF BlockInv, BlockPlace, GetBnShm
  <2> QED BY <1>0, <2>1, <2>2, PlaceKept DEF BlockInv, GetBnShm
<1>8. FreshAlone'
  <2>1. \A u \in Thread : loc[u].blk # m
    BY <1>1 DEF Fresh
  <2>2. \A u \in Thread \ {t} : \A n \in Shm : loc[u].blk = n => n \in shmLive
        /\ n \notin sm'[t]
    BY <1>5, <2>1 DEF BlockInv, FreshAlone
  <2> QED BY <2>2, FreshKept DEF BlockInv, GetBnShm
<1>9. OffsetExclusive'
  <2>1. \A n : n \in Releasable' => n \in Releasable
    <3> TAKE n
    <3>1. CASE n = m
      BY <1>0, <1>1, <3>1, ReleasableIs
    <3>2. ASSUME n # m, NEW u \in Thread, n \in sm'[u] PROVE \E v \in Thread : n \in sm[v]
      <4>1. CASE u = t
        BY <1>5, <3>2, <4>1
      <4>2. CASE u # t
        BY <3>2, <4>2 DEF OthersKept
      <4> QED BY <4>1, <4>2
    <3> QED BY <1>4, <3>1, <3>2, ReleasableIs, ReleasableNext DEF GetBnShm
  <2> QED BY <2>1, OffsetsKept DEF BlockInv, GetBnShm
<1> QED
  BY <1>6, <1>7, <1>8, <1>9 DEF BlockInv

\* The handler's own blocks are given back together; the last reference frees a block.
LEMMA BlockPut ==
  ASSUME ContextInv, ObjectControl, BlockInv, NEW t \in Thread, OthersKept(t),
         UNCHANGED <<ctxLive, lost, shmList>>, pc[t] \in {"put_shm", "put_blk"},
         PutBnShrMem(sm[t]), sm' = [sm EXCEPT ![t] = {}], cx'[t] = cx[t],
         loc'[t].blk = NoShm, pc'[t] # "fin_close"
  PROVE  BlockInv'
<1>0. TypeOK /\ shmLive \subseteq Shm /\ cx[t] # NoCtx /\ sm[t] \in SUBSET Shm
  BY DEF ContextInv, TypeOK, InnerTypeOK, ControlInv, HoldPC
<1>1. loc[t].blk = NoShm
  BY DEF ObjectControl, ThreadControl
<1>2. \A n : Fresh(n)' <=> Fresh(n)
  BY <1>1 DEF Fresh, OthersKept
<1>3. sm'[t] = {}
  BY <1>0 DEF TypeOK
<1>4. \A n \in Shm : n \in sm[t] /\ shmOps[n] = 1 =>
        shmList[n] = NoCtx /\ lost[n] = 0 /\ \A u \in Thread : n \in sm[u] => u = t
  <2> SUFFICES ASSUME NEW n \in Shm, n \in sm[t], shmOps[n] = 1
               PROVE  shmList[n] = NoCtx /\ lost[n] = 0
                 /\ \A u \in Thread : n \in sm[u] => u = t
    OBVIOUS
  <2>1. BlockCounted(n)
    BY BlockFacts DEF BlockInv, BlockCount
  <2>2. Cardinality(ShmHolders(n)) >= 1
    BY <1>0, ShmHoldersDrop
  <2>3. shmList[n] = NoCtx /\ lost[n] = 0 /\ Cardinality(ShmHolders(n)) = 1
    BY <1>0, <2>1, <2>2, BlockTypes DEF BlockCounted
  <2>4. PICK v : ShmHolders(n) = {v}
    BY <2>3, ShmHoldersFinite, FS_Singleton
  <2>5. ASSUME NEW u \in Thread, n \in sm[u] PROVE u = t
    <3>1. u \in ShmHolders(n) /\ t \in ShmHolders(n)
      BY <2>5 DEF ShmHolders
    <3> QED BY <2>4, <3>1
  <2> QED BY <2>3, <2>5
<1>5. BlockCount'
  <2> SUFFICES ASSUME NEW n \in shmLive', ~ Fresh(n)
               PROVE  BlockCounted(n)' /\ shmOps'[n] > 0
    BY <1>2 DEF BlockCount
  <2>0. n \in Shm /\ n \in shmLive
    BY <1>0, PutShm
  <2>1. BlockCounted(n) /\ shmOps[n] > 0
    BY <2>0 DEF BlockInv, BlockCount
  <2>2. Cardinality(ShmHolders(n)')
          = IF n \in sm[t] THEN Cardinality(ShmHolders(n)) - 1 ELSE Cardinality(ShmHolders(n))
    BY <1>0, <2>0, ShmHoldersDrop
  <2>3. /\ shmOps'[n] = IF n \in sm[t] THEN shmOps[n] - 1 ELSE shmOps[n]
        /\ ~ (n \in sm[t] /\ shmOps[n] = 1)
    BY <1>0, <2>0, PutShm
  <2> QED BY <1>0, <2>0, <2>1, <2>2, <2>3, BlockTypes DEF BlockCounted
<1>6. BlockPlace'
  <2>1. \A n \in Shm \ shmLive' : lost'[n] = 0 /\ shmList'[n] = NoCtx
    <3> SUFFICES ASSUME NEW n \in Shm, n \notin shmLive' PROVE lost[n] = 0 /\ shmList[n] = NoCtx
      OBVIOUS
    <3>1. CASE n \in shmLive
      BY <1>0, <1>4, <3>1, PutShm
    <3>2. CASE n \notin shmLive
      BY <3>2 DEF BlockInv, BlockPlace
    <3> QED BY <3>1, <3>2
  <2>2. \A n \in Shm : shmList[n] # NoCtx => shmCtx'[n] = shmCtx[n]
    BY <1>0, <1>4, PutShm
  <2>3. \A u \in Thread \ {t} : \A n \in sm[u] :
           n \in shmLive' /\ shmCtx'[n] = shmCtx[n] /\ shmOff'[n] = shmOff[n]
    BY <1>0, <1>4, BlockFacts, PutShm
  <2>4. BlockPlace
    BY DEF BlockInv
  <2> QED BY <1>0, <1>3, <2>1, <2>2, <2>3, <2>4, PlaceKept
<1>7. FreshAlone'
  <2>1. \A u \in Thread \ {t} : \A n \in Shm : loc[u].blk = n =>
          n \notin sm[t] /\ n \in shmLive /\ n \notin sm'[t]
    BY <1>3 DEF BlockInv, FreshAlone
  <2>2. \A u \in Thread \ {t} : \A n \in Shm : loc[u].blk = n =>
          n \in shmLive' /\ shmCtx'[n] = shmCtx[n]
    BY <1>0, <2>1, PutShm
  <2> QED BY <2>1, <2>2, FreshKept DEF BlockInv
<1>8. OffsetExclusive'
  <2>1. \A n : n \in Releasable' => n \in Releasable
    <3> TAKE n
    <3>1. n \in shmLive' => n \in shmLive
      BY <1>0, PutShm
    <3>2. ASSUME NEW u \in Thread, n \in sm'[u] PROVE n \in sm[u]
      BY <1>3, <3>2 DEF OthersKept
    <3> QED BY <1>2, <3>1, <3>2, ReleasableIs, ReleasableNext
  <2>2. sm[t] \subseteq Releasable
    BY BlockFacts, ReleasableIs
  <2>3. ShmContextLive
    BY ReleasableLive
  <2> QED BY <1>0, <2>1, <2>2, <2>3, PutOffsets DEF BlockInv
<1> QED
  BY <1>5, <1>6, <1>7, <1>8 DEF BlockInv

\* TEEC_FinalizeContextInner empties the list of a context nobody has a reference to.
LEMMA BlockFinalize ==
  ASSUME ContextInv, ObjectControl, BlockInv, NEW t \in Thread, OthersKept(t),
         UNCHANGED <<ctxLive, lost, sm, loc, cx, fin>>, pc[t] = "fin_shm",
         FinalizeSharedMemory(fin[t])
  PROVE  BlockInv'
<1> DEFINE mine == {n \in Shm : shmList[n] = fin[t]}
<1>0. TypeOK /\ shmLive \subseteq Shm /\ fin[t] # NoCtx /\ fin[t] \in ctxLive
  BY DEF ContextInv, TypeOK, InnerTypeOK, ControlInv, FinPC, RefInv
<1>1. /\ mine \in SUBSET Shm /\ PutBnShrMem(mine)
      /\ \A n \in Shm : shmList'[n] = IF n \in mine THEN NoCtx ELSE shmList[n]
  BY DEF FinalizeSharedMemory
<1>2. \A n : Fresh(n)' <=> Fresh(n)
  BY DEF Fresh
<1>3. \A n \in mine : n \in shmLive /\ ~ Fresh(n) /\ \A u \in Thread : n \notin sm[u]
  <2> SUFFICES ASSUME NEW n \in mine
               PROVE  n \in shmLive /\ ~ Fresh(n) /\ \A u \in Thread : n \notin sm[u]
    OBVIOUS
  <2>1. n \in shmLive /\ ~ Fresh(n) /\ shmCtx[n] = fin[t]
    BY <1>0, BlockFacts DEF BlockInv, BlockPlace
  <2>2. ASSUME NEW u \in Thread, n \in sm[u] PROVE FALSE
    <3>1. cx[u] = fin[t] /\ cx[u] # NoCtx
      BY <2>1, <2>2, BlockFacts
    <3> QED BY <1>0, <3>1, HeldNotTornDown
  <2> QED BY <2>1, <2>2
<1> HIDE DEF mine
<1>4. \A n \in mine : shmOps[n] = 1 + lost[n]
  <2> SUFFICES ASSUME NEW n \in mine PROVE shmOps[n] = 1 + lost[n]
    OBVIOUS
  <2>1. ShmHolders(n) = {}
    BY <1>3 DEF ShmHolders
  <2>2. Cardinality(ShmHolders(n)) = 0
    BY <2>1, FS_EmptySet
  <2>3. BlockCounted(n) /\ n \in Shm /\ shmList[n] # NoCtx
    BY <1>0, <1>1, <1>3 DEF BlockInv, BlockCount, mine
  <2> QED BY <1>0, <2>2, <2>3, BlockTypes DEF BlockCounted
<1>5. BlockCount'
  <2> SUFFICES ASSUME NEW n \in shmLive', ~ Fresh(n)
               PROVE  BlockCounted(n)' /\ shmOps'[n] > 0
    BY <1>2 DEF BlockCount
  <2>0. n \in Shm /\ n \in shmLive
    BY <1>0, <1>1, PutShm
  <2>1. BlockCounted(n) /\ shmOps[n] > 0
    BY <2>0 DEF BlockInv, BlockCount
  <2>2. ShmHolders(n)' = ShmHolders(n)
    BY DEF ShmHolders
  <2>3. /\ shmOps'[n] = IF n \in mine THEN shmOps[n] - 1 ELSE shmOps[n]
        /\ ~ (n \in mine /\ shmOps[n] = 1)
    BY <1>0, <1>1, <2>0, PutShm
  <2>4. n \in mine => shmList[n] # NoCtx
    BY <1>0 DEF mine
  <2> QED BY <1>0, <1>1, <2>0, <2>1, <2>2, <2>3, <2>4, BlockTypes DEF BlockCounted
<1>6. BlockPlace'
  <2>1. ASSUME NEW n \in Shm, n \notin shmLive' PROVE lost'[n] = 0 /\ shmList'[n] = NoCtx
    <3>1. CASE n \in shmLive
      <4>1. n \in mine /\ shmOps[n] = 1
        BY <1>0, <1>1, <2>1, <3>1, PutShm
      <4> QED BY <1>0, <1>1, <1>4, <4>1, <2>1, BlockTypes
    <3>2. CASE n \notin shmLive
      BY <1>1, <2>1, <3>2 DEF BlockInv, BlockPlace
    <3> QED BY <3>1, <3>2
  <2>2. ASSUME NEW n \in Shm, shmList'[n] # NoCtx
        PROVE  shmList'[n] = shmCtx'[n] /\ shmCtx'[n] \in ctxLive'
    <3>1. n \notin mine /\ shmList'[n] = shmList[n] /\ shmList[n] # NoCtx
      BY <1>1, <2>2
    <3>2. shmCtx'[n] = shmCtx[n]
      BY <1>0, <1>1, <3>1, <2>2, PutShm
    <3> QED BY <3>1, <3>2 DEF BlockInv, BlockPlace
  <2>3. ASSUME NEW u \in Thread, NEW n \in sm'[u]
        PROVE  /\ n \in shmLive' /\ shmCtx'[n] = cx'[u]
               /\ pc'[u] = "opt" => shmOff'[n] \notin loc'[u].off
    <3>1. n \in sm[u] /\ n \in Shm /\ n \notin mine
      BY <1>3, <2>3, BlockFacts
    <3>2. n \in shmLive /\ shmCtx'[n] = shmCtx[n] /\ shmOff'[n] = shmOff[n] /\ n \in shmLive'
      BY <1>0, <1>1, <3>1, BlockFacts, PutShm
    <3>3. u # t
      BY <3>1 DEF ObjectControl, ThreadControl
    <3> QED BY <3>1, <3>2, <3>3 DEF BlockInv, BlockPlace, OthersKept
  <2>4. ASSUME NEW u \in Thread, pc'[u] = "fin_close", NEW n \in Shm PROVE shmList'[n] # fin'[u]
    <3>1. CASE u = t
      BY <1>0, <1>1, <2>4, <3>1 DEF mine
    <3>2. CASE u # t
      <4>1. pc[u] = "fin_close" /\ fin[u] # NoCtx
        BY <2>4, <3>2 DEF OthersKept, ContextInv, ControlInv, FinPC
      <4> QED BY <1>1, <2>4, <4>1 DEF BlockInv, BlockPlace
    <3> QED BY <3>1, <3>2
  <2> QED BY <2>1, <2>2, <2>3, <2>4 DEF BlockPlace
<1>7. FreshAlone'
  <2>1. \A u \in Thread \ {t} : \A n \in Shm : loc[u].blk = n =>
          n \notin mine /\ n \in shmLive /\ n \notin sm'[t]
    BY <1>3 DEF BlockInv, FreshAlone, Fresh
  <2>2. \A u \in Thread \ {t} : \A n \in Shm : loc[u].blk = n =>
          n \in shmLive' /\ shmCtx'[n] = shmCtx[n] /\ shmList'[n] = shmList[n]
    BY <1>0, <1>1, <2>1, PutShm
  <2>3. loc'[t].blk = NoShm
    BY DEF ObjectControl, ThreadControl
  <2> QED BY <2>1, <2>2, <2>3, FreshKept DEF BlockInv
<1>8. OffsetExclusive'
  <2>1. \A n : n \in Releasable' => n \in Releasable
    <3> TAKE n
    <3>1. n \in shmLive' => n \in shmLive /\ n \in Shm
      BY <1>0, <1>1, PutShm
    <3> QED BY <1>1, <1>2, <3>1, ReleasableIs, ReleasableNext
  <2>2. mine \subseteq Releasable
    BY <1>0, <1>3, ReleasableIs DEF mine
  <2>3. ShmContextLive
    BY ReleasableLive
  <2> QED BY <1>0, <1>1, <2>1, <2>2, <2>3, PutOffsets DEF BlockInv
<1> QED
  BY <1>5, <1>6, <1>7, <1>8 DEF BlockInv

\* A registered block enters the list, and the handler's hands, without an offset.
LEMMA BlockRegister ==
  ASSUME ContextInv, ObjectControl, BlockInv, NEW t \in Thread, OthersKept(t),
         UNCHANGED <<ctxLive, lost>>, pc[t] = "blk", NEW m \in Shm, m \notin shmLive,
         TEEC_RegisterSharedMemoryInner(m, cx[t]),
         sm' = [sm EXCEPT ![t] = {m}], cx'[t] = cx[t],
         loc'[t].blk = NoShm, pc'[t] \notin {"fin_close", "opt"}
  PROVE  BlockInv'
<1>0. TypeOK /\ shmLive \subseteq Shm /\ cx[t] # NoCtx /\ cx[t] \in Ctx
  BY DEF ContextInv, TypeOK, InnerTypeOK, ControlInv, HoldPC
<1>1. sm[t] = {} /\ loc[t].blk = NoShm /\ lost[m] = 0
  BY DEF ObjectControl, ThreadControl, BlockInv, BlockPlace
<1>2. \A n : Fresh(n)' <=> Fresh(n)
  BY <1>1 DEF Fresh, OthersKept
<1>3. sm'[t] = {m} /\ sm' = [sm EXCEPT ![t] = sm[t] \cup {m}]
  BY <1>0, <1>1 DEF TypeOK
<1>4. /\ shmLive' = shmLive \cup {m} /\ UNCHANGED bitmap
      /\ shmOps'[m] = 2 /\ shmList'[m] = cx[t] /\ shmCtx'[m] = cx[t] /\ shmOff'[m] = NoBit
      /\ \A n \in Shm \ {m} : /\ shmOps'[n] = shmOps[n] /\ shmList'[n] = shmList[n]
                              /\ shmCtx'[n] = shmCtx[n] /\ shmOff'[n] = shmOff[n]
  BY <1>0 DEF TEEC_RegisterSharedMemoryInner, TypeOK, InnerTypeOK
<1>5. ~ Fresh(m) /\ \A u \in Thread : m \notin sm[u]
  BY BlockFacts
<1>6. BlockCount'
  <2> SUFFICES ASSUME NEW n \in shmLive', ~ Fresh(n)
               PROVE  BlockCounted(n)' /\ shmOps'[n] > 0
    BY <1>2 DEF BlockCount
  <2>0. n \in Shm
    BY <1>0, <1>4
  <2>1. Cardinality(ShmHolders(n)')
          = IF n = m THEN Cardinality(ShmHolders(n)) + 1 ELSE Cardinality(ShmHolders(n))
    BY <1>0, <1>1, <1>3, <2>0, ShmHoldersGain
  <2>2. CASE n = m
    <3>1. ShmHolders(m) = {}
      BY <1>5 DEF ShmHolders
    <3>2. Cardinality(ShmHolders(m)) = 0
      BY <3>1, FS_EmptySet
    <3> QED BY <1>0, <1>1, <1>4, <2>1, <2>2, <3>2 DEF BlockCounted
  <2>3. CASE n # m
    <3>1. BlockCounted(n) /\ shmOps[n] > 0
      BY <1>4, <2>3 DEF BlockInv, BlockCount
    <3> QED BY <1>4, <2>0, <2>1, <2>3, <3>1 DEF BlockCounted
  <2> QED BY <2>2, <2>3
<1>7. BlockPlace'
  <2>1. \A n \in Shm \ shmLive' : lost'[n] = 0 /\ shmList'[n] = NoCtx
    BY <1>4 DEF BlockInv, BlockPlace
  <2>2. \A u \in Thread \ {t} : \A n \in sm[u] :
           n \in shmLive' /\ shmCtx'[n] = shmCtx[n] /\ shmOff'[n] = shmOff[n]
    BY <1>4, <1>5, BlockFacts
  <2>3. BlockPlace
    BY DEF BlockInv
  <2> QED BY <1>0, <1>3, <1>4, <2>1, <2>2, <2>3, PlaceKept
<1>8. FreshAlone'
  <2>1. \A u \in Thread \ {t} : \A n \in Shm : loc[u].blk = n => n # m /\ n \in shmLive
    BY <1>5 DEF BlockInv, FreshAlone, Fresh
  <2> QED BY <1>3, <1>4, <2>1, FreshKept DEF BlockInv
<1>9. OffsetExclusive'
  <2>1. ASSUME NEW n \in Releasable', n # m PROVE n \in Releasable /\ n \in Shm
    <3>1. n \in shmLive /\ n \in Shm
      BY <1>0, <1>4, <2>1, ReleasableNext
    <3>2. \A u \in Thread : n \in sm'[u] => n \in sm[u]
      BY <1>3, <2>1 DEF OthersKept
    <3> QED BY <1>2, <1>4, <2>1, <3>1, <3>2, ReleasableIs, ReleasableNext
  <2> QED BY <1>4, <2>1, OffsetsKept DEF BlockInv
<1> QED
  BY <1>6, <1>7, <1>8, <1>9 DEF BlockInv

LEMMA LowestClearIsClear ==
  ASSUME TypeOK, NEW c \in Ctx, Bit \ bitmap[c] # {}
  PROVE  LowestClear(c) \notin bitmap[c]
<1>1. Bit \ bitmap[c] \in SUBSET Nat
  BY InnerAssumption DEF Bit
<1> QED
  BY <1>1, LeastMember DEF LowestClear

\* A block gets an offset no block of the context has, and is known to its handler only.
LEMMA BlockAllocate ==
  ASSUME ContextInv, ObjectControl, BlockInv, NEW t \in Thread, OthersKept(t),
         UNCHANGED <<ctxLive, lost, sm>>, pc[t] = "blk", NEW m \in Shm, m \notin shmLive,
         GetAndSetBit(m, cx[t]), cx'[t] = cx[t],
         loc'[t].blk = m, pc'[t] \notin {"fin_close", "opt"}
  PROVE  BlockInv'
<1>0. TypeOK /\ shmLive \subseteq Shm /\ cx[t] # NoCtx /\ cx[t] \in Ctx
  BY DEF ContextInv, TypeOK, InnerTypeOK, ControlInv, HoldPC
<1>1. sm[t] = {} /\ loc[t].blk = NoShm /\ lost[m] = 0 /\ shmList[m] = NoCtx
  BY DEF ObjectControl, ThreadControl, BlockInv, BlockPlace
<1>2. ~ Fresh(m) /\ \A u \in Thread : m \notin sm[u]
  BY BlockFacts
<1>3. \A n \in Shm : Fresh(n)' <=> n = m \/ Fresh(n)
  BY <1>1, InnerAssumption DEF Fresh, OthersKept
<1>4. /\ shmLive' = shmLive \cup {m} /\ shmCtx'[m] = cx[t] /\ UNCHANGED <<shmOps, shmList>>
      /\ bitmap'[cx[t]] = bitmap[cx[t]] \cup {shmOff'[m]}
      /\ \A c \in Ctx \ {cx[t]} : bitmap'[c] = bitmap[c]
      /\ \A n \in Shm \ {m} : shmCtx'[n] = shmCtx[n] /\ shmOff'[n] = shmOff[n]
  BY <1>0 DEF GetAndSetBit, TypeOK, InnerTypeOK
<1>5. shmOff'[m] \notin bitmap[cx[t]]
  BY <1>0, LowestClearIsClear DEF GetAndSetBit, TypeOK, InnerTypeOK
<1>6. BlockCount'
  <2> SUFFICES ASSUME NEW n \in shmLive', ~ Fresh(n)'
               PROVE  BlockCounted(n)' /\ shmOps'[n] > 0
    BY DEF BlockCount
  <2>1. n \in Shm /\ n \in shmLive /\ ~ Fresh(n)
    BY <1>0, <1>3, <1>4
  <2>2. ShmHolders(n)' = ShmHolders(n)
    BY DEF ShmHolders
  <2> QED BY <1>4, <2>1, <2>2 DEF BlockInv, BlockCount, BlockCounted
<1>7. BlockPlace'
  <2>1. \A n \in Shm \ shmLive' : lost'[n] = 0 /\ shmList'[n] = NoCtx
    BY <1>4 DEF BlockInv, BlockPlace
  <2>2. \A u \in Thread \ {t} : \A n \in sm[u] :
           n \in shmLive' /\ shmCtx'[n] = shmCtx[n] /\ shmOff'[n] = shmOff[n]
    BY <1>2, <1>4, BlockFacts
  <2>3. BlockPlace
    BY DEF BlockInv
  <2> QED BY <1>0, <1>1, <1>4, <2>1, <2>2, <2>3, PlaceKept
<1>8. FreshAlone'
  <2> SUFFICES ASSUME NEW u \in Thread, NEW n \in Shm, loc'[u].blk = n
               PROVE  /\ n \in shmLive' /\ shmList'[n] = NoCtx /\ lost'[n] = 0
                 /\ shmCtx'[n] = cx'[u]
                      /\ \A v \in Thread : n \notin sm'[v] /\ (loc'[v].blk = n => v = u)
    BY DEF FreshAlone
  <2>1. \A v \in Thread \ {t} : loc'[v].blk = loc[v].blk /\ loc[v].blk # m
    BY <1>2 DEF OthersKept, Fresh
  <2>2. CASE u = t
    BY <1>1, <1>2, <1>4, <2>1, <2>2
  <2>3. CASE u # t
    <3>1. loc[u].blk = n /\ n # m /\ cx'[u] = cx[u]
      BY <2>1, <2>3 DEF OthersKept
    <3> QED BY <1>4, <2>1, <2>3, <3>1 DEF BlockInv, FreshAlone
  <2> QED BY <2>2, <2>3
<1>9. OffsetExclusive'
  <2>1. ASSUME NEW n \in Releasable', n # m PROVE n \in Releasable /\ n \in Shm
        /\ shmCtx[n] \in Ctx
    <3>1. n \in shmLive /\ n \in Shm
      BY <1>0, <1>4, <2>1, ReleasableNext
    <3>2. n \in Releasable
      BY <1>3, <1>4, <2>1, <3>1, ReleasableIs, ReleasableNext
    <3>3. ctxLive \subseteq Ctx
      BY <1>0 DEF TypeOK, InnerTypeOK
    <3> QED BY <3>1, <3>2, <3>3, ReleasableLive DEF ShmContextLive
  <2>2. ASSUME NEW n \in Releasable', n # m, shmOff'[n] # NoBit
        PROVE  shmOff'[n] \in bitmap[shmCtx'[n]]
    BY <1>4, <2>1, <2>2 DEF BlockInv, OffsetExclusive
  <2>3. ASSUME NEW n \in Releasable', shmOff'[n] # NoBit
        PROVE  shmOff'[n] \in bitmap'[shmCtx'[n]]
    <3>1. CASE n = m
      BY <1>4, <3>1
    <3>2. CASE n # m
      BY <1>4, <2>1, <2>2, <2>3, <3>2
    <3> QED BY <3>1, <3>2
  <2>4. ASSUME NEW n \in Releasable', shmOff'[n] # NoBit, NEW k \in Releasable',
               shmCtx'[k] = shmCtx'[n], shmOff'[k] = shmOff'[n]
        PROVE  k = n
    <3>1. CASE n # m /\ k # m
      BY <1>4, <2>1, <2>4, <3>1 DEF BlockInv, OffsetExclusive
    <3>2. CASE n # m /\ k = m
      BY <1>4, <1>5, <2>2, <2>4, <3>2
    <3>3. CASE n = m /\ k # m
      BY <1>4, <1>5, <2>2, <2>4, <3>3
    <3> QED BY <3>1, <3>2, <3>3
  <2> QED BY <2>3, <2>4 DEF OffsetExclusive
<1> QED
  BY <1>6, <1>7, <1>8, <1>9 DEF BlockInv

\* The fresh block enters the list and the handler's hands, with a count of 2.
LEMMA BlockInsert ==
  ASSUME ContextInv, ObjectControl, BlockInv, NEW t \in Thread, OthersKept(t),
         UNCHANGED <<ctxLive, lost>>, pc[t] = "buf", NEW m \in Shm, loc[t].blk = m,
         InsertAllocated(m, cx[t]), sm' = [sm EXCEPT ![t] = {m}], cx'[t] = cx[t],
         loc'[t].blk = NoShm, pc'[t] \notin {"fin_close", "opt"}
  PROVE  BlockInv'
<1>0. TypeOK /\ shmLive \subseteq Shm /\ cx[t] # NoCtx /\ cx[t] \in Ctx
  BY DEF ContextInv, TypeOK, InnerTypeOK, ControlInv, HoldPC
<1>1. sm[t] = {}
  BY DEF ObjectControl, ThreadControl
<1>2. /\ m \in shmLive /\ shmList[m] = NoCtx /\ lost[m] = 0 /\ shmCtx[m] = cx[t]
      /\ \A u \in Thread : m \notin sm[u] /\ (loc[u].blk = m => u = t)
  BY DEF BlockInv, FreshAlone
<1>3. \A n \in Shm : Fresh(n) <=> n = m \/ Fresh(n)'
  BY InnerAssumption DEF Fresh, OthersKept
<1>4. ~ Fresh(m)'
  BY <1>2, InnerAssumption DEF Fresh, OthersKept
<1>5. sm'[t] = {m} /\ sm' = [sm EXCEPT ![t] = sm[t] \cup {m}]
  BY <1>0, <1>1 DEF TypeOK
<1>6. /\ UNCHANGED <<shmLive, shmCtx, shmOff, bitmap>>
      /\ shmOps'[m] = 2 /\ shmList'[m] = cx[t]
      /\ \A n \in Shm \ {m} : shmOps'[n] = shmOps[n] /\ shmList'[n] = shmList[n]
  BY <1>0 DEF InsertAllocated, TypeOK, InnerTypeOK
<1>7. BlockCount'
  <2> SUFFICES ASSUME NEW n \in shmLive, ~ Fresh(n)'
               PROVE  BlockCounted(n)' /\ shmOps'[n] > 0
    BY <1>6 DEF BlockCount
  <2>0. n \in Shm
    BY <1>0
  <2>1. Cardinality(ShmHolders(n)')
          = IF n = m THEN Cardinality(ShmHolders(n)) + 1 ELSE Cardinality(ShmHolders(n))
    BY <1>0, <1>1, <1>5, <2>0, ShmHoldersGain
  <2>2. CASE n = m
    <3>1. ShmHolders(m) = {}
      BY <1>2 DEF ShmHolders
    <3>2. Cardinality(ShmHolders(m)) = 0
      BY <3>1, FS_EmptySet
    <3> QED BY <1>0, <1>2, <1>6, <2>1, <2>2, <3>2 DEF BlockCounted
  <2>3. CASE n # m
    <3>1. BlockCounted(n) /\ shmOps[n] > 0
      BY <1>3, <2>0, <2>3 DEF BlockInv, BlockCount
    <3> QED BY <1>6, <2>0, <2>1, <2>3, <3>1 DEF BlockCounted
  <2> QED BY <2>2, <2>3
<1>8. BlockPlace'
  <2>1. \A n \in Shm \ shmLive' : lost'[n] = 0 /\ shmList'[n] = NoCtx
    BY <1>2, <1>6 DEF BlockInv, BlockPlace
  <2>2. \A u \in Thread \ {t} : \A n \in sm[u] : n \in shmLive
    BY BlockFacts
  <2>3. BlockPlace
    BY DEF BlockInv
  <2> QED BY <1>0, <1>2, <1>5, <1>6, <2>1, <2>2, <2>3, PlaceKept
<1>9. FreshAlone'
  <2>1. \A u \in Thread \ {t} : \A n \in Shm : loc[u].blk = n => n # m /\ n \in shmLive
    BY <1>2 DEF BlockInv, FreshAlone
  <2> QED BY <1>5, <1>6, <2>1, FreshKept DEF BlockInv
<1>10. OffsetExclusive'
  <2>1. ASSUME NEW n \in Releasable' PROVE n \in Releasable
    <3>1. n \in shmLive /\ n \in Shm
      BY <1>0, <1>6, <2>1, ReleasableNext
    <3>2. CASE n = m
      BY <3>1, <3>2, ReleasableIs DEF Fresh
    <3>3. CASE n # m
      <4>1. \A u \in Thread : n \in sm'[u] => n \in sm[u]
        BY <1>5, <3>3 DEF OthersKept
      <4> QED BY <1>3, <1>6, <2>1, <3>1, <3>3, <4>1, ReleasableIs, ReleasableNext
    <3> QED BY <3>2, <3>3
  <2> QED BY <1>6, <2>1, OffsetsKept DEF BlockInv
<1> QED
  BY <1>7, <1>8, <1>9, <1>10 DEF BlockInv

\* Mapping failed: the block is freed and its offset is free again.
LEMMA BlockRelease ==
  ASSUME ContextInv, ObjectControl, BlockInv, NEW t \in Thread, OthersKept(t),
         UNCHANGED <<ctxLive, lost, sm>>, pc[t] = "buf", NEW m \in Shm, loc[t].blk = m,
         ReleaseBufferAndClearBit(m, cx[t]), cx'[t] = cx[t],
         loc'[t].blk = NoShm, pc'[t] \notin {"fin_close", "opt"}
  PROVE  BlockInv'
<1>0. TypeOK /\ shmLive \subseteq Shm /\ cx[t] # NoCtx /\ cx[t] \in Ctx
  BY DEF ContextInv, TypeOK, InnerTypeOK, ControlInv, HoldPC
<1>1. sm[t] = {}
  BY DEF ObjectControl, ThreadControl
<1>2. /\ m \in shmLive /\ shmList[m] = NoCtx /\ lost[m] = 0 /\ shmCtx[m] = cx[t]
      /\ \A u \in Thread : m \notin sm[u] /\ (loc[u].blk = m => u = t)
  BY DEF BlockInv, FreshAlone
<1>3. \A n \in Shm : Fresh(n) <=> n = m \/ Fresh(n)'
  BY InnerAssumption DEF Fresh, OthersKept
<1>4. /\ shmLive' = shmLive \ {m} /\ UNCHANGED <<shmOps, shmList>>
      /\ bitmap'[cx[t]] = bitmap[cx[t]] \ {shmOff[m]}
      /\ \A c \in Ctx \ {cx[t]} : bitmap'[c] = bitmap[c]
      /\ \A n \in Shm \ {m} : shmCtx'[n] = shmCtx[n] /\ shmOff'[n] = shmOff[n]
  BY <1>0 DEF ReleaseBufferAndClearBit, TypeOK, InnerTypeOK
<1>5. BlockCount'
  <2> SUFFICES ASSUME NEW n \in shmLive', ~ Fresh(n)'
               PROVE  BlockCounted(n)' /\ shmOps'[n] > 0
    BY DEF BlockCount
  <2>1. n \in Shm /\ n \in shmLive /\ ~ Fresh(n)
    BY <1>0, <1>3, <1>4
  <2>2. ShmHolders(n)' = ShmHolders(n)
    BY DEF ShmHolders
  <2> QED BY <1>4, <2>1, <2>2 DEF BlockInv, BlockCount, BlockCounted
<1>6. BlockPlace'
  <2>1. \A n \in Shm \ shmLive' : lost'[n] = 0 /\ shmList'[n] = NoCtx
    BY <1>2, <1>4 DEF BlockInv, BlockPlace
  <2>2. \A u \in Thread \ {t} : \A n \in sm[u] :
           n \in shmLive' /\ shmCtx'[n] = shmCtx[n] /\ shmOff'[n] = shmOff[n]
    BY <1>2, <1>4, BlockFacts
  <2>3. BlockPlace
    BY DEF BlockInv
  <2> QED BY <1>0, <1>1, <1>2, <1>4, <2>1, <2>2, <2>3, PlaceKept
<1>7. FreshAlone'
  <2>1. \A u \in Thread \ {t} : \A n \in Shm : loc[u].blk = n => n # m /\ n \in shmLive
    BY <1>2 DEF BlockInv, FreshAlone
  <2> QED BY <1>1, <1>4, <2>1, FreshKept DEF BlockInv
<1>8. OffsetExclusive'
  <2>0. m \in Releasable
    BY <1>2, ReleasableIs DEF Fresh
  <2>1. ASSUME NEW n \in Releasable', shmOff'[n] # NoBit
        PROVE  /\ n \in Releasable /\ shmOff'[n] = shmOff[n] /\ shmCtx'[n] = shmCtx[n]
               /\ shmOff[n] \in bitmap[shmCtx[n]] => shmOff[n] \in bitmap'[shmCtx[n]]
    <3>1. n \in shmLive /\ n \in Shm /\ n # m
      BY <1>0, <1>4, <2>1, ReleasableNext
    <3>2. n \in Releasable
      BY <1>3, <1>4, <2>1, <3>1, ReleasableIs, ReleasableNext
    <3>3. shmCtx[n] \in Ctx
      BY <1>0, <3>2, ReleasableLive DEF ShmContextLive, TypeOK, InnerTypeOK
    <3>4. shmOff'[n] = shmOff[n] /\ shmCtx'[n] = shmCtx[n]
      BY <1>4, <3>1
    <3>5. shmCtx[n] = cx[t] => shmOff[n] # shmOff[m]
      BY <1>2, <2>0, <2>1, <3>1, <3>2, <3>4 DEF BlockInv, OffsetExclusive
    <3> QED BY <1>4, <3>2, <3>3, <3>4, <3>5
  <2> QED BY <2>1, OffsetsKept DEF BlockInv
<1> QED
  BY <1>5, <1>6, <1>7, <1>8 DEF BlockInv

\* ReleaseSharedMemory takes a block off the list: the list's reference becomes its own.
LEMMA BlockRemove ==
  ASSUME ContextInv, ObjectControl, BlockInv, NEW t \in Thread, OthersKept(t),
         UNCHANGED <<ctxLive, lost>>, pc[t] = "blk", NEW m \in Shm, shmList[m] = cx[t],
         TEEC_FindAndRemoveShrMemInner(m), sm' = [sm EXCEPT ![t] = {m}], cx'[t] = cx[t],
         loc'[t].blk = NoShm, pc'[t] \notin {"fin_close", "opt"}
  PROVE  BlockInv'
<1>0. TypeOK /\ shmLive \subseteq Shm /\ cx[t] # NoCtx /\ cx[t] \in Ctx
  BY DEF ContextInv, TypeOK, InnerTypeOK, ControlInv, HoldPC
<1>1. sm[t] = {} /\ loc[t].blk = NoShm
  BY DEF ObjectControl, ThreadControl
<1>2. m \in shmLive /\ ~ Fresh(m) /\ shmCtx[m] = cx[t]
  BY <1>0, BlockFacts DEF BlockInv, BlockPlace
<1>3. \A n : Fresh(n)' <=> Fresh(n)
  BY <1>1 DEF Fresh, OthersKept
<1>4. sm'[t] = {m} /\ sm' = [sm EXCEPT ![t] = sm[t] \cup {m}]
  BY <1>0, <1>1 DEF TypeOK
<1>5. /\ UNCHANGED <<shmLive, shmOps, shmCtx, shmOff, bitmap>> /\ shmList'[m] = NoCtx
      /\ \A n \in Shm \ {m} : shmList'[n] = shmList[n]
  BY <1>0 DEF TEEC_FindAndRemoveShrMemInner, TypeOK, InnerTypeOK
<1>6. BlockCount'
  <2> SUFFICES ASSUME NEW n \in shmLive, ~ Fresh(n)
               PROVE  BlockCounted(n)' /\ shmOps'[n] > 0
    BY <1>3, <1>5 DEF BlockCount
  <2>1. n \in Shm /\ BlockCounted(n) /\ shmOps[n] > 0
    BY <1>0 DEF BlockInv, BlockCount
  <2>2. Cardinality(ShmHolders(n)')
          = IF n = m THEN Cardinality(ShmHolders(n)) + 1 ELSE Cardinality(ShmHolders(n))
    BY <1>0, <1>1, <1>4, <2>1, ShmHoldersGain
  <2> QED BY <1>0, <1>5, <2>1, <2>2, BlockTypes DEF BlockCounted
<1>7. BlockPlace'
  <2>1. \A n \in Shm \ shmLive' : lost'[n] = 0 /\ shmList'[n] = NoCtx
    BY <1>5 DEF BlockInv, BlockPlace
  <2>2. \A u \in Thread \ {t} : \A n \in sm[u] : n \in shmLive
    BY BlockFacts
  <2>3. BlockPlace
    BY DEF BlockInv
  <2> QED BY <1>0, <1>2, <1>4, <1>5, <2>1, <2>2, <2>3, PlaceKept
<1>8. FreshAlone'
  <2>1. \A u \in Thread \ {t} : \A n \in Shm : loc[u].blk = n => n # m /\ n \in shmLive
    BY <1>2 DEF BlockInv, FreshAlone, Fresh
  <2> QED BY <1>4, <1>5, <2>1, FreshKept DEF BlockInv
<1>9. OffsetExclusive'
  <2>1. ASSUME NEW n \in Releasable' PROVE n \in Releasable
    <3>1. n \in shmLive /\ n \in Shm
      BY <1>0, <1>5, <2>1, ReleasableNext
    <3>2. CASE n = m
      BY <1>0, <3>1, <3>2, ReleasableIs
    <3>3. CASE n # m
      <4>1. \A u \in Thread : n \in sm'[u] => n \in sm[u]
        BY <1>4, <3>3 DEF OthersKept
      <4> QED BY <1>3, <1>5, <2>1, <3>1, <3>3, <4>1, ReleasableIs, ReleasableNext
    <3> QED BY <3>2, <3>3
  <2> QED BY <1>5, <2>1, OffsetsKept DEF BlockInv
<1> QED
  BY <1>6, <1>7, <1>8, <1>9 DEF BlockInv

\* The error paths that forget their blocks: every such reference is lost for good.
LEMMA BlockAbandon ==
  ASSUME ContextInv, ObjectControl, BlockInv, NEW t \in Thread, OthersKept(t),
         UNCHANGED <<ctxLive, shmVars>>, pc[t] \in {"opt", "ioctl"},
         \A m \in Shm : lost'[m] = IF m \in sm[t] THEN lost[m] + 1 ELSE lost[m],
         sm' = [sm EXCEPT ![t] = {}], loc'[t].blk = NoShm, pc'[t] # "fin_close"
  PROVE  BlockInv'
<1>0. TypeOK /\ shmLive \subseteq Shm /\ cx[t] # NoCtx
  BY DEF ContextInv, TypeOK, InnerTypeOK, ControlInv, HoldPC
<1>1. loc[t].blk = NoShm
  BY DEF ObjectControl, ThreadControl
<1>2. \A n : Fresh(n)' <=> Fresh(n)
  BY <1>1 DEF Fresh, OthersKept
<1>3. sm'[t] = {}
  BY <1>0 DEF TypeOK
<1>4. BlockCount'
  <2> SUFFICES ASSUME NEW n \in shmLive, ~ Fresh(n)
               PROVE  BlockCounted(n)' /\ shmOps'[n] > 0
    BY <1>2 DEF BlockCount
  <2>1. n \in Shm /\ BlockCounted(n) /\ shmOps[n] > 0
    BY <1>0 DEF BlockInv, BlockCount
  <2>2. Cardinality(ShmHolders(n)')
          = IF n \in sm[t] THEN Cardinality(ShmHolders(n)) - 1 ELSE Cardinality(ShmHolders(n))
    BY <1>0, <2>1, ShmHoldersDrop
  <2> QED BY <1>0, <2>1, <2>2, BlockTypes DEF BlockCounted
<1>5. BlockPlace'
  <2>1. \A n \in Shm \ shmLive' : lost'[n] = 0 /\ shmList'[n] = NoCtx
    BY DEF BlockInv, BlockPlace
  <2>2. \A u \in Thread \ {t} : \A n \in sm[u] : n \in shmLive
    BY BlockFacts
  <2>3. BlockPlace
    BY DEF BlockInv
  <2> QED BY <1>0, <1>3, <2>1, <2>2, <2>3, PlaceKept
<1>6. FreshAlone'
  <2>1. \A u \in Thread \ {t} : \A n \in Shm : loc[u].blk = n => n \notin sm[t] /\ n \in shmLive
    BY DEF BlockInv, FreshAlone
  <2> QED BY <1>3, <2>1, FreshKept DEF BlockInv
<1>7. OffsetExclusive'
  <2>1. ASSUME NEW n \in Releasable' PROVE n \in Releasable
    <3>1. \A u \in Thread : n \in sm'[u] => n \in sm[u]
      BY <1>3 DEF OthersKept
    <3> QED BY <1>2, <2>1, <3>1, ReleasableIs, ReleasableNext
  <2> QED BY <2>1, OffsetsKept DEF BlockInv
<1> QED
  BY <1>4, <1>5, <1>6, <1>7 DEF BlockInv

-----------------------------------------------------------------------------
(* Shared memory: one lemma per kind of action *)

\* The step touches no block: it frees a context only once it is emptied, and sets up a
\* bitmap only for a new context.
QuietBlocks(t) ==
  /\ OthersKept(t)
  /\ UNCHANGED <<shmLive, shmOps, shmList, shmCtx, shmOff, sm>>
  /\ sm[t] # {} => cx'[t] = cx[t] /\ pc'[t] # "opt"
  /\ pc[t] # "buf" /\ pc'[t] \notin {"buf", "fin_close"}
  /\ \A m \in Shm : lost'[m] = lost[m]
  /\ \A c \in ctxLive : bitmap'[c] = bitmap[c]
  /\ \A c \in ctxLive \ ctxLive' : pc[t] = "fin_close" /\ c = fin[t]

LEMMA QuietBlockStep ==
  ASSUME ContextInv, ObjectControl, ObjectControl', BlockInv, NEW t \in Thread, QuietBlocks(t)
  PROVE  BlockInv'
<1>1. loc[t].blk = NoShm /\ loc'[t].blk = NoShm
  BY DEF QuietBlocks, ObjectControl, ThreadControl
<1> QED
  BY <1>1, BlockKeep DEF QuietBlocks

LEMMA SetContextToProcDataNoBlock ==
  ASSUME ContextInv, ObjectControl, NEW t \in Thread, SetContextToProcData(t)
  PROVE  QuietBlocks(t)
<1>0. TypeOK /\ ThreadControl(t)
  BY DEF ContextInv, ObjectControl
<1>1. pc[t] = "proc" /\ sm[t] = {}
  BY <1>0 DEF SetContextToProcData, ThreadControl
<1>2. pc'[t] \notin {"buf", "fin_close"}
  BY <1>0, <1>1 DEF SetContextToProcData, Goto, Return, PutThen, TypeOK
<1>3. OthersKept(t)
  BY <1>0 DEF SetContextToProcData, Goto, SetLoc, Return, PutThen, OthersKept, TypeOK
<1>4. \A m \in Shm : lost'[m] = lost[m]
  BY DEF SetContextToProcData
<1>5. /\ UNCHANGED <<shmLive, shmOps, shmList, shmCtx, shmOff, sm>>
      /\ \A c \in ctxLive : bitmap'[c] = bitmap[c]
  BY DEF SetContextToProcData
<1>6. \A c \in ctxLive \ ctxLive' : pc[t] = "fin_close" /\ c = fin[t]
  BY DEF SetContextToProcData
<1> QED
  BY <1>1, <1>2, <1>3, <1>4, <1>5, <1>6 DEF QuietBlocks

LEMMA SetContextToProcDataFailsNoBlock ==
  ASSUME ContextInv, ObjectControl, NEW t \in Thread, SetContextToProcDataFails(t)
  PROVE  QuietBlocks(t)
<1>0. TypeOK /\ ThreadControl(t)
  BY DEF ContextInv, ObjectControl
<1>1. pc[t] = "proc" /\ sm[t] = {}
  BY <1>0 DEF SetContextToProcDataFails, ThreadControl
<1>2. pc'[t] \notin {"buf", "fin_close"}
  BY <1>0, <1>1 DEF SetContextToProcDataFails, Goto, Return, PutThen, TypeOK
<1>3. OthersKept(t)
  BY <1>0 DEF SetContextToProcDataFails, Goto, SetLoc, Return, PutThen, OthersKept, TypeOK
<1>4. \A m \in Shm : lost'[m] = lost[m]
  BY DEF SetContextToProcDataFails
<1>5. /\ UNCHANGED <<shmLive, shmOps, shmList, shmCtx, shmOff, sm>>
      /\ \A c \in ctxLive : bitmap'[c] = bitmap[c]
  BY DEF SetContextToProcDataFails
<1>6. \A c \in ctxLive \ ctxLive' : pc[t] = "fin_close" /\ c = fin[t]
  BY DEF SetContextToProcDataFails
<1> QED
  BY <1>1, <1>2, <1>3, <1>4, <1>5, <1>6 DEF QuietBlocks

LEMMA ReleaseContextNoBlock ==
  ASSUME ContextInv, ObjectControl, NEW t \in Thread, ReleaseContext(t)
  PROVE  QuietBlocks(t)
<1>0. TypeOK /\ ThreadControl(t)
  BY DEF ContextInv, ObjectControl
<1>1. pc[t] = "rel_read" /\ sm[t] = {}
  BY <1>0 DEF ReleaseContext, ThreadControl
<1>2. pc'[t] \notin {"buf", "fin_close"}
  BY <1>0, <1>1 DEF ReleaseContext, Goto, Return, PutThen, TypeOK
<1>3. OthersKept(t)
  BY <1>0 DEF ReleaseContext, Goto, SetLoc, Return, PutThen, OthersKept, TypeOK
<1>4. \A m \in Shm : lost'[m] = lost[m]
  BY DEF ReleaseContext
<1>5. /\ UNCHANGED <<shmLive, shmOps, shmList, shmCtx, shmOff, sm>>
      /\ \A c \in ctxLive : bitmap'[c] = bitmap[c]
  BY DEF ReleaseContext
<1>6. \A c \in ctxLive \ ctxLive' : pc[t] = "fin_close" /\ c = fin[t]
  BY DEF ReleaseContext
<1> QED
  BY <1>1, <1>2, <1>3, <1>4, <1>5, <1>6 DEF QuietBlocks

LEMMA CallFinalizeContextNoBlock ==
  ASSUME ContextInv, ObjectControl, NEW t \in Thread, CallFinalizeContext(t)
  PROVE  QuietBlocks(t)
<1>0. TypeOK /\ ThreadControl(t)
  BY DEF ContextInv, ObjectControl
<1>1. pc[t] = "remove" /\ sm[t] = {}
  BY <1>0 DEF CallFinalizeContext, ThreadControl
<1>2. pc'[t] \notin {"buf", "fin_close"}
  BY <1>0, <1>1 DEF CallFinalizeContext, Goto, Return, PutThen, TypeOK
<1>3. OthersKept(t)
  BY <1>0 DEF CallFinalizeContext, Goto, SetLoc, Return, PutThen, OthersKept, TypeOK
<1>4. \A m \in Shm : lost'[m] = lost[m]
  BY DEF CallFinalizeContext
<1>5. /\ UNCHANGED <<shmLive, shmOps, shmList, shmCtx, shmOff, sm>>
      /\ \A c \in ctxLive : bitmap'[c] = bitmap[c]
  BY DEF CallFinalizeContext, RemoveBnContext
<1>6. \A c \in ctxLive \ ctxLive' : pc[t] = "fin_close" /\ c = fin[t]
  BY DEF CallFinalizeContext, RemoveBnContext
<1> QED
  BY <1>1, <1>2, <1>3, <1>4, <1>5, <1>6 DEF QuietBlocks

LEMMA PutBnContextAndReleaseFdNoBlock ==
  ASSUME ContextInv, ObjectControl, NEW t \in Thread, PutBnContextAndReleaseFd(t)
  PROVE  QuietBlocks(t)
<1>0. TypeOK /\ ThreadControl(t)
  BY DEF ContextInv, ObjectControl
<1>1. pc[t] = "put" /\ sm[t] = {}
  BY <1>0 DEF PutBnContextAndReleaseFd, ThreadControl
<1>2. pc'[t] \notin {"buf", "fin_close"}
  <2>1. loc[t].next \in ReturnPC
    BY DEF ContextInv, ControlInv
  <2> QED BY <1>0, <2>1 DEF PutBnContextAndReleaseFd, Goto, Return, TypeOK, ReturnPC
<1>3. OthersKept(t)
  BY <1>0 DEF PutBnContextAndReleaseFd, Goto, SetLoc, Return, PutThen, OthersKept, TypeOK
<1>4. \A m \in Shm : lost'[m] = lost[m]
  BY DEF PutBnContextAndReleaseFd
<1>5. /\ UNCHANGED <<shmLive, shmOps, shmList, shmCtx, shmOff, sm>>
      /\ \A c \in ctxLive : bitmap'[c] = bitmap[c]
  BY DEF PutBnContextAndReleaseFd, DecBnContext
<1>6. \A c \in ctxLive \ ctxLive' : pc[t] = "fin_close" /\ c = fin[t]
  BY DEF PutBnContextAndReleaseFd, DecBnContext
<1> QED
  BY <1>1, <1>2, <1>3, <1>4, <1>5, <1>6 DEF QuietBlocks

LEMMA FinalizeSessionListNoBlock ==
  ASSUME ContextInv, ObjectControl, NEW t \in Thread, FinalizeSessionList(t)
  PROVE  QuietBlocks(t)
<1>0. TypeOK /\ ThreadControl(t)
  BY DEF ContextInv, ObjectControl
<1>1. pc[t] = "fin_ses" /\ sm[t] = {}
  BY <1>0 DEF FinalizeSessionList, ThreadControl
<1>2. pc'[t] \notin {"buf", "fin_close"}
  BY <1>0, <1>1 DEF FinalizeSessionList, Goto, Return, PutThen, TypeOK
<1>3. OthersKept(t)
  BY <1>0 DEF FinalizeSessionList, Goto, SetLoc, Return, PutThen, OthersKept, TypeOK
<1>4. \A m \in Shm : lost'[m] = lost[m]
  BY DEF FinalizeSessionList
<1>5. /\ UNCHANGED <<shmLive, shmOps, shmList, shmCtx, shmOff, sm>>
      /\ \A c \in ctxLive : bitmap'[c] = bitmap[c]
  BY DEF FinalizeSessionList
<1>6. \A c \in ctxLive \ ctxLive' : pc[t] = "fin_close" /\ c = fin[t]
  BY DEF FinalizeSessionList
<1> QED
  BY <1>1, <1>2, <1>3, <1>4, <1>5, <1>6 DEF QuietBlocks

LEMMA FinalizeCloseNoBlock ==
  ASSUME ContextInv, ObjectControl, NEW t \in Thread, FinalizeClose(t)
  PROVE  QuietBlocks(t)
<1>0. TypeOK /\ ThreadControl(t)
  BY DEF ContextInv, ObjectControl
<1>1. pc[t] = "fin_close" /\ sm[t] = {}
  BY <1>0 DEF FinalizeClose, ThreadControl
<1>2. pc'[t] \notin {"buf", "fin_close"}
  BY <1>0, <1>1 DEF FinalizeClose, Goto, Return, PutThen, TypeOK
<1>3. OthersKept(t)
  BY <1>0 DEF FinalizeClose, Goto, SetLoc, Return, PutThen, OthersKept, TypeOK
<1>4. \A m \in Shm : lost'[m] = lost[m]
  BY DEF FinalizeClose
<1>5. /\ UNCHANGED <<shmLive, shmOps, shmList, shmCtx, shmOff, sm>>
      /\ \A c \in ctxLive : bitmap'[c] = bitmap[c]
  BY DEF FinalizeClose, FreeContext
<1>6. \A c \in ctxLive \ ctxLive' : pc[t] = "fin_close" /\ c = fin[t]
  BY DEF FinalizeClose, FreeContext
<1> QED
  BY <1>1, <1>2, <1>3, <1>4, <1>5, <1>6 DEF QuietBlocks

LEMMA RemoveContextFromProcDataNoBlock ==
  ASSUME ContextInv, ObjectControl, NEW t \in Thread, RemoveContextFromProcData(t)
  PROVE  QuietBlocks(t)
<1>0. TypeOK /\ ThreadControl(t)
  BY DEF ContextInv, ObjectControl
<1>1. pc[t] = "fin_proc" /\ sm[t] = {}
  BY <1>0 DEF RemoveContextFromProcData, ThreadControl
<1>2. pc'[t] \notin {"buf", "fin_close"}
  <2>1. loc[t].next \in ReturnPC
    BY DEF ContextInv, ControlInv
  <2> QED BY <1>0, <2>1 DEF RemoveContextFromProcData, Goto, Return, TypeOK, ReturnPC
<1>3. OthersKept(t)
  BY <1>0 DEF RemoveContextFromProcData, Goto, SetLoc, Return, PutThen, OthersKept, TypeOK
<1>4. \A m \in Shm : lost'[m] = lost[m]
  BY DEF RemoveContextFromProcData
<1>5. /\ UNCHANGED <<shmLive, shmOps, shmList, shmCtx, shmOff, sm>>
      /\ \A c \in ctxLive : bitmap'[c] = bitmap[c]
  BY DEF RemoveContextFromProcData
<1>6. \A c \in ctxLive \ ctxLive' : pc[t] = "fin_close" /\ c = fin[t]
  BY DEF RemoveContextFromProcData
<1> QED
  BY <1>1, <1>2, <1>3, <1>4, <1>5, <1>6 DEF QuietBlocks

LEMMA CallGetBnContextNoBlock ==
  ASSUME ContextInv, ObjectControl, NEW t \in Thread, CallGetBnContext(t)
  PROVE  QuietBlocks(t)
<1>0. TypeOK /\ ThreadControl(t)
  BY DEF ContextInv, ObjectControl
<1>1. pc[t] = "get" /\ sm[t] = {}
  BY <1>0 DEF CallGetBnContext, ThreadControl
<1>2. pc'[t] \notin {"buf", "fin_close"}
  <2>1. AfterGet(loc[t].op, loc[t].off) \notin {"buf", "fin_close"}
    BY DEF AfterGet
  <2> QED BY <1>0, <2>1 DEF CallGetBnContext, Goto, Return, PutThen, TypeOK
<1>3. OthersKept(t)
  BY <1>0 DEF CallGetBnContext, Goto, SetLoc, Return, PutThen, OthersKept, TypeOK
<1>4. \A m \in Shm : lost'[m] = lost[m]
  <2>1. ASSUME NEW c \in FindBnContext(loc[t].fd),
        Abandon({c}) PROVE \A m \in Shm : lost'[m] = lost[m]
    BY <1>0, <2>1, ServiceAssumption DEF Abandon, FindBnContext, Obj, TypeOK, InnerTypeOK
  <2> QED BY <2>1, Zenon DEF CallGetBnContext
<1>5. /\ UNCHANGED <<shmLive, shmOps, shmList, shmCtx, shmOff, sm>>
      /\ \A c \in ctxLive : bitmap'[c] = bitmap[c]
  BY DEF CallGetBnContext, GetBnContext
<1>6. \A c \in ctxLive \ ctxLive' : pc[t] = "fin_close" /\ c = fin[t]
  BY DEF CallGetBnContext, GetBnContext
<1> QED
  BY <1>1, <1>2, <1>3, <1>4, <1>5, <1>6 DEF QuietBlocks

LEMMA CallGetBnSessionNoBlock ==
  ASSUME ContextInv, ObjectControl, NEW t \in Thread, CallGetBnSession(t)
  PROVE  QuietBlocks(t)
<1>0. TypeOK /\ ThreadControl(t)
  BY DEF ContextInv, ObjectControl
<1>1. pc[t] = "sess" /\ sm[t] = {}
  BY <1>0 DEF CallGetBnSession, ThreadControl
<1>2. pc'[t] \notin {"buf", "fin_close"}
  BY <1>0, <1>1 DEF CallGetBnSession, Goto, Return, PutThen, TypeOK
<1>3. OthersKept(t)
  BY <1>0 DEF CallGetBnSession, Goto, SetLoc, Return, PutThen, OthersKept, TypeOK
<1>4. \A m \in Shm : lost'[m] = lost[m]
  BY DEF CallGetBnSession
<1>5. /\ UNCHANGED <<shmLive, shmOps, shmList, shmCtx, shmOff, sm>>
      /\ \A c \in ctxLive : bitmap'[c] = bitmap[c]
  BY DEF CallGetBnSession
<1>6. \A c \in ctxLive \ ctxLive' : pc[t] = "fin_close" /\ c = fin[t]
  BY DEF CallGetBnSession
<1> QED
  BY <1>1, <1>2, <1>3, <1>4, <1>5, <1>6 DEF QuietBlocks

LEMMA TEEC_OpenSessionInnerNoBlock ==
  ASSUME ContextInv, ObjectControl, NEW t \in Thread, TEEC_OpenSessionInner(t)
  PROVE  QuietBlocks(t)
<1>0. TypeOK /\ ThreadControl(t)
  BY DEF ContextInv, ObjectControl
<1>1. pc[t] = "ioctl" /\ cx'[t] = cx[t] /\ pc'[t] \in {"put", "put_shm", "put_ses"}
  BY <1>0 DEF TEEC_OpenSessionInner, Goto, TypeOK
<1>3. OthersKept(t)
  BY <1>0 DEF TEEC_OpenSessionInner, Goto, SetLoc, Return, PutThen, OthersKept, TypeOK
<1>4. \A m \in Shm : lost'[m] = lost[m]
  BY DEF TEEC_OpenSessionInner
<1>5. /\ UNCHANGED <<shmLive, shmOps, shmList, shmCtx, shmOff, sm>>
      /\ \A c \in ctxLive : bitmap'[c] = bitmap[c]
  BY DEF TEEC_OpenSessionInner
<1>6. \A c \in ctxLive \ ctxLive' : pc[t] = "fin_close" /\ c = fin[t]
  BY DEF TEEC_OpenSessionInner
<1> QED
  BY <1>1, <1>3, <1>4, <1>5, <1>6 DEF QuietBlocks

LEMMA TEEC_CommandInnerNoBlock ==
  ASSUME ContextInv, ObjectControl, NEW t \in Thread, TEEC_CommandInner(t)
  PROVE  QuietBlocks(t)
<1>0. TypeOK /\ ThreadControl(t)
  BY DEF ContextInv, ObjectControl
<1>1. pc[t] = "ioctl" /\ cx'[t] = cx[t] /\ pc'[t] \in {"put", "put_shm", "put_ses"}
  BY <1>0 DEF TEEC_CommandInner, Goto, TypeOK
<1>3. OthersKept(t)
  BY <1>0 DEF TEEC_CommandInner, Goto, SetLoc, Return, PutThen, OthersKept, TypeOK
<1>4. \A m \in Shm : lost'[m] = lost[m]
  BY DEF TEEC_CommandInner
<1>5. /\ UNCHANGED <<shmLive, shmOps, shmList, shmCtx, shmOff, sm>>
      /\ \A c \in ctxLive : bitmap'[c] = bitmap[c]
  BY DEF TEEC_CommandInner
<1>6. \A c \in ctxLive \ ctxLive' : pc[t] = "fin_close" /\ c = fin[t]
  BY DEF TEEC_CommandInner
<1> QED
  BY <1>1, <1>3, <1>4, <1>5, <1>6 DEF QuietBlocks

LEMMA ReleaseSessionNoBlock ==
  ASSUME ContextInv, ObjectControl, NEW t \in Thread, ReleaseSession(t)
  PROVE  QuietBlocks(t)
<1>0. TypeOK /\ ThreadControl(t)
  BY DEF ContextInv, ObjectControl
<1>1. pc[t] = "put_ses" /\ sm[t] = {}
  BY <1>0 DEF ReleaseSession, ThreadControl
<1>2. pc'[t] \notin {"buf", "fin_close"}
  BY <1>0, <1>1 DEF ReleaseSession, Goto, Return, PutThen, TypeOK
<1>3. OthersKept(t)
  BY <1>0 DEF ReleaseSession, Goto, SetLoc, Return, PutThen, OthersKept, TypeOK
<1>4. \A m \in Shm : lost'[m] = lost[m]
  BY DEF ReleaseSession
<1>5. /\ UNCHANGED <<shmLive, shmOps, shmList, shmCtx, shmOff, sm>>
      /\ \A c \in ctxLive : bitmap'[c] = bitmap[c]
  BY DEF ReleaseSession
<1>6. \A c \in ctxLive \ ctxLive' : pc[t] = "fin_close" /\ c = fin[t]
  BY DEF ReleaseSession
<1> QED
  BY <1>1, <1>2, <1>3, <1>4, <1>5, <1>6 DEF QuietBlocks

LEMMA RecOpenReplyNoBlock ==
  ASSUME ContextInv, ObjectControl, NEW t \in Thread, RecOpenReply(t)
  PROVE  QuietBlocks(t)
<1>0. TypeOK /\ ThreadControl(t)
  BY DEF ContextInv, ObjectControl
<1>1. pc[t] = "open_reply" /\ sm[t] = {}
  BY <1>0 DEF RecOpenReply, ThreadControl
<1>2. pc'[t] \notin {"buf", "fin_close"}
  BY <1>0, <1>1 DEF RecOpenReply, Goto, Return, PutThen, TypeOK
<1>3. OthersKept(t)
  BY <1>0 DEF RecOpenReply, Goto, SetLoc, Return, PutThen, OthersKept, TypeOK
<1>4. \A m \in Shm : lost'[m] = lost[m]
  BY DEF RecOpenReply
<1>5. /\ UNCHANGED <<shmLive, shmOps, shmList, shmCtx, shmOff, sm>>
      /\ \A c \in ctxLive : bitmap'[c] = bitmap[c]
  BY DEF RecOpenReply
<1>6. \A c \in ctxLive \ ctxLive' : pc[t] = "fin_close" /\ c = fin[t]
  BY DEF RecOpenReply
<1> QED
  BY <1>1, <1>2, <1>3, <1>4, <1>5, <1>6 DEF QuietBlocks

LEMMA RegisterReplyNoBlock ==
  ASSUME ContextInv, ObjectControl, NEW t \in Thread, RegisterReply(t)
  PROVE  QuietBlocks(t)
<1>0. TypeOK /\ ThreadControl(t)
  BY DEF ContextInv, ObjectControl
<1>1. pc[t] = "reg_read" /\ sm[t] = {}
  BY <1>0 DEF RegisterReply, ThreadControl
<1>2. pc'[t] \notin {"buf", "fin_close"}
  BY <1>0, <1>1 DEF RegisterReply, Goto, Return, PutThen, TypeOK
<1>3. OthersKept(t)
  BY <1>0 DEF RegisterReply, Goto, SetLoc, Return, PutThen, OthersKept, TypeOK
<1>4. \A m \in Shm : lost'[m] = lost[m]
  BY DEF RegisterReply
<1>5. /\ UNCHANGED <<shmLive, shmOps, shmList, shmCtx, shmOff, sm>>
      /\ \A c \in ctxLive : bitmap'[c] = bitmap[c]
  BY DEF RegisterReply
<1>6. \A c \in ctxLive \ ctxLive' : pc[t] = "fin_close" /\ c = fin[t]
  BY DEF RegisterReply
<1> QED
  BY <1>1, <1>2, <1>3, <1>4, <1>5, <1>6 DEF QuietBlocks

LEMMA CleanProcDataForOneCaNoBlock ==
  ASSUME ContextInv, ObjectControl, NEW t \in Thread, CleanProcDataForOneCa(t)
  PROVE  QuietBlocks(t)
<1>0. TypeOK /\ ThreadControl(t)
  BY DEF ContextInv, ObjectControl
<1>1. pc[t] = "clean" /\ sm[t] = {}
  BY <1>0 DEF CleanProcDataForOneCa, ThreadControl
<1>2. pc'[t] \notin {"buf", "fin_close"}
  BY <1>0, <1>1 DEF CleanProcDataForOneCa, Goto, Return, PutThen, TypeOK
<1>3. OthersKept(t)
  BY <1>0 DEF CleanProcDataForOneCa, Goto, SetLoc, Return, PutThen, OthersKept, TypeOK
<1>4. \A m \in Shm : lost'[m] = lost[m]
  BY DEF CleanProcDataForOneCa
<1>5. /\ UNCHANGED <<shmLive, shmOps, shmList, shmCtx, shmOff, sm>>
      /\ \A c \in ctxLive : bitmap'[c] = bitmap[c]
  BY DEF CleanProcDataForOneCa, RemoveBnContext
<1>6. \A c \in ctxLive \ ctxLive' : pc[t] = "fin_close" /\ c = fin[t]
  BY DEF CleanProcDataForOneCa, RemoveBnContext
<1> QED
  BY <1>1, <1>2, <1>3, <1>4, <1>5, <1>6 DEF QuietBlocks

LEMMA CleanPutBnContextNoBlock ==
  ASSUME ContextInv, ObjectControl, NEW t \in Thread, CleanPutBnContext(t)
  PROVE  QuietBlocks(t)
<1>0. TypeOK /\ ThreadControl(t)
  BY DEF ContextInv, ObjectControl
<1>1. pc[t] = "clean_put" /\ sm[t] = {}
  BY <1>0 DEF CleanPutBnContext, ThreadControl
<1>2. pc'[t] \notin {"buf", "fin_close"}
  BY <1>0, <1>1 DEF CleanPutBnContext, Goto, Return, PutThen, TypeOK
<1>3. OthersKept(t)
  BY <1>0 DEF CleanPutBnContext, Goto, SetLoc, Return, PutThen, OthersKept, TypeOK
<1>4. \A m \in Shm : lost'[m] = lost[m]
  BY DEF CleanPutBnContext
<1>5. /\ UNCHANGED <<shmLive, shmOps, shmList, shmCtx, shmOff, sm>>
      /\ \A c \in ctxLive : bitmap'[c] = bitmap[c]
  BY DEF CleanPutBnContext, DecBnContext
<1>6. \A c \in ctxLive \ ctxLive' : pc[t] = "fin_close" /\ c = fin[t]
  BY DEF CleanPutBnContext, DecBnContext
<1> QED
  BY <1>1, <1>2, <1>3, <1>4, <1>5, <1>6 DEF QuietBlocks

LEMMA OnRemoteDiedNoBlock ==
  ASSUME ContextInv, ObjectControl, NEW t \in Thread, NEW a \in CA, OnRemoteDied(t, a)
  PROVE  QuietBlocks(t)
<1>0. TypeOK /\ ThreadControl(t)
  BY DEF ContextInv, ObjectControl
<1>1. pc[t] = "idle" /\ sm[t] = {}
  BY <1>0 DEF OnRemoteDied, ThreadControl
<1>2. pc'[t] \notin {"buf", "fin_close"}
  BY <1>0, <1>1 DEF OnRemoteDied, Goto, Return, PutThen, TypeOK
<1>3. OthersKept(t)
  BY <1>0 DEF OnRemoteDied, Goto, SetLoc, Return, PutThen, OthersKept, TypeOK
<1>4. \A m \in Shm : lost'[m] = lost[m]
  BY DEF OnRemoteDied
<1>5. /\ UNCHANGED <<shmLive, shmOps, shmList, shmCtx, shmOff, sm>>
      /\ \A c \in ctxLive : bitmap'[c] = bitmap[c]
  BY DEF OnRemoteDied
<1>6. \A c \in ctxLive \ ctxLive' : pc[t] = "fin_close" /\ c = fin[t]
  BY DEF OnRemoteDied
<1> QED
  BY <1>1, <1>2, <1>3, <1>4, <1>5, <1>6 DEF QuietBlocks

LEMMA ProcessCaDiedNoBlock ==
  ASSUME ContextInv, ObjectControl, NEW t \in Thread, ProcessCaDied(t)
  PROVE  QuietBlocks(t)
<1>0. TypeOK /\ ThreadControl(t)
  BY DEF ContextInv, ObjectControl
<1>1. pc[t] = "died" /\ sm[t] = {}
  BY <1>0 DEF ProcessCaDied, ThreadControl
<1>2. pc'[t] \notin {"buf", "fin_close"}
  BY <1>0, <1>1 DEF ProcessCaDied, Goto, Return, PutThen, TypeOK
<1>3. OthersKept(t)
  BY <1>0 DEF ProcessCaDied, Goto, SetLoc, Return, PutThen, OthersKept, TypeOK
<1>4. \A m \in Shm : lost'[m] = lost[m]
  BY DEF ProcessCaDied
<1>5. /\ UNCHANGED <<shmLive, shmOps, shmList, shmCtx, shmOff, sm>>
      /\ \A c \in ctxLive : bitmap'[c] = bitmap[c]
  BY DEF ProcessCaDied
<1>6. \A c \in ctxLive \ ctxLive' : pc[t] = "fin_close" /\ c = fin[t]
  BY DEF ProcessCaDied
<1> QED
  BY <1>1, <1>2, <1>3, <1>4, <1>5, <1>6 DEF QuietBlocks

LEMMA InitializeContextNoBlock ==
  ASSUME ContextInv, ObjectControl, NEW t \in Thread, NEW a \in CA, NEW c \in Ctx,
         NEW f \in Fd, InitializeContext(t, a, c, f)
  PROVE  QuietBlocks(t)
<1>0. TypeOK /\ ThreadControl(t)
  BY DEF ContextInv, ObjectControl
<1>1. pc[t] = "idle" /\ sm[t] = {}
  BY <1>0 DEF InitializeContext, ThreadControl
<1>2. pc'[t] \notin {"buf", "fin_close"}
  BY <1>0, <1>1 DEF InitializeContext, Goto, Return, PutThen, TypeOK
<1>3. OthersKept(t)
  BY <1>0 DEF InitializeContext, Goto, SetLoc, Return, PutThen, OthersKept, TypeOK
<1>4. \A m \in Shm : lost'[m] = lost[m]
  BY DEF InitializeContext
<1>5. /\ UNCHANGED <<shmLive, shmOps, shmList, shmCtx, shmOff, sm>>
      /\ \A d \in ctxLive : bitmap'[d] = bitmap[d]
  BY <1>0 DEF InitializeContext, TEEC_InitializeContextInner, TypeOK, InnerTypeOK
<1>6. \A d \in ctxLive \ ctxLive' : pc[t] = "fin_close" /\ d = fin[t]
  BY DEF InitializeContext, TEEC_InitializeContextInner
<1> QED
  BY <1>1, <1>2, <1>3, <1>4, <1>5, <1>6 DEF QuietBlocks

LEMMA FinalizeContextNoBlock ==
  ASSUME ContextInv, ObjectControl, NEW t \in Thread, NEW a \in CA,
         NEW f \in Fd, FinalizeContext(t, a, f)
  PROVE  QuietBlocks(t)
<1>0. TypeOK /\ ThreadControl(t)
  BY DEF ContextInv, ObjectControl
<1>1. pc[t] = "idle" /\ sm[t] = {}
  BY <1>0 DEF FinalizeContext, ThreadControl
<1>2. pc'[t] \notin {"buf", "fin_close"}
  BY <1>0, <1>1 DEF FinalizeContext, Goto, Return, PutThen, TypeOK
<1>3. OthersKept(t)
  BY <1>0 DEF FinalizeContext, Goto, SetLoc, Return, PutThen, OthersKept, TypeOK
<1>4. \A m \in Shm : lost'[m] = lost[m]
  BY DEF FinalizeContext
<1>5. /\ UNCHANGED <<shmLive, shmOps, shmList, shmCtx, shmOff, sm>>
      /\ \A c \in ctxLive : bitmap'[c] = bitmap[c]
  BY DEF FinalizeContext
<1>6. \A c \in ctxLive \ ctxLive' : pc[t] = "fin_close" /\ c = fin[t]
  BY DEF FinalizeContext
<1> QED
  BY <1>1, <1>2, <1>3, <1>4, <1>5, <1>6 DEF QuietBlocks

LEMMA BeginNoBlock ==
  ASSUME ContextInv, ObjectControl, NEW t \in Thread, NEW a, NEW o, NEW f, NEW s,
         NEW B, Begin(t, a, o, f, s, B)
  PROVE  QuietBlocks(t)
<1>0. TypeOK /\ ThreadControl(t)
  BY DEF ContextInv, ObjectControl
<1>1. pc[t] = "idle" /\ sm[t] = {}
  BY <1>0 DEF Begin, ThreadControl
<1>2. pc'[t] \notin {"buf", "fin_close"}
  BY <1>0, <1>1 DEF Begin, Goto, Return, PutThen, TypeOK
<1>3. OthersKept(t)
  BY <1>0 DEF Begin, Goto, SetLoc, Return, PutThen, OthersKept, TypeOK
<1>4. \A m \in Shm : lost'[m] = lost[m]
  BY DEF Begin
<1>5. /\ UNCHANGED <<shmLive, shmOps, shmList, shmCtx, shmOff, sm>>
      /\ \A c \in ctxLive : bitmap'[c] = bitmap[c]
  BY DEF Begin
<1>6. \A c \in ctxLive \ ctxLive' : pc[t] = "fin_close" /\ c = fin[t]
  BY DEF Begin
<1> QED
  BY <1>1, <1>2, <1>3, <1>4, <1>5, <1>6 DEF QuietBlocks

LEMMA FinalizeShmListBlk ==
  ASSUME ContextInv, ObjectControl, BlockInv, NEW t \in Thread, FinalizeShmList(t)
  PROVE  BlockInv'
<1>1. OthersKept(t)
  BY DEF FinalizeShmList, Goto, OthersKept, ContextInv, TypeOK
<1> QED
  BY <1>1, BlockFinalize DEF FinalizeShmList

LEMMA GiveUpBlk ==
  ASSUME ContextInv, ObjectControl, ObjectControl', BlockInv, NEW t \in Thread,
         pc[t] \in {"opt", "ioctl"}, UNCHANGED <<ctxVars, shmVars, fin>>, GiveUp(t)
  PROVE  BlockInv'
<1>0. TypeOK /\ ThreadControl(t)
  BY DEF ContextInv, ObjectControl
<1>1. cx[t] \in Ctx /\ sm[t] \subseteq Shm /\ (loc[t].op = "close" => se[t] \in Sess)
  BY <1>0 DEF ThreadControl, UsesSession, ContextInv, ControlInv, HoldPC, TypeOK
<1>2. OthersKept(t) /\ pc'[t] \in {"idle", "put_ses"}
  BY <1>0 DEF GiveUp, Goto, Return, SetLoc, OthersKept, TypeOK
<1>3. sm' = [sm EXCEPT ![t] = {}]
  <2>1. CASE loc[t].op = "close" /\ UNCHANGED sm
    BY <1>0, <2>1 DEF ThreadControl, TypeOK
  <2> QED BY <2>1, Zenon DEF GiveUp
<1>4. \A m \in Shm : lost'[m] = IF m \in sm[t] THEN lost[m] + 1 ELSE lost[m]
  <2>1. CASE Abandon({cx[t]} \cup sm[t]) \/ Abandon(sm[t])
    BY <1>0, <1>1, <2>1, ServiceAssumption DEF Abandon, Obj, TypeOK
  <2>2. CASE loc[t].op = "close" /\ Abandon({cx[t], se[t]})
    <3>1. sm[t] = {}
      BY <1>0, <2>2 DEF ThreadControl
    <3> QED BY <1>0, <1>1, <2>2, <3>1, ServiceAssumption DEF Abandon, Obj, TypeOK
  <2> QED BY <2>1, <2>2, Zenon DEF GiveUp
<1>5. loc'[t].blk = NoShm
  BY <1>2 DEF ObjectControl, ThreadControl
<1> QED
  BY <1>2, <1>3, <1>4, <1>5, BlockAbandon

LEMMA TeecOptDecodePartialMemBlk ==
  ASSUME ContextInv, ObjectControl, ObjectControl', BlockInv, NEW t \in Thread,
         TeecOptDecodePartialMem(t)
  PROVE  BlockInv'
<1>0. TypeOK /\ pc[t] = "opt" /\ UNCHANGED <<ctxVars, fin>>
  BY DEF ContextInv, TeecOptDecodePartialMem
<1>1. ASSUME NEW b \in loc[t].off, NEW m \in FindShmByOffset(b, cx[t]), GetBnShm(m),
             sm' = [sm EXCEPT ![t] = @ \cup {m}],
             SetLoc(t, [loc[t] EXCEPT !.off = @ \ {b}]),
             Goto(t, IF loc[t].off = {b} THEN "ioctl" ELSE "opt"), UNCHANGED <<cx, lost>>
      PROVE  BlockInv'
  <2>1. OthersKept(t) /\ pc'[t] \in {"ioctl", "opt"}
    BY <1>0, <1>1 DEF Goto, SetLoc, OthersKept, TypeOK
  <2>2. loc'[t].blk = NoShm
    BY <2>1 DEF ObjectControl, ThreadControl
  <2>3. loc'[t].off = loc[t].off \ {b}
    BY <1>0, <1>1 DEF SetLoc, TypeOK, Local
  <2> QED BY <1>0, <1>1, <2>1, <2>2, <2>3, BlockGet
<1>2. CASE GiveUp(t) /\ UNCHANGED <<blkVars, bitmap>>
  BY <1>0, <1>2, GiveUpBlk
<1> QED
  BY <1>1, <1>2, Zenon DEF TeecOptDecodePartialMem

LEMMA AddTidDataFailsBlk ==
  ASSUME ContextInv, ObjectControl, ObjectControl', BlockInv, NEW t \in Thread,
         AddTidDataFails(t)
  PROVE  BlockInv'
BY GiveUpBlk DEF AddTidDataFails

LEMMA PutAllocShrMemBlk ==
  ASSUME ContextInv, ObjectControl, ObjectControl', BlockInv, NEW t \in Thread,
         PutAllocShrMem(t)
  PROVE  BlockInv'
<1>1. OthersKept(t) /\ pc'[t] \in {"put", "put_ses"}
  BY DEF PutAllocShrMem, Goto, OthersKept, ContextInv, TypeOK
<1>2. loc'[t].blk = NoShm
  BY <1>1 DEF ObjectControl, ThreadControl
<1> QED
  BY <1>1, <1>2, BlockPut DEF PutAllocShrMem

LEMMA PutBlockBlk ==
  ASSUME ContextInv, ObjectControl, ObjectControl', BlockInv, NEW t \in Thread, PutBlock(t)
  PROVE  BlockInv'
<1>1. OthersKept(t) /\ pc'[t] = "put"
  BY DEF PutBlock, Goto, SetLoc, OthersKept, ContextInv, TypeOK
<1>2. loc'[t].blk = NoShm
  BY <1>1 DEF ObjectControl, ThreadControl
<1> QED
  BY <1>1, <1>2, BlockPut DEF PutBlock

LEMMA RegisterBlockBlk ==
  ASSUME ContextInv, ObjectControl, ObjectControl', BlockInv, NEW t \in Thread, RegisterBlock(t)
  PROVE  BlockInv'
<1>0. TypeOK /\ pc[t] = "blk" /\ sm[t] = {} /\ UNCHANGED <<ctxLive, lost>> /\ cx'[t] = cx[t]
  BY DEF ContextInv, RegisterBlock, ObjectControl, ThreadControl
<1>1. OthersKept(t) /\ pc'[t] \in {"put", "put_blk"}
  BY <1>0 DEF RegisterBlock, Goto, PutThen, SetLoc, OthersKept, TypeOK
<1>2. loc'[t].blk = NoShm
  BY <1>1 DEF ObjectControl, ThreadControl
<1>3. ASSUME NEW m \in Shm \ shmLive, TEEC_RegisterSharedMemoryInner(m, cx[t]),
             sm' = [sm EXCEPT ![t] = {m}]
      PROVE  BlockInv'
  BY <1>0, <1>1, <1>2, <1>3, BlockRegister
<1>4. CASE UNCHANGED <<shmVars, sm>>
  <2>1. QuietBlocks(t)
    BY <1>0, <1>1, <1>4 DEF QuietBlocks
  <2> QED BY <2>1, QuietBlockStep
<1> QED
  BY <1>3, <1>4, Zenon DEF RegisterBlock

LEMMA AllocateOffsetBlk ==
  ASSUME ContextInv, ObjectControl, BlockInv, ObjectControl',
         NEW t \in Thread, AllocateOffset(t)
  PROVE  BlockInv'
<1>0. TypeOK /\ pc[t] = "blk" /\ sm[t] = {} /\ UNCHANGED <<ctxLive, lost, sm>> /\ cx'[t] = cx[t]
  BY DEF ContextInv, AllocateOffset, ObjectControl, ThreadControl
<1>1. OthersKept(t)
  BY <1>0 DEF AllocateOffset, Goto, PutThen, SetLoc, OthersKept, TypeOK
<1>2. ASSUME NEW m \in Shm \ shmLive, GetAndSetBit(m, cx[t]),
             SetLoc(t, [loc[t] EXCEPT !.blk = m]), Goto(t, "buf")
      PROVE  BlockInv'
  <2>1. pc'[t] = "buf" /\ loc'[t].blk = m
    BY <1>0, <1>2 DEF Goto, SetLoc, TypeOK, Local
  <2> QED BY <1>0, <1>1, <1>2, <2>1, BlockAllocate
<1>3. CASE PutThen(t, "idle") /\ UNCHANGED shmVars
  <2>1. pc'[t] = "put"
    BY <1>0, <1>3 DEF PutThen, TypeOK
  <2>2. QuietBlocks(t)
    BY <1>0, <1>1, <1>3, <2>1 DEF QuietBlocks
  <2> QED BY <2>2, QuietBlockStep
<1> QED
  BY <1>2, <1>3, Zenon DEF AllocateOffset

LEMMA AllocateBufferBlk ==
  ASSUME ContextInv, ObjectControl, ObjectControl', BlockInv,
         NEW t \in Thread, AllocateBuffer(t)
  PROVE  BlockInv'
<1>0. TypeOK /\ pc[t] = "buf" /\ loc[t].blk \in Shm /\ UNCHANGED <<ctxLive, lost>>
      /\ cx'[t] = cx[t]
  BY DEF ContextInv, ControlInv, AllocateBuffer
<1>1. OthersKept(t) /\ pc'[t] \in {"put", "put_blk"}
  BY <1>0 DEF AllocateBuffer, Goto, PutThen, SetLoc, OthersKept, TypeOK
<1>2. loc'[t].blk = NoShm
  BY <1>1 DEF ObjectControl, ThreadControl
<1>3. CASE InsertAllocated(loc[t].blk, cx[t]) /\ sm' = [sm EXCEPT ![t] = {loc[t].blk}]
  BY <1>0, <1>1, <1>2, <1>3, BlockInsert
<1>4. CASE ReleaseBufferAndClearBit(loc[t].blk, cx[t]) /\ UNCHANGED sm
  BY <1>0, <1>1, <1>2, <1>4, BlockRelease
<1> QED
  BY <1>3, <1>4, Zenon DEF AllocateBuffer

LEMMA ReleaseBlockBlk ==
  ASSUME ContextInv, ObjectControl, ObjectControl', BlockInv, NEW t \in Thread, ReleaseBlock(t)
  PROVE  BlockInv'
<1>0. TypeOK /\ pc[t] = "blk" /\ sm[t] = {} /\ UNCHANGED <<ctxLive, lost>> /\ cx'[t] = cx[t]
  BY DEF ContextInv, ReleaseBlock, ObjectControl, ThreadControl
<1>1. OthersKept(t) /\ pc'[t] \in {"put", "put_blk"}
  BY <1>0 DEF ReleaseBlock, Goto, PutThen, SetLoc, OthersKept, TypeOK
<1>2. loc'[t].blk = NoShm
  BY <1>1 DEF ObjectControl, ThreadControl
<1>3. ASSUME NEW b \in loc[t].off, NEW m \in FindShmByOffset(b, cx[t]),
             TEEC_FindAndRemoveShrMemInner(m), sm' = [sm EXCEPT ![t] = {m}]
      PROVE  BlockInv'
  <2>1. m \in Shm /\ shmList[m] = cx[t]
    BY <1>3 DEF FindShmByOffset
  <2> QED BY <1>0, <1>1, <1>2, <1>3, <2>1, BlockRemove
<1>4. CASE UNCHANGED <<shmVars, sm>>
  <2>1. QuietBlocks(t)
    BY <1>0, <1>1, <1>4 DEF QuietBlocks
  <2> QED BY <2>1, QuietBlockStep
<1> QED
  BY <1>3, <1>4, Zenon DEF ReleaseBlock

LEMMA RequestBlk ==
  ASSUME ContextInv, ObjectControl, ObjectControl', BlockInv, NEW t \in Thread, NEW a \in CA,
         Request(t, a)
  PROVE  BlockInv'
<1>1. ASSUME NEW c \in Ctx, NEW f \in Fd, InitializeContext(t, a, c, f) PROVE BlockInv'
  BY <1>1, InitializeContextNoBlock, QuietBlockStep
<1>2. ASSUME NEW f \in Fd, FinalizeContext(t, a, f) PROVE BlockInv'
  BY <1>2, FinalizeContextNoBlock, QuietBlockStep
<1>3. ASSUME NEW o, NEW f, NEW s, NEW B, Begin(t, a, o, f, s, B) PROVE BlockInv'
  BY <1>3, BeginNoBlock, QuietBlockStep
<1> QED
  BY <1>1, <1>2, <1>3, Zenon
     DEF Request, OpenSession, InvokeCommand, CloseSession, RegisterSharedMemory,
         AllocateSharedMemory, ReleaseSharedMemory

LEMMA HandlerStepBlk ==
  ASSUME ContextInv, ObjectControl, ObjectControl', BlockInv, NEW t \in Thread, HandlerStep(t)
  PROVE  BlockInv'
<1>0. QuietBlocks(t) => BlockInv'
  BY QuietBlockStep
<1>1. CASE ContextStep(t)
  BY <1>0, <1>1, SetContextToProcDataNoBlock, SetContextToProcDataFailsNoBlock,
     ReleaseContextNoBlock, CallFinalizeContextNoBlock, PutBnContextAndReleaseFdNoBlock,
     FinalizeSessionListNoBlock, FinalizeShmListBlk, FinalizeCloseNoBlock,
     RemoveContextFromProcDataNoBlock, CallGetBnContextNoBlock, Zenon DEF ContextStep
<1>2. CASE SessionStep(t)
  BY <1>0, <1>2, CallGetBnSessionNoBlock, TeecOptDecodePartialMemBlk, AddTidDataFailsBlk,
     TEEC_OpenSessionInnerNoBlock, TEEC_CommandInnerNoBlock, PutAllocShrMemBlk,
     ReleaseSessionNoBlock, RecOpenReplyNoBlock, Zenon DEF SessionStep
<1>3. ~ UndoAllocate(t)
  BY DEF UndoAllocate, ObjectControl, ThreadControl
<1>4. CASE SharedMemoryStep(t)
  BY <1>0, <1>3, <1>4, RegisterBlockBlk, AllocateOffsetBlk, AllocateBufferBlk,
     ReleaseBlockBlk, PutBlockBlk, RegisterReplyNoBlock, Zenon DEF SharedMemoryStep
<1>5. CASE DeathStep(t)
  BY <1>0, <1>5, ProcessCaDiedNoBlock, CleanProcDataForOneCaNoBlock, CleanPutBnContextNoBlock,
     Zenon DEF DeathStep
<1> QED
  BY <1>1, <1>2, <1>4, <1>5, Zenon DEF HandlerStep

LEMMA BlockInvNext ==
  ASSUME "reply" \notin Faults, ContextInv, ObjectControl, BlockInv, [Next]_vars
  PROVE  BlockInv'
<1>1. ObjectControl'
  BY ObjectControlNext
<1>2. ASSUME UNCHANGED <<ctxVars, shmVars, pc, loc, cx, sm, fin, lost>> PROVE BlockInv'
  <2>1. \A m : ShmHolders(m)' = ShmHolders(m) /\ (Fresh(m)' <=> Fresh(m))
    BY <1>2 DEF ShmHolders, Fresh
  <2>2. BlockCount' /\ BlockPlace' /\ FreshAlone'
    BY <1>2, <2>1 DEF BlockInv, BlockCount, BlockCounted, BlockPlace, FreshAlone
  <2>3. OffsetExclusive'
    BY <1>2 DEF BlockInv, OffsetExclusive, Releasable
  <2> QED BY <2>2, <2>3 DEF BlockInv
<1>3. ASSUME NEW a \in CA, SetCallBack(a) \/ CaDies(a) PROVE BlockInv'
  BY <1>2, <1>3 DEF SetCallBack, CaDies
<1>4. ASSUME NEW t \in Thread, NEW a \in CA, Request(t, a) \/ OnRemoteDied(t, a)
      PROVE  BlockInv'
  BY <1>1, <1>4, RequestBlk, OnRemoteDiedNoBlock, QuietBlockStep
<1>5. ASSUME NEW t \in Thread, HandlerStep(t) PROVE BlockInv'
  BY <1>1, <1>5, HandlerStepBlk
<1>6. ASSUME UNCHANGED vars PROVE BlockInv'
  <2>1. UNCHANGED <<ctxVars, shmVars, pc, loc, cx, sm, fin, lost>>
    BY <1>6 DEF vars
  <2> QED BY <1>2, <2>1
<1>7. ASSUME Next PROVE BlockInv'
  BY <1>3, <1>4, <1>5, <1>7, Zenon DEF Next
<1> QED
  BY <1>6, <1>7

LEMMA BlockInvInit == Init => BlockInv
<1> SUFFICES ASSUME Init PROVE BlockInv
  OBVIOUS
<1>1. BlockCount /\ BlockPlace /\ OffsetExclusive
  BY DEF Init, InnerInit, BlockCount, BlockPlace, OffsetExclusive, Releasable, Obj
<1>2. FreshAlone
  BY InnerAssumption DEF Init, FreshAlone, NoLocal
<1> QED
  BY <1>1, <1>2 DEF BlockInv

LEMMA BlockInvAlways ==
  ASSUME "reply" \notin Faults
  PROVE  Spec => [](ServiceInv /\ BlockInv)
<1>1. ServiceInv /\ BlockInv /\ [Next]_vars => BlockInv'
  BY BlockInvNext DEF ServiceInv
<1> QED
  BY <1>1, ServiceInvAlways, BlockInvInit, PTL DEF Spec

\* ops_cnt of every shared memory counts exactly its references from the moment it is on a
\* list, and no block in a handler's hands is freed, also when decoding an operation or
\* AddTidData fails half way (as long as the replies can be written).
THEOREM BlocksCounted ==
  ASSUME "reply" \notin Faults
  PROVE  Spec => []ShmRefCount
<1>1. BlockInv => ShmRefCount
  BY DEF BlockInv, BlockCount, BlockCounted, BlockPlace, ShmRefCount, Fresh
<1> QED
  BY <1>1, BlockInvAlways, PTL

\* ReleaseSharedMemory always finds the block's context still allocated.
THEOREM BlocksOutliveNoContext ==
  ASSUME "reply" \notin Faults
  PROVE  Spec => []ShmContextLive
<1>1. ServiceInv /\ BlockInv => ShmContextLive
  BY ReleasableLive DEF ServiceInv
<1> QED
  BY <1>1, BlockInvAlways, PTL

\* No two usable blocks of a context have the same offset, whatever the order in which
\* blocks are allocated, shared by operations, released and finalized.
THEOREM OffsetsExclusive ==
  ASSUME "reply" \notin Faults
  PROVE  Spec => []OffsetExclusive
<1>1. BlockInv => OffsetExclusive
  BY DEF BlockInv
<1> QED
  BY <1>1, BlockInvAlways, PTL

-----------------------------------------------------------------------------
(* Ownership, when no CA dies and each has one request in flight *)

\* Where a handler uses an object after its reference was given back.
LatePC == {"rel_read", "reg_read", "undo"}

\* A CA that calls is alive, and at most one thread works for it.
Alone ==
  /\ \A a \in CA : caState[a] # "dead"
  /\ \A a, b \in CA : caState[a] = "alive" /\ caState[b] = "alive" /\ PidOf[a] = PidOf[b] => a = b
  /\ \A t \in Thread :
       /\ loc[t].op # "die" /\ pc[t] \notin {"died", "clean", "clean_put"}
       /\ loc[t].ca # NoCA => caState[loc[t].ca] = "alive"
       /\ \A u \in Thread : loc[t].ca = loc[u].ca /\ loc[t].ca # NoCA => t = u

\* Live contexts have open descriptors of their own, and owners that are alive.
Descriptors ==
  /\ \A c \in ctxLive : ctxFd[c] \in Fd /\ owner[c] \in CA /\ caState[owner[c]] = "alive"
  /\ \A c, d \in ctxLive : ctxFd[c] = ctxFd[d] => c = d

\* A handler holds, tears down and looks up a context of its caller.
Owned(t) ==
  /\ cx[t] # NoCtx => owner[cx[t]] = loc[t].ca
  /\ fin[t] # NoCtx => owner[fin[t]] = loc[t].ca /\ ctxFd[fin[t]] = loc[t].fd
  /\ pc[t] \in FinPC \cup {"fin_proc"} => procLock = t
  /\ pc[t] \in {"get", "remove"} =>
       \E c \in ctxLive : ctxFd[c] = loc[t].fd /\ owner[c] = loc[t].ca

\* What a handler holds is still on the list, unless it took it off itself.
Kept(t) ==
  /\ pc[t] \in HoldPC \ {"put"} => cx[t] \in ctxList
  /\ loc[t].next \in LatePC => pc[t] \in {"put", "remove"} \cup LatePC
  /\ pc[t] = "put" /\ loc[t].next \in LatePC => cx[t] \in ctxList
  /\ pc[t] = "put" /\ loc[t].next = "rel_read" => loc[t].late = cx[t]
  /\ pc[t] = "rel_read" => loc[t].late \in ctxList /\ owner[loc[t].late] = loc[t].ca

\* The record of a context that was just freed, about to be removed under mProcDataLock.
Stale(p, f) == \E t \in Thread : pc[t] = "fin_proc" /\ PidOf[loc[t].ca] = p /\ loc[t].fd = f

\* InitializeContext is done with recording c.
Entered(c) == \A t \in Thread : pc[t] = "proc" => cx[t] # c

Entries ==
  \A p \in Pid :
    /\ procOwner[p] = NoCA => \A i \in Slot : cxtFd[p][i] = NoFd
    /\ procOwner[p] # NoCA => PidOf[procOwner[p]] = p /\ caState[procOwner[p]] = "alive"
Current(p, f) ==
  \/ Stale(p, f)
  \/ \E c \in ctxLive : ctxFd[c] = f /\ owner[c] = procOwner[p] /\ Entered(c)
Records ==
  \A p \in Pid, i \in Slot : cxtFd[p][i] # NoFd =>
    /\ Current(p, cxtFd[p][i])
    /\ \A q \in Pid, j \in Slot : cxtFd[q][j] = cxtFd[p][i] => p = q /\ i = j

OwnInv ==
  /\ Alone /\ Descriptors /\ Entries /\ Records
  /\ \A t \in Thread : Owned(t) /\ Kept(t)

-----------------------------------------------------------------------------

\* A step of t on its own objects that leaves the contexts and the table alone.
OwnQuiet(t) ==
  /\ LocStep(t) /\ loc'[t].ca \in {loc[t].ca, NoCA} /\ loc'[t].op # "die"
  /\ \A u \in Thread \ {t} : pc'[u] = pc[u] /\ cx'[u] = cx[u]
  /\ pc[t] \notin FinPC \cup {"fin_proc", "put"}
  /\ pc'[t] \notin FinPC \cup {"get", "remove", "proc", "fin_proc", "died", "clean", "clean_put", "rel_read"}
  /\ pc'[t] \in HoldPC => cx'[t] = cx[t] /\ loc'[t].ca = loc[t].ca /\ pc[t] \in HoldPC
  /\ pc'[t] \notin HoldPC => cx'[t] = NoCtx
  /\ loc'[t].next \in LatePC => pc'[t] \in {"put"} \cup LatePC
  /\ pc'[t] = "put" /\ loc'[t].next = "rel_read" => loc'[t].late = cx'[t]
  /\ pc'[t] = "put" /\ loc'[t].next \in {"reg_read", "undo"} => pc[t] = "put_blk"
  /\ UNCHANGED <<ctxLive, ctxList, ctxFd, owner, procVars, procLock, caState, fin>>

LEMMA OwnQuietStep ==
  ASSUME ContextInv, OwnInv, NEW t \in Thread, OwnQuiet(t)
  PROVE  OwnInv'
<1>0. TypeOK /\ ControlInv /\ Alone /\ Descriptors /\ Entries /\ Records
  BY DEF ContextInv, OwnInv
<1>1. /\ \A u \in Thread \ {t} : loc'[u] = loc[u] /\ pc'[u] = pc[u] /\ cx'[u] = cx[u]
      /\ fin[t] = NoCtx
  BY <1>0 DEF OwnQuiet, LocStep, ControlInv
<1>2. Alone'
  BY <1>0, <1>1 DEF OwnQuiet, Alone
<1>3. Descriptors'
  BY <1>0 DEF OwnQuiet, Descriptors
<1>4. Entries'
  BY <1>0 DEF OwnQuiet, Entries
<1>5. \A p \in Pid, f \in Fd : Current(p, f) => Current(p, f)'
  <2>1. \A p \in Pid, f \in Fd : Stale(p, f) => Stale(p, f)'
    BY <1>1 DEF Stale, OwnQuiet
  <2>2. \A c \in Ctx : Entered(c) => Entered(c)'
    BY <1>1 DEF Entered, OwnQuiet
  <2> QED BY <1>0, <2>1, <2>2 DEF Current, OwnQuiet, TypeOK, InnerTypeOK
<1>6. Records'
  <2>1. UNCHANGED cxtFd /\ \A p \in Pid, i \in Slot : cxtFd[p][i] # NoFd => cxtFd[p][i] \in Fd
    BY <1>0 DEF OwnQuiet, TypeOK
  <2> QED BY <1>0, <1>5, <2>1 DEF Records
<1>7. ASSUME NEW u \in Thread PROVE (Owned(u) /\ Kept(u))'
  <2>0. Owned(u) /\ Kept(u) /\ Owned(t) /\ Kept(t)
    BY DEF OwnInv
  <2>1. CASE u # t
    BY <1>1, <2>0, <2>1 DEF Owned, Kept, OwnQuiet
  <2>2. CASE u = t
    <3>1. Owned(t)'
      BY <1>1, <2>0 DEF Owned, OwnQuiet
    <3>2. Kept(t)'
      BY <1>1, <2>0 DEF Kept, OwnQuiet, HoldPC
    <3> QED BY <2>2, <3>1, <3>2
  <2> QED BY <2>1, <2>2
<1> QED BY <1>2, <1>3, <1>4, <1>6, <1>7 DEF OwnInv

LEMMA HandlerFacts ==
  ASSUME ContextInv, OwnInv, NEW t \in Thread
  PROVE  /\ TypeOK /\ ControlInv /\ RefInv /\ Owned(t) /\ Kept(t)
         /\ loc[t].op # "die"
         /\ pc[t] \notin {"put", "remove"} \cup LatePC => loc[t].next \notin LatePC
         /\ pc[t] \in HoldPC <=> cx[t] # NoCtx
BY DEF ContextInv, OwnInv, Alone, Kept, ControlInv

\* The handler returns or puts n where PutBnContextAndReleaseFd goes on.
LEMMA ReturnOwn ==
  ASSUME TypeOK, NEW t \in Thread, Return(t)
  PROVE  /\ LocStep(t) /\ loc'[t].ca = NoCA /\ loc'[t].op = "init" /\ loc'[t].next = "idle"
         /\ pc' = [pc EXCEPT ![t] = "idle"]
BY ReturnStep DEF NoLocal

LEMMA PutThenOwn ==
  ASSUME TypeOK, NEW t \in Thread, NEW n \in PCs, PutThen(t, n)
  PROVE  /\ LocStep(t) /\ loc'[t].ca = loc[t].ca /\ loc'[t].op = loc[t].op /\ loc'[t].next = n
         /\ pc' = [pc EXCEPT ![t] = "put"]
BY SetNext, Zenon DEF PutThen

LEMMA PCNames == {"idle", "open_reply", "rel_read", "reg_read", "undo"} \subseteq PCs
BY DEF PCs


LEMMA SetContextToProcDataFailsOwnQuiet ==
  ASSUME ContextInv, OwnInv, NEW t \in Thread, SetContextToProcDataFails(t)
  PROVE  OwnQuiet(t)
<1>0. /\ TypeOK /\ ControlInv /\ Kept(t) /\ loc[t].op # "die" /\ pc[t] = "proc"
      /\ pc[t] \notin {"put", "remove"} \cup LatePC => loc[t].next \notin LatePC
      /\ pc[t] \in HoldPC <=> cx[t] # NoCtx
  BY HandlerFacts DEF SetContextToProcDataFails
<1>1. cx[t] \in Obj \cup {NoCtx} /\ "rel_read" \in PCs
  BY <1>0, PCNames DEF TypeOK, Obj
<1>2. SetLoc(t, [loc[t] EXCEPT !.next = "rel_read", !.late = cx[t]])
  BY Zenon DEF SetContextToProcDataFails
<1>3. /\ LocStep(t) /\ loc'[t].ca = loc[t].ca /\ loc'[t].op = loc[t].op
      /\ loc'[t].next = "rel_read" /\ loc'[t].late = cx[t]
  <2>1. TypeOK
    BY <1>0
  <2> QED BY <1>1, <1>2, <2>1, SetNextLate, Zenon
<1> QED
  BY <1>0, <1>3 DEF SetContextToProcDataFails, TypeOK, OwnQuiet, HoldPC, FinPC, LatePC, Goto

LEMMA CallGetBnSessionOwnQuiet ==
  ASSUME ContextInv, OwnInv, NEW t \in Thread, CallGetBnSession(t)
  PROVE  OwnQuiet(t)
<1>0. /\ TypeOK /\ ControlInv /\ Kept(t) /\ loc[t].op # "die" /\ pc[t] = "sess"
      /\ pc[t] \notin {"put", "remove"} \cup LatePC => loc[t].next \notin LatePC
      /\ pc[t] \in HoldPC <=> cx[t] # NoCtx
  BY HandlerFacts DEF CallGetBnSession
<1>1. CASE PutThen(t, "idle")
  <2>1. /\ LocStep(t) /\ loc'[t].ca = loc[t].ca /\ loc'[t].op = loc[t].op
        /\ loc'[t].next = "idle" /\ pc' = [pc EXCEPT ![t] = "put"]
    BY <1>0, <1>1, PutThenOwn, PCNames, Zenon
  <2> QED
    BY <1>0, <1>1, <2>1 DEF CallGetBnSession, TypeOK, OwnQuiet, HoldPC, FinPC, LatePC, Goto
<1>2. CASE UNCHANGED loc /\ Goto(t, IF loc[t].off = {} THEN "ioctl" ELSE "opt")
  <2>1. LocStep(t) /\ loc'[t] = loc[t]
    BY <1>0, <1>2, SameLoc, Zenon
  <2> QED
    BY <1>0, <1>2, <2>1 DEF CallGetBnSession, TypeOK, OwnQuiet, HoldPC, FinPC, LatePC, Goto
<1>3. CASE UNCHANGED loc /\ Goto(t, "ioctl")
  <2>1. LocStep(t) /\ loc'[t] = loc[t]
    BY <1>0, <1>3, SameLoc, Zenon
  <2> QED
    BY <1>0, <1>3, <2>1 DEF CallGetBnSession, TypeOK, OwnQuiet, HoldPC, FinPC, LatePC, Goto
<1> QED BY <1>1, <1>2, <1>3, Zenon DEF CallGetBnSession

LEMMA TEEC_CommandInnerOwnQuiet ==
  ASSUME ContextInv, OwnInv, NEW t \in Thread, TEEC_CommandInner(t)
  PROVE  OwnQuiet(t)
<1>0. /\ TypeOK /\ ControlInv /\ Kept(t) /\ loc[t].op # "die" /\ pc[t] = "ioctl"
      /\ pc[t] \notin {"put", "remove"} \cup LatePC => loc[t].next \notin LatePC
      /\ pc[t] \in HoldPC <=> cx[t] # NoCtx
  BY HandlerFacts DEF TEEC_CommandInner
<1>1. CASE UNCHANGED loc
  <2>1. LocStep(t) /\ loc'[t] = loc[t]
    BY <1>0, <1>1, SameLoc, Zenon
  <2> QED
    BY <1>0, <1>1, <2>1 DEF TEEC_CommandInner, TypeOK, OwnQuiet, HoldPC, FinPC, LatePC, Goto
<1> QED BY <1>1, Zenon DEF TEEC_CommandInner

LEMMA PutAllocShrMemOwnQuiet ==
  ASSUME ContextInv, OwnInv, NEW t \in Thread, PutAllocShrMem(t)
  PROVE  OwnQuiet(t)
<1>0. /\ TypeOK /\ ControlInv /\ Kept(t) /\ loc[t].op # "die" /\ pc[t] = "put_shm"
      /\ pc[t] \notin {"put", "remove"} \cup LatePC => loc[t].next \notin LatePC
      /\ pc[t] \in HoldPC <=> cx[t] # NoCtx
  BY HandlerFacts DEF PutAllocShrMem
<1>1. CASE UNCHANGED loc
  <2>1. LocStep(t) /\ loc'[t] = loc[t]
    BY <1>0, <1>1, SameLoc, Zenon
  <2> QED
    BY <1>0, <1>1, <2>1 DEF PutAllocShrMem, TypeOK, OwnQuiet, HoldPC, FinPC, LatePC, Goto
<1> QED BY <1>1, Zenon DEF PutAllocShrMem

LEMMA ReleaseSessionOwnQuiet ==
  ASSUME ContextInv, OwnInv, NEW t \in Thread, ReleaseSession(t)
  PROVE  OwnQuiet(t)
<1>0. /\ TypeOK /\ ControlInv /\ Kept(t) /\ loc[t].op # "die" /\ pc[t] = "put_ses"
      /\ pc[t] \notin {"put", "remove"} \cup LatePC => loc[t].next \notin LatePC
      /\ pc[t] \in HoldPC <=> cx[t] # NoCtx
  BY HandlerFacts DEF ReleaseSession
<1>1. CASE PutThen(t, "idle")
  <2>1. /\ LocStep(t) /\ loc'[t].ca = loc[t].ca /\ loc'[t].op = loc[t].op
        /\ loc'[t].next = "idle" /\ pc' = [pc EXCEPT ![t] = "put"]
    BY <1>0, <1>1, PutThenOwn, PCNames, Zenon
  <2> QED
    BY <1>0, <1>1, <2>1 DEF ReleaseSession, TypeOK, OwnQuiet, HoldPC, FinPC, LatePC, Goto
<1> QED BY <1>1, Zenon DEF ReleaseSession

LEMMA RecOpenReplyOwnQuiet ==
  ASSUME ContextInv, OwnInv, NEW t \in Thread, RecOpenReply(t)
  PROVE  OwnQuiet(t)
<1>0. /\ TypeOK /\ ControlInv /\ Kept(t) /\ loc[t].op # "die" /\ pc[t] = "open_reply"
      /\ pc[t] \notin {"put", "remove"} \cup LatePC => loc[t].next \notin LatePC
      /\ pc[t] \in HoldPC <=> cx[t] # NoCtx
  BY HandlerFacts DEF RecOpenReply
<1>1. CASE Return(t)
  <2>1. /\ LocStep(t) /\ loc'[t].ca = NoCA /\ loc'[t].op = "init" /\ loc'[t].next = "idle"
        /\ pc' = [pc EXCEPT ![t] = "idle"]
    BY <1>0, <1>1, ReturnOwn, Zenon
  <2> QED
    BY <1>0, <1>1, <2>1 DEF RecOpenReply, TypeOK, OwnQuiet, HoldPC, FinPC, LatePC, Goto
<1> QED BY <1>1, Zenon DEF RecOpenReply

LEMMA TEEC_OpenSessionInnerOwnQuiet ==
  ASSUME ContextInv, OwnInv, NEW t \in Thread, TEEC_OpenSessionInner(t)
  PROVE  OwnQuiet(t)
<1>0. /\ TypeOK /\ ControlInv /\ Kept(t) /\ loc[t].op # "die" /\ pc[t] = "ioctl"
      /\ pc[t] \notin {"put", "remove"} \cup LatePC => loc[t].next \notin LatePC
      /\ pc[t] \in HoldPC <=> cx[t] # NoCtx
  BY HandlerFacts DEF TEEC_OpenSessionInner
<1>1. CASE SetLoc(t, [loc[t] EXCEPT !.next = "open_reply"])
  <2>1.  LocStep(t) /\ loc'[t].ca = loc[t].ca /\ loc'[t].op = loc[t].op /\ loc'[t].next = "open_reply"
    BY <1>0, <1>1, PCNames, SetNext, Zenon
  <2> QED
    BY <1>0, <1>1, <2>1 DEF TEEC_OpenSessionInner, TypeOK, OwnQuiet, HoldPC, FinPC, LatePC, Goto
<1>2. CASE UNCHANGED loc
  <2>1. LocStep(t) /\ loc'[t] = loc[t]
    BY <1>0, <1>2, SameLoc, Zenon
  <2> QED
    BY <1>0, <1>2, <2>1 DEF TEEC_OpenSessionInner, TypeOK, OwnQuiet, HoldPC, FinPC, LatePC, Goto
<1> QED BY <1>1, <1>2, Zenon DEF TEEC_OpenSessionInner

LEMMA RegisterBlockOwnQuiet ==
  ASSUME ContextInv, OwnInv, NEW t \in Thread, RegisterBlock(t)
  PROVE  OwnQuiet(t)
<1>0. /\ TypeOK /\ ControlInv /\ Kept(t) /\ loc[t].op # "die" /\ pc[t] = "blk"
      /\ pc[t] \notin {"put", "remove"} \cup LatePC => loc[t].next \notin LatePC
      /\ pc[t] \in HoldPC <=> cx[t] # NoCtx
  BY HandlerFacts DEF RegisterBlock
<1>1. CASE UNCHANGED loc /\ Goto(t, "put_blk")
  <2>1. LocStep(t) /\ loc'[t] = loc[t]
    BY <1>0, <1>1, SameLoc, Zenon
  <2> QED
    BY <1>0, <1>1, <2>1 DEF RegisterBlock, TypeOK, OwnQuiet, HoldPC, FinPC, LatePC, Goto
<1>2. CASE PutThen(t, "idle")
  <2>1. /\ LocStep(t) /\ loc'[t].ca = loc[t].ca /\ loc'[t].op = loc[t].op
        /\ loc'[t].next = "idle" /\ pc' = [pc EXCEPT ![t] = "put"]
    BY <1>0, <1>2, PutThenOwn, PCNames, Zenon
  <2> QED
    BY <1>0, <1>2, <2>1 DEF RegisterBlock, TypeOK, OwnQuiet, HoldPC, FinPC, LatePC, Goto
<1> QED BY <1>1, <1>2, Zenon DEF RegisterBlock

LEMMA ReleaseBlockOwnQuiet ==
  ASSUME ContextInv, OwnInv, NEW t \in Thread, ReleaseBlock(t)
  PROVE  OwnQuiet(t)
<1>0. /\ TypeOK /\ ControlInv /\ Kept(t) /\ loc[t].op # "die" /\ pc[t] = "blk"
      /\ pc[t] \notin {"put", "remove"} \cup LatePC => loc[t].next \notin LatePC
      /\ pc[t] \in HoldPC <=> cx[t] # NoCtx
  BY HandlerFacts DEF ReleaseBlock
<1>1. CASE UNCHANGED loc /\ Goto(t, "put_blk")
  <2>1. LocStep(t) /\ loc'[t] = loc[t]
    BY <1>0, <1>1, SameLoc, Zenon
  <2> QED
    BY <1>0, <1>1, <2>1 DEF ReleaseBlock, TypeOK, OwnQuiet, HoldPC, FinPC, LatePC, Goto
<1>2. CASE PutThen(t, "idle")
  <2>1. /\ LocStep(t) /\ loc'[t].ca = loc[t].ca /\ loc'[t].op = loc[t].op
        /\ loc'[t].next = "idle" /\ pc' = [pc EXCEPT ![t] = "put"]
    BY <1>0, <1>2, PutThenOwn, PCNames, Zenon
  <2> QED
    BY <1>0, <1>2, <2>1 DEF ReleaseBlock, TypeOK, OwnQuiet, HoldPC, FinPC, LatePC, Goto
<1> QED BY <1>1, <1>2, Zenon DEF ReleaseBlock

LEMMA RegisterReplyOwnQuiet ==
  ASSUME ContextInv, OwnInv, NEW t \in Thread, RegisterReply(t)
  PROVE  OwnQuiet(t)
<1>0. /\ TypeOK /\ ControlInv /\ Kept(t) /\ loc[t].op # "die" /\ pc[t] = "reg_read"
      /\ pc[t] \notin {"put", "remove"} \cup LatePC => loc[t].next \notin LatePC
      /\ pc[t] \in HoldPC <=> cx[t] # NoCtx
  BY HandlerFacts DEF RegisterReply
<1>1. CASE Return(t)
  <2>1. /\ LocStep(t) /\ loc'[t].ca = NoCA /\ loc'[t].op = "init" /\ loc'[t].next = "idle"
        /\ pc' = [pc EXCEPT ![t] = "idle"]
    BY <1>0, <1>1, ReturnOwn, Zenon
  <2> QED
    BY <1>0, <1>1, <2>1 DEF RegisterReply, TypeOK, OwnQuiet, HoldPC, FinPC, LatePC, Goto
<1> QED BY <1>1, Zenon DEF RegisterReply

LEMMA UndoAllocateOwnQuiet ==
  ASSUME ContextInv, OwnInv, NEW t \in Thread, UndoAllocate(t)
  PROVE  OwnQuiet(t)
<1>0. /\ TypeOK /\ ControlInv /\ Kept(t) /\ loc[t].op # "die" /\ pc[t] = "undo"
      /\ pc[t] \notin {"put", "remove"} \cup LatePC => loc[t].next \notin LatePC
      /\ pc[t] \in HoldPC <=> cx[t] # NoCtx
  BY HandlerFacts DEF UndoAllocate
<1>1. CASE Return(t)
  <2>1. /\ LocStep(t) /\ loc'[t].ca = NoCA /\ loc'[t].op = "init" /\ loc'[t].next = "idle"
        /\ pc' = [pc EXCEPT ![t] = "idle"]
    BY <1>0, <1>1, ReturnOwn, Zenon
  <2> QED
    BY <1>0, <1>1, <2>1 DEF UndoAllocate, TypeOK, OwnQuiet, HoldPC, FinPC, LatePC, Goto
<1> QED BY <1>1, Zenon DEF UndoAllocate

LEMMA AllocateOffsetOwnQuiet ==
  ASSUME ContextInv, OwnInv, NEW t \in Thread, AllocateOffset(t)
  PROVE  OwnQuiet(t)
<1>0. /\ TypeOK /\ ControlInv /\ Kept(t) /\ loc[t].op # "die" /\ pc[t] = "blk"
      /\ pc[t] \notin {"put", "remove"} \cup LatePC => loc[t].next \notin LatePC
      /\ pc[t] \in HoldPC <=> cx[t] # NoCtx
  BY HandlerFacts DEF AllocateOffset
<1>1. CASE \E m \in Shm : SetLoc(t, [loc[t] EXCEPT !.blk = m]) /\ Goto(t, "buf")
  <2>1. LocStep(t) /\ loc'[t].ca = loc[t].ca /\ loc'[t].op = loc[t].op /\ loc'[t].next = loc[t].next
    BY <1>0, <1>1, SetBlk, Zenon
  <2> QED
    BY <1>0, <1>1, <2>1 DEF AllocateOffset, TypeOK, OwnQuiet, HoldPC, FinPC, LatePC, Goto
<1>2. CASE PutThen(t, "idle")
  <2>1. /\ LocStep(t) /\ loc'[t].ca = loc[t].ca /\ loc'[t].op = loc[t].op
        /\ loc'[t].next = "idle" /\ pc' = [pc EXCEPT ![t] = "put"]
    BY <1>0, <1>2, PutThenOwn, PCNames, Zenon
  <2> QED
    BY <1>0, <1>2, <2>1 DEF AllocateOffset, TypeOK, OwnQuiet, HoldPC, FinPC, LatePC, Goto
<1> QED BY <1>1, <1>2, Zenon DEF AllocateOffset

LEMMA AllocateBufferOwnQuiet ==
  ASSUME ContextInv, OwnInv, NEW t \in Thread, AllocateBuffer(t)
  PROVE  OwnQuiet(t)
<1>0. /\ TypeOK /\ ControlInv /\ Kept(t) /\ loc[t].op # "die" /\ pc[t] = "buf"
      /\ pc[t] \notin {"put", "remove"} \cup LatePC => loc[t].next \notin LatePC
      /\ pc[t] \in HoldPC <=> cx[t] # NoCtx
  BY HandlerFacts DEF AllocateBuffer
<1>1. CASE \E k \in BOOLEAN : SetLoc(t, [loc[t] EXCEPT !.blk = NoShm, !.ok = k]) /\ Goto(t, "put_blk")
  <2>1. LocStep(t) /\ loc'[t].ca = loc[t].ca /\ loc'[t].op = loc[t].op /\ loc'[t].next = loc[t].next
    BY <1>0, <1>1, SetBlkOk, Zenon
  <2> QED
    BY <1>0, <1>1, <2>1 DEF AllocateBuffer, TypeOK, OwnQuiet, HoldPC, FinPC, LatePC, Goto
<1>2. CASE /\ pc' = [pc EXCEPT ![t] = "put"]
           /\ SetLoc(t, [loc[t] EXCEPT !.blk = NoShm, !.next = "idle"])
  <2>1. LocStep(t) /\ loc'[t].ca = loc[t].ca /\ loc'[t].op = loc[t].op /\ loc'[t].next = "idle"
    BY <1>0, <1>2, SetBlkNext, PCNames, Zenon
  <2> QED
    BY <1>0, <1>2, <2>1 DEF AllocateBuffer, TypeOK, OwnQuiet, HoldPC, FinPC, LatePC, Goto
<1> QED BY <1>1, <1>2 DEF AllocateBuffer

LEMMA PutBlockOwnQuiet ==
  ASSUME ContextInv, OwnInv, NEW t \in Thread, PutBlock(t)
  PROVE  OwnQuiet(t)
<1>0. /\ TypeOK /\ ControlInv /\ Kept(t) /\ loc[t].op # "die" /\ pc[t] = "put_blk"
      /\ pc[t] \in HoldPC <=> cx[t] # NoCtx
  BY HandlerFacts DEF PutBlock
<1>1. PICK m \in sm[t] : SetLoc(t, [loc[t] EXCEPT !.next = LateUse(t),
                                         !.late = IF LateUse(t) = "idle" THEN NoCtx ELSE m])
  BY DEF PutBlock
<1>2. LateUse(t) \in {"idle", "reg_read", "undo"}
  BY DEF LateUse
<1>3. LateUse(t) \in PCs /\ (IF LateUse(t) = "idle" THEN NoCtx ELSE m) \in Obj \cup {NoCtx}
  BY <1>0, <1>2, PCNames DEF TypeOK, Obj
<1>4. LocStep(t) /\ loc'[t].ca = loc[t].ca /\ loc'[t].op = loc[t].op /\ loc'[t].next = LateUse(t)
  BY <1>0, <1>1, <1>3, SetNextLate, Zenon
<1> QED
  BY <1>0, <1>2, <1>4 DEF PutBlock, TypeOK, OwnQuiet, HoldPC, FinPC, LatePC, Goto

\* The exits without a Put.
LEMMA GiveUpOwnQuiet ==
  ASSUME ContextInv, OwnInv, NEW t \in Thread, GiveUp(t), pc[t] \in {"opt", "ioctl"},
         UNCHANGED <<ctxVars, procVars, procLock, clientVars, fin, owner>>
  PROVE  OwnQuiet(t)
<1>0. /\ TypeOK /\ ControlInv /\ Kept(t) /\ loc[t].op # "die"
      /\ loc[t].next \notin LatePC /\ cx[t] # NoCtx
  BY HandlerFacts DEF HoldPC, LatePC
<1>1. CASE Return(t) /\ cx' = [cx EXCEPT ![t] = NoCtx]
  <2>1. /\ LocStep(t) /\ loc'[t].ca = NoCA /\ loc'[t].op = "init" /\ loc'[t].next = "idle"
        /\ pc' = [pc EXCEPT ![t] = "idle"]
    BY <1>0, <1>1, ReturnOwn, Zenon
  <2> QED
    BY <1>0, <1>1, <2>1 DEF TypeOK, OwnQuiet, HoldPC, FinPC, LatePC
<1>2. CASE UNCHANGED <<loc, cx>> /\ Goto(t, "put_ses")
  <2>1. LocStep(t) /\ loc'[t] = loc[t]
    BY <1>0, <1>2, SameLoc, Zenon
  <2> QED
    BY <1>0, <1>2, <2>1 DEF TypeOK, OwnQuiet, HoldPC, FinPC, LatePC, Goto
<1> QED BY <1>1, <1>2 DEF GiveUp

LEMMA AddTidDataFailsOwnQuiet ==
  ASSUME ContextInv, OwnInv, NEW t \in Thread, AddTidDataFails(t)
  PROVE  OwnQuiet(t)
BY GiveUpOwnQuiet DEF AddTidDataFails

LEMMA TeecOptDecodePartialMemOwnQuiet ==
  ASSUME ContextInv, OwnInv, NEW t \in Thread, TeecOptDecodePartialMem(t)
  PROVE  OwnQuiet(t)
<1>0. /\ TypeOK /\ ControlInv /\ Kept(t) /\ loc[t].op # "die" /\ pc[t] = "opt"
      /\ loc[t].next \notin LatePC /\ cx[t] # NoCtx /\ loc[t] \in Local
  BY HandlerFacts DEF TeecOptDecodePartialMem, HoldPC, LatePC, TypeOK
<1>1. PICK b \in loc[t].off :
        \/ /\ SetLoc(t, [loc[t] EXCEPT !.off = @ \ {b}])
           /\ Goto(t, IF loc[t].off = {b} THEN "ioctl" ELSE "opt")
           /\ UNCHANGED <<cx, se, lost>>
        \/ GiveUp(t)
  BY Zenon DEF TeecOptDecodePartialMem
<1>2. CASE GiveUp(t)
  BY <1>0, <1>2, GiveUpOwnQuiet DEF TeecOptDecodePartialMem
<1>3. CASE /\ SetLoc(t, [loc[t] EXCEPT !.off = @ \ {b}])
           /\ Goto(t, IF loc[t].off = {b} THEN "ioctl" ELSE "opt")
           /\ UNCHANGED <<cx, se, lost>>
  <2>1. b \in Bit \cup {NoBit}
    BY <1>0, <1>1 DEF Local
  <2>2. LocStep(t) /\ loc'[t].ca = loc[t].ca /\ loc'[t].op = loc[t].op /\ loc'[t].next = loc[t].next
    BY <1>0, <1>3, <2>1, SetOff, Zenon
  <2> QED
    BY <1>0, <1>3, <2>2 DEF TeecOptDecodePartialMem, TypeOK, OwnQuiet, HoldPC, FinPC, LatePC, Goto
<1> QED BY <1>1, <1>2, <1>3

-----------------------------------------------------------------------------
(* The steps that change contexts or the table *)

\* With one request per CA in flight, a CA that sends one has no other.
LEMMA NobodyServes ==
  ASSUME ContextInv, OwnInv, InFlight = 1, NEW a \in CA, NEW o, CanSend(a, o)
  PROVE  caState[a] = "alive" /\ \A u \in Thread : loc[u].ca # a
<1>1. IsFiniteSet(InFlightOf(a)) /\ Cardinality(InFlightOf(a)) \in Nat
  BY ServiceAssumption, FS_Subset, FS_CardinalityType DEF InFlightOf
<1>2. Cardinality(InFlightOf(a)) = 0
  BY <1>1 DEF CanSend
<1>3. InFlightOf(a) = {}
  BY <1>1, <1>2, FS_EmptySet
<1> QED BY <1>3 DEF InFlightOf, CanSend, OwnInv, Alone

\* While mProcDataLock is free, every record is that of a live context.
LEMMA NoneStale ==
  ASSUME OwnInv, ProcDataUnlocked
  PROVE  /\ \A t \in Thread : pc[t] \notin FinPC \cup {"fin_proc"}
         /\ \A p, f : ~Stale(p, f)
BY ServiceAssumption DEF OwnInv, Owned, ProcDataUnlocked, Stale

\* A descriptor that passes IsValidContext is that of a live context of the caller.
LEMMA ValidIsOwned ==
  ASSUME ContextInv, OwnInv, ProcDataUnlocked, NEW a \in CA, NEW f \in Fd, IsValidContext(a, f)
  PROVE  \E c \in ctxLive : ctxFd[c] = f /\ owner[c] = a
<1>1. PICK i \in Slot : cxtFd[PidOf[a]][i] = f
  BY DEF IsValidContext
<1>2. PidOf[a] \in Pid /\ f # NoFd
  BY ServiceAssumption, InnerAssumption
<1>3. Current(PidOf[a], f)
  BY <1>1, <1>2 DEF OwnInv, Records
<1> QED BY <1>3, NoneStale DEF Current, IsValidContext

\* A step that begins a request: t, idle before, gets a caller nobody works for.
OwnStart(t, a) ==
  /\ LocStep(t) /\ loc'[t].ca = a /\ loc'[t].op # "die" /\ loc'[t].next = "idle"
  /\ \A u \in Thread \ {t} : pc'[u] = pc[u] /\ cx'[u] = cx[u]
  /\ pc[t] = "idle"
  /\ pc'[t] \in {"get", "remove", "proc"}
  /\ UNCHANGED <<procVars, procLock, caState, fin>>

LEMMA OwnStartStep ==
  ASSUME ContextInv, OwnInv, InFlight = 1, NEW t \in Thread, NEW a \in CA, NEW o, CanSend(a, o),
         OwnStart(t, a),
         pc'[t] # "proc", cx'[t] = NoCtx,
         UNCHANGED <<ctxLive, ctxList, ctxFd, owner>>,
         \E c \in ctxLive : ctxFd[c] = loc'[t].fd /\ owner[c] = a
  PROVE  OwnInv'
<1>0. TypeOK /\ ControlInv /\ Alone /\ Descriptors /\ Entries /\ Records
  BY DEF ContextInv, OwnInv
<1>1. /\ \A u \in Thread \ {t} : loc'[u] = loc[u] /\ pc'[u] = pc[u] /\ cx'[u] = cx[u]
      /\ fin[t] = NoCtx
  BY <1>0 DEF OwnStart, LocStep, ControlInv, FinPC
<1>2. caState[a] = "alive" /\ \A u \in Thread : loc[u].ca # a
  BY NobodyServes
<1>3. Alone'
  BY <1>0, <1>1, <1>2 DEF OwnStart, Alone
<1>4. Descriptors' /\ Entries'
  BY <1>0 DEF OwnStart, Descriptors, Entries
<1>5. \A p \in Pid, f \in Fd : Current(p, f) => Current(p, f)'
  <2>1. \A p \in Pid, f \in Fd : Stale(p, f) => Stale(p, f)'
    BY <1>1 DEF Stale, OwnStart
  <2>2. \A c \in Ctx : Entered(c) => Entered(c)'
    BY <1>1 DEF Entered
  <2> QED BY <1>0, <2>1, <2>2 DEF Current, OwnStart, TypeOK, InnerTypeOK
<1>6. Records'
  <2>1. UNCHANGED cxtFd /\ \A p \in Pid, i \in Slot : cxtFd[p][i] # NoFd => cxtFd[p][i] \in Fd
    BY <1>0 DEF OwnStart, TypeOK
  <2> QED BY <1>0, <1>5, <2>1 DEF Records
<1>7. ASSUME NEW u \in Thread PROVE (Owned(u) /\ Kept(u))'
  <2>0. Owned(u) /\ Kept(u)
    BY DEF OwnInv
  <2>1. CASE u # t
    BY <1>1, <2>0, <2>1 DEF Owned, Kept, OwnStart
  <2>2. CASE u = t
    BY <1>1, <2>2 DEF Owned, Kept, OwnStart, FinPC, HoldPC, LatePC
  <2> QED BY <2>1, <2>2
<1> QED BY <1>3, <1>4, <1>6, <1>7 DEF OwnInv

LEMMA FinalizeContextOwn ==
  ASSUME ContextInv, OwnInv, InFlight = 1, NEW t \in Thread, NEW a \in CA, NEW f \in Fd,
         FinalizeContext(t, a, f)
  PROVE  OwnInv'
<1>0. TypeOK /\ ControlInv /\ pc[t] = "idle" /\ cx[t] = NoCtx /\ CanSend(a, "fin")
  BY HandlerFacts DEF FinalizeContext, HoldPC
<1>1. LocStep(t) /\ loc'[t].ca = a /\ loc'[t].op = "fin" /\ loc'[t].next = "idle" /\ loc'[t].fd = f
  BY <1>0, StartFin, Zenon DEF FinalizeContext
<1>2. OwnStart(t, a) /\ pc'[t] = "remove"
  BY <1>0, <1>1 DEF FinalizeContext, OwnStart, TypeOK, Goto
<1>3. \E c \in ctxLive : ctxFd[c] = loc'[t].fd /\ owner[c] = a
  BY <1>1, ValidIsOwned DEF FinalizeContext
<1> QED BY <1>0, <1>2, <1>3, OwnStartStep DEF FinalizeContext

LEMMA BeginOwn ==
  ASSUME ContextInv, OwnInv, InFlight = 1, NEW t \in Thread, NEW a \in CA, NEW o \in Op \ {"die"},
         NEW f \in Fd, NEW s \in Sess \cup {NoSess}, NEW B \in SUBSET (Bit \cup {NoBit}),
         Begin(t, a, o, f, s, B)
  PROVE  OwnInv'
<1>0. TypeOK /\ ControlInv /\ pc[t] = "idle" /\ cx[t] = NoCtx /\ CanSend(a, o) /\ o \in Op
  BY HandlerFacts DEF Begin, HoldPC
<1>1. LocStep(t) /\ loc'[t].ca = a /\ loc'[t].op = o /\ loc'[t].next = "idle" /\ loc'[t].fd = f
  <2>1. TypeOK /\ o \in Op
    BY <1>0
  <2>2. SetLoc(t, RequestLocals(o, a, f, s, B))
    BY Zenon DEF Begin, RequestLocals
  <2> QED BY <2>1, <2>2, StartRequest
<1>2. OwnStart(t, a) /\ pc'[t] = "get"
  BY <1>0, <1>1 DEF Begin, OwnStart, TypeOK, Goto
<1>3. \E c \in ctxLive : ctxFd[c] = loc'[t].fd /\ owner[c] = a
  BY <1>1, ValidIsOwned DEF Begin
<1> QED BY <1>0, <1>2, <1>3, OwnStartStep DEF Begin

LEMMA InitializeContextOwn ==
  ASSUME ContextInv, OwnInv, InFlight = 1, NEW t \in Thread, NEW a \in CA, NEW c \in Ctx, NEW f \in Fd,
         InitializeContext(t, a, c, f)
  PROVE  OwnInv'
<1>0. /\ TypeOK /\ ControlInv /\ RefInv /\ Alone /\ Descriptors /\ Entries /\ Records
      /\ pc[t] = "idle" /\ c \notin ctxLive /\ CanSend(a, "init") /\ f \in FreeFds
  BY DEF InitializeContext, ContextInv, OwnInv
<1>1. LocStep(t) /\ loc'[t].ca = a /\ loc'[t].op = "init" /\ loc'[t].next = "idle"
  BY <1>0, StartInit, Zenon DEF InitializeContext
<1>2. /\ pc' = [pc EXCEPT ![t] = "proc"] /\ cx' = [cx EXCEPT ![t] = c]
      /\ ctxLive' = ctxLive \cup {c} /\ ctxList' = ctxList \cup {c}
      /\ ctxFd' = [ctxFd EXCEPT ![c] = f] /\ owner' = [owner EXCEPT ![c] = a]
      /\ UNCHANGED <<procOwner, cxtFd, procLock, caState, fin>>
  BY DEF InitializeContext, TEEC_InitializeContextInner, Goto
<1>3. /\ \A u \in Thread \ {t} : loc'[u] = loc[u] /\ pc'[u] = pc[u] /\ cx'[u] = cx[u]
      /\ pc'[t] = "proc" /\ cx'[t] = c
      /\ ctxFd'[c] = f /\ owner'[c] = a
      /\ \A d \in ctxLive : d # c /\ ctxFd'[d] = ctxFd[d] /\ owner'[d] = owner[d]
  BY <1>0, <1>1, <1>2 DEF LocStep, TypeOK, InnerTypeOK
<1>4. caState[a] = "alive" /\ \A u \in Thread : loc[u].ca # a
  BY <1>0, NobodyServes
<1>5. Alone'
  BY <1>0, <1>1, <1>2, <1>3, <1>4 DEF Alone
<1>6. Descriptors'
  BY <1>0, <1>2, <1>3, <1>4 DEF Descriptors, FreeFds
<1>7. Entries'
  BY <1>0, <1>2 DEF Entries
<1>8. \A p \in Pid, g \in Fd : Current(p, g) => Current(p, g)'
  <2>1. \A p \in Pid, g \in Fd : Stale(p, g) => Stale(p, g)'
    BY <1>0, <1>3 DEF Stale
  <2>2. \A d \in ctxLive : Entered(d) => Entered(d)'
    BY <1>3 DEF Entered
  <2> QED BY <1>2, <1>3, <2>1, <2>2 DEF Current
<1>9. Records'
  <2>1. UNCHANGED cxtFd /\ \A p \in Pid, i \in Slot : cxtFd[p][i] # NoFd => cxtFd[p][i] \in Fd
    BY <1>0, <1>2 DEF TypeOK
  <2> QED BY <1>0, <1>8, <2>1 DEF Records
<1>10. ASSUME NEW u \in Thread PROVE (Owned(u) /\ Kept(u))'
  <2>0. /\ Owned(u) /\ Kept(u) /\ (cx[u] # NoCtx => cx[u] \in ctxLive)
        /\ (fin[u] # NoCtx => fin[u] \in ctxLive) /\ ctxList \subseteq ctxLive /\ fin[t] = NoCtx
    BY <1>0 DEF OwnInv, RefInv, ControlInv, FinPC
  <2>1. CASE u # t
    <3>1. Owned(u)'
      BY <1>2, <1>3, <2>0, <2>1 DEF Owned
    <3>2. Kept(u)'
      BY <1>2, <1>3, <2>0, <2>1 DEF Kept
    <3> QED BY <3>1, <3>2
  <2>2. CASE u = t
    BY <1>1, <1>2, <1>3, <2>0, <2>2 DEF Owned, Kept, FinPC, HoldPC, LatePC
  <2> QED BY <2>1, <2>2
<1> QED BY <1>5, <1>6, <1>7, <1>9, <1>10 DEF OwnInv

LEMMA SetContextToProcDataOwn ==
  ASSUME ContextInv, OwnInv, NEW t \in Thread, SetContextToProcData(t)
  PROVE  OwnInv'
<1> PICK a \in CA \cup {NoCA} : a = loc[t].ca
  BY DEF ContextInv, TypeOK, Local
<1> PICK c \in Ctx \cup {NoCtx} : c = cx[t]
  BY DEF ContextInv, TypeOK
<1> PICK p : p = PidOf[a]
  OBVIOUS
<1> DEFINE k == First({i \in Slot : cxtFd[p][i] = NoFd})
<1>0. /\ TypeOK /\ ControlInv /\ RefInv /\ Alone /\ Descriptors /\ Entries /\ Records
      /\ Owned(t) /\ Kept(t) /\ pc[t] = "proc" /\ ProcDataUnlocked
      /\ procOwner[p] \in {a, NoCA} /\ {i \in Slot : cxtFd[p][i] = NoFd} # {}
  BY DEF SetContextToProcData, ContextInv, OwnInv, ProcDataFor
<1>1. /\ a \in CA /\ p \in Pid /\ a # NoCA /\ caState[a] = "alive"
      /\ c \in ctxList /\ c \in ctxLive /\ owner[c] = a /\ ctxFd[c] \in Fd /\ ctxFd[c] # NoFd
      /\ fin[t] = NoCtx /\ c # NoCtx /\ loc[t].op # "die"
  BY <1>0, ServiceAssumption, InnerAssumption
     DEF ControlInv, HoldPC, FinPC, Kept, Owned, RefInv, Descriptors, Alone
<1>2. k \in Slot /\ cxtFd[p][k] = NoFd
  <2>1. {i \in Slot : cxtFd[p][i] = NoFd} \in SUBSET Nat
    BY DEF Slot
  <2>2. k \in {i \in Slot : cxtFd[p][i] = NoFd}
    BY <1>0, <2>1, FirstInSet
  <2> QED BY <2>2
<1>3. /\ LocStep(t) /\ loc'[t].ca = a /\ loc'[t].op = loc[t].op /\ pc' = [pc EXCEPT ![t] = "put"]
      /\ loc'[t].next = "idle" \/ (loc'[t].next = "rel_read" /\ loc'[t].late = c)
  <2>1. c \in Obj \cup {NoCtx} /\ {"idle", "rel_read"} \subseteq PCs
    BY <1>0, PCNames DEF TypeOK, Obj
  <2>2. CASE PutThen(t, "idle")
    BY <1>0, <2>1, <2>2, PutThenOwn, Zenon
  <2>3. CASE /\ Goto(t, "put")
             /\ SetLoc(t, [loc[t] EXCEPT !.next = "rel_read", !.late = cx[t]])
    <3>1. TypeOK /\ "rel_read" \in PCs /\ cx[t] \in Obj \cup {NoCtx}
      BY <1>0, <2>1
    <3>2. /\ LocStep(t) /\ loc'[t].ca = loc[t].ca /\ loc'[t].op = loc[t].op
          /\ loc'[t].next = "rel_read" /\ loc'[t].late = cx[t]
      BY <2>3, <3>1, SetNextLate, Zenon
    <3> QED BY <2>3, <3>2 DEF Goto
  <2> QED BY <2>2, <2>3, Zenon DEF SetContextToProcData
<1>4. /\ UNCHANGED <<ctxLive, ctxList, ctxFd, owner, procLock, caState, cx, fin>>
      /\ procOwner' = [procOwner EXCEPT ![p] = a]
      /\ cxtFd' = [cxtFd EXCEPT ![p][k] = ctxFd[c]]
  BY DEF SetContextToProcData
<1> HIDE DEF k
<1>5. /\ \A u \in Thread \ {t} : loc'[u] = loc[u] /\ pc'[u] = pc[u]
      /\ pc'[t] = "put"
      /\ procOwner'[p] = a /\ \A q \in Pid \ {p} : procOwner'[q] = procOwner[q]
      /\ cxtFd'[p][k] = ctxFd[c]
      /\ \A q \in Pid, i \in Slot : q # p \/ i # k => cxtFd'[q][i] = cxtFd[q][i]
  BY <1>0, <1>1, <1>2, <1>3, <1>4 DEF LocStep, TypeOK
<1>6. Alone'
  BY <1>0, <1>3, <1>4, <1>5 DEF Alone
<1>7. Descriptors'
  BY <1>0, <1>4 DEF Descriptors
<1>8. Entries'
  <2>1. PidOf[a] = p
    OBVIOUS
  <2> QED BY <1>0, <1>1, <1>4, <1>5, <2>1 DEF Entries
<1>9. \A q \in Pid, i \in Slot : cxtFd[q][i] # NoFd => cxtFd[q][i] # ctxFd[c]
  <2> SUFFICES ASSUME NEW q \in Pid, NEW i \in Slot, cxtFd[q][i] # NoFd, cxtFd[q][i] = ctxFd[c]
               PROVE  FALSE
    OBVIOUS
  <2>1. Current(q, ctxFd[c])
    BY <1>0 DEF Records
  <2>2. PICK d \in ctxLive : ctxFd[d] = ctxFd[c] /\ Entered(d)
    BY <1>0, <2>1, NoneStale DEF Current
  <2>3. d = c
    BY <1>0, <1>1, <2>2 DEF Descriptors
  <2> QED BY <1>0, <2>2, <2>3 DEF Entered
<1>10. Entered(c)' /\ \A d \in ctxLive : Entered(d) => Entered(d)'
  <2>1. ASSUME NEW u \in Thread \ {t}, cx[u] = c PROVE FALSE
    BY <1>0, <1>1, <2>1 DEF OwnInv, Owned, Alone
  <2> QED BY <1>4, <1>5, <2>1 DEF Entered
<1>11. ASSUME NEW q \in Pid, NEW i \in Slot, NEW f \in Fd, cxtFd'[q][i] = f
       PROVE  Current(q, f)'
  <2>1. CASE q = p /\ i = k
    BY <1>1, <1>4, <1>5, <1>10, <1>11, <2>1 DEF Current
  <2>2. CASE ~(q = p /\ i = k)
    <3>1. cxtFd'[q][i] = cxtFd[q][i]
      BY <1>5, <2>2
    <3>2. PICK d \in ctxLive : ctxFd[d] = f /\ owner[d] = procOwner[q] /\ Entered(d)
      BY <1>0, <1>11, <3>1, NoneStale, InnerAssumption DEF Records, Current
    <3>3. procOwner'[q] = procOwner[q]
      BY <1>0, <1>5, <1>11, <3>1, InnerAssumption DEF Entries
    <3> QED BY <1>4, <1>10, <3>1, <3>2, <3>3 DEF Current
  <2> QED BY <2>1, <2>2
<1>12. ASSUME NEW q \in Pid, NEW i \in Slot, cxtFd'[q][i] # NoFd,
              NEW r \in Pid, NEW j \in Slot, cxtFd'[r][j] = cxtFd'[q][i]
       PROVE  q = r /\ i = j
  BY <1>0, <1>1, <1>5, <1>9, <1>12 DEF Records
<1>13. Records'
  <2>1. \A q \in Pid, i \in Slot : cxtFd'[q][i] # NoFd => cxtFd'[q][i] \in Fd
    BY <1>0, <1>1, <1>5 DEF TypeOK
  <2>2. \A q \in Pid, i \in Slot, f \in Fd : cxtFd'[q][i] = f => Current(q, f)'
    BY <1>11
  <2> QED BY <1>12, <2>1, <2>2 DEF Records
<1>14. ASSUME NEW u \in Thread PROVE (Owned(u) /\ Kept(u))'
  <2>0. Owned(u) /\ Kept(u)
    BY DEF OwnInv
  <2>1. CASE u # t
    BY <1>4, <1>5, <2>0, <2>1 DEF Owned, Kept
  <2>2. CASE u = t
    <3>1. Owned(t)'
      BY <1>0, <1>1, <1>3, <1>4, <1>5 DEF Owned, FinPC
    <3>2. Kept(t)'
      BY <1>1, <1>3, <1>4, <1>5 DEF Kept, LatePC
    <3> QED BY <2>2, <3>1, <3>2
  <2> QED BY <2>1, <2>2
<1> QED BY <1>6, <1>7, <1>8, <1>13, <1>14 DEF OwnInv

LEMMA ReleaseContextOwn ==
  ASSUME ContextInv, OwnInv, NEW t \in Thread, ReleaseContext(t)
  PROVE  OwnInv'
<1>0. /\ TypeOK /\ ControlInv /\ Alone /\ Descriptors /\ Entries /\ Records
      /\ Kept(t) /\ pc[t] = "rel_read" /\ fin[t] = NoCtx /\ cx[t] = NoCtx
  BY DEF ReleaseContext, ContextInv, OwnInv, ControlInv, FinPC, HoldPC
<1>1. loc[t].late \in ctxLive /\ owner[loc[t].late] = loc[t].ca /\ ctxFd[loc[t].late] \in Fd
  BY <1>0 DEF Kept, ContextInv, RefInv, Descriptors
<1>2. SetLoc(t, [loc[t] EXCEPT !.fd = ctxFd[loc[t].late], !.late = NoCtx])
  BY <1>1, Zenon DEF ReleaseContext
<1>3. /\ LocStep(t) /\ loc'[t].ca = loc[t].ca /\ loc'[t].op = loc[t].op
      /\ loc'[t].fd = ctxFd[loc[t].late]
  <2>1. ctxFd[loc[t].late] \in Fd \cup {NoFd}
    BY <1>1
  <2> QED BY <1>0, <1>2, <2>1, SetFdLate, Zenon
<1>4. /\ UNCHANGED <<ctxLive, ctxList, ctxFd, owner, procVars, procLock, caState, cx, fin>>
      /\ pc' = [pc EXCEPT ![t] = "remove"]
  BY DEF ReleaseContext, Goto
<1>5. /\ \A u \in Thread \ {t} : loc'[u] = loc[u] /\ pc'[u] = pc[u]
      /\ pc'[t] = "remove"
  BY <1>0, <1>3, <1>4 DEF LocStep, TypeOK
<1>6. Alone' /\ Descriptors' /\ Entries'
  BY <1>0, <1>3, <1>4, <1>5 DEF Alone, Descriptors, Entries
<1>7. \A p \in Pid, f \in Fd : Current(p, f) => Current(p, f)'
  <2>1. \A p \in Pid, f \in Fd : Stale(p, f) => Stale(p, f)'
    BY <1>0, <1>5 DEF Stale
  <2>2. \A c \in ctxLive : Entered(c) => Entered(c)'
    BY <1>4, <1>5 DEF Entered
  <2> QED BY <1>4, <2>1, <2>2 DEF Current
<1>8. Records'
  <2>1. UNCHANGED cxtFd /\ \A p \in Pid, i \in Slot : cxtFd[p][i] # NoFd => cxtFd[p][i] \in Fd
    BY <1>0, <1>4 DEF TypeOK
  <2> QED BY <1>0, <1>7, <2>1 DEF Records
<1>9. ASSUME NEW u \in Thread PROVE (Owned(u) /\ Kept(u))'
  <2>0. Owned(u) /\ Kept(u)
    BY DEF OwnInv
  <2>1. CASE u # t
    BY <1>4, <1>5, <2>0, <2>1 DEF Owned, Kept
  <2>2. CASE u = t
    BY <1>0, <1>1, <1>3, <1>4, <1>5, <2>2 DEF Owned, Kept, FinPC, HoldPC
  <2> QED BY <2>1, <2>2
<1> QED BY <1>6, <1>8, <1>9 DEF OwnInv

\* The context a lookup finds is the caller's.
LEMMA FoundIsOwned ==
  ASSUME ContextInv, OwnInv, NEW t \in Thread, pc[t] \in {"get", "remove"},
         NEW c \in FindBnContext(loc[t].fd)
  PROVE  c \in ctxList /\ c \in ctxLive /\ owner[c] = loc[t].ca /\ loc[t].ca \in CA
<1>1. c \in ctxList /\ c \in ctxLive /\ ctxFd[c] = loc[t].fd
  BY DEF FindBnContext, ContextInv, RefInv
<1>2. PICK d \in ctxLive : ctxFd[d] = loc[t].fd /\ owner[d] = loc[t].ca
  BY DEF OwnInv, Owned
<1>3. c = d
  BY <1>1, <1>2 DEF OwnInv, Descriptors
<1> QED BY <1>1, <1>2, <1>3 DEF ContextInv, ControlInv

\* A step of t that changes neither the contexts' descriptors and owners nor the table,
\* and may take contexts of t's caller off the list.
OwnPrivate(t) ==
  /\ LocStep(t) /\ loc'[t].ca \in {loc[t].ca, NoCA} /\ loc'[t].op # "die"
  /\ \A u \in Thread \ {t} : pc'[u] = pc[u] /\ cx'[u] = cx[u] /\ fin'[u] = fin[u]
  /\ pc[t] # "fin_proc"
  /\ pc'[t] \notin {"proc", "died", "clean", "clean_put"}
  /\ loc[t].ca \in CA
  /\ ctxList' \subseteq ctxList
  /\ \A c \in ctxList \ ctxList' : owner[c] = loc[t].ca
  /\ UNCHANGED <<ctxLive, ctxFd, owner, procVars, caState>>

LEMMA OwnPrivateStep ==
  ASSUME ContextInv, OwnInv, NEW t \in Thread, OwnPrivate(t),
         \A u \in Thread \ {t} : procLock' = u <=> procLock = u,
         Owned(t)', Kept(t)'
  PROVE  OwnInv'
<1>0. TypeOK /\ ControlInv /\ Alone /\ Descriptors /\ Entries /\ Records /\ loc[t].ca \in CA /\ loc[t].ca # NoCA
  BY ServiceAssumption DEF ContextInv, OwnInv, OwnPrivate
<1>1. \A u \in Thread \ {t} : /\ loc'[u] = loc[u] /\ pc'[u] = pc[u] /\ cx'[u] = cx[u]
                              /\ fin'[u] = fin[u] /\ loc[u].ca # loc[t].ca
  BY <1>0 DEF OwnPrivate, LocStep, Alone
<1>2. Alone'
  BY <1>0, <1>1 DEF OwnPrivate, Alone
<1>3. Descriptors' /\ Entries'
  BY <1>0 DEF OwnPrivate, Descriptors, Entries
<1>5. \A p \in Pid, f \in Fd : Current(p, f) => Current(p, f)'
  <2>1. \A p \in Pid, f \in Fd : Stale(p, f) => Stale(p, f)'
    BY <1>1 DEF Stale, OwnPrivate
  <2>2. \A c \in ctxLive : Entered(c) => Entered(c)'
    BY <1>1 DEF Entered, OwnPrivate
  <2> QED BY <2>1, <2>2 DEF Current, OwnPrivate
<1>6. Records'
  <2>1. UNCHANGED cxtFd /\ \A p \in Pid, i \in Slot : cxtFd[p][i] # NoFd => cxtFd[p][i] \in Fd
    BY <1>0 DEF OwnPrivate, TypeOK
  <2> QED BY <1>0, <1>5, <2>1 DEF Records
<1>7. ASSUME NEW u \in Thread PROVE (Owned(u) /\ Kept(u))'
  <2>0. Owned(u) /\ Kept(u) /\ (pc[u] \in HoldPC => cx[u] # NoCtx)
    BY <1>0 DEF OwnInv, ControlInv
  <2>1. CASE u # t
    <3>1. Owned(u)'
      BY <1>1, <2>0, <2>1 DEF Owned, OwnPrivate
    <3>2. \A c \in ctxList : owner[c] = loc[u].ca => c \in ctxList'
      BY <1>1, <2>1 DEF OwnPrivate
    <3>3. Kept(u)'
      BY <1>1, <2>0, <2>1, <3>2 DEF Kept, Owned, OwnPrivate, HoldPC
    <3> QED BY <3>1, <3>3
  <2> QED BY <2>1
<1> QED BY <1>2, <1>3, <1>6, <1>7 DEF OwnInv

LEMMA CallFinalizeContextOwn ==
  ASSUME ContextInv, OwnInv, NEW t \in Thread, CallFinalizeContext(t)
  PROVE  OwnInv'
<1>0. /\ TypeOK /\ ControlInv /\ RefInv /\ Owned(t) /\ Kept(t) /\ loc[t].op # "die"
      /\ pc[t] = "remove" /\ cx[t] = NoCtx /\ fin[t] = NoCtx /\ loc[t].ca \in CA
  BY HandlerFacts DEF CallFinalizeContext, HoldPC, FinPC, ControlInv
<1>1. CASE Return(t) /\ UNCHANGED <<ctxVars, cx>>
  <2>1. /\ LocStep(t) /\ loc'[t].ca = NoCA /\ loc'[t].op = "init" /\ loc'[t].next = "idle"
        /\ pc' = [pc EXCEPT ![t] = "idle"]
    BY <1>0, <1>1, ReturnOwn, Zenon
  <2>2. OwnPrivate(t) /\ Owned(t)' /\ Kept(t)'
    BY <1>0, <1>1, <2>1 DEF CallFinalizeContext, OwnPrivate, TypeOK, Owned, Kept, HoldPC, FinPC, LatePC
  <2> QED BY <1>0, <2>2, OwnPrivateStep DEF CallFinalizeContext
<1>2. ASSUME NEW c \in FindBnContext(loc[t].fd), RemoveBnContext(c),
             cx' = [cx EXCEPT ![t] = c], PutThen(t, "idle")
      PROVE  OwnInv'
  <2>0. c \in ctxList /\ c \in ctxLive /\ owner[c] = loc[t].ca
    BY <1>0, FoundIsOwned
  <2>1. /\ LocStep(t) /\ loc'[t].ca = loc[t].ca /\ loc'[t].op = loc[t].op
        /\ loc'[t].next = "idle" /\ pc' = [pc EXCEPT ![t] = "put"]
    BY <1>0, <1>2, PutThenOwn, PCNames, Zenon
  <2>2. OwnPrivate(t)
    BY <1>0, <1>2, <2>0, <2>1 DEF CallFinalizeContext, OwnPrivate, TypeOK, RemoveBnContext
  <2>3. Owned(t)' /\ Kept(t)'
    BY <1>0, <1>2, <2>0, <2>1 DEF CallFinalizeContext, TypeOK, Owned, Kept, HoldPC, FinPC, LatePC
  <2> QED BY <1>0, <2>2, <2>3, OwnPrivateStep DEF CallFinalizeContext
<1> QED BY <1>1, <1>2 DEF CallFinalizeContext

LEMMA CallGetBnContextOwn ==
  ASSUME ContextInv, OwnInv, NEW t \in Thread, CallGetBnContext(t)
  PROVE  OwnInv'
<1>0. /\ TypeOK /\ ControlInv /\ RefInv /\ Owned(t) /\ Kept(t) /\ loc[t].op # "die"
      /\ pc[t] = "get" /\ cx[t] = NoCtx /\ fin[t] = NoCtx /\ loc[t].ca \in CA
      /\ loc[t].next \notin LatePC /\ loc[t].op \in RequestOp
  BY HandlerFacts DEF CallGetBnContext, HoldPC, FinPC, LatePC, ControlInv
<1>1. CASE Return(t) /\ UNCHANGED <<cx, ctxLive, ctxList, ctxFd>>
  <2>1. /\ LocStep(t) /\ loc'[t].ca = NoCA /\ loc'[t].op = "init" /\ loc'[t].next = "idle"
        /\ pc' = [pc EXCEPT ![t] = "idle"]
    BY <1>0, <1>1, ReturnOwn, Zenon
  <2>2. OwnPrivate(t) /\ Owned(t)' /\ Kept(t)'
    BY <1>0, <1>1, <2>1 DEF CallGetBnContext, OwnPrivate, TypeOK, Owned, Kept, HoldPC, FinPC, LatePC
  <2> QED BY <1>0, <2>2, OwnPrivateStep DEF CallGetBnContext
<1>2. ASSUME NEW c \in FindBnContext(loc[t].fd), GetBnContext(c), cx' = [cx EXCEPT ![t] = c],
             \/ Goto(t, AfterGet(loc[t].op, loc[t].off)) /\ UNCHANGED loc
             \/ PutThen(t, "idle")
      PROVE  OwnInv'
  <2>0. c \in ctxList /\ c \in ctxLive /\ owner[c] = loc[t].ca
    BY <1>0, FoundIsOwned
  <2>1. /\ LocStep(t) /\ loc'[t].ca = loc[t].ca /\ loc'[t].op = loc[t].op
        /\ loc'[t].next \notin LatePC /\ pc' = [pc EXCEPT ![t] = pc'[t]]
        /\ pc'[t] \in {"sess", "ioctl", "opt", "blk", "put"}
    <3>1. CASE Goto(t, AfterGet(loc[t].op, loc[t].off)) /\ UNCHANGED loc
      <4>1. AfterGet(loc[t].op, loc[t].off) \in {"sess", "ioctl", "opt", "blk"}
        BY <1>0 DEF AfterGet, RequestOp
      <4>2. LocStep(t) /\ loc'[t] = loc[t]
        BY <1>0, <3>1, SameLoc
      <4> QED BY <1>0, <3>1, <4>1, <4>2 DEF Goto, TypeOK
    <3>2. CASE PutThen(t, "idle")
      <4>1. /\ LocStep(t) /\ loc'[t].ca = loc[t].ca /\ loc'[t].op = loc[t].op
            /\ loc'[t].next = "idle" /\ pc' = [pc EXCEPT ![t] = "put"]
        BY <1>0, <3>2, PutThenOwn, PCNames, Zenon
      <4> QED BY <1>0, <4>1 DEF LatePC, TypeOK
    <3> QED BY <1>2, <3>1, <3>2
  <2>2. OwnPrivate(t)
    BY <1>0, <1>2, <2>0, <2>1 DEF CallGetBnContext, OwnPrivate, TypeOK, GetBnContext
  <2>3. Owned(t)' /\ Kept(t)'
    BY <1>0, <1>2, <2>0, <2>1 DEF CallGetBnContext, GetBnContext, TypeOK, Owned, Kept, HoldPC, FinPC, LatePC
  <2> QED BY <1>0, <2>2, <2>3, OwnPrivateStep DEF CallGetBnContext
<1> QED BY <1>1, <1>2 DEF CallGetBnContext, GetBnContext

\* A context on the list that a handler holds has two references at least.
LEMMA ListedNotLast ==
  ASSUME ContextInv, NEW t \in Thread, cx[t] \in ctxList
  PROVE  ~LastReference(cx[t])
<1>1. TypeOK /\ RefInv
  BY DEF ContextInv
<1>2. PICK c \in Ctx : c = cx[t] /\ c \in ctxLive /\ c \in ctxList
  BY <1>1 DEF TypeOK, InnerTypeOK, RefInv
<1>3. IsFiniteSet(Holders(c)) /\ Cardinality(Holders(c)) \in Nat /\ lost[c] \in Nat
  BY <1>1, HoldersFinite, FS_CardinalityType DEF TypeOK, Obj
<1>4. Cardinality(Holders(c)) # 0
  <2>1. Holders(c) # {}
    BY <1>2 DEF Holders
  <2> QED BY <1>3, <2>1, FS_EmptySet
<1>5. ctxOps[c] = Cardinality(Holders(c)) + 1 + lost[c]
  BY <1>1, <1>2 DEF RefInv, ContextRefCount
<1> QED BY <1>2, <1>3, <1>4, <1>5 DEF LastReference

LEMMA PutBnContextAndReleaseFdOwn ==
  ASSUME ContextInv, OwnInv, NEW t \in Thread, PutBnContextAndReleaseFd(t)
  PROVE  OwnInv'
<1>0. /\ TypeOK /\ ControlInv /\ RefInv /\ Owned(t) /\ Kept(t) /\ loc[t].op # "die"
      /\ pc[t] = "put" /\ cx[t] # NoCtx /\ cx[t] \in ctxLive /\ fin[t] = NoCtx /\ loc[t].ca \in CA
      /\ loc[t].next \in ReturnPC /\ ProcDataUnlocked
  BY HandlerFacts DEF PutBnContextAndReleaseFd, HoldPC, FinPC, ControlInv, RefInv
<1>1. /\ cx' = [cx EXCEPT ![t] = NoCtx]
      /\ UNCHANGED <<ctxLive, ctxList, ctxFd, owner, procVars, caState>>
  BY DEF PutBnContextAndReleaseFd, DecBnContext
<1>2. CASE LastReference(cx[t])
  <2>0. /\ fin' = [fin EXCEPT ![t] = cx[t]] /\ procLock' = t
        /\ pc' = [pc EXCEPT ![t] = "fin_ses"]
        /\ SetLoc(t, [loc[t] EXCEPT !.fd = ctxFd[cx[t]]])
    BY <1>2, Zenon DEF PutBnContextAndReleaseFd, Goto
  <2>1. /\ LocStep(t) /\ loc'[t].ca = loc[t].ca /\ loc'[t].op = loc[t].op
        /\ loc'[t].next = loc[t].next /\ loc'[t].fd = ctxFd[cx[t]]
    <3>1. ctxFd[cx[t]] \in Fd \cup {NoFd}
      BY <1>0 DEF TypeOK, InnerTypeOK
    <3> QED BY <1>0, <2>0, <3>1, SetFd, Zenon
  <2>2. loc[t].next \notin LatePC
    BY <1>0, <1>2, ListedNotLast DEF Kept
  <2>3. OwnPrivate(t)
    BY <1>0, <1>1, <2>0, <2>1 DEF OwnPrivate, TypeOK
  <2>4. Owned(t)' /\ Kept(t)'
    BY <1>0, <1>1, <2>0, <2>1, <2>2 DEF TypeOK, Owned, Kept, HoldPC, FinPC, LatePC
  <2>5. \A u \in Thread \ {t} : procLock' = u <=> procLock = u
    BY <1>0, <2>0, ServiceAssumption DEF ProcDataUnlocked
  <2> QED BY <2>3, <2>4, <2>5, OwnPrivateStep
<1>3. CASE ~LastReference(cx[t])
  <2>0. /\ UNCHANGED <<fin, procLock>>
        /\ IF loc[t].next = "idle" THEN Return(t) ELSE Goto(t, loc[t].next) /\ UNCHANGED loc
    BY <1>3 DEF PutBnContextAndReleaseFd
  <2>1. CASE loc[t].next = "idle"
    <3>1. /\ LocStep(t) /\ loc'[t].ca = NoCA /\ loc'[t].op = "init" /\ loc'[t].next = "idle"
          /\ pc' = [pc EXCEPT ![t] = "idle"]
      BY <1>0, <2>0, <2>1, ReturnOwn, Zenon
    <3>2. OwnPrivate(t)
      BY <1>0, <1>1, <2>0, <3>1 DEF OwnPrivate, TypeOK
    <3>3. Owned(t)' /\ Kept(t)'
      BY <1>0, <1>1, <2>0, <3>1 DEF TypeOK, Owned, Kept, HoldPC, FinPC, LatePC
    <3> QED BY <2>0, <3>2, <3>3, OwnPrivateStep
  <2>2. CASE loc[t].next # "idle"
    <3>1. LocStep(t) /\ loc'[t] = loc[t] /\ pc' = [pc EXCEPT ![t] = loc[t].next]
      BY <1>0, <2>0, <2>2, SameLoc DEF Goto
    <3>2. OwnPrivate(t)
      BY <1>0, <1>1, <2>0, <3>1 DEF OwnPrivate, TypeOK, ReturnPC
    <3>3. Owned(t)'
      BY <1>0, <1>1, <2>0, <3>1 DEF TypeOK, Owned, FinPC, ReturnPC
    <3>4. Kept(t)'
      BY <1>0, <1>1, <2>0, <3>1 DEF TypeOK, Owned, Kept, HoldPC, LatePC, ReturnPC
    <3> QED BY <2>0, <3>2, <3>3, <3>4, OwnPrivateStep
  <2> QED BY <2>1, <2>2
<1> QED BY <1>2, <1>3

\* TEEC_FinalizeContextInner up to the close.
LEMMA FinalizeListsOwn ==
  ASSUME ContextInv, OwnInv, NEW t \in Thread, FinalizeSessionList(t) \/ FinalizeShmList(t)
  PROVE  OwnInv'
<1>0. /\ TypeOK /\ ControlInv /\ Owned(t) /\ Kept(t) /\ loc[t].op # "die"
      /\ pc[t] \in {"fin_ses", "fin_shm"} /\ cx[t] = NoCtx /\ loc[t].ca \in CA
  BY HandlerFacts DEF FinalizeSessionList, FinalizeShmList, HoldPC, ControlInv
<1>1. /\ pc' = [pc EXCEPT ![t] = pc'[t]] /\ pc'[t] \in {"fin_shm", "fin_close"}
      /\ UNCHANGED <<loc, cx, fin, procLock, ctxLive, ctxList, ctxFd, owner, procVars, caState>>
  BY <1>0 DEF FinalizeSessionList, FinalizeShmList, Goto, TypeOK
<1>2. LocStep(t) /\ loc'[t] = loc[t]
  BY <1>0, <1>1, SameLoc
<1>3. OwnPrivate(t) /\ Owned(t)' /\ Kept(t)'
  BY <1>0, <1>1, <1>2 DEF OwnPrivate, TypeOK, Owned, Kept, HoldPC, FinPC, LatePC
<1> QED BY <1>1, <1>3, OwnPrivateStep

LEMMA FinalizeCloseOwn ==
  ASSUME ContextInv, OwnInv, NEW t \in Thread, FinalizeClose(t)
  PROVE  OwnInv'
<1> PICK c \in Ctx \cup {NoCtx} : c = fin[t]
  BY DEF ContextInv, TypeOK
<1>0. /\ TypeOK /\ ControlInv /\ RefInv /\ Alone /\ Descriptors /\ Entries /\ Records
      /\ Owned(t) /\ Kept(t) /\ pc[t] = "fin_close" /\ c # NoCtx /\ cx[t] = NoCtx
      /\ loc[t].ca \in CA /\ loc[t].ca # NoCA
  BY ServiceAssumption DEF FinalizeClose, ContextInv, OwnInv, ControlInv, FinPC, HoldPC
<1>1. /\ c \in ctxLive /\ c \notin ctxList /\ owner[c] = loc[t].ca /\ ctxFd[c] = loc[t].fd
      /\ \A u \in Thread : cx[u] # c /\ (fin[u] = c => u = t)
  <2>1. c \in ctxLive /\ c \notin ctxList
    BY <1>0, TornDownUnreachable
  <2>2. \A u \in Thread : cx[u] # c /\ (fin[u] = c => u = t)
    BY <1>0, HeldNotTornDown DEF RefInv
  <2> QED BY <1>0, <2>1, <2>2 DEF Owned
<1>2. /\ ctxLive' = ctxLive \ {c} /\ UNCHANGED <<ctxList, loc, cx, procOwner, cxtFd, procLock, caState>>
      /\ ctxFd' = [ctxFd EXCEPT ![c] = NoFd] /\ owner' = [owner EXCEPT ![c] = NoCA]
      /\ fin' = [fin EXCEPT ![t] = NoCtx] /\ pc' = [pc EXCEPT ![t] = "fin_proc"]
  BY <1>0 DEF FinalizeClose, FreeContext, Goto, Alone
<1>3. /\ \A u \in Thread \ {t} : pc'[u] = pc[u] /\ fin'[u] = fin[u] /\ loc[u].ca # loc[t].ca
      /\ pc'[t] = "fin_proc" /\ fin'[t] = NoCtx
      /\ \A d \in ctxLive : d # c => ctxFd'[d] = ctxFd[d] /\ owner'[d] = owner[d]
  BY <1>0, <1>2 DEF TypeOK, InnerTypeOK, Alone
<1>4. Alone' /\ Descriptors' /\ Entries'
  BY <1>0, <1>2, <1>3 DEF Alone, Descriptors, Entries
<1>5. ASSUME NEW p \in Pid, NEW f \in Fd, Current(p, f) PROVE Current(p, f)'
  <2>1. CASE Stale(p, f)
    <3>1. Stale(p, f)'
      BY <1>0, <1>2, <1>3, <2>1 DEF Stale
    <3> QED BY <3>1 DEF Current
  <2>2. ASSUME NEW d \in ctxLive, ctxFd[d] = f, owner[d] = procOwner[p], Entered(d)
        PROVE  Current(p, f)'
    <3>1. CASE d = c
      <4>1. PidOf[loc[t].ca] = p /\ loc[t].fd = f
        BY <1>0, <1>1, <2>2, <3>1 DEF Entries
      <4>2. Stale(p, f)'
        BY <1>2, <1>3, <4>1 DEF Stale
      <4> QED BY <4>2 DEF Current
    <3>2. CASE d # c
      <4>1. Entered(d)'
        BY <1>2, <1>3, <2>2 DEF Entered
      <4> QED BY <1>2, <1>3, <2>2, <3>2, <4>1 DEF Current
    <3> QED BY <3>1, <3>2
  <2> QED BY <1>5, <2>1, <2>2 DEF Current
<1>6. Records'
  <2>1. \A p \in Pid, i \in Slot : cxtFd[p][i] # NoFd => cxtFd[p][i] \in Fd
    BY <1>0 DEF TypeOK
  <2> QED BY <1>0, <1>2, <1>5, <2>1 DEF Records
<1>7. ASSUME NEW u \in Thread PROVE (Owned(u) /\ Kept(u))'
  <2>0. /\ Owned(u) /\ Kept(u) /\ ctxList \subseteq ctxLive
        /\ (cx[u] # NoCtx => cx[u] \in ctxLive) /\ (fin[u] # NoCtx => fin[u] \in ctxLive)
    BY <1>0 DEF OwnInv, RefInv
  <2>1. CASE u # t
    <3>1. Owned(u)'
      BY <1>1, <1>2, <1>3, <2>0, <2>1 DEF Owned
    <3>2. Kept(u)'
      BY <1>1, <1>2, <1>3, <2>0, <2>1 DEF Kept
    <3> QED BY <3>1, <3>2
  <2>2. CASE u = t
    BY <1>0, <1>2, <1>3, <2>2 DEF Owned, Kept, FinPC, HoldPC, LatePC
  <2> QED BY <2>1, <2>2
<1> QED BY <1>4, <1>6, <1>7 DEF OwnInv

LEMMA RemoveContextFromProcDataOwn ==
  ASSUME ContextInv, OwnInv, NEW t \in Thread, RemoveContextFromProcData(t)
  PROVE  OwnInv'
<1> PICK a \in CA \cup {NoCA} : a = loc[t].ca
  BY DEF ContextInv, TypeOK, Local
<1> PICK p : p = PidOf[a]
  OBVIOUS
<1> PICK f : f = loc[t].fd
  OBVIOUS
<1>0. /\ TypeOK /\ ControlInv /\ Alone /\ Descriptors /\ Entries /\ Records
      /\ Owned(t) /\ Kept(t) /\ pc[t] = "fin_proc" /\ cx[t] = NoCtx /\ fin[t] = NoCtx
      /\ a \in CA /\ a # NoCA /\ p \in Pid /\ procLock = t /\ loc[t].next \in ReturnPC
      /\ loc[t].next \notin LatePC /\ loc[t].op # "die"
  BY ServiceAssumption
     DEF RemoveContextFromProcData, ContextInv, OwnInv, ControlInv, FinPC, HoldPC, Owned, Kept, LatePC, Alone
<1>1. /\ LocStep(t) /\ loc'[t].ca \in {a, NoCA} /\ loc'[t].op # "die" /\ loc'[t].next \notin LatePC
      /\ pc' = [pc EXCEPT ![t] = pc'[t]] /\ pc'[t] \in ReturnPC \ LatePC
  <2>0. IF loc[t].next = "idle" THEN Return(t) ELSE Goto(t, loc[t].next) /\ UNCHANGED loc
    BY DEF RemoveContextFromProcData
  <2>1. CASE loc[t].next = "idle"
    <3>1. /\ LocStep(t) /\ loc'[t].ca = NoCA /\ loc'[t].op = "init" /\ loc'[t].next = "idle"
          /\ pc' = [pc EXCEPT ![t] = "idle"]
      BY <1>0, <2>0, <2>1, ReturnOwn, Zenon
    <3> QED BY <1>0, <3>1 DEF TypeOK, LatePC, ReturnPC
  <2>2. CASE loc[t].next # "idle"
    <3>1. LocStep(t) /\ loc'[t] = loc[t] /\ pc' = [pc EXCEPT ![t] = loc[t].next]
      BY <1>0, <2>0, <2>2, SameLoc DEF Goto
    <3> QED BY <1>0, <3>1 DEF TypeOK
  <2> QED BY <2>1, <2>2
<1>2. /\ procLock' = NoThread
      /\ UNCHANGED <<ctxLive, ctxList, ctxFd, owner, caState, cx, fin>>
  BY DEF RemoveContextFromProcData
<1>3. /\ \A u \in Thread \ {t} : /\ loc'[u] = loc[u] /\ pc'[u] = pc[u] /\ loc[u].ca # a
                                 /\ pc[u] \notin FinPC \cup {"fin_proc"}
      /\ pc'[t] \notin FinPC \cup HoldPC \cup LatePC \cup {"get", "remove", "fin_proc", "died", "clean"}
  <2>1. \A u \in Thread \ {t} : pc[u] \notin FinPC \cup {"fin_proc"}
    BY <1>0 DEF OwnInv, Owned
  <2> QED BY <1>0, <1>1, <2>1 DEF TypeOK, LocStep, Alone, FinPC, HoldPC, LatePC, ReturnPC
<1>4. Alone' /\ Descriptors'
  BY <1>0, <1>1, <1>2, <1>3 DEF Alone, Descriptors, HoldPC
\* What the step does to the table.
<1>5. /\ \A q \in Pid, i \in Slot : /\ cxtFd'[q][i] \in {cxtFd[q][i], NoFd}
                                    /\ q = p /\ cxtFd[q][i] = f => cxtFd'[q][i] = NoFd
      /\ \A q \in Pid : \/ procOwner'[q] = procOwner[q]
                        \/ procOwner'[q] = NoCA /\ \A i \in Slot : cxtFd'[q][i] = NoFd
  <2>1. CASE procOwner[p] = NoCA
    <3>1. UNCHANGED <<procOwner, cxtFd>>
      BY <2>1 DEF RemoveContextFromProcData
    <3> QED BY <1>0, <2>1, <3>1 DEF Entries
  <2>2. CASE procOwner[p] # NoCA
    <3> DEFINE hit  == {i \in Slot : cxtFd[p][i] = f}
               left == IF hit = {} THEN cxtFd[p] ELSE [cxtFd[p] EXCEPT ![First(hit)] = NoFd]
    <3>1. /\ cxtFd' = [cxtFd EXCEPT ![p] = left]
          /\ procOwner' = IF left = NoSlots THEN [procOwner EXCEPT ![p] = NoCA] ELSE procOwner
      BY <2>2 DEF RemoveContextFromProcData
    <3>2. \A i \in Slot : left[i] \in {cxtFd[p][i], NoFd} /\ (cxtFd[p][i] = f => left[i] = NoFd)
      <4>1. CASE hit = {}
        BY <4>1
      <4>2. CASE hit # {}
        <5>1. hit \in SUBSET Nat
          BY DEF Slot
        <5>2. First(hit) \in hit
          BY <4>2, <5>1, FirstInSet
        <5>3. \A i \in Slot : cxtFd[p][i] = f /\ f # NoFd => i = First(hit)
          <6>1. First(hit) \in Slot /\ cxtFd[p][First(hit)] = f
            BY <5>2
          <6> HIDE DEF hit
          <6> QED BY <1>0, <6>1 DEF Records
        <5>4. cxtFd[p] \in [Slot -> Fd \cup {NoFd}]
          BY <1>0 DEF TypeOK
        <5> HIDE DEF hit
        <5>5. hit \subseteq Slot
          BY DEF hit
        <5> QED BY <4>2, <5>2, <5>3, <5>4, <5>5
      <4> QED BY <4>1, <4>2
    <3> HIDE DEF left
    <3>3. /\ cxtFd'[p] = left /\ \A q \in Pid \ {p} : cxtFd'[q] = cxtFd[q]
          /\ \A q \in Pid \ {p} : procOwner'[q] = procOwner[q]
          /\ procOwner'[p] = procOwner[p] \/ (procOwner'[p] = NoCA /\ left = NoSlots)
      BY <1>0, <3>1 DEF TypeOK
    <3> QED BY <1>0, <3>2, <3>3 DEF NoSlots
  <2> QED BY <2>1, <2>2
<1>6. Entries'
  <2> SUFFICES ASSUME NEW q \in Pid
               PROVE  /\ procOwner'[q] = NoCA => \A i \in Slot : cxtFd'[q][i] = NoFd
                      /\ procOwner'[q] # NoCA => PidOf[procOwner'[q]] = q /\ caState'[procOwner'[q]] = "alive"
    BY DEF Entries
  <2>1. \A i \in Slot : cxtFd'[q][i] \in {cxtFd[q][i], NoFd}
    BY <1>5
  <2> QED BY <1>0, <1>2, <1>5, <2>1 DEF Entries
<1>7. ASSUME NEW q \in Pid, NEW i \in Slot, NEW g \in Fd, cxtFd'[q][i] = g
      PROVE  Current(q, g)'
  <2>1. cxtFd[q][i] = g /\ g # NoFd /\ ~(q = p /\ g = f)
    BY <1>5, <1>7, InnerAssumption
  <2>2. Current(q, g)
    BY <1>0, <2>1 DEF Records
  <2>3. ~Stale(q, g)
    BY <1>3, <2>1 DEF Stale
  <2>4. PICK d \in ctxLive : ctxFd[d] = g /\ owner[d] = procOwner[q] /\ Entered(d)
    BY <2>2, <2>3 DEF Current
  <2>5. procOwner'[q] = procOwner[q]
    BY <1>5, <1>7, <2>1
  <2>6. Entered(d)'
    BY <1>2, <1>3, <2>4 DEF Entered, HoldPC
  <2> QED BY <1>2, <2>4, <2>5, <2>6 DEF Current
<1>8. Records'
  <2>1. \A q \in Pid, i \in Slot : cxtFd'[q][i] # NoFd => cxtFd'[q][i] \in Fd /\ cxtFd'[q][i] = cxtFd[q][i]
    BY <1>0, <1>5 DEF TypeOK
  <2>2. \A q \in Pid, i \in Slot, g \in Fd : cxtFd'[q][i] = g => Current(q, g)'
    BY <1>7
  <2> QED BY <1>0, <2>1, <2>2 DEF Records
<1>9. ASSUME NEW u \in Thread PROVE (Owned(u) /\ Kept(u))'
  <2>0. Owned(u) /\ Kept(u)
    BY DEF OwnInv
  <2>1. CASE u # t
    BY <1>2, <1>3, <2>0, <2>1 DEF Owned, Kept
  <2>2. CASE u = t
    BY <1>0, <1>1, <1>2, <1>3, <2>2 DEF Owned, Kept, HoldPC, LatePC
  <2> QED BY <2>1, <2>2
<1> QED BY <1>4, <1>6, <1>8, <1>9 DEF OwnInv

LEMMA SetCallBackOwn ==
  ASSUME ContextInv, OwnInv, NEW a \in CA, SetCallBack(a)
  PROVE  OwnInv'
<1>0. TypeOK /\ Alone /\ Descriptors /\ Entries /\ Records
  BY DEF ContextInv, OwnInv
<1>1. /\ UNCHANGED <<ctxLive, ctxList, ctxFd, owner, procOwner, cxtFd, procLock, pc, loc, cx, fin>>
      /\ caState' = [caState EXCEPT ![a] = "alive"] /\ caState[a] = "new"
      /\ \A b \in CA : caState[b] = "alive" => PidOf[b] # PidOf[a]
  BY DEF SetCallBack
<1>2. caState'[a] = "alive" /\ \A b \in CA \ {a} : caState'[b] = caState[b]
  BY <1>0, <1>1 DEF TypeOK
<1>3. Alone'
  <2>1. \A t \in Thread : loc[t].ca \in CA \cup {NoCA}
    BY <1>0 DEF TypeOK, Local
  <2> QED BY <1>0, <1>1, <1>2, <2>1 DEF Alone
<1>4. Descriptors'
  BY <1>0, <1>1, <1>2 DEF Descriptors
<1>5. Entries'
  BY <1>0, <1>1, <1>2 DEF Entries, TypeOK
<1>6. Records'
  BY <1>0, <1>1 DEF Records, Current, Stale, Entered
<1>7. \A t \in Thread : (Owned(t) /\ Kept(t))'
  BY <1>1 DEF OwnInv, Owned, Kept
<1> QED BY <1>3, <1>4, <1>5, <1>6, <1>7 DEF OwnInv

-----------------------------------------------------------------------------

LEMMA OwnInvInit == Init => OwnInv
<1> SUFFICES ASSUME Init PROVE OwnInv
  OBVIOUS
<1>1. \A t \in Thread : /\ loc[t].ca = NoCA /\ loc[t].op = "init" /\ loc[t].next = "idle"
                        /\ pc[t] = "idle" /\ cx[t] = NoCtx /\ fin[t] = NoCtx
  BY DEF Init, NoLocal
<1>2. Alone
  BY <1>1 DEF Init, Alone
<1>3. Descriptors
  BY DEF Init, InnerInit, Descriptors
<1>4. Entries /\ Records
  BY DEF Init, Entries, Records, NoSlots
<1>5. \A t \in Thread : Owned(t) /\ Kept(t)
  BY <1>1 DEF Owned, Kept, FinPC, HoldPC, LatePC
<1> QED BY <1>2, <1>3, <1>4, <1>5 DEF OwnInv

LEMMA RequestOwn ==
  ASSUME ContextInv, OwnInv, InFlight = 1, NEW t \in Thread, NEW a \in CA, Request(t, a)
  PROVE  OwnInv'
<1>1. ASSUME NEW c \in Ctx, NEW f \in Fd, InitializeContext(t, a, c, f) PROVE OwnInv'
  BY <1>1, InitializeContextOwn
<1>2. ASSUME NEW f \in Fd, FinalizeContext(t, a, f) PROVE OwnInv'
  BY <1>2, FinalizeContextOwn
<1>3. ASSUME NEW f \in Fd, NEW o \in Op \ {"die"}, NEW s \in Sess \cup {NoSess},
             NEW B \in SUBSET (Bit \cup {NoBit}), Begin(t, a, o, f, s, B)
      PROVE  OwnInv'
  BY <1>3, BeginOwn
<1>4. {"open", "invoke", "close", "reg", "alloc", "rel"} \subseteq Op \ {"die"}
  BY DEF Op
<1>5. \A B \in MemRefs : B \in SUBSET (Bit \cup {NoBit})
  BY DEF MemRefs
<1>6. ASSUME NEW f \in Fd, OpenSession(t, a, f) PROVE OwnInv'
  BY <1>3, <1>4, <1>5, <1>6 DEF OpenSession
<1>7. ASSUME NEW f \in Fd, InvokeCommand(t, a, f) PROVE OwnInv'
  BY <1>3, <1>4, <1>5, <1>7 DEF InvokeCommand
<1>8. ASSUME NEW f \in Fd, \/ CloseSession(t, a, f) \/ RegisterSharedMemory(t, a, f)
                           \/ AllocateSharedMemory(t, a, f) \/ ReleaseSharedMemory(t, a, f)
      PROVE  OwnInv'
  <2>1. CASE CloseSession(t, a, f)
    BY <1>3, <1>4, <2>1 DEF CloseSession
  <2>2. CASE RegisterSharedMemory(t, a, f) \/ AllocateSharedMemory(t, a, f)
    BY <1>3, <1>4, <2>2 DEF RegisterSharedMemory, AllocateSharedMemory
  <2>3. CASE ReleaseSharedMemory(t, a, f)
    <3>1. PICK b \in Bit \cup {NoBit} : Begin(t, a, "rel", f, NoSess, {b})
      BY <2>3 DEF ReleaseSharedMemory
    <3>2. {b} \in SUBSET (Bit \cup {NoBit})
      OBVIOUS
    <3> QED BY <1>3, <1>4, <3>1, <3>2
  <2> QED BY <1>8, <2>1, <2>2, <2>3
<1> QED
  BY <1>1, <1>2, <1>6, <1>7, <1>8, Zenon DEF Request

LEMMA HandlerStepOwn ==
  ASSUME ContextInv, OwnInv, NEW t \in Thread, HandlerStep(t)
  PROVE  OwnInv'
<1>1. CASE ContextStep(t)
  BY <1>1, SetContextToProcDataOwn, SetContextToProcDataFailsOwnQuiet, ReleaseContextOwn,
     CallFinalizeContextOwn, PutBnContextAndReleaseFdOwn, FinalizeListsOwn,
     FinalizeCloseOwn, RemoveContextFromProcDataOwn, CallGetBnContextOwn, OwnQuietStep, Zenon DEF ContextStep
<1>2. CASE SessionStep(t)
  BY <1>2, CallGetBnSessionOwnQuiet, TeecOptDecodePartialMemOwnQuiet, AddTidDataFailsOwnQuiet,
     TEEC_OpenSessionInnerOwnQuiet, TEEC_CommandInnerOwnQuiet, PutAllocShrMemOwnQuiet,
     ReleaseSessionOwnQuiet, RecOpenReplyOwnQuiet, OwnQuietStep, Zenon DEF SessionStep
<1>3. CASE SharedMemoryStep(t)
  BY <1>3, RegisterBlockOwnQuiet, AllocateOffsetOwnQuiet, AllocateBufferOwnQuiet, ReleaseBlockOwnQuiet,
     PutBlockOwnQuiet, RegisterReplyOwnQuiet, UndoAllocateOwnQuiet, OwnQuietStep, Zenon DEF SharedMemoryStep
<1>4. CASE DeathStep(t)
  <2>1. pc[t] \notin {"died", "clean", "clean_put"}
    BY DEF OwnInv, Alone
  <2> QED BY <1>4, <2>1 DEF DeathStep, ProcessCaDied, CleanProcDataForOneCa, CleanPutBnContext
<1> QED
  BY <1>1, <1>2, <1>3, <1>4, Zenon DEF HandlerStep

LEMMA OwnInvNext ==
  ASSUME InFlight = 1, Mortal = {}
  PROVE  ContextInv /\ OwnInv /\ [Next]_vars => OwnInv'
<1> SUFFICES ASSUME ContextInv, OwnInv, [Next]_vars PROVE OwnInv'
  OBVIOUS
<1>1. ASSUME NEW a \in CA, SetCallBack(a) PROVE OwnInv'
  BY <1>1, SetCallBackOwn
<1>2. ASSUME NEW a \in CA, CaDies(a) PROVE OwnInv'
  BY <1>2 DEF CaDies
<1>3. ASSUME NEW t \in Thread, NEW a \in CA, OnRemoteDied(t, a) PROVE OwnInv'
  BY <1>3 DEF OnRemoteDied, OwnInv, Alone
<1>4. ASSUME NEW t \in Thread, NEW a \in CA, Request(t, a) PROVE OwnInv'
  BY <1>4, RequestOwn
<1>5. ASSUME NEW t \in Thread, HandlerStep(t) PROVE OwnInv'
  BY <1>5, HandlerStepOwn
<1>6. CASE UNCHANGED vars
  BY <1>6 DEF vars, OwnInv, Alone, Descriptors, Entries, Records, Current, Stale, Entered, Owned, Kept
<1> QED
  BY <1>1, <1>2, <1>3, <1>4, <1>5, <1>6, Zenon DEF Next

LEMMA OwnInvAlways ==
  ASSUME InFlight = 1, Mortal = {}
  PROVE  Spec => [](ContextInv /\ OwnInv)
BY OwnInvInit, OwnInvNext, ContextInvInit, ContextInvNext, PTL DEF Spec

\* ProcDataExact: SetContextToProcData and RemoveContextFromProcData keep the table exact
\* whenever mProcDataLock is free: each recorded descriptor is that of one live context of
\* the entry's CA, although the context is freed before its record is removed.
THEOREM TableMatchesContexts ==
  ASSUME InFlight = 1, Mortal = {}
  PROVE  Spec => []ProcDataExact
<1>1. OwnInv => ProcDataExact
  <2> SUFFICES ASSUME OwnInv, ProcDataUnlocked PROVE ProcDataExact
    BY DEF ProcDataExact
  <2> QED BY NoneStale DEF OwnInv, Records, Current, ProcDataExact
<1> QED BY <1>1, OwnInvAlways, PTL

-----------------------------------------------------------------------------
(* Nothing is left behind but what an error exit forgot *)

\* A context without references is being torn down.
ZeroIsTornDown == \A c \in ctxLive : ctxOps[c] = 0 => \E t \in Thread : fin[t] = c

\* A set bit is that of an allocated block.
BitsBacked ==
  \A c \in Ctx : \A b \in bitmap[c] : \E m \in shmLive : shmCtx[m] = c /\ shmOff[m] = b

TidyInv == ZeroIsTornDown /\ BitsBacked

\* No error exit has kept a reference.
NothingLost == \A o \in Obj : lost[o] = 0

tidyVars == <<ctxLive, ctxOps, fin, bitmap, shmLive, shmCtx, shmOff>>

LEMMA TidyQuietStep ==
  ASSUME TidyInv, UNCHANGED tidyVars
  PROVE  TidyInv'
<1>1. ZeroIsTornDown'
  BY DEF TidyInv, tidyVars, ZeroIsTornDown
<1>2. BitsBacked'
  BY DEF TidyInv, tidyVars, BitsBacked
<1> QED BY <1>1, <1>2 DEF TidyInv

\* A step that touches no block: the bitmaps are kept, or that of a new context is clear.
LEMMA TidyContextStep ==
  ASSUME TidyInv, UNCHANGED <<shmLive, shmCtx, shmOff>>,
         \A c \in Ctx : bitmap'[c] \subseteq bitmap[c], ZeroIsTornDown'
  PROVE  TidyInv'
BY DEF TidyInv, BitsBacked

\* A step that touches no context.
LEMMA TidyBlockStep ==
  ASSUME TidyInv, UNCHANGED <<ctxLive, ctxOps, fin>>, BitsBacked'
  PROVE  TidyInv'
BY DEF TidyInv, ZeroIsTornDown

LEMMA TidyQuietSteps ==
  ASSUME NEW t \in Thread,
         \/ SetContextToProcData(t) \/ SetContextToProcDataFails(t) \/ ReleaseContext(t)
         \/ CallFinalizeContext(t) \/ FinalizeSessionList(t) \/ RemoveContextFromProcData(t)
         \/ CallGetBnSession(t) \/ TeecOptDecodePartialMem(t) \/ AddTidDataFails(t)
         \/ TEEC_OpenSessionInner(t) \/ TEEC_CommandInner(t) \/ ReleaseSession(t)
         \/ RecOpenReply(t) \/ ReleaseBlock(t) \/ RegisterReply(t)
         \/ ProcessCaDied(t) \/ CleanProcDataForOneCa(t)
  PROVE  UNCHANGED tidyVars
<1>1. CASE SetContextToProcData(t)
  BY <1>1, Zenon DEF SetContextToProcData, tidyVars
<1>2. CASE SetContextToProcDataFails(t)
  BY <1>2, Zenon DEF SetContextToProcDataFails, tidyVars
<1>3. CASE ReleaseContext(t)
  BY <1>3, Zenon DEF ReleaseContext, tidyVars
<1>4. CASE CallFinalizeContext(t)
  BY <1>4, Zenon DEF CallFinalizeContext, RemoveBnContext, tidyVars
<1>5. CASE FinalizeSessionList(t)
  BY <1>5, Zenon DEF FinalizeSessionList, tidyVars
<1>6. CASE RemoveContextFromProcData(t)
  BY <1>6, Zenon DEF RemoveContextFromProcData, tidyVars
<1>7. CASE CallGetBnSession(t)
  BY <1>7, Zenon DEF CallGetBnSession, tidyVars
<1>8. CASE TeecOptDecodePartialMem(t)
  BY <1>8, Zenon DEF TeecOptDecodePartialMem, GetBnShm, tidyVars
<1>9. CASE AddTidDataFails(t)
  BY <1>9, Zenon DEF AddTidDataFails, tidyVars
<1>10. CASE TEEC_OpenSessionInner(t)
  BY <1>10, Zenon DEF TEEC_OpenSessionInner, tidyVars
<1>11. CASE TEEC_CommandInner(t)
  BY <1>11, Zenon DEF TEEC_CommandInner, tidyVars
<1>12. CASE ReleaseSession(t)
  BY <1>12, Zenon DEF ReleaseSession, tidyVars
<1>13. CASE RecOpenReply(t)
  BY <1>13, Zenon DEF RecOpenReply, tidyVars
<1>14. CASE ReleaseBlock(t)
  BY <1>14, Zenon DEF ReleaseBlock, TEEC_FindAndRemoveShrMemInner, tidyVars
<1>15. CASE RegisterReply(t)
  BY <1>15, Zenon DEF RegisterReply, tidyVars
<1>16. CASE CleanProcDataForOneCa(t)
  BY <1>16, Zenon DEF CleanProcDataForOneCa, RemoveBnContext, tidyVars
<1>17. CASE ProcessCaDied(t)
  BY <1>17, Zenon DEF ProcessCaDied, tidyVars
<1> QED
  BY <1>1, <1>2, <1>3, <1>4, <1>5, <1>6, <1>7, <1>8, <1>9, <1>10, <1>11, <1>12, <1>13, <1>14, <1>15, <1>16,
     <1>17, Zenon

\* Requests.
LEMMA InitializeContextTidy ==
  ASSUME ContextInv, TidyInv, NEW t \in Thread, NEW a \in CA, NEW c \in Ctx, NEW f \in Fd,
         InitializeContext(t, a, c, f)
  PROVE  TidyInv'
<1>0. TypeOK /\ ctxOps \in [Ctx -> Int] /\ ctxLive \subseteq Ctx
  BY DEF ContextInv, TypeOK, InnerTypeOK
<1>1. /\ ctxLive' = ctxLive \cup {c} /\ ctxOps' = [ctxOps EXCEPT ![c] = 2]
      /\ bitmap' = [bitmap EXCEPT ![c] = {}]
      /\ UNCHANGED <<fin, shmLive, shmCtx, shmOff>>
  BY DEF InitializeContext, TEEC_InitializeContextInner
<1>2. ZeroIsTornDown'
  BY <1>0, <1>1 DEF TidyInv, ZeroIsTornDown
<1>3. \A d \in Ctx : bitmap'[d] \subseteq bitmap[d]
  BY <1>0, <1>1 DEF TypeOK, InnerTypeOK
<1> QED BY <1>1, <1>2, <1>3, TidyContextStep

LEMMA RequestTidy ==
  ASSUME ContextInv, TidyInv, NEW t \in Thread, NEW a \in CA, Request(t, a)
  PROVE  TidyInv'
<1>1. ASSUME NEW c \in Ctx, NEW f \in Fd, InitializeContext(t, a, c, f) PROVE TidyInv'
  BY <1>1, InitializeContextTidy
<1>2. ASSUME NEW f \in Fd, FinalizeContext(t, a, f) PROVE UNCHANGED tidyVars
  BY <1>2, Zenon DEF FinalizeContext, tidyVars
<1>3. ASSUME NEW o, NEW f, NEW s, NEW B, Begin(t, a, o, f, s, B) PROVE UNCHANGED tidyVars
  BY <1>3, Zenon DEF Begin, tidyVars
<1>4. ASSUME NEW f \in Fd,
             \/ OpenSession(t, a, f) \/ InvokeCommand(t, a, f) \/ CloseSession(t, a, f)
             \/ RegisterSharedMemory(t, a, f) \/ AllocateSharedMemory(t, a, f)
             \/ ReleaseSharedMemory(t, a, f)
      PROVE  UNCHANGED tidyVars
  BY <1>3, <1>4, Zenon DEF OpenSession, InvokeCommand, CloseSession, RegisterSharedMemory,
                           AllocateSharedMemory, ReleaseSharedMemory
<1> QED
  BY <1>1, <1>2, <1>4, TidyQuietStep, Zenon DEF Request

\* Steps that take or give back a context.
LEMMA PutContextTidy ==
  ASSUME ContextInv, TidyInv, NEW t \in Thread,
         PutBnContextAndReleaseFd(t) \/ CleanPutBnContext(t)
  PROVE  TidyInv'
<1>0. TypeOK /\ RefInv /\ ctxOps \in [Ctx -> Int] /\ ctxLive \subseteq Ctx
  BY DEF ContextInv, TypeOK, InnerTypeOK
<1>1. /\ UNCHANGED <<ctxLive, bitmap, shmLive, shmCtx, shmOff>>
      /\ ctxOps' = [ctxOps EXCEPT ![cx[t]] = @ - 1]
  BY DEF PutBnContextAndReleaseFd, CleanPutBnContext, DecBnContext
<1>2. /\ fin[t] = NoCtx
      /\ fin' = IF LastReference(cx[t]) THEN [fin EXCEPT ![t] = cx[t]] ELSE fin
  <2>1. fin[t] = NoCtx
    BY DEF ContextInv, ControlInv, FinPC, PutBnContextAndReleaseFd, CleanPutBnContext
  <2>2. fin' = IF LastReference(cx[t]) THEN [fin EXCEPT ![t] = cx[t]] ELSE fin
    BY DEF PutBnContextAndReleaseFd, CleanPutBnContext
  <2> QED BY <2>1, <2>2
<1>3. ZeroIsTornDown'
  <2> SUFFICES ASSUME NEW c \in ctxLive, ctxOps'[c] = 0 PROVE \E u \in Thread : fin'[u] = c
    BY <1>1 DEF ZeroIsTornDown
  <2>1. CASE c = cx[t]
    <3>1. LastReference(cx[t])
      BY <1>0, <1>1, <2>1 DEF LastReference
    <3> QED BY <1>0, <1>2, <2>1, <3>1 DEF TypeOK
  <2>2. CASE c # cx[t]
    <3>1. ctxOps[c] = 0
      BY <1>0, <1>1, <2>2
    <3>2. PICK u \in Thread : fin[u] = c
      BY <3>1 DEF TidyInv, ZeroIsTornDown
    <3>3. u # t
      BY <1>0, <1>2, <3>2, InnerAssumption
    <3> QED BY <1>0, <1>2, <3>2, <3>3 DEF TypeOK
  <2> QED BY <2>1, <2>2
<1> QED BY <1>1, <1>3, TidyContextStep

LEMMA FinalizeCloseTidy ==
  ASSUME ContextInv, TidyInv, NEW t \in Thread, FinalizeClose(t)
  PROVE  TidyInv'
<1>0. TypeOK
  BY DEF ContextInv
<1>1. /\ ctxLive' = ctxLive \ {fin[t]} /\ fin' = [fin EXCEPT ![t] = NoCtx]
      /\ UNCHANGED <<ctxOps, bitmap, shmLive, shmCtx, shmOff>>
  BY DEF FinalizeClose, FreeContext
<1>2. ZeroIsTornDown'
  BY <1>0, <1>1 DEF TidyInv, ZeroIsTornDown, TypeOK
<1> QED BY <1>1, <1>2, TidyContextStep

LEMMA CallGetBnContextTidy ==
  ASSUME ContextInv, TidyInv, NEW t \in Thread, CallGetBnContext(t)
  PROVE  TidyInv'
<1>0. TypeOK /\ ctxOps \in [Ctx -> Int] /\ ctxList \subseteq ctxLive /\ ctxLive \subseteq Ctx
  BY DEF ContextInv, RefInv, TypeOK, InnerTypeOK
<1>1. UNCHANGED <<ctxLive, fin, bitmap, shmLive, shmCtx, shmOff>>
  BY DEF CallGetBnContext, GetBnContext
<1>2. ASSUME NEW c \in FindBnContext(loc[t].fd), GetBnContext(c) PROVE ZeroIsTornDown'
  <2>1. c \in ctxList /\ c \in ctxLive /\ c \in Ctx
    BY <1>0 DEF FindBnContext
  <2>2. ctxOps[c] >= 1
    <3>1. ctxOps[c] = Cardinality(Holders(c)) + 1 + lost[c]
      BY <2>1 DEF ContextInv, RefInv, ContextRefCount
    <3>2. Cardinality(Holders(c)) \in Nat /\ lost[c] \in Nat
      BY <1>0, <2>1, HoldersFinite DEF TypeOK, Obj
    <3> QED BY <3>1, <3>2
  <2>3. \A d \in ctxLive : ctxOps'[d] = 0 => ctxOps[d] = 0
    BY <1>0, <1>2, <2>1, <2>2 DEF GetBnContext
  <2> QED BY <1>1, <2>3 DEF TidyInv, ZeroIsTornDown
<1>3. ASSUME UNCHANGED ctxVars PROVE ZeroIsTornDown'
  BY <1>1, <1>3 DEF TidyInv, ZeroIsTornDown
<1>4. ZeroIsTornDown'
  BY <1>2, <1>3, Zenon DEF CallGetBnContext
<1> QED BY <1>1, <1>4, TidyContextStep

\* Steps that take or give back blocks.
LEMMA PutBitsBacked ==
  ASSUME TypeOK, BitsBacked, NEW M \in SUBSET Shm, PutBnShrMem(M)
  PROVE  BitsBacked'
<1> DEFINE dead == {m \in M : shmOps[m] = 1}
<1>1. /\ shmLive' = shmLive \ dead
      /\ \A m \in Shm \ dead : shmCtx'[m] = shmCtx[m] /\ shmOff'[m] = shmOff[m]
      /\ \A c \in Ctx : bitmap'[c] = bitmap[c] \ {shmOff[m] : m \in {d \in dead : shmCtx[d] = c}}
  BY DEF PutBnShrMem
<1> HIDE DEF dead
<1>2. ASSUME NEW c \in Ctx, NEW b \in bitmap'[c]
      PROVE  \E m \in shmLive' : shmCtx'[m] = c /\ shmOff'[m] = b
  <2>1. b \in bitmap[c] /\ \A m \in dead : shmCtx[m] = c => shmOff[m] # b
    BY <1>1, <1>2
  <2>2. PICK m \in shmLive : shmCtx[m] = c /\ shmOff[m] = b
    BY <2>1 DEF BitsBacked
  <2>3. m \notin dead /\ m \in Shm
    BY <2>1, <2>2 DEF TypeOK, InnerTypeOK
  <2> QED BY <1>1, <2>2, <2>3
<1> QED BY <1>2 DEF BitsBacked

LEMMA GiveBlocksBackTidy ==
  ASSUME ContextInv, TidyInv, NEW t \in Thread,
         FinalizeShmList(t) \/ PutAllocShrMem(t) \/ PutBlock(t)
  PROVE  TidyInv'
<1>0. TypeOK /\ BitsBacked /\ sm[t] \in SUBSET Shm
  BY DEF ContextInv, TidyInv, TypeOK
<1>1. ASSUME NEW M \in SUBSET Shm, PutBnShrMem(M), UNCHANGED <<ctxLive, ctxOps, fin>> PROVE TidyInv'
  BY <1>0, <1>1, PutBitsBacked, TidyBlockStep
<1>2. CASE FinalizeShmList(t)
  <2>1. UNCHANGED <<ctxLive, ctxOps, fin>>
    BY <1>2, Zenon DEF FinalizeShmList
  <2>2. PICK M \in SUBSET Shm : PutBnShrMem(M)
    BY <1>2 DEF FinalizeShmList, FinalizeSharedMemory
  <2> QED BY <1>1, <2>1, <2>2
<1>3. CASE PutAllocShrMem(t)
  <2>1. PutBnShrMem(sm[t]) /\ UNCHANGED <<ctxLive, ctxOps, fin>>
    BY <1>3, Zenon DEF PutAllocShrMem
  <2> QED BY <1>0, <1>1, <2>1
<1>4. CASE PutBlock(t)
  <2>1. PutBnShrMem(sm[t]) /\ UNCHANGED <<ctxLive, ctxOps, fin>>
    BY <1>4, Zenon DEF PutBlock
  <2> QED BY <1>0, <1>1, <2>1
<1> QED BY <1>2, <1>3, <1>4

LEMMA RegisterBlockTidy ==
  ASSUME ContextInv, TidyInv, NEW t \in Thread, RegisterBlock(t)
  PROVE  TidyInv'
<1>0. TypeOK /\ BitsBacked /\ shmLive \subseteq Shm
  BY DEF ContextInv, TidyInv, TypeOK, InnerTypeOK
<1>1. UNCHANGED <<ctxLive, ctxOps, fin>>
  BY Zenon DEF RegisterBlock
<1>2. ASSUME NEW m \in Shm \ shmLive, TEEC_RegisterSharedMemoryInner(m, cx[t]) PROVE BitsBacked'
  <2>1. /\ UNCHANGED bitmap /\ shmLive \subseteq shmLive'
        /\ \A n \in shmLive : shmCtx'[n] = shmCtx[n] /\ shmOff'[n] = shmOff[n]
    BY <1>0, <1>2 DEF TEEC_RegisterSharedMemoryInner, TypeOK, InnerTypeOK
  <2> QED BY <1>0, <2>1 DEF BitsBacked
<1>3. ASSUME UNCHANGED shmVars PROVE BitsBacked'
  BY <1>0, <1>3 DEF BitsBacked
<1>4. BitsBacked'
  BY <1>2, <1>3, Zenon DEF RegisterBlock
<1> QED BY <1>1, <1>4, TidyBlockStep

LEMMA AllocateOffsetTidy ==
  ASSUME ContextInv, TidyInv, NEW t \in Thread, AllocateOffset(t)
  PROVE  TidyInv'
<1>0. TypeOK /\ BitsBacked /\ shmLive \subseteq Shm
  BY DEF ContextInv, TidyInv, TypeOK, InnerTypeOK
<1>1. UNCHANGED <<ctxLive, ctxOps, fin>>
  BY Zenon DEF AllocateOffset
<1>2. ASSUME NEW m \in Shm \ shmLive, GetAndSetBit(m, cx[t]) PROVE BitsBacked'
  <2>0. PICK b : b = LowestClear(cx[t])
    OBVIOUS
  <2>1. /\ bitmap' = [bitmap EXCEPT ![cx[t]] = @ \cup {b}]
        /\ shmLive' = shmLive \cup {m} /\ shmCtx'[m] = cx[t] /\ shmOff'[m] = b
        /\ \A n \in shmLive : shmCtx'[n] = shmCtx[n] /\ shmOff'[n] = shmOff[n]
    BY <1>0, <1>2, <2>0 DEF GetAndSetBit, TypeOK, InnerTypeOK
  <2>2. \A c \in Ctx : \A x \in bitmap'[c] : x \in bitmap[c] \/ (c = cx[t] /\ x = b)
    BY <1>0, <2>1 DEF TypeOK, InnerTypeOK
  <2> QED BY <1>0, <2>1, <2>2 DEF BitsBacked
<1>3. ASSUME UNCHANGED shmVars PROVE BitsBacked'
  BY <1>0, <1>3 DEF BitsBacked
<1>4. BitsBacked'
  BY <1>2, <1>3, Zenon DEF AllocateOffset
<1> QED BY <1>1, <1>4, TidyBlockStep

LEMMA AllocateBufferTidy ==
  ASSUME ContextInv, BlockInv, TidyInv, NEW t \in Thread, AllocateBuffer(t)
  PROVE  TidyInv'
<1>0. pc[t] = "buf" /\ UNCHANGED <<ctxLive, ctxOps, fin>>
  BY Zenon DEF AllocateBuffer
<1>1. TypeOK /\ BitsBacked /\ shmLive \subseteq Shm /\ loc[t].blk \in Shm
  BY <1>0 DEF ContextInv, ControlInv, TidyInv, TypeOK, InnerTypeOK
<1>2. PICK m \in Shm : m = loc[t].blk
  BY <1>1
<1>3. ASSUME InsertAllocated(m, cx[t]) PROVE BitsBacked'
  BY <1>1, <1>3 DEF InsertAllocated, BitsBacked
<1>4. ASSUME ReleaseBufferAndClearBit(m, cx[t]) PROVE BitsBacked'
  <2>1. shmCtx[m] = cx[t]
    BY <1>2 DEF BlockInv, FreshAlone
  <2>2. /\ bitmap' = [bitmap EXCEPT ![cx[t]] = @ \ {shmOff[m]}] /\ shmLive' = shmLive \ {m}
        /\ \A n \in Shm \ {m} : shmCtx'[n] = shmCtx[n] /\ shmOff'[n] = shmOff[n]
    BY <1>1, <1>4 DEF ReleaseBufferAndClearBit, TypeOK, InnerTypeOK
  <2>3. ASSUME NEW c \in Ctx, NEW b \in bitmap'[c]
        PROVE  \E n \in shmLive' : shmCtx'[n] = c /\ shmOff'[n] = b
    <3>1. b \in bitmap[c] /\ ~(c = cx[t] /\ b = shmOff[m])
      BY <1>1, <2>2, <2>3 DEF TypeOK, InnerTypeOK
    <3>2. PICK n \in shmLive : shmCtx[n] = c /\ shmOff[n] = b
      BY <1>1, <3>1 DEF BitsBacked
    <3> QED BY <1>1, <2>1, <2>2, <3>1, <3>2
  <2> QED BY <2>3 DEF BitsBacked
<1>5. InsertAllocated(m, cx[t]) \/ ReleaseBufferAndClearBit(m, cx[t])
  BY <1>2, Zenon DEF AllocateBuffer
<1> QED BY <1>0, <1>3, <1>4, <1>5, TidyBlockStep

-----------------------------------------------------------------------------

LEMMA TidyInvInit == Init => TidyInv
BY DEF Init, InnerInit, TidyInv, ZeroIsTornDown, BitsBacked

LEMMA HandlerStepTidy ==
  ASSUME ContextInv, ObjectControl, BlockInv, TidyInv, NEW t \in Thread, HandlerStep(t)
  PROVE  TidyInv'
<1>1. CASE ContextStep(t)
  BY <1>1, TidyQuietStep, TidyQuietSteps, PutContextTidy, FinalizeCloseTidy, GiveBlocksBackTidy,
     CallGetBnContextTidy, Zenon DEF ContextStep
<1>2. ~UndoAllocate(t)
  BY DEF UndoAllocate, ObjectControl, ThreadControl
<1>3. CASE SessionStep(t)
  BY <1>3, TidyQuietStep, TidyQuietSteps, GiveBlocksBackTidy, Zenon DEF SessionStep
<1>4. CASE SharedMemoryStep(t)
  BY <1>2, <1>4, TidyQuietStep, TidyQuietSteps, RegisterBlockTidy, AllocateOffsetTidy,
     AllocateBufferTidy, GiveBlocksBackTidy, Zenon DEF SharedMemoryStep
<1>5. CASE DeathStep(t)
  BY <1>5, TidyQuietStep, TidyQuietSteps, PutContextTidy, Zenon DEF DeathStep
<1> QED
  BY <1>1, <1>3, <1>4, <1>5, Zenon DEF HandlerStep

LEMMA TidyInvNext ==
  ASSUME ServiceInv, BlockInv, TidyInv, [Next]_vars
  PROVE  TidyInv'
<1>0. ContextInv /\ ObjectControl
  BY DEF ServiceInv
<1>1. ASSUME NEW a \in CA, SetCallBack(a) \/ CaDies(a) PROVE UNCHANGED tidyVars
  BY <1>1, Zenon DEF SetCallBack, CaDies, tidyVars
<1>2. ASSUME NEW t \in Thread, NEW a \in CA, OnRemoteDied(t, a) PROVE UNCHANGED tidyVars
  BY <1>2, Zenon DEF OnRemoteDied, tidyVars
<1>3. ASSUME NEW t \in Thread, NEW a \in CA, Request(t, a) PROVE TidyInv'
  BY <1>0, <1>3, RequestTidy
<1>4. ASSUME NEW t \in Thread, HandlerStep(t) PROVE TidyInv'
  BY <1>0, <1>4, HandlerStepTidy
<1>5. CASE UNCHANGED vars
  BY <1>5, TidyQuietStep DEF vars, tidyVars
<1> QED
  BY <1>1, <1>2, <1>3, <1>4, <1>5, TidyQuietStep, Zenon DEF Next

\* What the counts say when no handler is running.
LEMMA QuiescentTidy ==
  ASSUME ServiceInv, BlockInv, TidyInv, NothingLost, Quiescent
  PROVE  /\ ctxLive = ctxList
         /\ \A s \in sesLive : sesList[s] \in ctxList
         /\ \A m \in shmLive : shmList[m] \in ctxList
         /\ \A c \in ctxList :
              bitmap[c] = {shmOff[m] : m \in {n \in shmLive : shmList[n] = c}} \ {NoBit}
<1>0. /\ TypeOK /\ ContextInv /\ ObjectControl /\ SessionInv /\ BlockCount /\ BlockPlace
      /\ OffsetExclusive /\ ZeroIsTornDown /\ BitsBacked
  BY DEF ServiceInv, ContextInv, BlockInv, TidyInv
<1>1. \A t \in Thread : /\ cx[t] = NoCtx /\ fin[t] = NoCtx /\ se[t] = NoSess /\ sm[t] = {}
                        /\ loc[t].blk = NoShm
  BY <1>0 DEF Quiescent, ContextInv, ControlInv, HoldPC, FinPC, ObjectControl, ThreadControl,
              UsesSession
<1>2. Cardinality({}) = 0
  BY FS_EmptySet
<1>3. ctxLive = ctxList
  <2>1. ASSUME NEW c \in ctxLive, c \notin ctxList PROVE FALSE
    <3>1. c \in Ctx /\ c # NoCtx /\ lost[c] = 0
      BY <1>0, InnerAssumption DEF TypeOK, InnerTypeOK, NothingLost, Obj
    <3>2. Holders(c) = {}
      BY <1>1, <3>1 DEF Holders
    <3>3. ctxOps[c] = Cardinality(Holders(c)) + 0 + lost[c]
      BY <1>0, <2>1 DEF ContextInv, RefInv, ContextRefCount
    <3>4. ctxOps[c] = 0
      BY <1>2, <3>1, <3>2, <3>3
    <3> QED BY <1>0, <1>1, <3>1, <3>4 DEF ZeroIsTornDown
  <2> QED BY <1>0, <2>1 DEF ContextInv, RefInv
<1>4. \A s \in sesLive : sesList[s] \in ctxList
  <2> SUFFICES ASSUME NEW s \in sesLive PROVE sesList[s] \in ctxList
    OBVIOUS
  <2>1. s \in Sess /\ s # NoSess /\ lost[s] = 0
    BY <1>0, InnerAssumption DEF TypeOK, InnerTypeOK, NothingLost, Obj
  <2>2. SessionHolders(s) = {}
    BY <1>1, <2>1 DEF SessionHolders
  <2>3. sesList[s] # NoCtx
    <3>1. ASSUME sesList[s] = NoCtx PROVE FALSE
      <4>1. sesOps[s] = Cardinality(SessionHolders(s)) + 0 + lost[s] /\ sesOps[s] > 0
        BY <1>0, <3>1 DEF SessionInv, SessionRefCount
      <4> QED BY <1>2, <2>1, <2>2, <4>1
    <3> QED BY <3>1
  <2> QED BY <1>0, <1>3, <2>1, <2>3 DEF SessionInv, SessionRefCount
<1>5. \A m \in shmLive : shmList[m] \in ctxList /\ shmList[m] = shmCtx[m] /\ shmList[m] # NoCtx
  <2> SUFFICES ASSUME NEW m \in shmLive
               PROVE  shmList[m] \in ctxList /\ shmList[m] = shmCtx[m] /\ shmList[m] # NoCtx
    OBVIOUS
  <2>1. m \in Shm /\ m # NoShm /\ lost[m] = 0
    BY <1>0, InnerAssumption DEF TypeOK, InnerTypeOK, NothingLost, Obj
  <2>2. ShmHolders(m) = {} /\ ~Fresh(m)
    BY <1>1, <2>1 DEF ShmHolders, Fresh
  <2>3. shmList[m] # NoCtx
    <3>1. ASSUME shmList[m] = NoCtx PROVE FALSE
      <4>1. shmOps[m] = Cardinality(ShmHolders(m)) + 0 + lost[m] /\ shmOps[m] > 0
        BY <1>0, <2>2, <3>1 DEF BlockCount, BlockCounted
      <4> QED BY <1>2, <2>1, <2>2, <4>1
    <3> QED BY <3>1
  <2> QED BY <1>0, <1>3, <2>1, <2>3 DEF BlockPlace
<1>6. ASSUME NEW c \in ctxList
      PROVE  bitmap[c] = {shmOff[m] : m \in {n \in shmLive : shmList[n] = c}} \ {NoBit}
  <2>0. c \in Ctx /\ bitmap[c] \subseteq Bit /\ NoBit \notin Bit /\ shmLive \subseteq Shm
    BY <1>0, InnerAssumption DEF TypeOK, InnerTypeOK, Bit, NoBit
  <2>1. \A b \in bitmap[c] : \E m \in shmLive : shmList[m] = c /\ shmOff[m] = b
    BY <1>0, <1>5, <2>0 DEF BitsBacked
  <2>2. \A m \in shmLive : shmList[m] = c /\ shmOff[m] # NoBit => shmOff[m] \in bitmap[c]
    <3>1. \A m \in shmLive : m \in Releasable
      BY <1>5, <2>0 DEF Releasable
    <3> QED BY <1>0, <1>5, <3>1 DEF OffsetExclusive
  <2> QED BY <2>0, <2>1, <2>2
<1> QED BY <1>3, <1>4, <1>5, <1>6

\* NothingOrphaned: whenever no handler is running, also after any number of deaths of CAs
\* with requests in flight, each context is on g_teecContextList, each session and block
\* belongs to a listed context and each set bit to a block, unless one of the handlers' error
\* exits returned without giving a reference back.
THEOREM NothingLeftBehind ==
  ASSUME "reply" \notin Faults
  PROVE  Spec => [](NothingLost => NothingOrphaned)
<1>1. ServiceInv /\ BlockInv /\ TidyInv => (NothingLost => NothingOrphaned)
  BY QuiescentTidy DEF NothingOrphaned
<1>2. ServiceInv /\ BlockInv /\ TidyInv /\ [Next]_vars => TidyInv'
  BY TidyInvNext
<1>3. Spec => [](ServiceInv /\ BlockInv)
  BY BlockInvAlways
<1> QED BY <1>1, <1>2, <1>3, TidyInvInit, PTL DEF Spec

=============================================================================
