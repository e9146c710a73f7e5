--------------------------- MODULE TeecOperation ---------------------------
(***************************************************************************)
(* How the memory parameters of a TEEC_Operation travel from a client      *)
(* application to cadaemon and back.  frameworks/libteec_client/           *)
(* tee_client.cpp adds up how much memory the parameters need, copies them *)
(* one after the other into an Ashmem (a shared-memory parameter with a    *)
(* header in front); cadaemon_service.cpp walks the same memory with its   *)
(* own offset and size counter and points the parameters into it; when the *)
(* TEE has answered, the client walks it a third time and copies the       *)
(* outputs back.  The three walks are written independently of each other: *)
(* nothing but arithmetic makes them agree.                                *)
(*                                                                         *)
(* One action is one turn of one of the loops.  Contents are left out:     *)
(* where in the memory a parameter lies and how much of the CA's buffer is *)
(* read and written is what the properties are about.                      *)
(***************************************************************************)
EXTENDS Integers

CONSTANTS
  N,            \* TEEC_PARAM_NUM
  Max,          \* UINT32_MAX
  Hdr,          \* STRUCT_SIZE: the header of a shared-memory parameter
  Limit,        \* PARAM_SIZE_LIMIT
  Params,       \* the parameters CAs pass
  TaSizes       \* sizes the TA answers for its outputs

Temp    == {"temp_input", "temp_output", "temp_inout"}
Partial == {"partial_input", "partial_output", "partial_inout"}
Shared  == Partial \cup {"whole"}

\* A parameter: its type, the size in the reference, and for shared memory the offset in
\* the reference, the parent's size and flags, and whether the parent was registered or
\* allocated; "released" is an allocated one that cadaemon does not know any more.
\* Parameters without memory (values, ION handles, none) have type "none".  A temporary
\* reference has a buffer exactly when its size is not 0: TEEC_CheckTmpRef.
Param == [type  : Temp \cup Shared \cup {"none"}, size : 0 .. Max, off : 0 .. Max, psize : 0 .. Max,
          flags : SUBSET {"in", "out"}, mem : {"registered", "allocated", "released"}]

ASSUME OperationAssumption ==
  /\ N \in Nat \ {0} /\ Max \in Nat
  /\ Hdr \in 1 .. Max /\ Limit \in 0 .. Max
  /\ Params \subseteq Param /\ TaSizes \subseteq 0 .. Max

NoParam == [type |-> "none", size |-> 0, off |-> 0, psize |-> 0, flags |-> {}, mem |-> "registered"]

Index == 1 .. N
NoPos == -1

VARIABLES
  req,     \* "open" or "invoke"
  phase,   \* which of the walks is running
  i,       \* its next parameter
  op,      \* the parameters as the CA passed them
  total,   \* optMemSize
  left,    \* what the walk believes is left of the memory
  pos,     \* where the walk is: shmInfoOffset in cadaemon, data in the client's decoding
  encAt,   \* where the client put the data of a parameter
  srvAt,   \* where cadaemon points the parameter to
  ta,      \* the size in cadaemon's operation when the answer is written
  repAt,   \* where the client copies an output from
  readEnd, \* end of the region of the CA's buffer that was read
  wroteEnd,\* end of the region of the CA's buffer that was written
  seen,    \* the size the CA finds in its parameter afterwards
  sent,    \* whether the driver was called
  fail,    \* "no"; "limit": too much memory; "ipc"; "gone": no such block; "tee"; "layout"
  end      \* history: where the memory counted for the first k parameters ends

vars == <<req, phase, i, op, total, left, pos, encAt, srvAt, ta, repAt, readEnd, wroteEnd,
          seen, sent, fail, end>>

TypeOK ==
  /\ req \in {"open", "invoke"}
  /\ phase \in {"size", "encode", "server", "tee", "reply", "done"}
  /\ i \in 1 .. N + 1
  /\ op \in [Index -> Param]
  /\ total \in 0 .. Max
  /\ left \in 0 .. Max
  /\ pos \in 0 .. Max
  /\ encAt \in [Index -> (0 .. Max) \cup {NoPos}]
  /\ srvAt \in [Index -> (0 .. Max) \cup {NoPos}]
  /\ ta \in [Index -> 0 .. Max]
  /\ repAt \in [Index -> (0 .. Max) \cup {NoPos}]
  /\ readEnd \in [Index -> Nat]
  /\ wroteEnd \in [Index -> Nat]
  /\ seen \in [Index -> 0 .. Max]
  /\ sent \in BOOLEAN
  /\ fail \in {"no", "limit", "ipc", "gone", "tee", "layout"}
  /\ end \in [0 .. N -> 0 .. Max]

Init ==
  /\ req \in {"open", "invoke"}
  /\ phase = "size"
  /\ i = 1
  /\ op = [k \in Index |-> NoParam]
  /\ total = 0 /\ left = 0 /\ pos = 0
  /\ encAt = [k \in Index |-> NoPos]
  /\ srvAt = [k \in Index |-> NoPos]
  /\ ta = [k \in Index |-> 0]
  /\ repAt = [k \in Index |-> NoPos]
  /\ readEnd = [k \in Index |-> 0]
  /\ wroteEnd = [k \in Index |-> 0]
  /\ seen = [k \in Index |-> 0]
  /\ sent = FALSE
  /\ fail = "no"
  /\ end = [k \in 0 .. N |-> 0]

-----------------------------------------------------------------------------
(* What the CA may pass *)

Directions(t) ==
  CASE t = "partial_input"  -> {"in"}
    [] t = "partial_output" -> {"out"}
    [] t = "partial_inout"  -> {"in", "out"}
    [] OTHER                -> {}

\* (a + b) in uint32_t
Add32(a, b) == IF a + b > Max THEN a + b - (Max + 1) ELSE a + b

IsOverFlow(a, b) == Max - a < b

MutCheckSumOnly(p) ==
  /\ Directions(p.type) \subseteq p.flags
  /\ p.type \in Partial => Add32(p.off, p.size) <= p.psize

\* TEEC_CheckMemRef
TEEC_CheckMemRef(p) ==
  /\ Directions(p.type) \subseteq p.flags
  /\ p.type \in Partial => ~ IsOverFlow(p.off, p.size) /\ p.off + p.size <= p.psize

\* The parameters that pass TEEC_CheckOperation.
TEEC_CheckOperation == {p \in Params : p.type \in Shared => TEEC_CheckMemRef(p)}

\* The bytes of a parameter; those of a shared memory follow its header.
CSize(p) == IF p.type = "whole" THEN p.psize ELSE p.size

\* cadaemon identifies the caller with the last two parameters of an OpenSession.
Passed(k, p) == IF req = "open" /\ k > 2 THEN NoParam ELSE p

-----------------------------------------------------------------------------
(* The client adds up the memory *)

MutSizeWithoutHeader(p) ==
  CASE p.type \in Temp \cup Shared -> CSize(p)
    [] OTHER                       -> 0

\* The memory GetOptMemSize and GetPartialMemSize count for a parameter.
Need(p) ==
  CASE p.type \in Temp   -> p.size
    [] p.type \in Shared -> CSize(p) + Hdr
    [] OTHER             -> 0

Stop(f) == phase' = "done" /\ fail' = f

\* IsOverFlow is applied to the bytes with their header and to the sum.
GetOptMemSize(q) ==
  LET p == Passed(i, q)
  IN  /\ phase = "size" /\ i <= N
      /\ op' = [op EXCEPT ![i] = p]
      /\ seen' = [seen EXCEPT ![i] = p.size]
      /\ ta' = [ta EXCEPT ![i] = p.size]
      /\ IF (p.type \in Shared /\ IsOverFlow(CSize(p), Hdr)) \/ IsOverFlow(total, Need(p))
         THEN Stop("limit") /\ UNCHANGED <<i, total, end>>
         ELSE /\ total' = total + Need(p)
              /\ end' = [end EXCEPT ![i] = total + Need(p)]
              /\ i' = i + 1
              /\ UNCHANGED <<phase, fail>>
      /\ UNCHANGED <<req, left, pos, encAt, srvAt, repAt, readEnd, wroteEnd, sent>>

\* The limit, and without memory the request as it is.
CopyTeecOptMem ==
  /\ phase = "size" /\ i = N + 1
  /\ IF total > Limit
     THEN Stop("limit") /\ UNCHANGED <<i, left>>
     ELSE /\ phase' = IF total = 0 THEN "tee" ELSE "encode"
          /\ i' = 1 /\ left' = total
          /\ UNCHANGED fail
  /\ UNCHANGED <<req, op, total, pos, encAt, srvAt, ta, repAt, readEnd, wroteEnd, seen, sent, end>>

-----------------------------------------------------------------------------
(* The client copies the parameters into the memory *)

TeecOptEncodeTempMem ==
  LET p == op[i]
  IN  /\ p.type \in Temp
      /\ IF left < p.size
         THEN Stop("layout") /\ UNCHANGED <<left, encAt, readEnd>>
         ELSE /\ left' = left - p.size
              /\ encAt' = IF p.size = 0 THEN encAt ELSE [encAt EXCEPT ![i] = total - left]
              /\ readEnd' = [readEnd EXCEPT ![i] = p.size]
              /\ UNCHANGED <<phase, fail>>

\* Of a registered memory the bytes are copied, of an allocated one only the header.
TeecOptEncodePartialMem ==
  LET p == op[i]
  IN  /\ p.type \in Shared
      /\ IF left < Hdr \/ left - Hdr < CSize(p)
         THEN Stop("layout") /\ UNCHANGED <<left, encAt, readEnd>>
         ELSE /\ left' = left - Hdr - CSize(p)
              /\ encAt' = [encAt EXCEPT ![i] = total - (left - Hdr)]
              /\ readEnd' = [readEnd EXCEPT ![i] =
                   IF p.mem # "registered" \/ CSize(p) = 0 THEN 0
                   ELSE (IF p.type = "whole" THEN 0 ELSE p.off) + CSize(p)]
              /\ UNCHANGED <<phase, fail>>

TeecOptEncode ==
  /\ phase = "encode" /\ i <= N
  /\ \/ TeecOptEncodeTempMem
     \/ TeecOptEncodePartialMem
     \/ op[i].type = "none" /\ UNCHANGED <<phase, fail, left, encAt, readEnd>>
  /\ i' = i + 1
  /\ UNCHANGED <<req, op, total, pos, srvAt, ta, repAt, wroteEnd, seen, sent, end>>

SendRequest ==
  /\ phase = "encode" /\ i = N + 1
  /\ phase' = "server"
  /\ i' = 1 /\ left' = total /\ pos' = 0
  /\ UNCHANGED <<req, op, total, encAt, srvAt, ta, repAt, readEnd, wroteEnd, seen, sent, fail, end>>

\* The Ashmem cannot be created, mapped or written, the request cannot be sent, or its
\* answer has no operation: the client ends the call, with the answer's result if it has one.
IpcFails ==
  /\ phase = "encode" \/ (phase = "reply" /\ i = 1)
  /\ Stop(IF fail = "no" THEN "ipc" ELSE fail)
  /\ UNCHANGED <<req, i, op, total, left, pos, encAt, srvAt, ta, repAt, readEnd, wroteEnd, seen,
                 sent, end>>

-----------------------------------------------------------------------------
(* cadaemon points the parameters into the memory *)

\* TRUE: the next n bytes do not fit.
CheckSizeStatus(o, n, t, m) ==
  \/ Add32(o, n) < o
  \/ Add32(o, n) < n
  \/ Add32(o, n) > t
  \/ n > m

\* The handler's error exit: InvokeCommand answers with the operation, OpenSession without.
Refuse(f) ==
  /\ fail' = f
  /\ phase' = IF req = "open" THEN "done" ELSE "reply"
  /\ i' = 1 /\ left' = total /\ pos' = 0
  /\ UNCHANGED srvAt

DecodeTempMem ==
  LET p == op[i]
  IN  /\ p.type \in Temp
      /\ IF CheckSizeStatus(pos, p.size, total, left)
         THEN Refuse("layout")
         ELSE /\ srvAt' = IF p.size = 0 THEN srvAt ELSE [srvAt EXCEPT ![i] = pos]
              /\ pos' = pos + p.size /\ left' = left - p.size
              /\ i' = i + 1
              /\ UNCHANGED <<phase, fail>>

\* The header first, then the bytes; an allocated memory is looked up by its offset.
TeecOptDecodePartialMem ==
  LET p    == op[i]
      fits == /\ ~ CheckSizeStatus(pos, Hdr, total, left)
              /\ ~ CheckSizeStatus(pos + Hdr, CSize(p), total, left - Hdr)
  IN  /\ p.type \in Shared
      /\ IF ~ fits \/ p.mem = "released"
         THEN Refuse(IF fits THEN "gone" ELSE "layout")
         ELSE /\ srvAt' = [srvAt EXCEPT ![i] = pos + Hdr]
              /\ pos' = pos + Hdr + CSize(p) /\ left' = left - Hdr - CSize(p)
              /\ i' = i + 1
              /\ UNCHANGED <<phase, fail>>

GetTeecOptMem ==
  /\ phase = "server" /\ i <= N
  /\ \/ DecodeTempMem
     \/ TeecOptDecodePartialMem
     \/ op[i].type = "none" /\ i' = i + 1 /\ UNCHANGED <<phase, fail, left, pos, srvAt>>
  /\ UNCHANGED <<req, op, total, encAt, ta, repAt, readEnd, wroteEnd, seen, sent, end>>

CallTee ==
  /\ phase = "server" /\ i = N + 1
  /\ phase' = "tee"
  /\ UNCHANGED <<req, i, op, total, left, pos, encAt, srvAt, ta, repAt, readEnd, wroteEnd, seen,
                 sent, fail, end>>

Output(p) ==
  \/ p.type \in {"temp_output", "temp_inout", "partial_output", "partial_inout"}
  \/ p.type = "whole" /\ "out" \in p.flags

\* The operation goes back to the client: with the result of InvokeCommand, without it
\* when an OpenSession failed (RecOpenReply).
Answer(f) ==
  /\ fail' = f
  /\ phase' = IF req = "open" /\ f # "no" THEN "done" ELSE "reply"
  /\ i' = 1 /\ left' = total /\ pos' = 0
  /\ UNCHANGED <<req, op, total, encAt, srvAt, repAt, readEnd, wroteEnd, seen, end>>

\* OpenSession fails; InvokeCommand still has TEEC_SUCCESS from GetTeecOptMem in ret.
AddTidDataFails ==
  /\ phase = "tee"
  /\ Answer(IF req = "open" THEN "tee" ELSE "no")
  /\ UNCHANGED <<ta, sent>>

\* TEEC_CheckOperation of the TEE library refuses an empty parent and an allocated one
\* that has left the list in the meantime.
InnerCheckFails ==
  /\ phase = "tee"
  /\ \E k \in Index : op[k].type \in Shared /\ (op[k].psize = 0 \/ op[k].mem = "allocated")
  /\ Answer("tee")
  /\ UNCHANGED <<ta, sent>>

\* The driver answers.  TEEC_EncodePartialParam has put the parent's size into a whole
\* reference; the driver writes the TA's sizes over those of the outputs.
TeeAnswers ==
  /\ phase = "tee"
  /\ \A k \in Index : op[k].type \in Shared => op[k].psize # 0
  /\ \E n \in [{k \in Index : Output(op[k])} -> TaSizes] :
       ta' = [k \in Index |-> IF Output(op[k]) THEN n[k] ELSE CSize(op[k])]
  /\ sent' = TRUE
  /\ \/ Answer("no")
     \/ Answer("tee")

-----------------------------------------------------------------------------
(* The client copies the outputs back *)

\* n bytes are copied from the memory to offset o of the CA's buffer.
CopyBack(o, n) ==
  IF n = 0 THEN UNCHANGED <<repAt, wroteEnd>>
  ELSE /\ repAt' = [repAt EXCEPT ![i] = IF op[i].type \in Shared THEN pos + Hdr ELSE pos]
       /\ wroteEnd' = [wroteEnd EXCEPT ![i] = o + n]

MutAdvanceByAnswer ==
  LET p == op[i]
  IN  /\ p.type \in Temp /\ total # 0
      /\ IF left < p.size
         THEN Stop("layout") /\ UNCHANGED <<left, pos, repAt, wroteEnd, seen>>
         ELSE /\ IF p.type = "temp_input"
                 THEN left' = left - p.size /\ pos' = pos + p.size /\ UNCHANGED <<repAt, wroteEnd, seen>>
                 ELSE /\ IF p.size < ta[i] THEN UNCHANGED <<repAt, wroteEnd>> ELSE CopyBack(0, ta[i])
                      /\ seen' = [seen EXCEPT ![i] = ta[i]]
                      /\ left' = left - (IF ta[i] <= left THEN ta[i] ELSE left)
                      /\ pos' = pos + (IF ta[i] <= left THEN ta[i] ELSE left)
              /\ UNCHANGED <<phase, fail>>

MutShortKeepsSize ==
  LET p == op[i]
  IN  /\ p.type \in Temp /\ total # 0
      /\ IF left < p.size
         THEN Stop("layout") /\ UNCHANGED <<left, pos, repAt, wroteEnd, seen>>
         ELSE /\ left' = left - p.size /\ pos' = pos + p.size
              /\ IF p.type = "temp_input" \/ p.size < ta[i]
                 THEN UNCHANGED <<repAt, wroteEnd, seen>>
                 ELSE CopyBack(0, ta[i]) /\ seen' = [seen EXCEPT ![i] = ta[i]]
              /\ UNCHANGED <<phase, fail>>

\* An answer larger than the buffer is not copied, but its size is.
ReplyTempMem ==
  LET p == op[i]
  IN  /\ p.type \in Temp /\ total # 0
      /\ IF left < p.size
         THEN Stop("layout") /\ UNCHANGED <<left, pos, repAt, wroteEnd, seen>>
         ELSE /\ left' = left - p.size /\ pos' = pos + p.size
              /\ IF p.type = "temp_input" THEN UNCHANGED <<repAt, wroteEnd, seen>>
                 ELSE /\ IF p.size < ta[i] THEN UNCHANGED <<repAt, wroteEnd>> ELSE CopyBack(0, ta[i])
                      /\ seen' = [seen EXCEPT ![i] = ta[i]]
              /\ UNCHANGED <<phase, fail>>

MutCopyUnchecked ==
  LET p == op[i]
  IN  /\ p.type \in Shared /\ total # 0
      /\ IF IsOverFlow(CSize(p), Hdr) \/ left < CSize(p) + Hdr
         THEN Stop("layout") /\ UNCHANGED <<left, pos, repAt, wroteEnd, seen>>
         ELSE /\ left' = left - Hdr - CSize(p) /\ pos' = pos + Hdr + CSize(p)
              /\ IF p.type = "partial_input" THEN UNCHANGED <<repAt, wroteEnd, seen>>
                 ELSE /\ IF p.mem # "registered" THEN UNCHANGED <<repAt, wroteEnd>>
                         ELSE CopyBack(p.off, ta[i])
                      /\ seen' = [seen EXCEPT ![i] = ta[i]]
              /\ UNCHANGED <<phase, fail>>

\* A registered memory gets its bytes back at the offset of the reference, also a whole one.
ReplyPartialMem ==
  LET p == op[i]
  IN  /\ p.type \in Shared /\ total # 0
      /\ IF IsOverFlow(CSize(p), Hdr) \/ left < CSize(p) + Hdr
         THEN Stop("layout") /\ UNCHANGED <<left, pos, repAt, wroteEnd, seen>>
         ELSE /\ left' = left - Hdr - CSize(p) /\ pos' = pos + Hdr + CSize(p)
              /\ IF p.type = "partial_input" THEN UNCHANGED <<repAt, wroteEnd, seen>>
                 ELSE /\ IF p.mem # "registered" \/ CSize(p) < ta[i] THEN UNCHANGED <<repAt, wroteEnd>>
                         ELSE CopyBack(p.off, ta[i])
                      /\ seen' = [seen EXCEPT ![i] = ta[i]]
              /\ UNCHANGED <<phase, fail>>

\* Without memory a temporary reference is skipped.
TeecOptDecode ==
  /\ phase = "reply" /\ i <= N
  /\ \/ ReplyTempMem
     \/ ReplyPartialMem
     \/ /\ \/ op[i].type = "none"
           \/ op[i].type \in Temp /\ total = 0
        /\ UNCHANGED <<phase, fail, left, pos, repAt, wroteEnd, seen>>
  /\ i' = i + 1
  /\ UNCHANGED <<req, op, total, encAt, srvAt, ta, readEnd, sent, end>>

Return ==
  /\ phase = "reply" /\ i = N + 1
  /\ phase' = "done"
  /\ UNCHANGED <<req, i, op, total, left, pos, encAt, srvAt, ta, repAt, readEnd, wroteEnd, seen,
                 sent, fail, end>>

Next ==
  \/ \E q \in TEEC_CheckOperation : GetOptMemSize(q)
  \/ CopyTeecOptMem \/ TeecOptEncode \/ SendRequest \/ IpcFails
  \/ GetTeecOptMem \/ CallTee \/ AddTidDataFails \/ InnerCheckFails \/ TeeAnswers
  \/ TeecOptDecode \/ Return

Spec == Init /\ [][Next]_vars

-----------------------------------------------------------------------------

\* An operation that the client library accepted is not refused later for its sizes, by
\* the client's own encoding (TeecOptEncode), by cadaemon (CheckSizeStatus) or by the
\* decoding of the answer (TeecOptDecode): the three walks count the same bytes.
AcceptedFits == fail # "layout"

Bytes(k) == srvAt[k] .. srvAt[k] + CSize(op[k]) - 1

\* cadaemon finds a parameter where the client put it, inside the memory and apart from
\* every other parameter, and the client fetches an output from where cadaemon's TEE call
\* left it.
SameLayout ==
  \A k \in Index : srvAt[k] # NoPos =>
    /\ srvAt[k] = encAt[k]
    /\ repAt[k] \in {NoPos, srvAt[k]}
    /\ srvAt[k] + CSize(op[k]) <= total
    /\ \A m \in Index \ {k} : srvAt[m] # NoPos => Bytes(k) \cap Bytes(m) = {}

\* The CA's buffer: a temporary reference's own, or the parent's.
Buffer(p) == IF p.type \in Shared THEN p.psize ELSE p.size

\* The client reads only inside the CA's buffer, also at the ends of uint32_t.
ReadsInside == \A k \in Index : readEnd[k] <= Buffer(op[k])

\* The client writes only inside the CA's buffer, whatever sizes the TA answers.
WritesInside == \A k \in Index : wroteEnd[k] <= Buffer(op[k])

\* The TEE's answer has been decoded to the last parameter.
Answered == phase = "done" /\ sent /\ i = N + 1

\* When the TA answered, the CA finds the TA's size in every output: that is how it learns
\* that a buffer was too short (TEEC_ERROR_SHORT_BUFFER).  TeecOptDecode skips the outputs
\* of an operation without memory: an empty output alone never gets its size.
SizeReported == Answered /\ total # 0 => \A k \in Index : Output(op[k]) => seen[k] = ta[k]

=============================================================================
