------------------------ MODULE TeecOperationProofs ------------------------
(***************************************************************************)
(* TeecOperation for every number of parameters, every width of integers,  *)
(* every header and limit, every operation and every answer of the TEE.    *)
(*                                                                         *)
(* The argument: the client's first walk fixes where each parameter's      *)
(* bytes end (end).  Every later walk is, before parameter i, exactly at   *)
(* end[i-1]; as the ends only grow, the bytes of parameter i always fit,   *)
(* and all walks put them at Start(i).                                     *)
(***************************************************************************)
EXTENDS TeecOperation, TLAPS

\* How many parameters the first walk has counted.
Counted ==
  CASE phase = "size"  -> i - 1
    [] fail = "limit"  -> 0
    [] OTHER           -> N

\* Where the bytes of parameter k lie.
Start(k) == end[k - 1] + (IF op[k].type \in Shared THEN Hdr ELSE 0)

HasBytes(p) == p.type \in Shared \/ (p.type \in Temp /\ p.size # 0)

Ends ==
  /\ end[0] = 0
  /\ \A k \in 1 .. Counted : end[k] = end[k - 1] + Need(op[k])
  /\ \A k, m \in 0 .. Counted : k <= m => end[k] <= end[m]
  /\ fail # "limit" => total = end[Counted]

Walks ==
  /\ phase = "encode" => left = total - end[i - 1]
  /\ phase \in {"server", "reply"} => pos = end[i - 1] /\ left = total - end[i - 1]
  /\ phase \in {"size", "encode", "server", "tee"} => fail = "no"
  /\ fail = "limit" => phase = "done"

Places ==
  /\ phase = "encode" => \A k \in 1 .. i - 1 : HasBytes(op[k]) => encAt[k] = Start(k)
  /\ phase = "server" => \A k \in Index : HasBytes(op[k]) => encAt[k] = Start(k)
  /\ \A k \in Index : srvAt[k] # NoPos =>
       /\ phase \notin {"size", "encode"} /\ fail # "limit"
       /\ HasBytes(op[k]) /\ srvAt[k] = Start(k) /\ encAt[k] = Start(k)
  /\ \A k \in Index : repAt[k] # NoPos =>
       phase \in {"reply", "done"} /\ fail # "limit" /\ repAt[k] = Start(k)

\* What TEEC_CheckOperation has made sure of.
Checked == \A k \in Index : op[k].type \in Shared => TEEC_CheckMemRef(op[k])

Untouched ==
  /\ phase = "size" => \A k \in Index : readEnd[k] = 0
  /\ phase \in {"size", "encode", "server", "tee"} => \A k \in Index : wroteEnd[k] = 0

IInv ==
  /\ TypeOK
  /\ Ends
  /\ Walks
  /\ Places
  /\ Checked
  /\ Untouched
  /\ AcceptedFits
  /\ ReadsInside

-----------------------------------------------------------------------------

\* The memory a parameter takes, by its type (GetOptMemSize, GetPartialMemSize).
LEMMA ParamFacts ==
  ASSUME NEW p \in Param
  PROVE  /\ p.size \in 0 .. Max /\ p.off \in 0 .. Max /\ p.psize \in 0 .. Max
         /\ CSize(p) \in 0 .. Max
         /\ Need(p) \in Nat
         /\ p.type \in Temp => p.type \notin Shared /\ p.type # "none" /\ Need(p) = p.size /\ CSize(p) = p.size
         /\ p.type \in Shared => p.type \notin Temp /\ p.type # "none" /\ Need(p) = CSize(p) + Hdr
         /\ p.type = "none" => Need(p) = 0
         /\ p.type \in Temp \/ p.type \in Shared \/ p.type = "none"
<1>1. p.size \in 0 .. Max /\ p.off \in 0 .. Max /\ p.psize \in 0 .. Max
      /\ p.type \in Temp \cup Shared \cup {"none"}
  BY DEF Param
<1>2. CSize(p) \in 0 .. Max
  BY <1>1 DEF CSize
<1>3. p.type \in Temp => p.type \notin Shared /\ p.type # "none" /\ p.type # "whole"
  BY DEF Temp, Shared, Partial
<1>4. p.type \in Shared => p.type \notin Temp /\ p.type # "none"
  BY DEF Temp, Shared, Partial
<1>5. "none" \notin Temp /\ "none" \notin Shared
  BY DEF Temp, Shared, Partial
<1> QED
  BY <1>1, <1>2, <1>3, <1>4, <1>5, OperationAssumption DEF Need, CSize

\* cadaemon's size check accepts what really fits: CheckSizeStatus in 32 bits.
LEMMA CheckAccepts ==
  ASSUME NEW o \in 0 .. Max, NEW n \in 0 .. Max, NEW t \in 0 .. Max, NEW m \in 0 .. Max,
         o + n <= t, n <= m
  PROVE  ~ CheckSizeStatus(o, n, t, m)
  BY OperationAssumption DEF CheckSizeStatus, Add32

\* A walk that stands before parameter k of a counted operation has room for it.
LEMMA Room ==
  ASSUME TypeOK, Ends, Counted = N, fail # "limit", NEW k \in Index
  PROVE  /\ end[k] = end[k - 1] + Need(op[k])
         /\ end[k] <= total /\ end[k - 1] <= end[k]
         /\ end[k - 1] \in 0 .. Max /\ end[k] \in 0 .. Max
<1>1. k \in 1 .. N /\ k - 1 \in 0 .. N /\ k \in 0 .. N /\ N \in 0 .. N
  BY OperationAssumption DEF Index
<1>2. end[k] = end[k - 1] + Need(op[k]) /\ end[k] <= end[N] /\ end[k - 1] <= end[k] /\ total = end[N]
  BY <1>1 DEF Ends
<1>3. end[k - 1] \in 0 .. Max /\ end[k] \in 0 .. Max
  BY <1>1 DEF TypeOK
<1> QED
  BY <1>2, <1>3

\* The first two walks have not begun, nothing is placed.
LEMMA InitIInv == Init => IInv
<1> SUFFICES ASSUME Init PROVE IInv
  OBVIOUS
<1>1. NoParam \in Param /\ NoParam.type \notin Shared
  BY OperationAssumption DEF NoParam, Param, Shared, Partial
<1>2. TypeOK
  <2>1. /\ req \in {"open", "invoke"} /\ phase = "size" /\ i = 1 /\ total = 0 /\ left = 0 /\ pos = 0
        /\ fail = "no"
    BY DEF Init
  <2>2. sent \in BOOLEAN
    BY Zenon DEF Init
  <2>3. 0 \in 0 .. Max /\ 1 \in 1 .. N + 1
    BY OperationAssumption
  <2>4. op \in [Index -> Param]
    BY <1>1 DEF Init
  <2>5. /\ encAt \in [Index -> (0 .. Max) \cup {NoPos}] /\ srvAt \in [Index -> (0 .. Max) \cup {NoPos}]
        /\ repAt \in [Index -> (0 .. Max) \cup {NoPos}]
    BY DEF Init
  <2>6. /\ ta \in [Index -> 0 .. Max] /\ seen \in [Index -> 0 .. Max]
        /\ readEnd \in [Index -> Nat] /\ wroteEnd \in [Index -> Nat]
        /\ end \in [0 .. N -> 0 .. Max]
    BY <2>3 DEF Init
  <2> QED
    BY <2>1, <2>2, <2>3, <2>4, <2>5, <2>6 DEF TypeOK
<1>3. Counted = 0
  BY DEF Init, Counted
<1>4. Ends
  BY <1>3, OperationAssumption DEF Init, Ends
<1>5. Walks /\ Untouched
  BY DEF Init, Walks, Untouched
<1>6. Places
  BY DEF Init, Places
<1>7. Checked
  BY <1>1 DEF Init, Checked
<1>8. AcceptedFits
  BY DEF Init, AcceptedFits
<1>9. ReadsInside
  BY <1>1, OperationAssumption DEF Init, ReadsInside, Buffer, NoParam
<1> QED
  BY <1>2, <1>4, <1>5, <1>6, <1>7, <1>8, <1>9 DEF IInv

\* The first walk: the ends grow by what GetOptMemSize counts.
LEMMA SizeStep ==
  ASSUME IInv, NEW q \in TEEC_CheckOperation, GetOptMemSize(q)
  PROVE  IInv'
<1> USE OperationAssumption
<1> DEFINE p == Passed(i, q)
<1>1. i \in 1 .. N /\ phase = "size" /\ fail = "no" /\ Counted = i - 1 /\ total = end[i - 1]
  BY DEF GetOptMemSize, IInv, TypeOK, Walks, Ends, Counted
<1>2. p \in Param /\ (p.type \in Shared => TEEC_CheckMemRef(p))
  <2>1. NoParam \in Param /\ NoParam.type \notin Shared
    BY DEF NoParam, Param, Shared, Partial
  <2> QED
    BY <2>1 DEF Passed, TEEC_CheckOperation
<1> HIDE DEF p
<1>3. /\ op' = [op EXCEPT ![i] = p]
      /\ seen' = [seen EXCEPT ![i] = p.size] /\ ta' = [ta EXCEPT ![i] = p.size]
      /\ UNCHANGED <<req, left, pos, encAt, srvAt, repAt, readEnd, wroteEnd, sent>>
  BY DEF GetOptMemSize, p
<1>4. /\ p.size \in 0 .. Max /\ CSize(p) \in 0 .. Max /\ Need(p) \in Nat
      /\ p.size \in 0 .. Max /\ p.psize \in 0 .. Max
  BY <1>2, ParamFacts
<1>5. op \in [Index -> Param] /\ op' \in [Index -> Param]
  BY <1>2, <1>3 DEF IInv, TypeOK
<1>6. Checked'
  BY <1>2, <1>3, <1>5 DEF IInv, Checked
<1>7. \A k \in Index : readEnd[k] = 0 /\ wroteEnd[k] = 0 /\ srvAt[k] = NoPos /\ repAt[k] = NoPos
  BY <1>1 DEF IInv, Untouched, Places
<1>8. Untouched'
  BY <1>3, <1>7 DEF Untouched
<1>9. ReadsInside'
  <2> SUFFICES ASSUME NEW k \in Index PROVE readEnd'[k] <= Buffer(op'[k])
    BY DEF ReadsInside
  <2>1. op'[k] \in Param
    BY <1>5
  <2>2. Buffer(op'[k]) \in 0 .. Max
    BY <2>1, ParamFacts DEF Buffer
  <2> QED
    BY <2>2, <1>3, <1>7
<1>10. CASE phase' = "done"
  <2>1. fail' = "limit" /\ UNCHANGED <<i, total, end>>
    BY <1>1, <1>10 DEF GetOptMemSize, Stop
  <2>2. TypeOK'
    BY <1>1, <1>3, <1>4, <1>5, <1>10, <2>1 DEF IInv, TypeOK
  <2>3. Ends'
    <3>1. Counted' = 0
      BY <1>10, <2>1 DEF Counted
    <3> QED
      BY <3>1, <2>1 DEF IInv, Ends, TypeOK
  <2>4. Walks' /\ AcceptedFits'
    BY <1>10, <2>1 DEF Walks, AcceptedFits
  <2>5. Places'
    BY <1>3, <1>7, <1>10 DEF Places
  <2> QED
    BY <1>6, <1>8, <1>9, <2>2, <2>3, <2>4, <2>5 DEF IInv
<1>11. CASE phase' # "done"
  <2>1. /\ ~ IsOverFlow(total, Need(p))
        /\ total' = total + Need(p) /\ end' = [end EXCEPT ![i] = total + Need(p)]
        /\ i' = i + 1 /\ UNCHANGED <<phase, fail>>
    BY <1>1, <1>11 DEF GetOptMemSize, Stop, p
  <2>2. total \in 0 .. Max /\ total + Need(p) \in 0 .. Max
    BY <1>4, <2>1 DEF IInv, TypeOK, IsOverFlow
  <2>3. end \in [0 .. N -> 0 .. Max] /\ i \in 0 .. N
    BY <1>1 DEF IInv, TypeOK
  <2>4. TypeOK'
    <3>1. i' \in 1 .. N + 1 /\ total' \in 0 .. Max /\ end' \in [0 .. N -> 0 .. Max]
      BY <1>1, <2>1, <2>2, <2>3
    <3> QED
      BY <1>3, <1>4, <1>5, <2>1, <3>1 DEF IInv, TypeOK
  <2>5. Ends'
    <3>1. Counted' = i
      BY <1>1, <2>1 DEF Counted
    <3>2. \A k \in 0 .. i - 1 : end'[k] = end[k]
      BY <1>1, <2>1, <2>3
    <3>3. end'[i] = end[i - 1] + Need(p) /\ end'[i] >= end[i - 1] /\ total' = end'[i]
      BY <1>1, <1>4, <2>1, <2>2, <2>3
    <3>4. end'[0] = 0
      BY <3>2, <1>1 DEF IInv, Ends
    <3>5. ASSUME NEW k \in 1 .. i PROVE end'[k] = end'[k - 1] + Need(op'[k])
      <4>1. CASE k = i
        <5>1. op'[i] = p /\ i - 1 \in 0 .. i - 1
          BY <1>1, <1>3, <1>5 DEF Index
        <5> QED
          BY <4>1, <5>1, <3>2, <3>3
      <4>2. CASE k # i
        <5>1. k \in 1 .. i - 1 /\ k - 1 \in 0 .. i - 1 /\ k \in 0 .. i - 1 /\ k \in Index
          BY <1>1, <3>5, <4>2 DEF Index
        <5>2. op'[k] = op[k]
          BY <1>3, <1>5, <4>2, <5>1
        <5>3. end[k] = end[k - 1] + Need(op[k])
          BY <1>1, <5>1 DEF IInv, Ends
        <5> QED
          BY <5>1, <5>2, <5>3, <3>2
      <4> QED
        BY <4>1, <4>2
    <3>6. ASSUME NEW k \in 0 .. i, NEW m \in 0 .. i, k <= m PROVE end'[k] <= end'[m]
      <4>1. \A a, b \in 0 .. i - 1 : a <= b => end[a] <= end[b]
        BY <1>1 DEF IInv, Ends
      <4>2. i - 1 \in 0 .. i - 1
        BY <1>1
      <4>3. CASE m # i
        <5>1. k \in 0 .. i - 1 /\ m \in 0 .. i - 1
          BY <1>1, <3>6, <4>3
        <5> QED
          BY <3>6, <4>1, <5>1, <3>2
      <4>4. CASE m = i /\ k # i
        <5>1. k \in 0 .. i - 1 /\ k <= i - 1
          BY <1>1, <3>6, <4>4
        <5>2. end[k] <= end[i - 1] /\ end[k] \in 0 .. Max /\ end[i - 1] \in 0 .. Max
          BY <1>1, <4>1, <4>2, <5>1, <2>3
        <5> QED
          BY <5>1, <5>2, <3>2, <3>3, <1>4, <4>4
      <4>5. CASE m = i /\ k = i
        BY <4>5, <3>3, <2>2, <2>1
      <4> QED
        BY <4>3, <4>4, <4>5
    <3> QED
      BY <3>1, <3>3, <3>4, <3>5, <3>6 DEF Ends
  <2>6. Walks' /\ AcceptedFits'
    BY <1>1, <2>1 DEF Walks, AcceptedFits
  <2>7. Places'
    BY <1>1, <1>3, <1>7, <2>1 DEF Places
  <2> QED
    BY <1>6, <1>8, <1>9, <2>4, <2>5, <2>6, <2>7 DEF IInv
<1> QED
  BY <1>10, <1>11

\* After the first walk the ends stay.
LEMMA KeepsEnds ==
  ASSUME IInv, UNCHANGED <<op, end, total>>, Counted = N, fail # "limit", phase' # "size", fail' # "limit"
  PROVE  Ends' /\ Checked'
<1>1. Counted' = N
  BY DEF Counted
<1> QED
  BY <1>1 DEF IInv, Ends, Checked

\* CopyTeecOptMem starts the second walk at the front of the memory, or skips it.
LEMMA CopyStep ==
  ASSUME IInv, CopyTeecOptMem
  PROVE  IInv'
<1> USE OperationAssumption
<1>1. /\ phase = "size" /\ i = N + 1 /\ fail = "no" /\ Counted = N
      /\ UNCHANGED <<req, op, total, pos, encAt, srvAt, ta, repAt, readEnd, wroteEnd, seen, sent, end>>
  BY DEF CopyTeecOptMem, IInv, Walks, Counted
<1>2. \A k \in Index : readEnd[k] = 0 /\ wroteEnd[k] = 0 /\ srvAt[k] = NoPos /\ repAt[k] = NoPos
  BY <1>1 DEF IInv, Untouched, Places
<1>3. Untouched' /\ ReadsInside'
  BY <1>1, <1>2 DEF IInv, Untouched, ReadsInside
<1>4. CASE total > Limit
  <2>1. phase' = "done" /\ fail' = "limit" /\ UNCHANGED <<i, left>>
    BY <1>4 DEF CopyTeecOptMem, Stop
  <2>2. TypeOK'
    BY <1>1, <2>1 DEF IInv, TypeOK
  <2>3. Counted' = 0
    BY <2>1 DEF Counted
  <2>4. Ends' /\ Checked'
    BY <1>1, <2>1, <2>3 DEF IInv, Ends, Checked, TypeOK
  <2>5. Walks' /\ AcceptedFits' /\ Places'
    BY <1>1, <1>2, <2>1 DEF Walks, AcceptedFits, Places
  <2> QED
    BY <1>3, <2>2, <2>4, <2>5 DEF IInv
<1>5. CASE ~ (total > Limit)
  <2>1. phase' \in {"tee", "encode"} /\ i' = 1 /\ left' = total /\ UNCHANGED fail
    BY <1>5 DEF CopyTeecOptMem
  <2>2. TypeOK'
    BY <1>1, <2>1 DEF IInv, TypeOK
  <2>3. Ends' /\ Checked'
    BY <1>1, <2>1, KeepsEnds
  <2>4. Walks' /\ AcceptedFits'
    <3>1. end'[0] = 0 /\ total' \in Nat
      BY <1>1 DEF IInv, Ends, TypeOK
    <3> QED
      BY <1>1, <2>1, <3>1 DEF Walks, AcceptedFits
  <2>5. Places'
    BY <1>1, <1>2, <2>1 DEF Places
  <2> QED
    BY <1>3, <2>2, <2>3, <2>4, <2>5 DEF IInv
<1> QED
  BY <1>4, <1>5

\* The second walk writes every parameter at its Start and reads no further than the check allows.
LEMMA EncodeStep ==
  ASSUME IInv, TeecOptEncode
  PROVE  IInv'
<1> USE OperationAssumption
<1> DEFINE p == op[i]
<1>1. /\ phase = "encode" /\ i \in Index /\ i' = i + 1 /\ fail = "no" /\ Counted = N
      /\ UNCHANGED <<req, op, total, pos, srvAt, ta, repAt, wroteEnd, seen, sent, end>>
      /\ left = total - end[i - 1]
  BY DEF TeecOptEncode, IInv, TypeOK, Walks, Counted, Index
<1>2. /\ end[i] = end[i - 1] + Need(p) /\ end[i] <= total /\ end[i - 1] \in 0 .. Max /\ end[i] \in 0 .. Max
      /\ total \in 0 .. Max /\ left \in 0 .. Max
  BY <1>1, Room DEF IInv, TypeOK
<1>3. p \in Param
  BY <1>1 DEF IInv, TypeOK
<1>4. /\ CSize(p) \in 0 .. Max /\ p.size \in 0 .. Max /\ p.off \in 0 .. Max /\ p.psize \in 0 .. Max
      /\ p.type \in Temp => p.type \notin Shared /\ p.type # "none" /\ Need(p) = p.size
      /\ p.type \in Shared => p.type \notin Temp /\ p.type # "none" /\ Need(p) = CSize(p) + Hdr
      /\ p.type = "none" => Need(p) = 0
  BY <1>3, ParamFacts
<1>5. /\ phase' = phase /\ fail' = fail /\ left' = total - end[i]
      /\ encAt' = IF HasBytes(p) THEN [encAt EXCEPT ![i] = Start(i)] ELSE encAt
      /\ \/ readEnd' = readEnd
         \/ \E n \in Nat : n <= Buffer(p) /\ readEnd' = [readEnd EXCEPT ![i] = n]
  <2>1. CASE TeecOptEncodeTempMem
    <3>1. p.type \in Temp /\ ~ (left < p.size)
      BY <1>1, <1>2, <1>4, <2>1 DEF TeecOptEncodeTempMem
    <3>2. /\ left' = left - p.size /\ UNCHANGED <<phase, fail>>
          /\ encAt' = IF p.size = 0 THEN encAt ELSE [encAt EXCEPT ![i] = total - left]
          /\ readEnd' = [readEnd EXCEPT ![i] = p.size]
      BY <2>1, <3>1 DEF TeecOptEncodeTempMem
    <3>3. Start(i) = total - left /\ Buffer(p) = p.size /\ HasBytes(p) = (p.size # 0)
      BY <1>1, <1>2, <1>4, <3>1 DEF Start, Buffer, HasBytes
    <3>4. encAt' = IF HasBytes(p) THEN [encAt EXCEPT ![i] = Start(i)] ELSE encAt
      BY <3>2, <3>3
    <3>5. left' = total - end[i]
      BY <1>1, <1>2, <1>4, <3>1, <3>2
    <3>6. \E n \in Nat : n <= Buffer(p) /\ readEnd' = [readEnd EXCEPT ![i] = n]
      <4>1. p.size \in Nat /\ p.size <= Buffer(p)
        BY <1>4, <3>3
      <4> QED
        BY <3>2, <4>1
    <3> QED
      BY <3>2, <3>4, <3>5, <3>6
  <2>2. CASE TeecOptEncodePartialMem
    <3>1. p.type \in Shared /\ ~ (left < Hdr \/ left - Hdr < CSize(p))
      BY <1>1, <1>2, <1>4, <2>2 DEF TeecOptEncodePartialMem
    <3> DEFINE n == IF p.mem # "registered" \/ CSize(p) = 0 THEN 0
                    ELSE (IF p.type = "whole" THEN 0 ELSE p.off) + CSize(p)
    <3>2. /\ left' = left - Hdr - CSize(p) /\ UNCHANGED <<phase, fail>>
          /\ encAt' = [encAt EXCEPT ![i] = total - (left - Hdr)]
          /\ readEnd' = [readEnd EXCEPT ![i] = n]
      BY <2>2, <3>1 DEF TeecOptEncodePartialMem
    <3>3. Start(i) = total - (left - Hdr) /\ Buffer(p) = p.psize /\ HasBytes(p)
      BY <1>1, <1>2, <1>4, <3>1 DEF Start, Buffer, HasBytes
    <3>4. n \in Nat /\ n <= p.psize
      <4>1. TEEC_CheckMemRef(p)
        BY <1>1, <3>1 DEF IInv, Checked
      <4>2. p.type = "whole" => CSize(p) = p.psize
        BY DEF CSize
      <4>3. p.type # "whole" => CSize(p) = p.size /\ p.off + p.size <= p.psize
        BY <3>1, <4>1 DEF CSize, TEEC_CheckMemRef, Shared
      <4> QED
        BY <1>4, <4>2, <4>3
    <3>5. left' = total - end[i]
      BY <1>1, <1>2, <1>4, <3>1, <3>2
    <3> HIDE DEF n
    <3>6. encAt' = IF HasBytes(p) THEN [encAt EXCEPT ![i] = Start(i)] ELSE encAt
      BY <3>2, <3>3
    <3> QED
      BY <3>2, <3>3, <3>4, <3>5, <3>6
  <2>3. CASE op[i].type = "none" /\ UNCHANGED <<phase, fail, left, encAt, readEnd>>
    <3>1. ~ HasBytes(p)
      BY <1>4, <2>3 DEF HasBytes
    <3>2. left' = total - end[i]
      BY <1>1, <1>2, <1>4, <2>3
    <3> QED
      BY <2>3, <3>1, <3>2
  <2> QED
    BY <2>1, <2>2, <2>3 DEF TeecOptEncode
<1> HIDE DEF p
<1>6. Start(i) \in 0 .. Max
  BY <1>1, <1>2, <1>4 DEF Start, p
<1>7. TypeOK'
  <2>1. encAt' \in [Index -> (0 .. Max) \cup {NoPos}]
    BY <1>1, <1>5, <1>6 DEF IInv, TypeOK
  <2>2. readEnd' \in [Index -> Nat]
    BY <1>1, <1>5 DEF IInv, TypeOK
  <2>3. i' \in 1 .. N + 1 /\ left' \in 0 .. Max
    BY <1>1, <1>2, <1>5 DEF Index
  <2> QED
    BY <1>1, <1>5, <2>1, <2>2, <2>3 DEF IInv, TypeOK
<1>8. Ends' /\ Checked'
  BY <1>1, <1>5, KeepsEnds
<1>9. Walks' /\ AcceptedFits' /\ Untouched'
  <2>1. left' = total' - end'[i' - 1]
    BY <1>1, <1>5 DEF Index
  <2> QED
    BY <1>1, <1>5, <2>1 DEF IInv, Walks, AcceptedFits, Untouched
<1>10. Places'
  <2>1. \A k \in Index : Start(k)' = Start(k)
    BY <1>1 DEF Start
  <2>2. ASSUME NEW k \in 1 .. i, HasBytes(op[k]) PROVE encAt'[k] = Start(k)
    <3>1. CASE k = i
      BY <1>1, <1>5, <2>2, <3>1 DEF IInv, TypeOK, p
    <3>2. CASE k # i
      <4>1. k \in 1 .. i - 1 /\ k \in Index
        BY <1>1, <2>2, <3>2 DEF Index
      <4>2. encAt[k] = Start(k)
        BY <1>1, <2>2, <4>1 DEF IInv, Places
      <4> QED
        BY <1>1, <1>5, <3>2, <4>1, <4>2 DEF IInv, TypeOK
    <3> QED
      BY <3>1, <3>2
  <2>3. \A k \in Index : srvAt[k] = NoPos /\ repAt[k] = NoPos
    BY <1>1 DEF IInv, Places
  <2>4. \A k \in 1 .. i' - 1 : k \in 1 .. i /\ k \in Index
    BY <1>1 DEF Index
  <2> QED
    BY <1>1, <1>5, <2>1, <2>2, <2>3, <2>4 DEF Places
<1>11. ReadsInside'
  <2> SUFFICES ASSUME NEW k \in Index PROVE readEnd'[k] <= Buffer(op[k])
    BY <1>1 DEF ReadsInside
  <2>1. readEnd[k] <= Buffer(op[k])
    BY DEF IInv, ReadsInside
  <2> QED
    BY <1>1, <1>5, <2>1 DEF IInv, TypeOK, p
<1> QED
  BY <1>7, <1>8, <1>9, <1>10, <1>11 DEF IInv

\* A new walk starts at the front: SendRequest, and the answers of cadaemon.
LEMMA SendStep ==
  ASSUME IInv, SendRequest
  PROVE  IInv'
<1> USE OperationAssumption
<1>1. /\ phase = "encode" /\ i = N + 1 /\ fail = "no" /\ Counted = N
      /\ phase' = "server" /\ i' = 1 /\ left' = total /\ pos' = 0
      /\ UNCHANGED <<req, op, total, encAt, srvAt, ta, repAt, readEnd, wroteEnd, seen, sent, fail, end>>
  BY DEF SendRequest, IInv, Walks, Counted
<1>2. TypeOK'
  BY <1>1 DEF IInv, TypeOK
<1>3. Ends' /\ Checked'
  BY <1>1, KeepsEnds
<1>4. Walks' /\ AcceptedFits' /\ Untouched' /\ ReadsInside'
  <2>1. end'[0] = 0 /\ total' \in Nat
    BY <1>1 DEF IInv, Ends, TypeOK
  <2> QED
    BY <1>1, <2>1 DEF IInv, Walks, AcceptedFits, Untouched, ReadsInside
<1>5. Places'
  <2>1. \A k \in Index : Start(k)' = Start(k) /\ k \in 1 .. i - 1
    BY <1>1 DEF Start, Index
  <2> QED
    BY <1>1, <2>1 DEF IInv, Places
<1> QED
  BY <1>2, <1>3, <1>4, <1>5 DEF IInv

\* An answer of cadaemon starts the third walk at the front or ends the request.
LEMMA AnswerStep ==
  ASSUME IInv, phase \in {"server", "tee"}, phase' \in {"reply", "done"}, fail' \in {"no", "gone", "tee"},
         i' = 1, left' = total, pos' = 0,
         UNCHANGED <<req, op, total, encAt, srvAt, repAt, readEnd, wroteEnd, seen, end>>,
         ta' \in [Index -> 0 .. Max], sent' \in BOOLEAN
  PROVE  IInv'
<1> USE OperationAssumption
<1>1. fail = "no" /\ Counted = N
  BY DEF IInv, Walks, Counted
<1>2. TypeOK'
  <2>1. i' \in 1 .. N + 1 /\ left' \in 0 .. Max /\ pos' \in 0 .. Max
    BY DEF IInv, TypeOK
  <2> QED
    BY <2>1 DEF IInv, TypeOK
<1>3. Ends' /\ Checked'
  BY <1>1, KeepsEnds
<1>4. Walks' /\ AcceptedFits' /\ Untouched' /\ ReadsInside'
  <2>1. end'[0] = 0 /\ total' \in Nat
    BY DEF IInv, Ends, TypeOK
  <2> QED
    BY <2>1 DEF IInv, Walks, AcceptedFits, Untouched, ReadsInside
<1>5. Places'
  <2>1. \A k \in Index : Start(k)' = Start(k)
    BY DEF Start
  <2> QED
    BY <1>1, <2>1 DEF IInv, Places
<1> QED
  BY <1>2, <1>3, <1>4, <1>5 DEF IInv

\* cadaemon's walk finds every parameter at its Start, and refuses only a block it does not know.
LEMMA ServerStep ==
  ASSUME IInv, GetTeecOptMem
  PROVE  IInv'
<1> USE OperationAssumption
<1> DEFINE p == op[i]
<1>1. /\ phase = "server" /\ i \in Index /\ fail = "no" /\ Counted = N
      /\ UNCHANGED <<req, op, total, encAt, ta, repAt, readEnd, wroteEnd, seen, sent, end>>
      /\ pos = end[i - 1] /\ left = total - end[i - 1]
  BY DEF GetTeecOptMem, IInv, TypeOK, Walks, Counted, Index
<1>2. /\ end[i] = end[i - 1] + Need(p) /\ end[i] <= total /\ end[i - 1] \in 0 .. Max /\ end[i] \in 0 .. Max
      /\ total \in 0 .. Max /\ left \in 0 .. Max /\ pos \in 0 .. Max
  BY <1>1, Room DEF IInv, TypeOK
<1>3. p \in Param
  BY <1>1 DEF IInv, TypeOK
<1>4. /\ CSize(p) \in 0 .. Max /\ p.size \in 0 .. Max
      /\ p.type \in Temp => p.type \notin Shared /\ p.type # "none" /\ Need(p) = p.size
      /\ p.type \in Shared => p.type \notin Temp /\ p.type # "none" /\ Need(p) = CSize(p) + Hdr
      /\ p.type = "none" => Need(p) = 0
  BY <1>3, ParamFacts
<1>5. \/ Refuse("gone")
      \/ /\ UNCHANGED <<phase, fail>> /\ i' = i + 1 /\ pos' = end[i] /\ left' = total - end[i]
         /\ srvAt' = IF HasBytes(p) THEN [srvAt EXCEPT ![i] = Start(i)] ELSE srvAt
  <2>1. CASE DecodeTempMem
    <3>1. p.type \in Temp /\ ~ CheckSizeStatus(pos, p.size, total, left)
      <4>1. p.type \in Temp
        BY <2>1 DEF DecodeTempMem
      <4>2. pos + p.size <= total /\ p.size <= left
        BY <1>1, <1>2, <1>4, <4>1
      <4> QED
        BY <1>2, <1>4, <4>1, <4>2, CheckAccepts
    <3>2. /\ srvAt' = IF p.size = 0 THEN srvAt ELSE [srvAt EXCEPT ![i] = pos]
          /\ pos' = pos + p.size /\ left' = left - p.size /\ i' = i + 1 /\ UNCHANGED <<phase, fail>>
      BY <2>1, <3>1 DEF DecodeTempMem
    <3>3. Start(i) = pos /\ HasBytes(p) = (p.size # 0)
      BY <1>1, <1>2, <1>4, <3>1 DEF Start, HasBytes
    <3>4. srvAt' = IF HasBytes(p) THEN [srvAt EXCEPT ![i] = Start(i)] ELSE srvAt
      BY <3>2, <3>3
    <3>5. pos' = end[i] /\ left' = total - end[i]
      BY <1>1, <1>2, <1>4, <3>1, <3>2
    <3> QED
      BY <3>2, <3>4, <3>5
  <2>2. CASE TeecOptDecodePartialMem
    <3>1. p.type \in Shared
      BY <2>2 DEF TeecOptDecodePartialMem
    <3>2. /\ ~ CheckSizeStatus(pos, Hdr, total, left)
          /\ ~ CheckSizeStatus(pos + Hdr, CSize(p), total, left - Hdr)
      <4>1. pos + Hdr + CSize(p) = end[i] /\ pos + Hdr + CSize(p) <= total /\ Hdr <= left /\ CSize(p) <= left - Hdr
        BY <1>1, <1>2, <1>4, <3>1
      <4>2. Hdr \in 0 .. Max /\ pos + Hdr \in 0 .. Max /\ left - Hdr \in 0 .. Max /\ pos + Hdr <= total
        BY <1>2, <1>4, <4>1
      <4>3. ~ CheckSizeStatus(pos, Hdr, total, left)
        BY <1>2, <4>1, <4>2, CheckAccepts
      <4>4. ~ CheckSizeStatus(pos + Hdr, CSize(p), total, left - Hdr)
        BY <1>2, <1>4, <4>1, <4>2, CheckAccepts
      <4> QED
        BY <4>3, <4>4
    <3>3. CASE p.mem = "released"
      BY <2>2, <3>2, <3>3 DEF TeecOptDecodePartialMem
    <3>4. CASE p.mem # "released"
      <4>1. /\ srvAt' = [srvAt EXCEPT ![i] = pos + Hdr]
            /\ pos' = pos + Hdr + CSize(p) /\ left' = left - Hdr - CSize(p)
            /\ i' = i + 1 /\ UNCHANGED <<phase, fail>>
        BY <2>2, <3>2, <3>4 DEF TeecOptDecodePartialMem
      <4>2. Start(i) = pos + Hdr /\ HasBytes(p)
        BY <1>1, <3>1 DEF Start, HasBytes
      <4>3. srvAt' = IF HasBytes(p) THEN [srvAt EXCEPT ![i] = Start(i)] ELSE srvAt
        BY <4>1, <4>2
      <4>4. pos' = end[i] /\ left' = total - end[i]
        BY <1>1, <1>2, <1>4, <3>1, <4>1
      <4> QED
        BY <4>1, <4>3, <4>4
    <3> QED
      BY <3>3, <3>4
  <2>3. CASE op[i].type = "none" /\ i' = i + 1 /\ UNCHANGED <<phase, fail, left, pos, srvAt>>
    <3>1. ~ HasBytes(p)
      BY <1>4, <2>3 DEF HasBytes
    <3>2. pos' = end[i] /\ left' = total - end[i]
      BY <1>1, <1>2, <1>4, <2>3
    <3> QED
      BY <2>3, <3>1, <3>2
  <2> QED
    BY <2>1, <2>2, <2>3 DEF GetTeecOptMem
<1>6. CASE Refuse("gone")
  <2>1. phase' \in {"reply", "done"} /\ fail' = "gone" /\ i' = 1 /\ left' = total /\ pos' = 0 /\ UNCHANGED srvAt
    BY <1>6 DEF Refuse
  <2>2. ta' \in [Index -> 0 .. Max] /\ sent' \in BOOLEAN
    BY <1>1 DEF IInv, TypeOK
  <2> QED
    BY <1>1, <2>1, <2>2, AnswerStep
<1>7. CASE /\ UNCHANGED <<phase, fail>> /\ i' = i + 1 /\ pos' = end[i] /\ left' = total - end[i]
           /\ srvAt' = IF HasBytes(p) THEN [srvAt EXCEPT ![i] = Start(i)] ELSE srvAt
  <2>1. Start(i) \in 0 .. Max
    BY <1>1, <1>2, <1>4 DEF Start
  <2> HIDE DEF p
  <2>2. TypeOK'
    <3>1. srvAt' \in [Index -> (0 .. Max) \cup {NoPos}]
      BY <1>1, <1>7, <2>1 DEF IInv, TypeOK
    <3>2. i' \in 1 .. N + 1 /\ left' \in 0 .. Max /\ pos' \in 0 .. Max
      BY <1>1, <1>2, <1>7 DEF Index
    <3> QED
      BY <1>1, <1>7, <3>1, <3>2 DEF IInv, TypeOK
  <2>3. Ends' /\ Checked'
    BY <1>1, <1>7, KeepsEnds
  <2>4. Walks' /\ AcceptedFits' /\ Untouched' /\ ReadsInside'
    <3>1. pos' = end'[i' - 1] /\ left' = total' - end'[i' - 1]
      BY <1>1, <1>7 DEF Index
    <3> QED
      BY <1>1, <1>7, <3>1 DEF IInv, Walks, AcceptedFits, Untouched, ReadsInside
  <2>5. Places'
    <3>1. \A k \in Index : Start(k)' = Start(k)
      BY <1>1 DEF Start
    <3>2. \A k \in Index : HasBytes(op[k]) => encAt[k] = Start(k)
      BY <1>1 DEF IInv, Places
    <3>3. ASSUME NEW k \in Index, srvAt'[k] # NoPos
          PROVE  HasBytes(op[k]) /\ srvAt'[k] = Start(k)
      <4>1. srvAt[k] # NoPos => HasBytes(op[k]) /\ srvAt[k] = Start(k)
        BY DEF IInv, Places
      <4>2. CASE k = i /\ HasBytes(p)
        BY <1>1, <1>7, <4>2 DEF IInv, TypeOK, p
      <4>3. CASE ~ (k = i /\ HasBytes(p))
        <5>1. srvAt'[k] = srvAt[k]
          BY <1>1, <1>7, <4>3 DEF IInv, TypeOK
        <5> QED
          BY <3>3, <4>1, <5>1
      <4> QED
        BY <4>2, <4>3
    <3>4. \A k \in Index : repAt[k] = NoPos
      BY <1>1 DEF IInv, Places
    <3> QED
      BY <1>1, <1>7, <3>1, <3>2, <3>3, <3>4 DEF Places
  <2> QED
    BY <2>2, <2>3, <2>4, <2>5 DEF IInv
<1> QED
  BY <1>5, <1>6, <1>7

\* The call of the TEE and the return to the CA move no walk.
LEMMA PhaseStep ==
  ASSUME IInv, CallTee \/ Return
  PROVE  IInv'
<1>1. /\ phase \in {"server", "reply"} /\ phase' \in {"tee", "done"} /\ (phase = "reply" => phase' = "done")
      /\ (phase = "server" => phase' = "tee")
      /\ UNCHANGED <<req, i, op, total, left, pos, encAt, srvAt, ta, repAt, readEnd, wroteEnd, seen, sent,
                     fail, end>>
  BY DEF CallTee, Return
<1>2. fail # "limit" /\ Counted = N
  BY <1>1 DEF IInv, Walks, Counted
<1>3. TypeOK'
  BY <1>1 DEF IInv, TypeOK
<1>4. Ends' /\ Checked'
  BY <1>1, <1>2, KeepsEnds
<1>5. Walks' /\ AcceptedFits' /\ Untouched' /\ ReadsInside'
  BY <1>1, <1>2 DEF IInv, Walks, AcceptedFits, Untouched, ReadsInside
<1>6. Places'
  <2>1. \A k \in Index : Start(k)' = Start(k)
    BY <1>1 DEF Start
  <2> QED
    BY <1>1, <2>1 DEF IInv, Places
<1> QED
  BY <1>3, <1>4, <1>5, <1>6 DEF IInv

\* A call that ends for another reason leaves everything else as it is.
LEMMA IpcStep ==
  ASSUME IInv, IpcFails
  PROVE  IInv'
<1>1. /\ phase \in {"encode", "reply"} /\ phase' = "done" /\ fail' = (IF fail = "no" THEN "ipc" ELSE fail)
      /\ UNCHANGED <<req, i, op, total, left, pos, encAt, srvAt, ta, repAt, readEnd, wroteEnd, seen, sent, end>>
  BY DEF IpcFails, Stop
<1>2. fail # "limit" /\ fail' # "limit" /\ Counted = N
  BY <1>1 DEF IInv, Walks, Counted
<1>3. TypeOK'
  BY <1>1 DEF IInv, TypeOK
<1>4. Ends' /\ Checked'
  BY <1>1, <1>2, KeepsEnds
<1>5. Walks' /\ AcceptedFits' /\ Untouched' /\ ReadsInside'
  BY <1>1, <1>2 DEF IInv, Walks, AcceptedFits, Untouched, ReadsInside
<1>6. Places'
  <2>1. \A k \in Index : Start(k)' = Start(k)
    BY <1>1 DEF Start
  <2> QED
    BY <1>1, <1>2, <2>1 DEF IInv, Places
<1> QED
  BY <1>3, <1>4, <1>5, <1>6 DEF IInv

\* However the TEE side ends, the operation goes back as AnswerStep needs it.
LEMMA TeeStep ==
  ASSUME IInv, AddTidDataFails \/ InnerCheckFails \/ TeeAnswers
  PROVE  IInv'
<1>1. PICK f \in {"no", "tee"} : Answer(f)
  BY DEF AddTidDataFails, InnerCheckFails, TeeAnswers
<1>2. ta' \in [Index -> 0 .. Max] /\ sent' \in BOOLEAN /\ phase = "tee"
  <2>1. CASE AddTidDataFails \/ InnerCheckFails
    BY <2>1 DEF AddTidDataFails, InnerCheckFails, IInv, TypeOK
  <2>2. CASE TeeAnswers
    <3>1. PICK n \in [{k \in Index : Output(op[k])} -> TaSizes] :
            ta' = [k \in Index |-> IF Output(op[k]) THEN n[k] ELSE CSize(op[k])]
      BY <2>2 DEF TeeAnswers
    <3>2. \A k \in Index : CSize(op[k]) \in 0 .. Max
      BY ParamFacts DEF IInv, TypeOK
    <3>3. \A k \in Index : Output(op[k]) => n[k] \in 0 .. Max
      BY <3>1, OperationAssumption
    <3> QED
      BY <2>2, <3>1, <3>2, <3>3 DEF TeeAnswers
  <2> QED
    BY <2>1, <2>2
<1>3. /\ phase' \in {"reply", "done"} /\ fail' \in {"no", "gone", "tee"} /\ i' = 1 /\ left' = total /\ pos' = 0
      /\ UNCHANGED <<req, op, total, encAt, srvAt, repAt, readEnd, wroteEnd, seen, end>>
  BY <1>1 DEF Answer
<1> QED
  BY <1>2, <1>3, AnswerStep

\* What a turn of the third walk does: TeecOptDecode fetches from Start(i), moves on to
\* end[i], and writes inside the CA's buffer unless a whole reference has an offset.
LEMMA DecodeFacts ==
  ASSUME IInv, TeecOptDecode
  PROVE  /\ phase = "reply" /\ i \in Index /\ i' = i + 1 /\ fail # "limit" /\ Counted = N
         /\ pos' = end[i] /\ left' = total - end[i] /\ pos' \in 0 .. Max /\ left' \in 0 .. Max
         /\ UNCHANGED <<phase, fail, req, op, total, encAt, srvAt, ta, readEnd, sent, end>>
         /\ \/ UNCHANGED <<repAt, wroteEnd>>
            \/ /\ repAt' = [repAt EXCEPT ![i] = Start(i)] /\ Start(i) \in 0 .. Max
               /\ \E n \in Nat : /\ wroteEnd' = [wroteEnd EXCEPT ![i] = n]
                                 /\ (op[i].type = "whole" => op[i].off = 0) => n <= Buffer(op[i])
         /\ seen' \in [Index -> 0 .. Max]
<1> USE OperationAssumption
<1> DEFINE p == op[i]
<1>1. /\ phase = "reply" /\ i \in Index /\ i' = i + 1 /\ fail # "limit" /\ Counted = N
      /\ UNCHANGED <<req, op, total, encAt, srvAt, ta, readEnd, sent, end>>
      /\ pos = end[i - 1] /\ left = total - end[i - 1]
  BY DEF TeecOptDecode, IInv, TypeOK, Walks, Counted, Index
<1>2. /\ end[i] = end[i - 1] + Need(p) /\ end[i] <= total /\ end[i - 1] \in 0 .. Max /\ end[i] \in 0 .. Max
      /\ total \in 0 .. Max /\ left \in 0 .. Max /\ pos \in 0 .. Max /\ end[i - 1] <= end[i]
  BY <1>1, Room DEF IInv, TypeOK
<1>3. p \in Param /\ ta[i] \in 0 .. Max /\ seen \in [Index -> 0 .. Max]
  BY <1>1 DEF IInv, TypeOK
<1>4. /\ CSize(p) \in 0 .. Max /\ p.size \in 0 .. Max /\ p.off \in 0 .. Max /\ p.psize \in 0 .. Max
      /\ p.type \in Temp => p.type \notin Shared /\ p.type # "none" /\ Need(p) = p.size
      /\ p.type \in Shared => p.type \notin Temp /\ p.type # "none" /\ Need(p) = CSize(p) + Hdr
      /\ p.type = "none" => Need(p) = 0
  BY <1>3, ParamFacts
<1>5. Start(i) \in 0 .. Max
  BY <1>1, <1>2, <1>4 DEF Start
<1>6. end[i] \in 0 .. Max /\ total - end[i] \in 0 .. Max
  BY <1>2
<1>7. CASE ReplyTempMem
  <2>1. p.type \in Temp /\ ~ (left < p.size)
    BY <1>1, <1>2, <1>4, <1>7 DEF ReplyTempMem
  <2>2. /\ left' = left - p.size /\ pos' = pos + p.size /\ UNCHANGED <<phase, fail>>
        /\ \/ UNCHANGED <<repAt, wroteEnd, seen>>
           \/ /\ \/ UNCHANGED <<repAt, wroteEnd>>
                 \/ ~ (p.size < ta[i]) /\ CopyBack(0, ta[i])
              /\ seen' = [seen EXCEPT ![i] = ta[i]]
    BY <1>7, <2>1 DEF ReplyTempMem
  <2>3. pos' = end[i] /\ left' = total - end[i]
    BY <1>1, <1>2, <1>4, <2>1, <2>2
  <2>4. seen' \in [Index -> 0 .. Max]
    BY <1>1, <1>3, <2>2
  <2>5. Start(i) = pos /\ Buffer(p) = p.size
    BY <1>1, <1>2, <1>4, <2>1 DEF Start, Buffer
  <2>6. CASE ~ (p.size < ta[i]) /\ CopyBack(0, ta[i])
    <3>1. \/ UNCHANGED <<repAt, wroteEnd>>
          \/ repAt' = [repAt EXCEPT ![i] = Start(i)] /\ wroteEnd' = [wroteEnd EXCEPT ![i] = 0 + ta[i]]
      BY <1>4, <2>1, <2>5, <2>6 DEF CopyBack
    <3>2. 0 + ta[i] \in Nat /\ 0 + ta[i] <= Buffer(p)
      BY <1>3, <1>4, <2>5, <2>6
    <3>3. \/ UNCHANGED <<repAt, wroteEnd>>
          \/ /\ repAt' = [repAt EXCEPT ![i] = Start(i)]
             /\ \E n \in Nat : wroteEnd' = [wroteEnd EXCEPT ![i] = n] /\ n <= Buffer(p)
      BY <3>1, <3>2
    <3> QED
      BY <1>1, <1>5, <1>6, <2>2, <2>3, <2>4, <3>3
  <2>7. CASE UNCHANGED <<repAt, wroteEnd>>
    BY <1>1, <1>6, <2>2, <2>3, <2>4, <2>7
  <2> QED
    BY <2>2, <2>6, <2>7
<1>8. CASE ReplyPartialMem
  <2>1. p.type \in Shared /\ ~ (IsOverFlow(CSize(p), Hdr) \/ left < CSize(p) + Hdr)
    BY <1>1, <1>2, <1>4, <1>8 DEF ReplyPartialMem, IsOverFlow
  <2>2. /\ left' = left - Hdr - CSize(p) /\ pos' = pos + Hdr + CSize(p) /\ UNCHANGED <<phase, fail>>
        /\ \/ UNCHANGED <<repAt, wroteEnd, seen>>
           \/ /\ \/ UNCHANGED <<repAt, wroteEnd>>
                 \/ ~ (CSize(p) < ta[i]) /\ CopyBack(p.off, ta[i])
              /\ seen' = [seen EXCEPT ![i] = ta[i]]
    BY <1>8, <2>1 DEF ReplyPartialMem
  <2>3. pos' = end[i] /\ left' = total - end[i]
    BY <1>1, <1>2, <1>4, <2>1, <2>2
  <2>4. seen' \in [Index -> 0 .. Max]
    BY <1>1, <1>3, <2>2
  <2>5. Start(i) = pos + Hdr /\ Buffer(p) = p.psize
    BY <1>1, <2>1 DEF Start, Buffer
  <2>6. CASE ~ (CSize(p) < ta[i]) /\ CopyBack(p.off, ta[i])
    <3>1. \/ UNCHANGED <<repAt, wroteEnd>>
          \/ repAt' = [repAt EXCEPT ![i] = Start(i)] /\ wroteEnd' = [wroteEnd EXCEPT ![i] = p.off + ta[i]]
      BY <2>1, <2>5, <2>6 DEF CopyBack
    <3>2. p.off + ta[i] \in Nat
      BY <1>3, <1>4
    <3>3. (p.type = "whole" => p.off = 0) => p.off + ta[i] <= Buffer(p)
      <4>1. TEEC_CheckMemRef(p)
        BY <1>1, <2>1 DEF IInv, Checked
      <4>2. p.type = "whole" => CSize(p) = p.psize
        BY DEF CSize
      <4>3. p.type # "whole" => CSize(p) = p.size /\ p.off + p.size <= p.psize
        BY <2>1, <4>1 DEF CSize, TEEC_CheckMemRef, Shared
      <4> QED
        BY <1>3, <1>4, <2>5, <2>6, <4>2, <4>3
    <3>4. \/ UNCHANGED <<repAt, wroteEnd>>
          \/ /\ repAt' = [repAt EXCEPT ![i] = Start(i)]
             /\ \E n \in Nat : /\ wroteEnd' = [wroteEnd EXCEPT ![i] = n]
                               /\ (p.type = "whole" => p.off = 0) => n <= Buffer(p)
      BY <3>1, <3>2, <3>3
    <3> QED
      BY <1>1, <1>5, <1>6, <2>2, <2>3, <2>4, <3>4
  <2>7. CASE UNCHANGED <<repAt, wroteEnd>>
    BY <1>1, <1>6, <2>2, <2>3, <2>4, <2>7
  <2> QED
    BY <2>2, <2>6, <2>7
<1>9. CASE /\ op[i].type = "none" \/ (op[i].type \in Temp /\ total = 0)
           /\ UNCHANGED <<phase, fail, left, pos, repAt, wroteEnd, seen>>
  <2>1. pos' = end[i] /\ left' = total - end[i]
    BY <1>1, <1>2, <1>4, <1>9
  <2> QED
    BY <1>1, <1>3, <1>6, <1>9, <2>1
<1> QED
  BY <1>7, <1>8, <1>9 DEF TeecOptDecode

LEMMA DecodeStep ==
  ASSUME IInv, TeecOptDecode
  PROVE  IInv'
<1> USE OperationAssumption
<1>1. /\ phase = "reply" /\ i \in Index /\ i' = i + 1 /\ fail # "limit" /\ Counted = N
      /\ pos' = end[i] /\ left' = total - end[i] /\ pos' \in 0 .. Max /\ left' \in 0 .. Max
      /\ UNCHANGED <<phase, fail, req, op, total, encAt, srvAt, ta, readEnd, sent, end>>
      /\ seen' \in [Index -> 0 .. Max]
  BY DecodeFacts
<1>2. \/ UNCHANGED <<repAt, wroteEnd>>
      \/ /\ repAt' = [repAt EXCEPT ![i] = Start(i)] /\ Start(i) \in 0 .. Max
         /\ \E n \in Nat : wroteEnd' = [wroteEnd EXCEPT ![i] = n]
  BY DecodeFacts
<1>3. TypeOK'
  <2>1. repAt' \in [Index -> (0 .. Max) \cup {NoPos}]
    BY <1>1, <1>2 DEF IInv, TypeOK
  <2>2. wroteEnd' \in [Index -> Nat]
    BY <1>1, <1>2 DEF IInv, TypeOK
  <2>3. i' \in 1 .. N + 1
    BY <1>1 DEF Index
  <2> QED
    BY <1>1, <2>1, <2>2, <2>3 DEF IInv, TypeOK
<1>4. Ends' /\ Checked'
  BY <1>1, KeepsEnds
<1>5. Walks' /\ AcceptedFits' /\ Untouched' /\ ReadsInside'
  <2>1. pos' = end'[i' - 1] /\ left' = total' - end'[i' - 1]
    BY <1>1 DEF Index
  <2> QED
    BY <1>1, <2>1 DEF IInv, Walks, AcceptedFits, Untouched, ReadsInside
<1>6. Places'
  <2>1. \A k \in Index : Start(k)' = Start(k)
    BY <1>1 DEF Start
  <2>2. ASSUME NEW k \in Index, repAt'[k] # NoPos PROVE repAt'[k] = Start(k)
    <3>1. repAt[k] # NoPos => repAt[k] = Start(k)
      BY DEF IInv, Places
    <3> QED
      BY <1>1, <1>2, <2>2, <3>1 DEF IInv, TypeOK
  <2> QED
    BY <1>1, <2>1, <2>2 DEF IInv, Places
<1> QED
  BY <1>3, <1>4, <1>5, <1>6 DEF IInv

LEMMA StepIInv == IInv /\ [Next]_vars => IInv'
<1> SUFFICES ASSUME IInv, [Next]_vars PROVE IInv'
  OBVIOUS
<1>1. CASE UNCHANGED vars
  <2>1. /\ UNCHANGED <<req, phase, i, op, total, left, pos, encAt, srvAt, ta, repAt, readEnd, wroteEnd>>
        /\ UNCHANGED <<seen, sent, fail, end>>
    BY <1>1 DEF vars
  <2>2. TypeOK'
    BY <2>1 DEF IInv, TypeOK
  <2>3. Counted' = Counted /\ \A k \in Index : Start(k)' = Start(k)
    BY <2>1 DEF Counted, Start
  <2>4. Ends' /\ Walks' /\ Checked'
    BY <2>1, <2>3 DEF IInv, Ends, Walks, Checked
  <2>5. Untouched' /\ AcceptedFits' /\ ReadsInside'
    BY <2>1 DEF IInv, Untouched, AcceptedFits, ReadsInside
  <2>6. Places'
    <3>1. i \in 1 .. N + 1
      BY DEF IInv, TypeOK
    <3>2. \A k \in 1 .. i - 1 : k \in Index
      BY <3>1, OperationAssumption DEF Index
    <3> QED
      BY <2>1, <2>3, <3>2 DEF IInv, Places
  <2> QED
    BY <2>2, <2>4, <2>5, <2>6 DEF IInv
<1>2. CASE Next
  BY <1>2, SizeStep, CopyStep, EncodeStep, SendStep, IpcStep, ServerStep, PhaseStep, TeeStep, DecodeStep DEF Next
<1> QED
  BY <1>1, <1>2

LEMMA InvariantIInv == Spec => []IInv
<1> QED
  BY InitIInv, StepIInv, PTL DEF Spec

\* Every variable keeps its type: no counter of the walks leaves uint32_t.
THEOREM OperationTypeCorrect == Spec => []TypeOK
<1>1. IInv => TypeOK
  BY DEF IInv
<1> QED
  BY <1>1, InvariantIInv, PTL

\* TeecOptEncode, CheckSizeStatus and TeecOptDecode refuse no operation for its sizes that
\* TEEC_CheckOperation and GetOptMemSize accepted.
THEOREM OperationFits == Spec => []AcceptedFits
<1>1. IInv => AcceptedFits
  BY DEF IInv
<1> QED
  BY <1>1, InvariantIInv, PTL

\* cadaemon finds every parameter where the client put it, apart from the others, and the
\* client fetches an output from there.
THEOREM OperationLayout == Spec => []SameLayout
<1>1. IInv => SameLayout
  <2> SUFFICES ASSUME IInv, NEW k \in Index, srvAt[k] # NoPos
               PROVE  /\ srvAt[k] = encAt[k]
                      /\ repAt[k] \in {NoPos, srvAt[k]}
                      /\ srvAt[k] + CSize(op[k]) <= total
                      /\ \A m \in Index \ {k} : srvAt[m] # NoPos => Bytes(k) \cap Bytes(m) = {}
    BY DEF SameLayout
  <2> USE OperationAssumption
  <2>1. \A m \in Index : srvAt[m] # NoPos => srvAt[m] = Start(m) /\ encAt[m] = Start(m) /\ HasBytes(op[m])
    BY DEF IInv, Places
  <2>2. repAt[k] # NoPos => repAt[k] = Start(k)
    BY DEF IInv, Places
  <2>3. Counted = N /\ fail # "limit"
    BY DEF IInv, Places, Counted
  <2>4. ASSUME NEW m \in Index, srvAt[m] # NoPos
        PROVE  /\ srvAt[m] \in Nat /\ CSize(op[m]) \in Nat
               /\ end[m - 1] <= srvAt[m] /\ srvAt[m] + CSize(op[m]) = end[m] /\ end[m] <= total
               /\ end[m - 1] \in Nat /\ end[m] \in Nat
    <3>1. /\ end[m] = end[m - 1] + Need(op[m]) /\ end[m] <= total
          /\ end[m - 1] \in 0 .. Max /\ end[m] \in 0 .. Max
      BY <2>3, Room DEF IInv
    <3>2. op[m] \in Param
      BY DEF IInv, TypeOK
    <3>3. /\ CSize(op[m]) \in 0 .. Max
          /\ op[m].type \in Temp => op[m].type \notin Shared /\ Need(op[m]) = op[m].size /\ CSize(op[m]) = op[m].size
          /\ op[m].type \in Shared => Need(op[m]) = CSize(op[m]) + Hdr
      BY <3>2, ParamFacts
    <3>4. srvAt[m] = Start(m) /\ HasBytes(op[m])
      BY <2>1, <2>4
    <3> QED
      BY <3>1, <3>3, <3>4 DEF Start, HasBytes
  <2>5. srvAt[k] = encAt[k] /\ repAt[k] \in {NoPos, srvAt[k]}
    BY <2>1, <2>2
  <2>6. srvAt[k] + CSize(op[k]) <= total
    BY <2>4
  <2>7. ASSUME NEW m \in Index \ {k}, srvAt[m] # NoPos PROVE Bytes(k) \cap Bytes(m) = {}
    <3>1. \A a, b \in Index : a < b => end[a] <= end[b - 1]
      <4> SUFFICES ASSUME NEW a \in Index, NEW b \in Index, a < b PROVE end[a] <= end[b - 1]
        OBVIOUS
      <4>1. a \in 0 .. N /\ b - 1 \in 0 .. N /\ a <= b - 1
        BY DEF Index
      <4> QED
        BY <2>3, <4>1 DEF IInv, Ends
    <3>2. /\ srvAt[m] \in Nat /\ CSize(op[m]) \in Nat /\ end[m - 1] <= srvAt[m]
          /\ srvAt[m] + CSize(op[m]) = end[m] /\ end[m - 1] \in Nat /\ end[m] \in Nat
      BY <2>4, <2>7
    <3>3. /\ srvAt[k] \in Nat /\ CSize(op[k]) \in Nat /\ end[k - 1] <= srvAt[k]
          /\ srvAt[k] + CSize(op[k]) = end[k] /\ end[k - 1] \in Nat /\ end[k] \in Nat
      BY <2>4
    <3>4. k < m \/ m < k
      BY DEF Index
    <3>5. CASE k < m
      <4>1. end[k] <= end[m - 1]
        BY <3>1, <3>5
      <4> QED
        BY <3>2, <3>3, <4>1 DEF Bytes
    <3>6. CASE m < k
      <4>1. end[m] <= end[k - 1]
        BY <3>1, <3>6
      <4> QED
        BY <3>2, <3>3, <4>1 DEF Bytes
    <3> QED
      BY <3>4, <3>5, <3>6
  <2> QED
    BY <2>5, <2>6, <2>7
<1> QED
  BY <1>1, InvariantIInv, PTL

\* The client reads only inside the CA's buffers.
THEOREM OperationReads == Spec => []ReadsInside
<1>1. IInv => ReadsInside
  BY DEF IInv
<1> QED
  BY <1>1, InvariantIInv, PTL

\* The client writes only inside the CA's buffers, whatever the TA answers, as long as
\* whole references have offset 0 (the run whole_offset shows why that is needed).
THEOREM OperationWrites ==
  ASSUME \A p \in Params : p.type = "whole" => p.off = 0
  PROVE  Spec => []WritesInside
<1> DEFINE FromParams == op \in [Index -> Params \cup {NoParam}]
           WInv == FromParams /\ WritesInside
<1>1. Init => WInv
  <2> SUFFICES ASSUME Init PROVE WInv
    OBVIOUS
  <2>1. FromParams
    BY DEF Init
  <2>2. WritesInside
    BY DEF Init, WritesInside, Buffer, NoParam, Shared, Partial
  <2> QED
    BY <2>1, <2>2
<1>2. IInv /\ WInv /\ [Next]_vars => WInv'
  <2> SUFFICES ASSUME IInv, WInv, [Next]_vars PROVE WInv'
    OBVIOUS
  <2>1. CASE UNCHANGED <<op, wroteEnd>>
    BY <2>1 DEF WritesInside
  <2>2. ASSUME NEW q \in TEEC_CheckOperation, GetOptMemSize(q) PROVE WInv'
    <3>1. phase = "size" /\ i \in Index /\ op' = [op EXCEPT ![i] = Passed(i, q)] /\ UNCHANGED wroteEnd
      BY <2>2 DEF GetOptMemSize, IInv, TypeOK, Index
    <3>2. Passed(i, q) \in Params \cup {NoParam}
      BY <2>2 DEF Passed, TEEC_CheckOperation
    <3>3. FromParams'
      BY <3>1, <3>2
    <3>4. ASSUME NEW k \in Index PROVE wroteEnd'[k] <= Buffer(op'[k])
      <4>1. wroteEnd'[k] = 0
        BY <3>1 DEF IInv, Untouched
      <4>2. op'[k] \in Param
        <5>1. NoParam \in Param
          BY OperationAssumption DEF NoParam, Param
        <5> QED
          BY <3>3, <5>1, OperationAssumption
      <4>3. Buffer(op'[k]) \in 0 .. Max
        BY <4>2, ParamFacts DEF Buffer
      <4> QED
        BY <4>1, <4>3, OperationAssumption
    <3> QED
      BY <3>3, <3>4 DEF WritesInside
  <2>3. CASE TeecOptDecode
    <3>1. /\ i \in Index /\ UNCHANGED op
          /\ \/ UNCHANGED wroteEnd
             \/ \E n \in Nat : /\ wroteEnd' = [wroteEnd EXCEPT ![i] = n]
                               /\ (op[i].type = "whole" => op[i].off = 0) => n <= Buffer(op[i])
      BY <2>3, DecodeFacts
    <3>2. op[i].type = "whole" => op[i].off = 0
      <4>1. op[i] \in Params \/ op[i] = NoParam
        BY <3>1
      <4> QED
        BY <4>1 DEF NoParam
    <3>3. wroteEnd \in [Index -> Nat]
      BY DEF IInv, TypeOK
    <3>4. ASSUME NEW k \in Index PROVE wroteEnd'[k] <= Buffer(op[k])
      BY <3>1, <3>2, <3>3 DEF WritesInside
    <3> QED
      BY <3>1, <3>4 DEF WritesInside
  <2>4. CASE \/ CopyTeecOptMem \/ TeecOptEncode \/ SendRequest \/ GetTeecOptMem \/ CallTee \/ Return
             \/ IpcFails \/ AddTidDataFails \/ InnerCheckFails \/ TeeAnswers \/ UNCHANGED vars
    <3>1. UNCHANGED <<op, wroteEnd>>
      BY <2>4 DEF CopyTeecOptMem, TeecOptEncode, SendRequest, GetTeecOptMem, CallTee, Return,
                  IpcFails, AddTidDataFails, InnerCheckFails, TeeAnswers, Answer, vars
    <3> QED
      BY <2>1, <3>1
  <2> QED
    BY <2>2, <2>3, <2>4 DEF Next
<1>3. WInv => WritesInside
  OBVIOUS
<1> HIDE DEF WInv
<1> QED
  BY <1>1, <1>2, <1>3, InvariantIInv, PTL DEF Spec

=============================================================================
