------------------------- MODULE AgentChannelProofs -------------------------
(***************************************************************************)
(* The channel to the FS agent implements the call that an agent owes the  *)
(* TEE (AgentCall), for any number of commands and of ghost wakeups, when  *)
(* no command comes before the thread of the agent has marked its buffer.  *)
(* That a call ends is temporal and left to TLC.                           *)
(***************************************************************************)
EXTENDS AgentChannel, TLAPS

(***************************************************************************)
(* Where a command can be.  The magic is the only thing the two sides tell *)
(* the state of a command by: it is clear exactly while a command waits    *)
(* for its handler, and in the step between the handler and its mark.      *)
(***************************************************************************)
Typed ==
  /\ magic \in {"clear", "agent"}
  /\ worker \in WorkerStates
  /\ asked \in Nat /\ did \in Nat /\ answered \in Nat

Counts ==
  /\ answered <= did
  /\ did <= asked
  /\ asked <= answered + 1

MagicTells ==
  /\ worker = "new" => asked = 0
  /\ worker # "new" => (magic = "clear" <=> did < asked \/ worker = "mark")
  /\ worker = "work" => did < asked
  /\ worker = "mark" => did = asked /\ answered < did

ChannelInv == Typed /\ Counts /\ MagicTells

\* The invariant holds before the thread of the agent has run.
LEMMA InitChannelInv ==
  ChannelInit => ChannelInv
BY DEF ChannelInit, ChannelInv, Typed, Counts, MagicTells, WorkerStates

\* It is kept by what the TEE and tzdriver do: a command clears the magic
\* when no other one is under way, and a reply ends a command only when the
\* magic is set, that is, after its handler.  The first command must not
\* come before the thread has marked its buffer.
LEMMA TeeChannelInv ==
  ASSUME EarlyAsk = FALSE \/ worker # "new", ChannelInv,
         SendCommand \/ GhostWakeup \/ TakeReply
  PROVE  ChannelInv'
<1> USE DEF ChannelInv, Typed, Counts, MagicTells,
                             WorkerStates, TeeWaits
<1>1. CASE SendCommand
  <2>1. worker # "new"
    BY <1>1 DEF SendCommand
  <2> QED BY <1>1, <2>1 DEF SendCommand
<1>2. CASE GhostWakeup
  BY <1>2 DEF GhostWakeup
<1>3. CASE TakeReply
  BY <1>3 DEF TakeReply
<1> QED BY <1>1, <1>2, <1>3

\* It is kept by every step of the thread: a wakeup leads to the handler
\* only when the magic is clear, that is, for a command not yet handled.
LEMMA WorkerChannelInv ==
  ASSUME ChannelInv, WorkerStep \/ IoctlFails
  PROVE  ChannelInv'
<1> USE DEF ChannelInv, Typed, Counts, MagicTells, WorkerStates
<1>1. CASE StartWorker
  BY <1>1 DEF StartWorker
<1>2. CASE WaitEvent
  BY <1>2 DEF WaitEvent
<1>3. CASE CheckMagic
  BY <1>3 DEF CheckMagic
<1>4. CASE RunHandler
  BY <1>4 DEF RunHandler
<1>5. CASE MarkDone
  BY <1>5 DEF MarkDone
<1>6. CASE SendResponse
  BY <1>6 DEF SendResponse
<1>7. CASE IoctlFails
  BY <1>7 DEF IoctlFails
<1> QED BY <1>1, <1>2, <1>3, <1>4, <1>5, <1>6, <1>7 DEF WorkerStep

LEMMA NextChannelInv ==
  ASSUME EarlyAsk = FALSE, ChannelInv, [ChannelNext]_channelVars
  PROVE  ChannelInv'
<1>1. CASE UNCHANGED channelVars
  BY <1>1 DEF channelVars, ChannelInv, Typed, Counts, MagicTells
<1>2. CASE ChannelNext
  BY <1>2, TeeChannelInv, WorkerChannelInv DEF ChannelNext
<1> QED BY <1>1, <1>2

LEMMA ChannelTypeInit == ChannelInit => ChannelTypeOK
<1> SUFFICES ASSUME ChannelInit PROVE ChannelTypeOK
  OBVIOUS
<1>1. event \in BOOLEAN /\ reply \in BOOLEAN
  BY DEF ChannelInit
<1>2. ghosts \in 0 .. MaxGhosts /\ asked \in 0 .. MaxAsked
  BY BoundsAssumption DEF ChannelInit
<1> QED BY <1>1, <1>2 DEF ChannelInit, ChannelTypeOK, WorkerStates

\* The types of the channel.
LEMMA ChannelTypeNext == ChannelTypeOK /\ [ChannelNext]_channelVars => ChannelTypeOK'
<1> SUFFICES ASSUME ChannelTypeOK, [ChannelNext]_channelVars PROVE ChannelTypeOK'
  OBVIOUS
<1> USE BoundsAssumption DEF ChannelTypeOK, WorkerStates
<1>1. CASE SendCommand
  BY <1>1 DEF SendCommand
<1>2. CASE GhostWakeup
  BY <1>2 DEF GhostWakeup
<1>3. CASE TakeReply
  <2>1. answered' \in Nat
    BY <1>3 DEF TakeReply
  <2>2. reply' \in BOOLEAN
    BY <1>3 DEF TakeReply
  <2> QED BY <1>3, <2>1, <2>2 DEF TakeReply
<1>4. CASE StartWorker
  BY <1>4 DEF StartWorker
<1>5. CASE WaitEvent
  BY <1>5 DEF WaitEvent
<1>6. CASE CheckMagic
  BY <1>6 DEF CheckMagic
<1>7. CASE RunHandler
  BY <1>7 DEF RunHandler
<1>8. CASE MarkDone
  BY <1>8 DEF MarkDone
<1>9. CASE SendResponse
  BY <1>9 DEF SendResponse
<1>10. CASE IoctlFails
  BY <1>10 DEF IoctlFails
<1>11. CASE UNCHANGED channelVars
  BY <1>11 DEF channelVars
<1> QED
  BY <1>1, <1>2, <1>3, <1>4, <1>5, <1>6, <1>7, <1>8, <1>9, <1>10, <1>11
     DEF ChannelNext, WorkerStep

\* A step of the channel is a step of the call, or leaves its state alone.
LEMMA NextIsCall ==
  ASSUME ChannelInv, [ChannelNext]_channelVars
  PROVE  [Call!Next]_(Call!callVars)
<1> USE DEF ChannelInv, Typed, Counts, MagicTells, Call!Next, Call!callVars
<1>1. CASE SendCommand
  <2>1. asked = answered
    BY <1>1 DEF SendCommand, TeeWaits
  <2>2. Call!Ask
    BY <1>1, <2>1 DEF SendCommand, Call!Ask
  <2> QED BY <2>2
<1>2. CASE TakeReply
  <2>1. CASE magic = "agent"
    <3>1. answered < did
      BY <1>2, <2>1 DEF TakeReply, TeeWaits, WorkerStates
    <3>2. Call!Answer
      BY <1>2, <2>1, <3>1 DEF TakeReply, Call!Answer
    <3> QED BY <3>2
  <2>2. CASE magic # "agent"
    BY <1>2, <2>2 DEF TakeReply
  <2> QED BY <2>1, <2>2
<1>3. CASE RunHandler
  <2>1. Call!Do
    BY <1>3 DEF RunHandler, Call!Do
  <2> QED BY <2>1
<1>4. CASE IoctlFails
  <2>1. Call!Stop
    BY <1>4 DEF IoctlFails, Call!Stop
  <2> QED BY <2>1
<1>5. CASE GhostWakeup
  BY <1>5 DEF GhostWakeup
<1>6. CASE StartWorker \/ WaitEvent
  BY <1>6 DEF StartWorker, WaitEvent
<1>7. CASE CheckMagic
  BY <1>7 DEF CheckMagic
<1>8. CASE MarkDone \/ SendResponse
  BY <1>8 DEF MarkDone, SendResponse
<1>9. CASE UNCHANGED channelVars
  BY <1>9 DEF channelVars
<1> QED
  BY <1>1, <1>2, <1>3, <1>4, <1>5, <1>6, <1>7, <1>8, <1>9 DEF ChannelNext, WorkerStep

\* Whatever wakeups come, a command of the TEE is handled exactly once and
\* ends only after its handler (FsWorkEventHandle), if the thread has marked
\* its buffer before the first command.
THEOREM ChannelImplementsCall ==
  ASSUME EarlyAsk = FALSE
  PROVE  ChannelSpec => Call!SafeSpec
<1>1. ChannelSpec => []ChannelInv
  BY InitChannelInv, NextChannelInv, PTL DEF ChannelSpec
<1>2. ChannelInit => Call!Init
  BY DEF ChannelInit, Call!Init
<1> QED
  BY <1>1, <1>2, NextIsCall, PTL DEF ChannelSpec, Call!SafeSpec
=============================================================================
