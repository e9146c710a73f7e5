---------------------------- MODULE AgentChannel ----------------------------
(***************************************************************************)
(* The channel between the TEE and the FS agent of teecd: a shared buffer  *)
(* with a magic word, the wakeup that TC_NS_CLIENT_IOCTL_WAIT_EVENT waits  *)
(* for and the reply that TC_NS_CLIENT_IOCTL_SEND_EVENT_RESPONSE delivers  *)
(* (FsWorkThread and FsWorkEventHandle of fs_work_agent.c).                *)
(*                                                                         *)
(* The TEE and tzdriver are outside the repository.  They are modelled     *)
(* from the comment in FsWorkEventHandle: the TEE clears the magic before  *)
(* it sends a command, takes a reply for the end of its command only when  *)
(* the magic is the agent's again, and wakeups without a command happen.   *)
(***************************************************************************)
EXTENDS Naturals

CONSTANTS
  MaxAsked,   \* bound: commands the TEE sends
  MaxGhosts,  \* bound: wakeups that come without a command
  EarlyAsk    \* TRUE: the TEE may send a command as soon as the agent is
              \* registered; FALSE: only once its thread has marked the buffer

ASSUME BoundsAssumption == MaxAsked \in Nat /\ MaxGhosts \in Nat
ASSUME EarlyAssumption == EarlyAsk \in BOOLEAN

VARIABLES
  magic,     \* transControl->magic: "clear" or "agent" (AGENT_FS_ID)
  worker,    \* where FsWorkThread is
  event,     \* a wakeup is pending for WAIT_EVENT
  reply,     \* a response is pending for the TEE
  ghosts,    \* wakeups so far that came without a command
  asked, did, answered  \* history: commands sent, handled, ended

channelVars == <<magic, worker, event, reply, ghosts, asked, did, answered>>

\* "mark" and "reply" are the two steps after the handler of a command.
WorkerStates == {"new", "wait", "check", "work", "mark", "reply", "gone"}

ChannelTypeOK ==
  /\ magic \in {"clear", "agent"}
  /\ worker \in WorkerStates
  /\ event \in BOOLEAN
  /\ reply \in BOOLEAN
  /\ ghosts \in 0 .. MaxGhosts
  /\ asked \in 0 .. MaxAsked
  /\ did \in Nat
  /\ answered \in Nat

\* The agent is registered (ProcessAgentInit) and its thread has not run yet.
ChannelInit ==
  /\ magic = "clear"
  /\ worker = "new"
  /\ event = FALSE
  /\ reply = FALSE
  /\ ghosts = 0
  /\ asked = 0 /\ did = 0 /\ answered = 0

TeeWaits == answered < asked

(***************************************************************************)
(* The TEE and tzdriver.                                                   *)
(***************************************************************************)

SendCommand ==
  /\ ~TeeWaits
  /\ asked < MaxAsked
  /\ EarlyAsk \/ worker # "new"
  /\ asked' = asked + 1
  /\ magic' = "clear"
  /\ event' = TRUE
  /\ UNCHANGED <<worker, reply, ghosts, did, answered>>

GhostWakeup ==
  /\ ghosts < MaxGhosts
  /\ ghosts' = ghosts + 1
  /\ event' = TRUE
  /\ UNCHANGED <<magic, worker, reply, asked, did, answered>>

\* The TEE runs again; it goes on waiting if its command is not marked.
TakeReply ==
  /\ TeeWaits
  /\ reply
  /\ reply' = FALSE
  /\ answered' = IF magic = "agent" THEN answered + 1 ELSE answered
  /\ UNCHANGED <<magic, worker, event, ghosts, asked, did>>

(***************************************************************************)
(* FsWorkThread.                                                           *)
(***************************************************************************)

StartWorker ==
  /\ worker = "new"
  /\ magic' = "agent"
  /\ worker' = "wait"
  /\ UNCHANGED <<event, reply, ghosts, asked, did, answered>>

WaitEvent ==
  /\ worker = "wait"
  /\ event
  /\ event' = FALSE
  /\ worker' = "check"
  /\ UNCHANGED <<magic, reply, ghosts, asked, did, answered>>

\* A failing ioctl ends the loop and the thread.
IoctlFails ==
  /\ worker \in {"wait", "reply"}
  /\ worker' = "gone"
  /\ UNCHANGED <<magic, event, reply, ghosts, asked, did, answered>>

\* Mutants: the handler runs on every wakeup; the buffer is marked first.
CheckMagicDropped ==
  /\ worker = "check"
  /\ worker' = "work"
  /\ UNCHANGED <<magic, event, reply, ghosts, asked, did, answered>>
CheckMagicEarlyMark ==
  /\ worker = "check"
  /\ worker' = IF magic = "agent" THEN "reply" ELSE "work"
  /\ magic' = "agent"
  /\ UNCHANGED <<event, reply, ghosts, asked, did, answered>>

CheckMagic ==
  /\ worker = "check"
  /\ worker' = IF magic = "agent" THEN "reply" ELSE "work"
  /\ UNCHANGED <<magic, event, reply, ghosts, asked, did, answered>>

\* The handler of the command; FsAgent says what it does to the files.
RunHandler ==
  /\ worker = "work"
  /\ did' = did + 1
  /\ worker' = "mark"
  /\ UNCHANGED <<magic, event, reply, ghosts, asked, answered>>

MarkDone ==
  /\ worker = "mark"
  /\ magic' = "agent"
  /\ worker' = "reply"
  /\ UNCHANGED <<event, reply, ghosts, asked, did, answered>>

SendResponse ==
  /\ worker = "reply"
  /\ reply' = TRUE
  /\ worker' = "wait"
  /\ UNCHANGED <<magic, event, ghosts, asked, did, answered>>

WorkerStep ==
  StartWorker \/ WaitEvent \/ CheckMagic \/ RunHandler \/ MarkDone \/ SendResponse

ChannelNext ==
  SendCommand \/ GhostWakeup \/ TakeReply \/ WorkerStep \/ IoctlFails

ChannelSpec == ChannelInit /\ [][ChannelNext]_channelVars

(***************************************************************************)
(* The thread is scheduled and its ioctls return; the TEE takes a reply.   *)
(***************************************************************************)
FairChannelSpec ==
  ChannelSpec /\ WF_channelVars(WorkerStep) /\ WF_channelVars(TakeReply)

(***************************************************************************)
(* Properties.                                                             *)
(***************************************************************************)

Call == INSTANCE AgentCall WITH up <- worker # "gone"

\* The channel gives the TEE what an agent owes it: whatever wakeups come,
\* each command is handled exactly once (the check of the magic in
\* FsWorkEventHandle) and ends only after its handler, and it does end as
\* long as the thread lives.
ImplementsAgentCall == Call!Spec

=============================================================================
