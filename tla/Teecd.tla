------------------------------- MODULE Teecd -------------------------------
(***************************************************************************)
(* teecd: main of tee_agent.c, which registers the agents, starts their    *)
(* threads and loads the dynamic drivers and services; the threads of the  *)
(* misc agent and of the secfile load agent; and, composed with them, the  *)
(* channel to the FS agent (AgentChannel).  What the FS agent does to the  *)
(* files is in FsAgent, the server for applications in CaServer.           *)
(*                                                                         *)
(* While the TEE loads a file (TC_NS_CLIENT_IOCTL_LOAD_APP_REQ) it may use *)
(* its secure storage, that is, send the FS agent a command, and it asks   *)
(* the secfile load agent for the TAs and libraries it needs.              *)
(***************************************************************************)
EXTENDS AgentChannel, Integers

CONSTANTS
  MaxCalls,   \* bound: requests of the TEE to the misc and secfile agents
  DirFiles,   \* directory -> the number of regular files in it; -1 without it
  PromptWorker \* TRUE: the FS thread marks its buffer before main goes on

\* The directories of dynamic drivers and services, in the two partitions.
Dirs == {"drv_feima", "drv", "srv_feima", "srv"}

ASSUME TeecdAssumption ==
  /\ MaxCalls \in Nat
  /\ PromptWorker \in BOOLEAN
  /\ DirFiles \in [Dirs -> Nat \cup {-1}]

VARIABLES
  main,       \* the step of main
  registered, \* the agents registered with tzdriver, their descriptors open
  created,    \* the FS agent's thread exists (worker says where it is)
  thread,     \* the other agents -> the step of their threads
  call,       \* the other agents -> the TEE waits for an answer
  calls,      \* history: requests to them so far
  load,       \* loader -> its LOAD_APP_REQ: none, running, or waiting for fs
  dir,        \* the directory main loads, the files left, its last result
  late,       \* the step of InitLateWorkThread
  server,     \* the step of CaServerWorkThread
  tried, got  \* history: files main tried to load, those it loaded

mainVars == <<main, registered, created, dir, late, server, tried, got>>
agentVars == <<thread, call, calls>>
vars == <<mainVars, agentVars, load, channelVars>>

Agents == {"fs", "misc", "sec"}
OtherAgents == Agents \ {"fs"}
Loaders == {"main", "sec"}
Ids == Nat \ {0}

NoDir == [name |-> "none", left |-> 0, ret |-> 0]

Init ==
  /\ main = "init_fs"
  /\ registered = {}
  /\ created = FALSE
  /\ thread = [a \in OtherAgents |-> "none"]
  /\ call = [a \in OtherAgents |-> FALSE]
  /\ calls = 0
  /\ load = [l \in Loaders |-> "none"]
  /\ dir = NoDir
  /\ late = "none"
  /\ server = "none"
  /\ tried = {} /\ got = {}
  /\ ChannelInit

(***************************************************************************)
(* main.                                                                   *)
(***************************************************************************)

GoesOn(step) == main' = step

\* AgentInit: open the device and register.
AgentInit(a) == registered' = registered \cup {a}
AgentExit(as) == registered' = registered \ as

\* ProcessAgentInit: without the FS agent teecd goes on, without another
\* one it unregisters those it has and ends.
InitFs ==
  /\ main = "init_fs"
  /\ AgentInit("fs") \/ UNCHANGED registered
  /\ GoesOn("init_misc")
  /\ UNCHANGED <<created, agentVars, load, channelVars, dir, late, server, tried, got>>

InitMisc ==
  /\ main = "init_misc"
  /\ \/ AgentInit("misc") /\ GoesOn("init_sec")
     \/ AgentExit({"fs"}) /\ GoesOn("gone")
  /\ UNCHANGED <<created, agentVars, load, channelVars, dir, late, server, tried, got>>

\* Mutant: the misc agent stays registered.
InitSecKeepsMisc ==
  /\ main = "init_sec"
  /\ \/ AgentInit("sec") /\ GoesOn("start_fs")
     \/ AgentExit({"fs"}) /\ GoesOn("gone")
  /\ UNCHANGED <<created, agentVars, load, channelVars, dir, late, server, tried, got>>

InitSec ==
  /\ main = "init_sec"
  /\ \/ AgentInit("sec") /\ GoesOn("start_fs")
     \/ AgentExit({"misc", "fs"}) /\ GoesOn("gone")
  /\ UNCHANGED <<created, agentVars, load, channelVars, dir, late, server, tried, got>>

OpenDir(name) == dir' = [name |-> name, left |-> DirFiles[name], ret |-> -1]

\* Mutant: the FS thread is started with the others, after the loads.
StartFsLater ==
  /\ main = "start_fs"
  /\ OpenDir("drv_feima")
  /\ GoesOn("load")
  /\ UNCHANGED <<registered, created, agentVars, load, channelVars, late, server, tried, got>>

\* pthread_create of FsWorkThread (its first step is StartWorker).
StartFs ==
  /\ main = "start_fs"
  /\ created' = ("fs" \in registered)
  /\ IF created' /\ PromptWorker THEN StartWorker ELSE UNCHANGED channelVars
  /\ OpenDir("drv_feima")
  /\ GoesOn("load")
  /\ UNCHANGED <<registered, agentVars, load, late, server, tried, got>>

\* LoadOneFile: the ioctl of LoadSecFile starts, or the file is not sent.
LoadOneFile ==
  /\ main = "load"
  /\ load["main"] = "none"
  /\ dir.left > 0
  /\ tried' = tried \cup {<<dir.name, dir.left>>}
  /\ \/ /\ load' = [load EXCEPT !["main"] = "running"]
        /\ UNCHANGED dir
     \/ /\ dir' = [dir EXCEPT !.left = @ - 1, !.ret = -1]
        /\ UNCHANGED load
  /\ UNCHANGED <<main, registered, created, agentVars, channelVars, late, server, got>>

\* The TEE's verdict on the file; LoadOneDynamicDir takes the next one.
LoadOneFileReturns ==
  /\ load["main"] = "running"
  /\ load' = [load EXCEPT !["main"] = "none"]
  /\ \/ /\ got' = got \cup {<<dir.name, dir.left>>}
        /\ dir' = [dir EXCEPT !.left = @ - 1, !.ret = 0]
     \/ /\ dir' = [dir EXCEPT !.left = @ - 1, !.ret = -1]
        /\ UNCHANGED got
  /\ UNCHANGED <<main, registered, created, agentVars, channelVars, late, server, tried>>

\* Mutant: a directory without files counts as loaded.
FallbackNeededUnlessEmpty == dir.ret # 0 /\ DirFiles[dir.name] > 0

\* The result of a directory is that of its last file, or -1.
FallbackNeeded == dir.ret # 0

\* LoadDynamicDrvDir, then LoadDynamicSrvDir: the default directory only
\* when the other one failed.
NextDir ==
  /\ main = "load"
  /\ load["main"] = "none"
  /\ dir.left <= 0
  /\ CASE dir.name = "drv_feima" ->
            OpenDir(IF FallbackNeeded THEN "drv" ELSE "srv_feima") /\ UNCHANGED main
       [] dir.name = "drv" -> OpenDir("srv_feima") /\ UNCHANGED main
       [] dir.name = "srv_feima" /\ FallbackNeeded -> OpenDir("srv") /\ UNCHANGED main
       [] OTHER -> dir' = NoDir /\ GoesOn("start_ca")
  /\ UNCHANGED <<registered, created, agentVars, load, channelVars, late, server, tried, got>>

StartCa ==
  /\ main = "start_ca"
  /\ server' = "run"
  /\ GoesOn("start_rest")
  /\ UNCHANGED <<registered, created, agentVars, load, channelVars, dir, late, tried, got>>

\* The misc thread, the late init thread and the secfile load thread.
StartRest ==
  /\ main = "start_rest"
  /\ thread' = [thread EXCEPT !["misc"] = "wait", !["sec"] = "wait"]
  /\ late' = "run"
  /\ GoesOn("join")
  /\ UNCHANGED <<registered, created, call, calls, load, channelVars, dir, server, tried, got>>

\* pthread_join of all threads, then ProcessAgentExit.
Join ==
  /\ main = "join"
  /\ created => worker = "gone"
  /\ \A a \in OtherAgents : thread[a] = "gone"
  /\ server = "gone"
  /\ late = "gone"
  /\ AgentExit(Agents)
  /\ GoesOn("gone")
  /\ UNCHANGED <<created, agentVars, load, channelVars, dir, late, server, tried, got>>

MainStep ==
  \/ InitFs \/ InitMisc \/ InitSec \/ StartFs
  \/ LoadOneFile \/ NextDir \/ StartCa \/ StartRest \/ Join

(***************************************************************************)
(* The TEE and tzdriver.                                                   *)
(***************************************************************************)

\* A load uses the secure storage.
TeeUsesStorage(l) ==
  /\ load[l] = "running"
  /\ "fs" \in registered
  /\ SendCommand
  /\ load' = [load EXCEPT ![l] = "wait_fs"]
  /\ UNCHANGED <<mainVars, agentVars>>

\* It goes on when its command has ended.
TeeTakesReply ==
  /\ TakeReply
  /\ load' = IF answered' = answered THEN load
             ELSE [l \in Loaders |-> IF load[l] = "wait_fs" THEN "running" ELSE load[l]]
  /\ UNCHANGED <<mainVars, agentVars>>

TeeGhost ==
  /\ "fs" \in registered
  /\ GhostWakeup
  /\ UNCHANGED <<mainVars, agentVars, load>>

\* A TA asks the time of the misc agent or needs a file (secfile agent).
TeeCalls(a) ==
  /\ a \in registered
  /\ ~call[a]
  /\ calls < MaxCalls
  /\ calls' = calls + 1
  /\ call' = [call EXCEPT ![a] = TRUE]
  /\ UNCHANGED <<mainVars, thread, load, channelVars>>

(***************************************************************************)
(* The threads of the agents: FsWorkThread is AgentChannel's worker.       *)
(***************************************************************************)

FsStep ==
  /\ created
  /\ WorkerStep
  /\ UNCHANGED <<mainVars, agentVars, load>>

FsFails ==
  /\ IoctlFails
  /\ UNCHANGED <<mainVars, agentVars, load>>

\* MiscWorkThread and SecfileLoadAgentThread: WAIT_EVENT returns.
AgentWakes(a) ==
  /\ thread[a] = "wait"
  /\ call[a]
  /\ thread' = [thread EXCEPT ![a] = "work"]
  /\ UNCHANGED <<mainVars, call, calls, load, channelVars>>

\* Mutant: a bad request gets no response.
SecFileLoadWorkSilent ==
  /\ thread["sec"] = "work"
  /\ load["sec"] = "none"
  /\ \/ load' = [load EXCEPT !["sec"] = "running"] /\ UNCHANGED thread
     \/ thread' = [thread EXCEPT !["sec"] = "wait"] /\ UNCHANGED load
  /\ UNCHANGED <<mainVars, call, calls, channelVars>>

\* SecLoadAgentWork: the TA's or library's file, from the one directory or
\* else from the other (GetTaPath, LoadLib), goes to the TEE.  A bad name,
\* command or file is answered at once.
SecFileLoadWork ==
  /\ thread["sec"] = "work"
  /\ load["sec"] = "none"
  /\ \/ load' = [load EXCEPT !["sec"] = "running"] /\ UNCHANGED thread
     \/ thread' = [thread EXCEPT !["sec"] = "reply"] /\ UNCHANGED load
  /\ UNCHANGED <<mainVars, call, calls, channelVars>>

SecFileLoadReturns ==
  /\ load["sec"] = "running"
  /\ load' = [load EXCEPT !["sec"] = "none"]
  /\ thread' = [thread EXCEPT !["sec"] = "reply"]
  /\ UNCHANGED <<mainVars, call, calls, channelVars>>

GetTimeWork ==
  /\ thread["misc"] = "work"
  /\ thread' = [thread EXCEPT !["misc"] = "reply"]
  /\ UNCHANGED <<mainVars, call, calls, load, channelVars>>

\* SEND_EVENT_RESPONSE.
AgentResponds(a) ==
  /\ thread[a] = "reply"
  /\ thread' = [thread EXCEPT ![a] = "wait"]
  /\ call' = [call EXCEPT ![a] = FALSE]
  /\ UNCHANGED <<mainVars, calls, load, channelVars>>

\* One of the ioctls fails: the thread ends.
AgentFails(a) ==
  /\ thread[a] \in {"wait", "reply"}
  /\ thread' = [thread EXCEPT ![a] = "gone"]
  /\ UNCHANGED <<mainVars, call, calls, load, channelVars>>

\* InitLateWorkThread: one ioctl.
LateInit ==
  /\ late = "run"
  /\ late' = "gone"
  /\ UNCHANGED <<main, registered, created, dir, server, tried, got>>
  /\ UNCHANGED <<agentVars, load, channelVars>>

\* CreateSocket or listen fails; else the thread runs for ever (CaServer).
ServerFails ==
  /\ server = "run"
  /\ server' = "gone"
  /\ UNCHANGED <<main, registered, created, dir, late, tried, got>>
  /\ UNCHANGED <<agentVars, load, channelVars>>

SecStep == SecFileLoadWork \/ AgentWakes("sec") \/ AgentResponds("sec")
MiscStep == GetTimeWork \/ AgentWakes("misc") \/ AgentResponds("misc")

Next ==
  \/ MainStep \/ LoadOneFileReturns
  \/ TeeTakesReply \/ TeeGhost \/ \E l \in Loaders : TeeUsesStorage(l)
  \/ FsStep \/ FsFails
  \/ SecStep \/ MiscStep \/ SecFileLoadReturns
  \/ \E a \in OtherAgents : TeeCalls(a) \/ AgentFails(a)
  \/ LateInit \/ ServerFails

(***************************************************************************)
(* The threads are scheduled, and in the TEE a load that does not wait for *)
(* the FS agent ends.                                                      *)
(***************************************************************************)
Fairness ==
  /\ WF_vars(MainStep) /\ WF_vars(LoadOneFileReturns)
  /\ WF_vars(FsStep) /\ WF_vars(TeeTakesReply)
  /\ WF_vars(SecStep) /\ WF_vars(SecFileLoadReturns)
  /\ WF_vars(MiscStep) /\ WF_vars(LateInit)

Spec == Init /\ [][Next]_vars
FairSpec == Spec /\ Fairness

(***************************************************************************)
(* Properties.  ImplementsAgentCall of AgentChannel is checked here too.   *)
(***************************************************************************)

MainSteps == {"init_fs", "init_misc", "init_sec", "start_fs", "load",
              "start_ca", "start_rest", "join", "gone"}

\* The types of the state; main tries no file that a directory has not.
TypeOK ==
  /\ ChannelTypeOK
  /\ main \in MainSteps
  /\ registered \subseteq Agents
  /\ created \in BOOLEAN
  /\ thread \in [OtherAgents -> {"none", "wait", "work", "reply", "gone"}]
  /\ call \in [OtherAgents -> BOOLEAN]
  /\ load \in [Loaders -> {"none", "running", "wait_fs"}]
  /\ tried \cup got \subseteq Dirs \X Ids

\* Whichever step of ProcessAgentInit fails, and when main returns, no agent
\* stays registered; and no thread works for an agent that is not.
AgentsMatch ==
  /\ main = "gone" => registered = {}
  /\ created /\ worker # "gone" => "fs" \in registered
  /\ \A a \in OtherAgents :
       thread[a] \in {"wait", "work", "reply"} => a \in registered

\* When nothing came from the one directory of drivers or services, every
\* file of the default directory has been tried (LoadOneDynamicDir returns
\* -1 for a directory that is absent or has no files).
FallbackComplete ==
  main \in {"start_ca", "start_rest", "join"} =>
    \A pair \in {<<"drv_feima", "drv">>, <<"srv_feima", "srv">>} :
      (\A f \in got : f[1] # pair[1]) =>
        \A n \in Ids \cap 1 .. DirFiles[pair[2]] : <<pair[2], n>> \in tried

\* main gets to its joins although the loads it does on the way need the FS
\* agent, whose thread is started before them ("Since sfs is accessed during
\* the first sec file load"), as long as that thread lives.
BootCompletes ==
  [](worker # "gone") => <>(main \in {"join", "gone"})

\* A TA's request to the secfile agent ends: a load inside it waits for the
\* FS agent only.  The premise is that both threads live.
SecRequestEnds ==
  [](worker # "gone" /\ thread["sec"] # "gone") => (call["sec"] ~> ~call["sec"])
=============================================================================
