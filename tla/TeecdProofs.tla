----------------------------- MODULE TeecdProofs -----------------------------
(***************************************************************************)
(* Proofs about teecd: the agents that are registered and the threads that *)
(* serve them fit together through every failing start, every file of the  *)
(* default directories is tried when the others gave nothing, and the      *)
(* boot's own use of the FS agent keeps to the call an agent owes the TEE, *)
(* for any directories and any number of commands and requests.            *)
(***************************************************************************)
EXTENDS Teecd, AgentChannelProofs

NotStarted == {"init_fs", "init_misc", "init_sec", "start_fs"}
Started == {"load", "start_ca", "start_rest", "join"}

(***************************************************************************)
(* What is registered at each step of main, and which threads exist: the   *)
(* FS thread exists from StartFs on if its agent is registered, the others *)
(* from StartRest on, and main leaves only when all have ended.  A load of *)
(* the secfile agent runs inside a request to it.                          *)
(***************************************************************************)
Stages ==
  /\ main \in {"init_fs", "gone"} => registered = {}
  /\ main = "init_misc" => registered \subseteq {"fs"}
  /\ main = "init_sec" => "misc" \in registered /\ registered \subseteq {"fs", "misc"}
  /\ main \in {"start_fs"} \cup Started => OtherAgents \subseteq registered
  /\ main \in NotStarted => ~created
  /\ main \in Started => ("fs" \in registered <=> created)

Threads ==
  /\ ~created => worker = "new"
  /\ main = "gone" /\ created => worker = "gone"
  /\ \A a \in OtherAgents : thread[a] # "none" => main \in {"join", "gone"}
  /\ main = "gone" => \A a \in OtherAgents : thread[a] \in {"none", "gone"}

Loads ==
  /\ load["main"] # "none" => main = "load"
  /\ load["sec"] # "none" => thread["sec"] = "work"

(***************************************************************************)
(* The directory at hand: the files above dir.left have been tried, and it *)
(* counts as loaded only if one was loaded from it.  What FallbackComplete *)
(* says of the drivers holds when main has gone on to the services.        *)
(***************************************************************************)
Complete(first, second) ==
  (\A f \in got : f[1] # first) =>
    \A n \in Ids \cap 1 .. DirFiles[second] : <<second, n>> \in tried

DirTyped ==
  /\ dir \in [name : Dirs \cup {"none"}, left : Int, ret : {0, -1}]
  /\ main = "load" => dir.name \in Dirs
  /\ load["main"] # "none" => dir.left > 0 /\ <<dir.name, dir.left>> \in tried

DirTried ==
  main = "load" =>
    /\ dir.ret = 0 => \E f \in got : f[1] = dir.name
    /\ \A n \in 1 .. DirFiles[dir.name] : dir.left < n => <<dir.name, n>> \in tried

DirsDone ==
  /\ main = "load" /\ dir.name \in {"srv_feima", "srv"} => Complete("drv_feima", "drv")
  /\ main \in Started \ {"load"} =>
       Complete("drv_feima", "drv") /\ Complete("srv_feima", "srv")

BootInv == TypeOK /\ Stages /\ Threads /\ Loads /\ DirTyped
TeecdInv == BootInv /\ DirTried /\ DirsDone

--------------------------------------------------------------------------------
\* A step of teecd is a step of the channel, or leaves it alone.
LEMMA StepIsChannel == Next => [ChannelNext]_channelVars
  BY DEF Next, MainStep, SecStep, MiscStep, InitFs, InitMisc, InitSec, StartFs,
     LoadOneFile, NextDir, StartCa, StartRest, Join, LoadOneFileReturns, TeeTakesReply,
     TeeGhost, TeeUsesStorage, FsStep, FsFails, SecFileLoadWork, SecFileLoadReturns,
     GetTimeWork, AgentWakes, AgentResponds, TeeCalls, AgentFails, LateInit, ServerFails,
     ChannelNext, WorkerStep, channelVars

\* LoadDynamicDrvDir and LoadDynamicSrvDir go from one directory to the next.
LEMMA NextDirGoes ==
  ASSUME DirTyped, NextDir
  PROVE  /\ main = "load" /\ dir.left <= 0
         /\ UNCHANGED <<load, tried, got>>
         /\ \/ main' = main /\ dir.name = "drv_feima" /\ dir.ret # 0 /\ OpenDir("drv")
            \/ main' = main /\ dir.name = "drv_feima" /\ dir.ret = 0 /\ OpenDir("srv_feima")
            \/ main' = main /\ dir.name = "drv" /\ OpenDir("srv_feima")
            \/ main' = main /\ dir.name = "srv_feima" /\ dir.ret # 0 /\ OpenDir("srv")
            \/ /\ main' = "start_ca" /\ dir' = NoDir
               /\ (dir.name = "srv_feima" /\ dir.ret = 0) \/ dir.name = "srv"
<1>1. main = "load" /\ dir.left <= 0 /\ UNCHANGED <<load, tried, got>> /\ dir.name \in Dirs
  BY DEF NextDir, DirTyped
<1>2. CASE dir.name = "drv_feima"
  BY <1>1, <1>2 DEF NextDir, FallbackNeeded
<1>3. CASE dir.name = "drv"
  BY <1>1, <1>3 DEF NextDir
<1>4. CASE dir.name = "srv_feima" /\ dir.ret # 0
  BY <1>1, <1>4 DEF NextDir, FallbackNeeded
<1>5. CASE dir.name = "srv_feima" /\ dir.ret = 0
  BY <1>1, <1>5 DEF NextDir, FallbackNeeded, GoesOn
<1>6. CASE dir.name = "srv"
  BY <1>1, <1>6 DEF NextDir, GoesOn
<1> QED BY <1>1, <1>2, <1>3, <1>4, <1>5, <1>6 DEF Dirs

\* In a directory just opened no file is behind, and nothing was loaded.
LEMMA OpenDirTried ==
  ASSUME NEW name \in Dirs, OpenDir(name), main' = "load"
  PROVE  DirTried' /\ dir' \in [name : Dirs \cup {"none"}, left : Int, ret : {0, -1}]
                  /\ dir'.name = name
<1>1. dir' = [name |-> name, left |-> DirFiles[name], ret |-> -1] /\ DirFiles[name] \in Int
  BY TeecdAssumption DEF OpenDir
<1>2. dir'.name = name /\ dir'.left = DirFiles[name] /\ dir'.ret = -1
  BY <1>1
<1>3. dir' \in [name : Dirs \cup {"none"}, left : Int, ret : {0, -1}]
  BY <1>1
<1> QED BY <1>1, <1>2, <1>3 DEF DirTried

\* LoadOneDynamicDir goes down one file at a time.
LEMMA DirSteps ==
  ASSUME BootInv, LoadOneFile \/ LoadOneFileReturns
  PROVE  /\ main = "load" /\ main' = main /\ dir.left > 0 /\ dir.left \in Int
         /\ tried \subseteq tried' /\ got \subseteq got'
         /\ <<dir.name, dir.left>> \in tried'
         /\ dir' \in [name : Dirs \cup {"none"}, left : Int, ret : {0, -1}]
         /\ dir'.name = dir.name
         /\ \/ dir' = dir /\ got' = got /\ load'["main"] = "running"
            \/ dir'.left = dir.left - 1 /\ dir'.ret = -1 /\ load'["main"] = "none"
            \/ dir'.left = dir.left - 1 /\ <<dir.name, dir.left>> \in got'
                                        /\ load'["main"] = "none"
<1> USE DEF BootInv, DirTyped, TypeOK, Loaders
<1>1. /\ main = "load" /\ main' = main /\ dir.left > 0 /\ dir.left \in Int
      /\ tried \subseteq tried' /\ got \subseteq got'
      /\ <<dir.name, dir.left>> \in tried'
  BY DEF LoadOneFile, LoadOneFileReturns, Loads
<1>2. dir.left - 1 \in Int
  BY <1>1
<1>3. CASE dir' = dir /\ got' = got /\ load' = [load EXCEPT !["main"] = "running"]
  BY <1>1, <1>3
<1>4. CASE dir' = [dir EXCEPT !.left = @ - 1, !.ret = -1] /\ load'["main"] = "none"
  BY <1>1, <1>2, <1>4
<1>5. CASE /\ dir' = [dir EXCEPT !.left = @ - 1, !.ret = 0]
           /\ load'["main"] = "none" /\ <<dir.name, dir.left>> \in got'
  BY <1>1, <1>2, <1>5
<1>6. CASE LoadOneFile
  BY <1>3, <1>4, <1>6 DEF LoadOneFile
<1>7. CASE LoadOneFileReturns
  BY <1>4, <1>5, <1>7 DEF LoadOneFileReturns
<1> QED BY <1>6, <1>7

\* What is registered follows the steps of main.
LEMMA StagesNext == BootInv /\ Next => Stages'
<1> SUFFICES ASSUME BootInv, Next PROVE Stages'
  OBVIOUS
<1> USE TeecdAssumption DEF BootInv, TypeOK, Stages, Threads, NotStarted, Started,
   MainSteps, Agents, OtherAgents
<1>1. CASE InitFs
  BY <1>1 DEF InitFs, GoesOn, AgentInit, agentVars
<1>2. CASE InitMisc
  BY <1>2 DEF InitMisc, GoesOn, AgentInit, AgentExit, agentVars
<1>3. CASE InitSec
  <2>1. CASE AgentInit("sec") /\ GoesOn("start_fs")
    BY <1>3, <2>1 DEF InitSec, AgentInit, GoesOn
  <2>2. CASE AgentExit({"misc", "fs"}) /\ GoesOn("gone")
    BY <1>3, <2>2 DEF InitSec, AgentExit, GoesOn
  <2> QED BY <1>3, <2>1, <2>2 DEF InitSec
<1>4. CASE StartFs
  BY <1>4 DEF StartFs, GoesOn, agentVars
<1>5. CASE LoadOneFile
  BY <1>5 DEF LoadOneFile, agentVars
<1>6. CASE NextDir
  BY <1>6 DEF NextDir, GoesOn, agentVars
<1>7. CASE StartCa
  BY <1>7 DEF StartCa, GoesOn, agentVars
<1>8. CASE StartRest
  BY <1>8 DEF StartRest, GoesOn
<1>9. CASE Join
  BY <1>9 DEF Join, GoesOn, AgentExit, agentVars
<1>10. CASE LoadOneFileReturns
  BY <1>10 DEF LoadOneFileReturns, agentVars
<1>11. CASE TeeTakesReply
  BY <1>11 DEF TeeTakesReply, mainVars, agentVars
<1>12. CASE TeeGhost
  BY <1>12 DEF TeeGhost, mainVars, agentVars
<1>13. CASE \E l \in Loaders : TeeUsesStorage(l)
  BY <1>13 DEF TeeUsesStorage, mainVars, agentVars
<1>14. CASE FsStep
  BY <1>14 DEF FsStep, mainVars, agentVars
<1>15. CASE FsFails
  BY <1>15 DEF FsFails, mainVars, agentVars
<1>16. CASE SecFileLoadWork
  BY <1>16 DEF SecFileLoadWork, mainVars, agentVars
<1>17. CASE SecFileLoadReturns
  BY <1>17 DEF SecFileLoadReturns, mainVars, agentVars
<1>18. CASE GetTimeWork
  BY <1>18 DEF GetTimeWork, mainVars, agentVars
<1>19. CASE \E a \in OtherAgents : AgentWakes(a)
  BY <1>19 DEF AgentWakes, mainVars, agentVars
<1>20. CASE \E a \in OtherAgents : AgentResponds(a)
  BY <1>20 DEF AgentResponds, mainVars, agentVars
<1>21. CASE \E a \in OtherAgents : TeeCalls(a)
  BY <1>21 DEF TeeCalls, mainVars, agentVars
<1>22. CASE \E a \in OtherAgents : AgentFails(a)
  BY <1>22 DEF AgentFails, mainVars, agentVars
<1>23. CASE LateInit
  BY <1>23 DEF LateInit, agentVars
<1>24. CASE ServerFails
  BY <1>24 DEF ServerFails, agentVars
<1> QED
  BY <1>1, <1>2, <1>3, <1>4, <1>5, <1>6, <1>7, <1>8, <1>9, <1>10, <1>11, <1>12, <1>13,
     <1>14, <1>15, <1>16, <1>17, <1>18, <1>19, <1>20, <1>21, <1>22, <1>23, <1>24 DEF
     Next, MainStep, SecStep, MiscStep, OtherAgents, Agents

\* A thread is created when its agent is registered, and joined before main leaves.
LEMMA ThreadsNext == BootInv /\ Next => Threads'
<1> SUFFICES ASSUME BootInv, Next PROVE Threads'
  OBVIOUS
<1> USE TeecdAssumption DEF BootInv, TypeOK, Stages, Threads, NotStarted, Started,
   OtherAgents, Agents, Loads
<1>1. CASE InitFs
  BY <1>1 DEF InitFs, GoesOn, agentVars, channelVars
<1>2. CASE InitMisc
  BY <1>2 DEF InitMisc, GoesOn, agentVars, channelVars
<1>3. CASE InitSec
  BY <1>3 DEF InitSec, GoesOn, agentVars, channelVars
<1>4. CASE StartFs
  BY <1>4 DEF StartFs, GoesOn, StartWorker, channelVars, agentVars
<1>5. CASE LoadOneFile
  BY <1>5 DEF LoadOneFile, agentVars, channelVars
<1>6. CASE NextDir
  BY <1>6 DEF NextDir, GoesOn, agentVars, channelVars
<1>7. CASE StartCa
  BY <1>7 DEF StartCa, GoesOn, agentVars, channelVars
<1>8. CASE StartRest
  BY <1>8 DEF StartRest, GoesOn, channelVars
<1>9. CASE Join
  BY <1>9 DEF Join, GoesOn, agentVars, channelVars
<1>10. CASE LoadOneFileReturns
  BY <1>10 DEF LoadOneFileReturns, agentVars, channelVars
<1>11. CASE TeeTakesReply
  BY <1>11 DEF TeeTakesReply, TakeReply, mainVars, agentVars
<1>12. CASE TeeGhost
  BY <1>12 DEF TeeGhost, GhostWakeup, mainVars, agentVars
<1>13. CASE \E l \in Loaders : TeeUsesStorage(l)
  BY <1>13 DEF TeeUsesStorage, SendCommand, mainVars, agentVars
<1>14. CASE FsStep
  BY <1>14 DEF FsStep, WorkerStep, StartWorker, WaitEvent, CheckMagic, RunHandler,
     MarkDone, SendResponse, mainVars, agentVars
<1>15. CASE FsFails
  BY <1>15 DEF FsFails, IoctlFails, mainVars, agentVars
<1>16. CASE SecFileLoadWork
  BY <1>16 DEF SecFileLoadWork, mainVars, agentVars, channelVars
<1>17. CASE SecFileLoadReturns
  BY <1>17 DEF SecFileLoadReturns, mainVars, agentVars, channelVars
<1>18. CASE GetTimeWork
  BY <1>18 DEF GetTimeWork, mainVars, agentVars, channelVars
<1>19. CASE \E a \in OtherAgents : AgentWakes(a)
  BY <1>19 DEF AgentWakes, mainVars, agentVars, channelVars
<1>20. CASE \E a \in OtherAgents : AgentResponds(a)
  BY <1>20 DEF AgentResponds, mainVars, agentVars, channelVars
<1>21. CASE \E a \in OtherAgents : TeeCalls(a)
  BY <1>21 DEF TeeCalls, mainVars, agentVars, channelVars
<1>22. CASE \E a \in OtherAgents : AgentFails(a)
  BY <1>22 DEF AgentFails, mainVars, agentVars, channelVars
<1>23. CASE LateInit
  BY <1>23 DEF LateInit, agentVars, channelVars
<1>24. CASE ServerFails
  BY <1>24 DEF ServerFails, agentVars, channelVars
<1> QED
  BY <1>1, <1>2, <1>3, <1>4, <1>5, <1>6, <1>7, <1>8, <1>9, <1>10, <1>11, <1>12, <1>13,
     <1>14, <1>15, <1>16, <1>17, <1>18, <1>19, <1>20, <1>21, <1>22, <1>23, <1>24 DEF
     Next, MainStep, SecStep, MiscStep, OtherAgents, Agents

\* A load belongs to main's loop or to a request to the secfile agent.
LEMMA LoadsNext == BootInv /\ Next => Loads'
<1> SUFFICES ASSUME BootInv, Next PROVE Loads'
  OBVIOUS
<1> USE TeecdAssumption DEF BootInv, TypeOK, Loads, Threads, Loaders, OtherAgents,
   Agents
<1>1. CASE InitFs
  BY <1>1 DEF InitFs, GoesOn, agentVars
<1>2. CASE InitMisc
  BY <1>2 DEF InitMisc, GoesOn, agentVars
<1>3. CASE InitSec
  BY <1>3 DEF InitSec, GoesOn, agentVars
<1>4. CASE StartFs
  BY <1>4 DEF StartFs, GoesOn, agentVars
<1>5. CASE LoadOneFile
  BY <1>5 DEF LoadOneFile, agentVars
<1>6. CASE NextDir
  BY <1>6 DEF NextDir, GoesOn, agentVars
<1>7. CASE StartCa
  BY <1>7 DEF StartCa, GoesOn, agentVars
<1>8. CASE StartRest
  BY <1>8 DEF StartRest, GoesOn
<1>9. CASE Join
  BY <1>9 DEF Join, GoesOn, agentVars
<1>10. CASE LoadOneFileReturns
  BY <1>10 DEF LoadOneFileReturns, agentVars
<1>11. CASE TeeTakesReply
  BY <1>11 DEF TeeTakesReply, mainVars, agentVars
<1>12. CASE TeeGhost
  BY <1>12 DEF TeeGhost, mainVars, agentVars
<1>13. CASE \E l \in Loaders : TeeUsesStorage(l)
  BY <1>13 DEF TeeUsesStorage, mainVars, agentVars
<1>14. CASE FsStep
  BY <1>14 DEF FsStep, mainVars, agentVars
<1>15. CASE FsFails
  BY <1>15 DEF FsFails, mainVars, agentVars
<1>16. CASE SecFileLoadWork
  BY <1>16 DEF SecFileLoadWork, mainVars, agentVars
<1>17. CASE SecFileLoadReturns
  BY <1>17 DEF SecFileLoadReturns, mainVars, agentVars
<1>18. CASE GetTimeWork
  BY <1>18 DEF GetTimeWork, mainVars, agentVars
<1>19. CASE \E a \in OtherAgents : AgentWakes(a)
  BY <1>19 DEF AgentWakes, mainVars, agentVars
<1>20. CASE \E a \in OtherAgents : AgentResponds(a)
  BY <1>20 DEF AgentResponds, mainVars, agentVars
<1>21. CASE \E a \in OtherAgents : TeeCalls(a)
  BY <1>21 DEF TeeCalls, mainVars, agentVars
<1>22. CASE \E a \in OtherAgents : AgentFails(a)
  BY <1>22 DEF AgentFails, mainVars, agentVars
<1>23. CASE LateInit
  BY <1>23 DEF LateInit, agentVars
<1>24. CASE ServerFails
  BY <1>24 DEF ServerFails, agentVars
<1> QED
  BY <1>1, <1>2, <1>3, <1>4, <1>5, <1>6, <1>7, <1>8, <1>9, <1>10, <1>11, <1>12, <1>13,
     <1>14, <1>15, <1>16, <1>17, <1>18, <1>19, <1>20, <1>21, <1>22, <1>23, <1>24 DEF
     Next, MainStep, SecStep, MiscStep, OtherAgents, Agents

\* The directory at hand.
LEMMA DirTypedNext == BootInv /\ Next => DirTyped'
<1> SUFFICES ASSUME BootInv, Next PROVE DirTyped'
  OBVIOUS
<1> USE TeecdAssumption DEF BootInv, TypeOK, DirTyped, Loads, Loaders
<1>1. CASE InitFs
  BY <1>1 DEF InitFs, GoesOn, agentVars
<1>2. CASE InitMisc
  BY <1>2 DEF InitMisc, GoesOn, agentVars
<1>3. CASE InitSec
  BY <1>3 DEF InitSec, GoesOn, agentVars
<1>4. CASE StartFs
  <2>1. main' = "load" /\ OpenDir("drv_feima") /\ load' = load /\ main = "start_fs"
    BY <1>4 DEF StartFs, GoesOn
  <2> QED BY <2>1, OpenDirTried DEF Dirs
<1>5. CASE LoadOneFile
  BY <1>5, DirSteps
<1>6. CASE NextDir
  <2>1. load'["main"] = "none"
    BY <1>6 DEF NextDir
  <2>2. NoDir \in [name : Dirs \cup {"none"}, left : Int, ret : {0, -1}]
    BY DEF NoDir
  <2> QED BY <1>6, <2>1, <2>2, NextDirGoes, OpenDirTried DEF Dirs
<1>7. CASE StartCa
  BY <1>7 DEF StartCa, GoesOn, agentVars
<1>8. CASE StartRest
  BY <1>8 DEF StartRest, GoesOn
<1>9. CASE Join
  BY <1>9 DEF Join, GoesOn, agentVars
<1>10. CASE LoadOneFileReturns
  BY <1>10, DirSteps
<1>11. CASE TeeTakesReply
  BY <1>11 DEF TeeTakesReply, mainVars, agentVars
<1>12. CASE TeeGhost
  BY <1>12 DEF TeeGhost, mainVars, agentVars
<1>13. CASE \E l \in Loaders : TeeUsesStorage(l)
  BY <1>13 DEF TeeUsesStorage, mainVars, agentVars
<1>14. CASE FsStep
  BY <1>14 DEF FsStep, mainVars, agentVars
<1>15. CASE FsFails
  BY <1>15 DEF FsFails, mainVars, agentVars
<1>16. CASE SecFileLoadWork
  BY <1>16 DEF SecFileLoadWork, mainVars, agentVars
<1>17. CASE SecFileLoadReturns
  BY <1>17 DEF SecFileLoadReturns, mainVars, agentVars
<1>18. CASE GetTimeWork
  BY <1>18 DEF GetTimeWork, mainVars, agentVars
<1>19. CASE \E a \in OtherAgents : AgentWakes(a)
  BY <1>19 DEF AgentWakes, mainVars, agentVars
<1>20. CASE \E a \in OtherAgents : AgentResponds(a)
  BY <1>20 DEF AgentResponds, mainVars, agentVars
<1>21. CASE \E a \in OtherAgents : TeeCalls(a)
  BY <1>21 DEF TeeCalls, mainVars, agentVars
<1>22. CASE \E a \in OtherAgents : AgentFails(a)
  BY <1>22 DEF AgentFails, mainVars, agentVars
<1>23. CASE LateInit
  BY <1>23 DEF LateInit, agentVars
<1>24. CASE ServerFails
  BY <1>24 DEF ServerFails, agentVars
<1> QED
  BY <1>1, <1>2, <1>3, <1>4, <1>5, <1>6, <1>7, <1>8, <1>9, <1>10, <1>11, <1>12, <1>13,
     <1>14, <1>15, <1>16, <1>17, <1>18, <1>19, <1>20, <1>21, <1>22, <1>23, <1>24 DEF
     Next, MainStep, SecStep, MiscStep, OtherAgents, Agents

\* The files above dir.left have been tried.
LEMMA DirTriedNext == TeecdInv /\ Next => DirTried'
<1> SUFFICES ASSUME TeecdInv, Next PROVE DirTried'
  OBVIOUS
<1> USE TeecdAssumption DEF TeecdInv, BootInv, TypeOK, DirTyped, DirTried, Loads
<1>1. CASE InitFs
  BY <1>1 DEF InitFs, GoesOn, agentVars
<1>2. CASE InitMisc
  BY <1>2 DEF InitMisc, GoesOn, agentVars
<1>3. CASE InitSec
  BY <1>3 DEF InitSec, GoesOn, agentVars
<1>4. CASE StartFs
  BY <1>4, OpenDirTried DEF StartFs, GoesOn, Dirs
<1>5. CASE LoadOneFile
  <2>1. dir'.ret = 0 => \E f \in got' : f[1] = dir'.name
    BY <1>5, DirSteps
  <2>2. \A n \in 1 .. DirFiles[dir'.name] : dir'.left < n => <<dir'.name, n>> \in tried'
    BY <1>5, DirSteps
  <2> QED BY <2>1, <2>2
<1>6. CASE NextDir
  <2>1. CASE main' = main
    BY <1>6, <2>1, NextDirGoes, OpenDirTried DEF Dirs
  <2>2. CASE main' = "start_ca"
    BY <2>2
  <2> QED BY <1>6, <2>1, <2>2, NextDirGoes
<1>7. CASE StartCa
  BY <1>7 DEF StartCa, GoesOn, agentVars
<1>8. CASE StartRest
  BY <1>8 DEF StartRest, GoesOn
<1>9. CASE Join
  BY <1>9 DEF Join, GoesOn, agentVars
<1>10. CASE LoadOneFileReturns
  <2>1. dir'.ret = 0 => \E f \in got' : f[1] = dir'.name
    BY <1>10, DirSteps
  <2>2. \A n \in 1 .. DirFiles[dir'.name] : dir'.left < n => <<dir'.name, n>> \in tried'
    BY <1>10, DirSteps
  <2> QED BY <2>1, <2>2
<1>11. CASE TeeTakesReply
  BY <1>11 DEF TeeTakesReply, mainVars, agentVars
<1>12. CASE TeeGhost
  BY <1>12 DEF TeeGhost, mainVars, agentVars
<1>13. CASE \E l \in Loaders : TeeUsesStorage(l)
  BY <1>13 DEF TeeUsesStorage, mainVars, agentVars
<1>14. CASE FsStep
  BY <1>14 DEF FsStep, mainVars, agentVars
<1>15. CASE FsFails
  BY <1>15 DEF FsFails, mainVars, agentVars
<1>16. CASE SecFileLoadWork
  BY <1>16 DEF SecFileLoadWork, mainVars, agentVars
<1>17. CASE SecFileLoadReturns
  BY <1>17 DEF SecFileLoadReturns, mainVars, agentVars
<1>18. CASE GetTimeWork
  BY <1>18 DEF GetTimeWork, mainVars, agentVars
<1>19. CASE \E a \in OtherAgents : AgentWakes(a)
  BY <1>19 DEF AgentWakes, mainVars, agentVars
<1>20. CASE \E a \in OtherAgents : AgentResponds(a)
  BY <1>20 DEF AgentResponds, mainVars, agentVars
<1>21. CASE \E a \in OtherAgents : TeeCalls(a)
  BY <1>21 DEF TeeCalls, mainVars, agentVars
<1>22. CASE \E a \in OtherAgents : AgentFails(a)
  BY <1>22 DEF AgentFails, mainVars, agentVars
<1>23. CASE LateInit
  BY <1>23 DEF LateInit, agentVars
<1>24. CASE ServerFails
  BY <1>24 DEF ServerFails, agentVars
<1> QED
  BY <1>1, <1>2, <1>3, <1>4, <1>5, <1>6, <1>7, <1>8, <1>9, <1>10, <1>11, <1>12, <1>13,
     <1>14, <1>15, <1>16, <1>17, <1>18, <1>19, <1>20, <1>21, <1>22, <1>23, <1>24 DEF
     Next, MainStep, SecStep, MiscStep, OtherAgents, Agents

\* The default directory is done when main goes on to the services, and to its threads.
LEMMA DirsDoneNext == TeecdInv /\ Next => DirsDone'
<1> SUFFICES ASSUME TeecdInv, Next PROVE DirsDone'
  OBVIOUS
<1> USE TeecdAssumption DEF TeecdInv, BootInv, TypeOK, DirTyped, DirTried, DirsDone,
   Complete, Started, Ids, Loads
<1>1. CASE InitFs
  BY <1>1 DEF InitFs, GoesOn, agentVars
<1>2. CASE InitMisc
  BY <1>2 DEF InitMisc, GoesOn, agentVars
<1>3. CASE InitSec
  BY <1>3 DEF InitSec, GoesOn, agentVars
<1>4. CASE StartFs
  BY <1>4 DEF StartFs, GoesOn, OpenDir, agentVars
<1>5. CASE LoadOneFile
  BY <1>5, DirSteps
<1>6. CASE NextDir
  <2>1. DirTyped /\ DirTried
    OBVIOUS
  <2>2. \A name \in Dirs : OpenDir(name) => dir'.name = name
    BY DEF OpenDir
  <2>3. CASE dir.name = "drv_feima" /\ dir.ret = 0
    BY <1>6, <2>2, <2>3, NextDirGoes DEF Dirs
  <2>4. CASE dir.name = "drv"
    BY <1>6, <2>2, <2>4, NextDirGoes DEF Dirs
  <2>5. CASE dir.name = "drv_feima" /\ dir.ret # 0
    BY <1>6, <2>2, <2>5, NextDirGoes DEF Dirs
  <2>6. CASE dir.name = "srv_feima" /\ dir.ret # 0
    BY <1>6, <2>2, <2>6, NextDirGoes DEF Dirs
  <2>7. CASE dir.name = "srv_feima" /\ dir.ret = 0
    BY <1>6, <2>7, NextDirGoes DEF Dirs
  <2>8. CASE dir.name = "srv"
    BY <1>6, <2>8, NextDirGoes DEF Dirs
  <2> QED BY <1>6, <2>3, <2>4, <2>5, <2>6, <2>7, <2>8, NextDirGoes
<1>7. CASE StartCa
  BY <1>7 DEF StartCa, GoesOn, agentVars
<1>8. CASE StartRest
  BY <1>8 DEF StartRest, GoesOn
<1>9. CASE Join
  BY <1>9 DEF Join, GoesOn, agentVars
<1>10. CASE LoadOneFileReturns
  BY <1>10, DirSteps
<1>11. CASE TeeTakesReply
  BY <1>11 DEF TeeTakesReply, mainVars, agentVars
<1>12. CASE TeeGhost
  BY <1>12 DEF TeeGhost, mainVars, agentVars
<1>13. CASE \E l \in Loaders : TeeUsesStorage(l)
  BY <1>13 DEF TeeUsesStorage, mainVars, agentVars
<1>14. CASE FsStep
  BY <1>14 DEF FsStep, mainVars, agentVars
<1>15. CASE FsFails
  BY <1>15 DEF FsFails, mainVars, agentVars
<1>16. CASE SecFileLoadWork
  BY <1>16 DEF SecFileLoadWork, mainVars, agentVars
<1>17. CASE SecFileLoadReturns
  BY <1>17 DEF SecFileLoadReturns, mainVars, agentVars
<1>18. CASE GetTimeWork
  BY <1>18 DEF GetTimeWork, mainVars, agentVars
<1>19. CASE \E a \in OtherAgents : AgentWakes(a)
  BY <1>19 DEF AgentWakes, mainVars, agentVars
<1>20. CASE \E a \in OtherAgents : AgentResponds(a)
  BY <1>20 DEF AgentResponds, mainVars, agentVars
<1>21. CASE \E a \in OtherAgents : TeeCalls(a)
  BY <1>21 DEF TeeCalls, mainVars, agentVars
<1>22. CASE \E a \in OtherAgents : AgentFails(a)
  BY <1>22 DEF AgentFails, mainVars, agentVars
<1>23. CASE LateInit
  BY <1>23 DEF LateInit, agentVars
<1>24. CASE ServerFails
  BY <1>24 DEF ServerFails, agentVars
<1> QED
  BY <1>1, <1>2, <1>3, <1>4, <1>5, <1>6, <1>7, <1>8, <1>9, <1>10, <1>11, <1>12, <1>13,
     <1>14, <1>15, <1>16, <1>17, <1>18, <1>19, <1>20, <1>21, <1>22, <1>23, <1>24 DEF
     Next, MainStep, SecStep, MiscStep, OtherAgents, Agents

\* The types.
LEMMA TypeOKNext == BootInv /\ Next => TypeOK'
<1> SUFFICES ASSUME BootInv, Next PROVE TypeOK'
  OBVIOUS
<1> USE DEF BootInv, TypeOK
<1>1. ChannelTypeOK'
  BY StepIsChannel, ChannelTypeNext
<1> USE DEF Next, MainStep, SecStep, MiscStep, InitFs, InitMisc, InitSec, StartFs,
        LoadOneFile, NextDir, StartCa, StartRest, Join, LoadOneFileReturns,
        TeeTakesReply, TeeGhost, TeeUsesStorage, FsStep, FsFails, SecFileLoadWork,
        SecFileLoadReturns, GetTimeWork, AgentWakes, AgentResponds, TeeCalls,
        AgentFails, LateInit, ServerFails, mainVars, agentVars
<1>2. main' \in MainSteps
  BY DEF MainSteps, GoesOn
<1>3. registered' \subseteq Agents
  BY DEF Agents, AgentInit, AgentExit
<1>4. created' \in BOOLEAN
  <2>1. CASE UNCHANGED created
    BY <2>1
  <2>2. CASE created' = ("fs" \in registered)
    BY <2>2
  <2> QED
    BY <2>1, <2>2
<1>5. thread' \in [OtherAgents -> {"none", "wait", "work", "reply", "gone"}]
  OBVIOUS
<1>6. call' \in [OtherAgents -> BOOLEAN]
  OBVIOUS
<1>7. load' \in [Loaders -> {"none", "running", "wait_fs"}]
  OBVIOUS
<1>8. tried' \cup got' \subseteq Dirs \X Ids
  <2>1. main = "load" /\ dir.left > 0 => <<dir.name, dir.left>> \in Dirs \X Ids
    BY DEF DirTyped, Ids
  <2>2. CASE LoadOneFile \/ LoadOneFileReturns
    BY <2>1, <2>2, DirSteps
  <2>3. CASE UNCHANGED <<tried, got>>
    BY <2>3
  <2> QED BY <2>2, <2>3
<1> QED BY <1>1, <1>2, <1>3, <1>4, <1>5, <1>6, <1>7, <1>8

--------------------------------------------------------------------------------
LEMMA TeecdInvInit == Init => TeecdInv
<1> SUFFICES ASSUME Init PROVE TeecdInv
  OBVIOUS
<1> USE DEF Init
<1>1. TypeOK
  <2>1. ChannelTypeOK
    BY ChannelTypeInit
  <2>2. main \in MainSteps /\ registered \subseteq Agents /\ created \in BOOLEAN
    BY DEF MainSteps
  <2> QED BY <2>1, <2>2 DEF TypeOK
<1>2. Stages /\ Threads
  BY DEF Stages, Threads, Started, ChannelInit
<1>3. Loads /\ DirTyped
  BY DEF Loads, DirTyped, NoDir, Loaders
<1>4. DirTried /\ DirsDone
  BY DEF DirTried, DirsDone, Started
<1> QED BY <1>1, <1>2, <1>3, <1>4 DEF TeecdInv, BootInv

LEMMA TeecdInvNext == TeecdInv /\ [Next]_vars => TeecdInv'
<1> SUFFICES ASSUME TeecdInv, [Next]_vars PROVE TeecdInv'
  OBVIOUS
<1>1. CASE Next
  BY <1>1, TypeOKNext, StagesNext, ThreadsNext, LoadsNext, DirTypedNext, DirTriedNext,
     DirsDoneNext DEF TeecdInv, BootInv
<1>2. CASE UNCHANGED vars
  BY <1>2 DEF vars, mainVars, agentVars, channelVars, TeecdInv, BootInv, TypeOK,
     ChannelTypeOK, Stages, Threads, Loads, DirTyped, DirTried, DirsDone, Complete
<1> QED BY <1>1, <1>2

LEMMA TeecdInvAlways == Spec => []TeecdInv
<1> QED BY TeecdInvInit, TeecdInvNext, PTL DEF Spec

\* The state keeps its types; main tries no file a directory does not have.
THEOREM TypeCorrect == Spec => []TypeOK
<1>1. TeecdInv => TypeOK
  BY DEF TeecdInv, BootInv
<1> QED BY <1>1, TeecdInvAlways, PTL

\* Whichever step of ProcessAgentInit fails, nothing stays registered when
\* main has left, and no thread works for an agent that is not registered.
THEOREM ThreadsServeAgents == Spec => []AgentsMatch
<1>1. TeecdInv => AgentsMatch
  BY DEF TeecdInv, BootInv, TypeOK, MainSteps, Stages, Threads, NotStarted, Started,
     AgentsMatch
<1> QED BY <1>1, TeecdInvAlways, PTL

\* When nothing came from the one directory of drivers or services, main has
\* tried every file of the default one (LoadDynamicDrvDir, LoadDynamicSrvDir),
\* whatever files there are.
THEOREM DefaultsTried == Spec => []FallbackComplete
<1>1. TeecdInv => FallbackComplete
  BY DEF TeecdInv, DirsDone, Complete, Started, FallbackComplete
<1> QED BY <1>1, TeecdInvAlways, PTL

(***************************************************************************)
(* The boot and the FS agent.  The TEE may use its secure storage as soon  *)
(* as a load runs, and loads run only after StartFs: with a thread that    *)
(* marks its buffer before main goes on no command finds an unmarked       *)
(* buffer, although nothing in the channel forbids one (EarlyAsk).         *)
(***************************************************************************)
Marked == created => worker # "new"

LEMMA MarkedNext ==
  ASSUME PromptWorker, Marked, [Next]_vars
  PROVE  Marked'
<1> USE DEF Marked
<1>1. CASE StartFs
  BY <1>1 DEF StartFs, StartWorker
<1>2. CASE FsStep \/ FsFails
  BY <1>2 DEF FsStep, FsFails, mainVars, WorkerStep, StartWorker, WaitEvent, CheckMagic,
     RunHandler, MarkDone, SendResponse, IoctlFails
<1>3. CASE TeeTakesReply \/ TeeGhost \/ \E l \in Loaders : TeeUsesStorage(l)
  BY <1>3 DEF TeeTakesReply, TeeGhost, TeeUsesStorage, mainVars, TakeReply, GhostWakeup,
     SendCommand
<1>4. CASE UNCHANGED <<created, worker>>
  BY <1>4
<1>5. CASE Next
  BY <1>1, <1>2, <1>3, <1>4, <1>5 DEF Next, MainStep, SecStep, MiscStep, InitFs, InitMisc, InitSec,
     LoadOneFile, NextDir, StartCa, StartRest, Join, LoadOneFileReturns,
     SecFileLoadWork, SecFileLoadReturns, GetTimeWork, AgentWakes, AgentResponds,
     TeeCalls, AgentFails, LateInit, ServerFails, mainVars, channelVars
<1> QED BY <1>4, <1>5 DEF vars, mainVars, channelVars

\* A load that runs can use the storage only of a marked buffer.
LEMMA StorageMarked ==
  ASSUME TeecdInv, Marked, NEW l \in Loaders, TeeUsesStorage(l)
  PROVE  worker # "new"
<1>1. load[l] = "running" /\ "fs" \in registered
  BY DEF TeeUsesStorage
<1>2. main \in Started \cup {"gone"}
  BY <1>1 DEF TeecdInv, BootInv, Loads, Threads, Loaders, OtherAgents, Agents, Started
<1>3. created
  BY <1>1, <1>2 DEF TeecdInv, BootInv, Stages
<1> QED BY <1>3 DEF Marked

\* The steps of teecd keep the invariant of the channel.
LEMMA TeecdChannelInv ==
  ASSUME TeecdInv, Marked, ChannelInv, [Next]_vars
  PROVE  ChannelInv'
<1>1. CASE \E l \in Loaders : TeeUsesStorage(l)
  BY <1>1, StorageMarked, TeeChannelInv DEF TeeUsesStorage
<1>2. CASE TeeTakesReply \/ TeeGhost
  <2>1. TakeReply \/ GhostWakeup
    BY <1>2 DEF TeeTakesReply, TeeGhost
  <2> QED BY <2>1 DEF ChannelInv, Typed, Counts, MagicTells, WorkerStates, TeeWaits,
             TakeReply, GhostWakeup
<1>3. CASE FsStep \/ FsFails \/ StartFs
  <2>1. WorkerStep \/ IoctlFails \/ UNCHANGED channelVars
    BY <1>3 DEF FsStep, FsFails, StartFs, WorkerStep
  <2> QED BY <2>1, WorkerChannelInv DEF channelVars, ChannelInv, Typed, Counts, MagicTells
<1>4. CASE UNCHANGED channelVars
  BY <1>4 DEF channelVars, ChannelInv, Typed, Counts, MagicTells
<1>5. CASE Next
  BY <1>1, <1>2, <1>3, <1>4, <1>5 DEF Next, MainStep, SecStep, MiscStep, InitFs, InitMisc, InitSec,
     LoadOneFile, NextDir, StartCa, StartRest, Join, LoadOneFileReturns,
     SecFileLoadWork, SecFileLoadReturns, GetTimeWork, AgentWakes, AgentResponds,
     TeeCalls, AgentFails, LateInit, ServerFails
<1> QED BY <1>4, <1>5 DEF vars

\* teecd as a whole keeps to the call an agent owes the TEE: each command of
\* a load is handled exactly once and ends only after its handler, if the FS
\* thread marks its buffer before main goes on.
THEOREM BootImplementsCall ==
  ASSUME PromptWorker
  PROVE  Spec => Call!SafeSpec
<1>1. Init => Marked /\ ChannelInv
  BY InitChannelInv DEF Init, Marked
<1>2. Spec => [](TeecdInv /\ Marked /\ ChannelInv)
  <2>1. /\ TeecdInv /\ Marked /\ ChannelInv /\ [Next]_vars
        => (TeecdInv /\ Marked /\ ChannelInv)'
    BY TeecdInvNext, MarkedNext, TeecdChannelInv
  <2> QED BY <1>1, <2>1, TeecdInvInit, PTL DEF Spec
<1>3. Init => Call!Init
  BY DEF Init, ChannelInit, Call!Init
<1>4. TeecdInv /\ ChannelInv /\ [Next]_vars => [Call!Next]_(Call!callVars)
  <2>1. [Next]_vars => [ChannelNext]_channelVars
    BY StepIsChannel DEF vars, channelVars
  <2> QED BY <2>1, NextIsCall
<1> QED
  BY <1>2, <1>3, <1>4, PTL DEF Spec, Call!SafeSpec
================================================================================
