--------------------------- MODULE TuiDaemonProofs ---------------------------
(***************************************************************************)
(* Proofs about TuiDaemon: the thread that waits for events holds nothing  *)
(* of a daemon it does not have, the library is not unloaded under a       *)
(* callback, a call ends the TUI and a TUI is not left up on a panel that  *)
(* is gone, for every number of retries, folds, calls and events.          *)
(***************************************************************************)
EXTENDS TuiDaemon, TLAPS

\* The INIT of the boot runs.
Booting == thread.work = "init" /\ thread.pc \notin {"event", "stopped"}

(***************************************************************************)
(* What the bounds of the counters rest on: a callback that waits was      *)
(* caused by a fold or a call of its own, and the boot gives up after      *)
(* InitRetries.                                                            *)
(***************************************************************************)
Counted ==
    /\ onFold.waiting <= device.folds
    /\ onCall.waiting <= device.calls
    /\ Booting => thread.tries <= InitRetries

Registering == {"listener", "read", "rotate", "size", "send"}
Dealing == {"deal", "dread", "drotate", "dsize", "dstatus", "dsend", "clear"}

(***************************************************************************)
(* Who holds what of the library.  Callbacks are registered only for a     *)
(* START or an END, after which the library stays loaded (Loaded); they    *)
(* and the running lock belong to an initialised daemon or to one that is  *)
(* being initialised (Held).                                               *)
(***************************************************************************)
Quiet ==
    /\ ~library.call /\ ~library.listener
    /\ onFold.pc = "idle" /\ onFold.waiting = 0
    /\ onCall.pc = "idle" /\ onCall.waiting = 0

Loaded ==
    /\ thread.work = "init" => Quiet
    /\ thread.work # "init" => library.loaded
    /\ ~library.loaded => /\ thread.pc \in {"boot", "event", "stopped"}
                          /\ ~library.inited
    /\ thread.pc = "boot" => ~library.loaded
    /\ thread.pc \in {"boot", "clean"} => thread.work = "init"
    /\ thread.pc \in {"callback", "listener"} => thread.work # "init"
    /\ thread.pc \in {"dread", "drotate", "dsize", "dstatus", "dsend"} => thread.work = "start"

Held ==
    /\ thread.pc \in Dealing => library.inited
    /\ thread.pc \in Registering \cup {"callback"} => ~library.inited
    /\ library.call \/ library.listener => library.inited \/ thread.pc \in Registering
    /\ event.lock => library.inited /\ thread.pc # "clear"

(***************************************************************************)
(* The end of a TUI.  A TUI that was started has the status set, until the *)
(* callback of a call has cleared it and is about to cancel (Served); a    *)
(* call that tests it finds it so and is on its way to cancel (Ringing).   *)
(***************************************************************************)
Served ==
    /\ thread.pc \in {"dsend", "event"}
    /\ tee.up /\ ~history.failed
    /\ library.inited
    => event.status \/ onCall.pc = "cancel"

Ringing ==
    history.rang /\ tee.up /\ ~history.failed => onCall.pc \in {"clear", "cancel"}

(***************************************************************************)
(* The panel.  Without a race every value on its way to a field is that of *)
(* the present fold state (Shots), so the START sends the right panel      *)
(* (Read); a fold that finds the daemon at rest leaves a TUI that is       *)
(* behind only while the listener is on its way to send or cancel          *)
(* (Following).                                                            *)
(***************************************************************************)
Present == [foldState |-> device.fold, size |-> device.fold]

Shots ==
    ~history.raced =>
        /\ thread.pc \in {"rotate", "size", "drotate", "dsize"} => thread.shot = device.fold
        /\ onFold.pc \in {"rotate", "size"} => onFold.shot = device.fold

Read ==
    ~history.raced /\ ~history.failed =>
        /\ thread.pc = "dsize" => event.panel.foldState = device.fold
        /\ thread.pc \in {"dstatus", "dsend"} => event.panel = Present

Following ==
    /\ thread.pc = "event" /\ tee.up /\ library.listener
    /\ ~history.failed /\ ~history.raced
    => \/ tee.panel = Present /\ event.panel = Present
       \/ onFold.waiting > 0
       \/ onFold.pc \in {"rotate", "status", "cancel"}
       \/ onFold.pc = "size" /\ event.panel.foldState = device.fold
       \/ onFold.pc = "send" /\ event.panel = Present
       \/ onCall.pc = "cancel"

HoldInv == TypeOK /\ Counted /\ Loaded /\ Held
TuiInv == HoldInv /\ Served /\ Ringing /\ Shots /\ Read /\ Following

--------------------------------------------------------------------------------
\* BootAgain goes back to the boot only while a try is left, and stays in the INIT.
LEMMA BootAgainThread ==
  ASSUME TypeOK, Counted, Loaded, thread.pc \in {"boot", "clean"},
         NEW success \in BOOLEAN, BootAgain(success)
  PROVE  /\ thread' \in Threads
         /\ thread'.work = "init"
         /\ thread'.pc \in {"boot", "event"}
         /\ thread'.pc = "boot" => thread'.tries <= InitRetries
  <1>1. thread.tries \in 0 .. InitRetries /\ thread.work = "init" /\ thread \in Threads
    BY TuiAssumption DEF TypeOK, Counted, Booting, Loaded, Threads
  <1>2. CASE success
    BY <1>1, <1>2, TuiAssumption DEF BootAgain, Threads
  <1>3. CASE ~success
    <2>1. thread.tries + 1 \in 0 .. InitRetries + 1
      BY <1>1, TuiAssumption
    <2>2. CASE thread.tries < InitRetries
      <3>1. thread' = [thread EXCEPT !.pc = "boot", !.tries = thread.tries + 1]
        BY <1>3, <2>2 DEF BootAgain
      <3>2. thread.tries + 1 <= InitRetries
        BY <1>1, <2>2, TuiAssumption
      <3> QED
        BY <1>1, <2>1, <3>1, <3>2 DEF Threads
    <2>3. CASE ~(thread.tries < InitRetries)
      BY <1>1, <1>3, <2>1, <2>3, TuiAssumption DEF BootAgain, Threads
    <2> QED
      BY <2>2, <2>3
  <1> QED
    BY <1>2, <1>3

--------------------------------------------------------------------------------
\* The types, which need Counted for the callbacks that wait and for the tries.
LEMMA TypeOKNext == HoldInv /\ Next => TypeOK'
  <1> SUFFICES ASSUME HoldInv, Next PROVE TypeOK'
    OBVIOUS
  <1> USE TuiAssumption DEF HoldInv, TypeOK
  <1>1. CASE BootLoad
    <2>1. thread' \in Threads
      <3>1. CASE Goto("library")
        BY <3>1 DEF Goto, Threads
      <3>2. CASE BootAgain(FALSE)
        BY <1>1, <3>2, BootAgainThread DEF BootLoad, At
      <3> QED
        BY <1>1, <3>1, <3>2 DEF BootLoad
    <2>2. library' \in Libraries
      BY <1>1 DEF BootLoad, Libraries
    <2> QED
      BY <1>1, <2>1, <2>2 DEF BootLoad
  <1>2. CASE TuiDaemonClean
    <2>1. thread' \in Threads
      <3>1. library.inited \in BOOLEAN
        BY DEF Libraries
      <3> QED
        BY <1>2, <3>1, BootAgainThread DEF TuiDaemonClean, At
    <2>2. library' \in Libraries
      BY <1>2 DEF TuiDaemonClean, Libraries
    <2>3. event' \in TUIEvents
      BY <1>2 DEF TuiDaemonClean, TuiEventInit, NoPanel, TUIEvents, Panel, Fold
    <2> QED
      BY <1>2, <2>1, <2>2, <2>3 DEF TuiDaemonClean
  <1>3. CASE HandleConfig
    <2>1. thread' \in Threads
      BY <1>3 DEF HandleConfig, Threads
    <2>2. library' \in Libraries
      BY <1>3 DEF HandleConfig, Libraries
    <2>3. device' \in Devices
      BY <1>3 DEF HandleConfig, Event, Devices
    <2>4. tee' \in [up : BOOLEAN, panel : Panel]
      BY <1>3 DEF HandleConfig
    <2>5. history' \in [raced : BOOLEAN, failed : BOOLEAN, rang : BOOLEAN]
      BY <1>3 DEF HandleConfig
    <2> QED
      BY <1>3, <2>1, <2>2, <2>3, <2>4, <2>5 DEF HandleConfig
  <1>4. CASE HandleUnused
    <2>1. thread' \in Threads
      BY <1>4 DEF HandleUnused, Threads
    <2>2. device' \in Devices
      BY <1>4 DEF HandleUnused, Event, Devices
    <2>3. tee' \in [up : BOOLEAN, panel : Panel]
      BY <1>4 DEF HandleUnused
    <2> QED
      BY <1>4, <2>1, <2>2, <2>3 DEF HandleUnused
  <1>5. CASE GetEventFails
    <2>1. thread' \in Threads
      BY <1>5 DEF GetEventFails, Goto, Threads
    <2>2. device' \in Devices
      BY <1>5 DEF GetEventFails, Event, Devices
    <2> QED
      BY <1>5, <2>1, <2>2 DEF GetEventFails
  <1>6. CASE NewDaemon
    <2>1. thread' \in Threads
      BY <1>6 DEF NewDaemon, Goto, Threads
    <2>2. event' \in TUIEvents
      <3>1. TuiEventInit \in TUIEvents
        BY DEF TuiEventInit, NoPanel, TUIEvents, Panel, Fold
      <3> QED
        BY <1>6, <3>1 DEF NewDaemon
    <2> QED
      BY <1>6, <2>1, <2>2 DEF NewDaemon
  <1>7. CASE TuiRegisteCallBack
    <2>1. thread' \in Threads
      BY <1>7 DEF TuiRegisteCallBack, Goto, Threads
    <2>2. library' \in Libraries
      BY <1>7 DEF TuiRegisteCallBack, Libraries
    <2> QED
      BY <1>7, <2>1, <2>2 DEF TuiRegisteCallBack
  <1>8. CASE TuiRegisteDisplayListener
    <2>1. thread' \in Threads
      BY <1>8 DEF TuiRegisteDisplayListener, Goto, Threads
    <2>2. library' \in Libraries
      BY <1>8 DEF TuiRegisteDisplayListener, Libraries
    <2> QED
      BY <1>8, <2>1, <2>2 DEF TuiRegisteDisplayListener
  <1>9. CASE GetDisplay
    <2>1. thread' \in Threads
      BY <1>9 DEF GetDisplay, Threads, Devices
    <2> QED
      BY <1>9, <2>1 DEF GetDisplay
  <1>10. CASE PanelFails
    <2>1. thread' \in Threads
      BY <1>10 DEF PanelFails, Return, Goto, Threads
    <2>2. library' \in Libraries
      BY <1>10 DEF PanelFails, TuiDaemonClear, Libraries
    <2> QED
      BY <1>10, <2>1, <2>2 DEF PanelFails
  <1>11. CASE DealPanelFails
    <2>1. thread' \in Threads
      BY <1>11 DEF DealPanelFails, Goto, Threads
    <2>2. history' \in [raced : BOOLEAN, failed : BOOLEAN, rang : BOOLEAN]
      BY <1>11 DEF DealPanelFails
    <2> QED
      BY <1>11, <2>1, <2>2 DEF DealPanelFails
  <1>12. CASE GetRotation
    <2>1. thread' \in Threads
      BY <1>12 DEF GetRotation, Goto, Threads
    <2>2. event' \in TUIEvents
      BY <1>12 DEF GetRotation, TUIGetFoldable, TUIEvents, Panel, Devices
    <2> QED
      BY <1>12, <2>1, <2>2 DEF GetRotation
  <1>13. CASE SetSize
    <2>1. thread' \in Threads
      BY <1>13 DEF SetSize, Goto, Threads
    <2>2. event' \in TUIEvents
      BY <1>13 DEF SetSize, TUISetPanelInfo, TUIEvents, Panel, Threads
    <2> QED
      BY <1>13, <2>1, <2>2 DEF SetSize
  <1>14. CASE InitSend
    <2>1. thread' \in Threads
      BY <1>14 DEF InitSend, Return, Goto, Threads
    <2>2. library' \in Libraries
      BY <1>14 DEF InitSend, TuiDaemonClear, Libraries
    <2>3. tee' \in [up : BOOLEAN, panel : Panel]
      BY <1>14 DEF InitSend, SendFold, TUIEvents
    <2>4. history' \in [raced : BOOLEAN, failed : BOOLEAN, rang : BOOLEAN]
      BY <1>14 DEF InitSend, SendFold
    <2> QED
      BY <1>14, <2>1, <2>2, <2>3, <2>4 DEF InitSend
  <1>15. CASE DealInit
    <2>1. thread' \in Threads
      BY <1>15 DEF DealInit, Return, Goto, Threads
    <2> QED
      BY <1>15, <2>1 DEF DealInit
  <1>16. CASE TUIGetRunningLock
    <2>1. thread' \in Threads
      BY <1>16 DEF TUIGetRunningLock, Goto, Threads
    <2>2. event' \in TUIEvents
      BY <1>16 DEF TUIGetRunningLock, TUIEvents
    <2> QED
      BY <1>16, <2>1, <2>2 DEF TUIGetRunningLock
  <1>17. CASE SetStatus
    <2>1. thread' \in Threads
      BY <1>17 DEF SetStatus, Goto, Threads
    <2>2. event' \in TUIEvents
      BY <1>17 DEF SetStatus, TUIEvents
    <2> QED
      BY <1>17, <2>1, <2>2 DEF SetStatus
  <1>18. CASE DealSend
    <2>1. thread' \in Threads
      BY <1>18 DEF DealSend, Goto, Threads
    <2>2. tee' \in [up : BOOLEAN, panel : Panel]
      BY <1>18 DEF DealSend, SendFold, TUIEvents
    <2>3. history' \in [raced : BOOLEAN, failed : BOOLEAN, rang : BOOLEAN]
      BY <1>18 DEF DealSend, SendFold
    <2> QED
      BY <1>18, <2>1, <2>2, <2>3 DEF DealSend
  <1>19. CASE DealEnd
    <2>1. thread' \in Threads
      BY <1>19 DEF DealEnd, Goto, Threads
    <2>2. event' \in TUIEvents
      BY <1>19 DEF DealEnd, TUIEvents
    <2> QED
      BY <1>19, <2>1, <2>2 DEF DealEnd
  <1>20. CASE EndClear
    <2>1. thread' \in Threads
      BY <1>20 DEF EndClear, Return, Goto, Threads
    <2>2. library' \in Libraries
      BY <1>20 DEF EndClear, TuiDaemonClear, Libraries
    <2> QED
      BY <1>20, <2>1, <2>2 DEF EndClear
  <1>21. CASE FoldGetDisplay
    <2>1. onFold' \in Listeners
      <3>1. onFold.waiting - 1 \in 0 .. MaxFolds
        BY <1>21 DEF FoldGetDisplay, Listeners
      <3>2. device.fold \in Fold
        BY DEF Devices
      <3>3. CASE onFold' = [onFold EXCEPT !.waiting = @ - 1, !.pc = "status"]
        BY <3>1, <3>3 DEF Listeners
      <3>4. CASE onFold' = [waiting |-> onFold.waiting - 1, pc |-> "rotate",
                            shot |-> device.fold]
        BY <3>1, <3>2, <3>4 DEF Listeners
      <3> QED
        BY <1>21, <3>3, <3>4 DEF FoldGetDisplay
    <2> QED
      BY <1>21, <2>1 DEF FoldGetDisplay
  <1>22. CASE FoldGetRotation
    <2>1. event' \in TUIEvents
      BY <1>22 DEF FoldGetRotation, TUIGetFoldable, TUIEvents, Panel, Devices
    <2>2. onFold' \in Listeners
      BY <1>22 DEF FoldGetRotation, FoldGoto, Listeners
    <2> QED
      BY <1>22, <2>1, <2>2 DEF FoldGetRotation
  <1>23. CASE FoldSetSize
    <2>1. event' \in TUIEvents
      BY <1>23 DEF FoldSetSize, TUISetPanelInfo, TUIEvents, Panel, Listeners
    <2>2. onFold' \in Listeners
      BY <1>23 DEF FoldSetSize, FoldGoto, Listeners
    <2> QED
      BY <1>23, <2>1, <2>2 DEF FoldSetSize
  <1>24. CASE FoldSend
    <2>1. onFold' \in Listeners
      BY <1>24 DEF FoldSend, FoldGoto, Listeners
    <2>2. tee' \in [up : BOOLEAN, panel : Panel]
      BY <1>24 DEF FoldSend, SendFold, TUIEvents
    <2>3. history' \in [raced : BOOLEAN, failed : BOOLEAN, rang : BOOLEAN]
      BY <1>24 DEF FoldSend, SendFold
    <2> QED
      BY <1>24, <2>1, <2>2, <2>3 DEF FoldSend
  <1>25. CASE FoldStatus
    <2>1. onFold' \in Listeners
      BY <1>25 DEF FoldStatus, FoldGoto, Listeners
    <2> QED
      BY <1>25, <2>1 DEF FoldStatus
  <1>26. CASE FoldCancel
    <2>1. onFold' \in Listeners
      BY <1>26 DEF FoldCancel, FoldGoto, Listeners
    <2>2. tee' \in [up : BOOLEAN, panel : Panel]
      BY <1>26 DEF FoldCancel, SendCancel
    <2>3. history' \in [raced : BOOLEAN, failed : BOOLEAN, rang : BOOLEAN]
      BY <1>26 DEF FoldCancel, SendCancel
    <2> QED
      BY <1>26, <2>1, <2>2, <2>3 DEF FoldCancel
  <1>27. CASE CallStatus
    <2>1. onCall' \in CallBacks
      BY <1>27 DEF CallStatus, CallBacks
    <2> QED
      BY <1>27, <2>1 DEF CallStatus
  <1>28. CASE CallClearStatus
    <2>1. event' \in TUIEvents
      BY <1>28 DEF CallClearStatus, TUIEvents
    <2>2. onCall' \in CallBacks
      BY <1>28 DEF CallClearStatus, CallBacks
    <2> QED
      BY <1>28, <2>1, <2>2 DEF CallClearStatus
  <1>29. CASE CallCancel
    <2>1. onCall' \in CallBacks
      BY <1>29 DEF CallCancel, CallBacks
    <2>2. tee' \in [up : BOOLEAN, panel : Panel]
      BY <1>29 DEF CallCancel, SendCancel
    <2>3. history' \in [raced : BOOLEAN, failed : BOOLEAN, rang : BOOLEAN]
      BY <1>29 DEF CallCancel, SendCancel
    <2> QED
      BY <1>29, <2>1, <2>2, <2>3 DEF CallCancel
  <1>30. CASE FoldDevice
    <2>1. onFold' \in Listeners
      BY <1>30 DEF FoldDevice, Listeners, Counted, Devices
    <2>2. device' \in Devices
      <3>1. device.folds + 1 \in 0 .. MaxFolds /\ 1 - device.fold \in Fold
        BY <1>30 DEF FoldDevice, Devices, Fold
      <3> QED
        BY <1>30, <3>1 DEF FoldDevice, Devices
    <2>3. history' \in [raced : BOOLEAN, failed : BOOLEAN, rang : BOOLEAN]
      BY <1>30 DEF FoldDevice, AtRest
    <2> QED
      BY <1>30, <2>1, <2>2, <2>3 DEF FoldDevice
  <1>31. CASE IncomingCall
    <2>1. onCall' \in CallBacks
      BY <1>31 DEF IncomingCall, CallBacks, Counted, Devices
    <2>2. device' \in Devices
      BY <1>31 DEF IncomingCall, Devices
    <2>3. history' \in [raced : BOOLEAN, failed : BOOLEAN, rang : BOOLEAN]
      BY <1>31 DEF IncomingCall
    <2> QED
      BY <1>31, <2>1, <2>2, <2>3 DEF IncomingCall
  <1> QED
    BY <1>1, <1>2, <1>3, <1>4, <1>5, <1>6, <1>7, <1>8, <1>9, <1>10, <1>11, <1>12,
       <1>13, <1>14, <1>15, <1>16, <1>17, <1>18, <1>19, <1>20, <1>21, <1>22, <1>23,
       <1>24, <1>25, <1>26, <1>27, <1>28, <1>29, <1>30, <1>31 DEF Next

\* A callback waits only for a fold or a call that was counted.
LEMMA CountedNext == HoldInv /\ Next => Counted'
  <1> SUFFICES ASSUME HoldInv, Next PROVE Counted'
    OBVIOUS
  <1> USE TuiAssumption DEF HoldInv, TypeOK, Counted, Booting, Loaded
  <1>1. CASE BootLoad
    <2>1. CASE Goto("library")
      BY <1>1, <2>1 DEF BootLoad, At, Goto, Threads, Listeners, CallBacks, Devices
    <2>2. CASE BootAgain(FALSE)
      BY <1>1, <2>2, BootAgainThread DEF BootLoad, At, Threads, Listeners, CallBacks, Devices
    <2> QED
      BY <1>1, <2>1, <2>2 DEF BootLoad
  <1>2. CASE TuiDaemonClean
    <2>1. library.inited \in BOOLEAN
      BY DEF Libraries
    <2> QED
      BY <1>2, <2>1, BootAgainThread DEF TuiDaemonClean, At, TuiEventInit, Threads, Listeners, CallBacks, Devices
  <1>3. CASE HandleConfig
    BY <1>3 DEF HandleConfig, Event, At, Threads, Listeners, CallBacks, Devices
  <1>4. CASE HandleUnused
    <2>1. CASE library.loaded /\ thread' = [thread EXCEPT !.pc = "library", !.work = "end"]
      BY <1>4, <2>1 DEF HandleUnused, Event, At, Threads, Listeners, CallBacks, Devices
    <2>2. CASE thread' = thread
      BY <1>4, <2>2 DEF HandleUnused, Event, At, Threads, Listeners, CallBacks, Devices
    <2> QED
      BY <1>4, <2>1, <2>2 DEF HandleUnused
  <1>5. CASE GetEventFails
    BY <1>5 DEF GetEventFails, Event, At, Goto, Threads, Listeners, CallBacks, Devices
  <1>6. CASE NewDaemon
    BY <1>6 DEF NewDaemon, At, Goto, TuiEventInit, NoPanel, Threads, Listeners,
       CallBacks, Devices
  <1>7. CASE TuiRegisteCallBack
    BY <1>7 DEF TuiRegisteCallBack, At, Goto, Threads, Listeners, CallBacks, Devices
  <1>8. CASE TuiRegisteDisplayListener
    BY <1>8 DEF TuiRegisteDisplayListener, At, Goto, Threads, Listeners, CallBacks,
       Devices
  <1>9. CASE GetDisplay
    BY <1>9 DEF GetDisplay, TuiDaemonClear, At, Threads, Listeners, CallBacks, Devices
  <1>10. CASE PanelFails
    BY <1>10 DEF PanelFails, Return, Goto, TuiDaemonClear, At, Threads, Listeners,
       CallBacks, Devices
  <1>11. CASE DealPanelFails
    BY <1>11 DEF DealPanelFails, At, Goto, Threads, Listeners, CallBacks, Devices
  <1>12. CASE GetRotation
    BY <1>12 DEF GetRotation, TUIGetFoldable, At, Goto, Threads, Listeners, CallBacks,
       Devices
  <1>13. CASE SetSize
    BY <1>13 DEF SetSize, TUISetPanelInfo, At, Goto, Threads, Listeners, CallBacks,
       Devices
  <1>14. CASE InitSend
    <2>1. CASE library' = [library EXCEPT !.inited = TRUE] /\ Goto("deal")
      BY <1>14, <2>1 DEF InitSend, SendFold, At, Goto, Threads, Listeners, CallBacks, Devices
    <2>2. CASE TuiDaemonClear /\ Return
      BY <1>14, <2>2 DEF InitSend, SendFold, At, Goto, TuiDaemonClear, Return, Threads, Listeners, CallBacks, Devices
    <2> QED
      BY <1>14, <2>1, <2>2 DEF InitSend
  <1>15. CASE DealInit
    BY <1>15 DEF DealInit, Return, Goto, At, Threads, Listeners, CallBacks, Devices
  <1>16. CASE TUIGetRunningLock
    BY <1>16 DEF TUIGetRunningLock, At, Goto, Threads, Listeners, CallBacks, Devices
  <1>17. CASE SetStatus
    BY <1>17 DEF SetStatus, At, Goto, Threads, Listeners, CallBacks, Devices
  <1>18. CASE DealSend
    BY <1>18 DEF DealSend, SendFold, At, Goto, Threads, Listeners, CallBacks, Devices
  <1>19. CASE DealEnd
    BY <1>19 DEF DealEnd, At, Goto, Threads, Listeners, CallBacks, Devices
  <1>20. CASE EndClear
    BY <1>20 DEF EndClear, Return, Goto, TuiDaemonClear, At, Threads, Listeners,
       CallBacks, Devices
  <1>21. CASE FoldGetDisplay
    <2>1. CASE onFold' = [onFold EXCEPT !.waiting = @ - 1, !.pc = "status"]
      BY <1>21, <2>1 DEF FoldGetDisplay, Threads, Listeners, CallBacks, Devices
    <2>2. CASE onFold' = [waiting |-> onFold.waiting - 1, pc |-> "rotate",
                          shot |-> device.fold]
      BY <1>21, <2>2 DEF FoldGetDisplay, Threads, Listeners, CallBacks, Devices
    <2> QED
      BY <1>21, <2>1, <2>2 DEF FoldGetDisplay
  <1>22. CASE FoldGetRotation
    BY <1>22 DEF FoldGetRotation, TUIGetFoldable, FoldGoto, Threads, Listeners,
       CallBacks, Devices
  <1>23. CASE FoldSetSize
    BY <1>23 DEF FoldSetSize, TUISetPanelInfo, FoldGoto, Threads, Listeners,
       CallBacks, Devices
  <1>24. CASE FoldSend
    BY <1>24 DEF FoldSend, SendFold, FoldGoto, Threads, Listeners, CallBacks, Devices
  <1>25. CASE FoldStatus
    BY <1>25 DEF FoldStatus, FoldGoto, Threads, Listeners, CallBacks, Devices
  <1>26. CASE FoldCancel
    BY <1>26 DEF FoldCancel, SendCancel, FoldGoto, Threads, Listeners, CallBacks,
       Devices
  <1>27. CASE CallStatus
    BY <1>27 DEF CallStatus, Threads, Listeners, CallBacks, Devices
  <1>28. CASE CallClearStatus
    BY <1>28 DEF CallClearStatus, Threads, Listeners, CallBacks, Devices
  <1>29. CASE CallCancel
    BY <1>29 DEF CallCancel, SendCancel, Threads, Listeners, CallBacks, Devices
  <1>30. CASE FoldDevice
    BY <1>30 DEF FoldDevice, AtRest, At, Threads, Listeners, CallBacks, Devices
  <1>31. CASE IncomingCall
    BY <1>31 DEF IncomingCall, At, Threads, Listeners, CallBacks, Devices
  <1> QED
    BY <1>1, <1>2, <1>3, <1>4, <1>5, <1>6, <1>7, <1>8, <1>9, <1>10, <1>11, <1>12,
       <1>13, <1>14, <1>15, <1>16, <1>17, <1>18, <1>19, <1>20, <1>21, <1>22, <1>23,
       <1>24, <1>25, <1>26, <1>27, <1>28, <1>29, <1>30, <1>31 DEF Next

\* Callbacks are registered, and run, only after the first START or END.
LEMMA LoadedNext == HoldInv /\ Next => Loaded'
  <1> SUFFICES ASSUME HoldInv, Next PROVE Loaded'
    OBVIOUS
  <1> USE TuiAssumption DEF HoldInv, TypeOK, Loaded, Quiet, Held, Dealing, Registering
  <1>1. CASE BootLoad
    <2>1. CASE library' = [library EXCEPT !.loaded = TRUE] /\ Goto("library")
      BY <1>1, <2>1 DEF BootLoad, At, Goto, Threads, Libraries, Listeners, CallBacks
    <2>2. CASE library' = library /\ BootAgain(FALSE)
      <3>1. /\ thread.pc = "boot" /\ ~library.loaded /\ library' = library
            /\ UNCHANGED <<onFold, onCall>>
        BY <1>1, <2>2 DEF BootLoad, At
      <3>2. thread'.pc \in {"boot", "event"} /\ thread'.work = thread.work
        BY <2>2, <3>1, BootAgainThread
      <3> QED
        BY <3>1, <3>2
    <2> QED
      BY <1>1, <2>1, <2>2 DEF BootLoad
  <1>2. CASE TuiDaemonClean
    <2>1. library.inited \in BOOLEAN
      BY DEF Libraries
    <2> QED
      BY <1>2, <2>1, BootAgainThread DEF TuiDaemonClean, At, TuiEventInit, Threads, Libraries, Listeners, CallBacks
  <1>3. CASE HandleConfig
    BY <1>3 DEF HandleConfig, Event, At, Threads, Libraries, Listeners, CallBacks
  <1>4. CASE HandleUnused
    <2>1. CASE library.loaded /\ thread' = [thread EXCEPT !.pc = "library", !.work = "end"]
      BY <1>4, <2>1 DEF HandleUnused, Event, At, Threads, Libraries, Listeners, CallBacks
    <2>2. CASE thread' = thread
      BY <1>4, <2>2 DEF HandleUnused, Event, At, Threads, Libraries, Listeners, CallBacks
    <2> QED
      BY <1>4, <2>1, <2>2 DEF HandleUnused
  <1>5. CASE GetEventFails
    BY <1>5 DEF GetEventFails, Event, At, Goto, Threads, Libraries, Listeners,
       CallBacks
  <1>6. CASE NewDaemon
    BY <1>6 DEF NewDaemon, At, Goto, TuiEventInit, NoPanel, Threads, Libraries,
       Listeners, CallBacks
  <1>7. CASE TuiRegisteCallBack
    BY <1>7 DEF TuiRegisteCallBack, At, Goto, Threads, Libraries, Listeners, CallBacks
  <1>8. CASE TuiRegisteDisplayListener
    BY <1>8 DEF TuiRegisteDisplayListener, At, Goto, Threads, Libraries, Listeners,
       CallBacks
  <1>9. CASE GetDisplay
    BY <1>9 DEF GetDisplay, TuiDaemonClear, At, Threads, Libraries, Listeners,
       CallBacks
  <1>10. CASE PanelFails
    BY <1>10 DEF PanelFails, Return, Goto, TuiDaemonClear, At, Threads, Libraries,
       Listeners, CallBacks
  <1>11. CASE DealPanelFails
    BY <1>11 DEF DealPanelFails, At, Goto, Threads, Libraries, Listeners, CallBacks
  <1>12. CASE GetRotation
    BY <1>12 DEF GetRotation, TUIGetFoldable, At, Goto, Threads, Libraries, Listeners,
       CallBacks
  <1>13. CASE SetSize
    BY <1>13 DEF SetSize, TUISetPanelInfo, At, Goto, Threads, Libraries, Listeners,
       CallBacks
  <1>14. CASE InitSend
    <2>1. CASE library' = [library EXCEPT !.inited = TRUE] /\ Goto("deal")
      BY <1>14, <2>1 DEF InitSend, SendFold, At, Goto, Threads, Libraries, Listeners, CallBacks
    <2>2. CASE TuiDaemonClear /\ Return
      BY <1>14, <2>2 DEF InitSend, SendFold, At, Goto, TuiDaemonClear, Return, Threads, Libraries, Listeners, CallBacks
    <2> QED
      BY <1>14, <2>1, <2>2 DEF InitSend
  <1>15. CASE DealInit
    BY <1>15 DEF DealInit, Return, Goto, At, Threads, Libraries, Listeners, CallBacks
  <1>16. CASE TUIGetRunningLock
    BY <1>16 DEF TUIGetRunningLock, At, Goto, Threads, Libraries, Listeners, CallBacks
  <1>17. CASE SetStatus
    BY <1>17 DEF SetStatus, At, Goto, Threads, Libraries, Listeners, CallBacks
  <1>18. CASE DealSend
    BY <1>18 DEF DealSend, SendFold, At, Goto, Threads, Libraries, Listeners,
       CallBacks
  <1>19. CASE DealEnd
    BY <1>19 DEF DealEnd, At, Goto, Threads, Libraries, Listeners, CallBacks
  <1>20. CASE EndClear
    BY <1>20 DEF EndClear, Return, Goto, TuiDaemonClear, At, Threads, Libraries,
       Listeners, CallBacks
  <1>21. CASE FoldGetDisplay
    <2>1. CASE onFold' = [onFold EXCEPT !.waiting = @ - 1, !.pc = "status"]
      BY <1>21, <2>1 DEF FoldGetDisplay, Threads, Libraries, Listeners, CallBacks
    <2>2. CASE onFold' = [waiting |-> onFold.waiting - 1, pc |-> "rotate",
                          shot |-> device.fold]
      BY <1>21, <2>2 DEF FoldGetDisplay, Threads, Libraries, Listeners, CallBacks
    <2> QED
      BY <1>21, <2>1, <2>2 DEF FoldGetDisplay
  <1>22. CASE FoldGetRotation
    BY <1>22 DEF FoldGetRotation, TUIGetFoldable, FoldGoto, Threads, Libraries,
       Listeners, CallBacks
  <1>23. CASE FoldSetSize
    BY <1>23 DEF FoldSetSize, TUISetPanelInfo, FoldGoto, Threads, Libraries,
       Listeners, CallBacks
  <1>24. CASE FoldSend
    BY <1>24 DEF FoldSend, SendFold, FoldGoto, Threads, Libraries, Listeners,
       CallBacks
  <1>25. CASE FoldStatus
    BY <1>25 DEF FoldStatus, FoldGoto, Threads, Libraries, Listeners, CallBacks
  <1>26. CASE FoldCancel
    BY <1>26 DEF FoldCancel, SendCancel, FoldGoto, Threads, Libraries, Listeners,
       CallBacks
  <1>27. CASE CallStatus
    BY <1>27 DEF CallStatus, Threads, Libraries, Listeners, CallBacks
  <1>28. CASE CallClearStatus
    BY <1>28 DEF CallClearStatus, Threads, Libraries, Listeners, CallBacks
  <1>29. CASE CallCancel
    BY <1>29 DEF CallCancel, SendCancel, Threads, Libraries, Listeners, CallBacks
  <1>30. CASE FoldDevice
    BY <1>30 DEF FoldDevice, AtRest, At, Threads, Libraries, Listeners, CallBacks
  <1>31. CASE IncomingCall
    BY <1>31 DEF IncomingCall, At, Threads, Libraries, Listeners, CallBacks
  <1> QED
    BY <1>1, <1>2, <1>3, <1>4, <1>5, <1>6, <1>7, <1>8, <1>9, <1>10, <1>11, <1>12,
       <1>13, <1>14, <1>15, <1>16, <1>17, <1>18, <1>19, <1>20, <1>21, <1>22, <1>23,
       <1>24, <1>25, <1>26, <1>27, <1>28, <1>29, <1>30, <1>31 DEF Next

\* The callbacks and the lock belong to an initialised daemon or to its initialisation.
LEMMA HeldNext == HoldInv /\ Next => Held'
  <1> SUFFICES ASSUME HoldInv, Next PROVE Held'
    OBVIOUS
  <1> USE TuiAssumption DEF HoldInv, TypeOK, Loaded, Held, Quiet, Dealing, Registering
  <1>1. CASE BootLoad
    <2>1. CASE Goto("library")
      BY <1>1, <2>1 DEF BootLoad, At, Goto, Threads, Libraries, TUIEvents
    <2>2. CASE BootAgain(FALSE)
      BY <1>1, <2>2, BootAgainThread DEF BootLoad, At, Threads, Libraries, TUIEvents
    <2> QED
      BY <1>1, <2>1, <2>2 DEF BootLoad
  <1>2. CASE TuiDaemonClean
    <2>1. library.inited \in BOOLEAN
      BY DEF Libraries
    <2> QED
      BY <1>2, <2>1, BootAgainThread DEF TuiDaemonClean, At, TuiEventInit, Threads, Libraries, TUIEvents
  <1>3. CASE HandleConfig
    BY <1>3 DEF HandleConfig, Event, At, Threads, Libraries, TUIEvents
  <1>4. CASE HandleUnused
    <2>1. CASE library.loaded /\ thread' = [thread EXCEPT !.pc = "library", !.work = "end"]
      BY <1>4, <2>1 DEF HandleUnused, Event, At, Threads, Libraries, TUIEvents
    <2>2. CASE thread' = thread
      BY <1>4, <2>2 DEF HandleUnused, Event, At, Threads, Libraries, TUIEvents
    <2> QED
      BY <1>4, <2>1, <2>2 DEF HandleUnused
  <1>5. CASE GetEventFails
    BY <1>5 DEF GetEventFails, Event, At, Goto, Threads, Libraries, TUIEvents
  <1>6. CASE NewDaemon
    BY <1>6 DEF NewDaemon, At, Goto, TuiEventInit, NoPanel, Threads, Libraries,
       TUIEvents
  <1>7. CASE TuiRegisteCallBack
    BY <1>7 DEF TuiRegisteCallBack, At, Goto, Threads, Libraries, TUIEvents
  <1>8. CASE TuiRegisteDisplayListener
    BY <1>8 DEF TuiRegisteDisplayListener, At, Goto, Threads, Libraries, TUIEvents
  <1>9. CASE GetDisplay
    BY <1>9 DEF GetDisplay, TuiDaemonClear, At, Threads, Libraries, TUIEvents
  <1>10. CASE PanelFails
    BY <1>10 DEF PanelFails, Return, Goto, TuiDaemonClear, At, Threads, Libraries,
       TUIEvents
  <1>11. CASE DealPanelFails
    BY <1>11 DEF DealPanelFails, At, Goto, Threads, Libraries, TUIEvents
  <1>12. CASE GetRotation
    BY <1>12 DEF GetRotation, TUIGetFoldable, At, Goto, Threads, Libraries, TUIEvents
  <1>13. CASE SetSize
    BY <1>13 DEF SetSize, TUISetPanelInfo, At, Goto, Threads, Libraries, TUIEvents
  <1>14. CASE InitSend
    <2>1. CASE library' = [library EXCEPT !.inited = TRUE] /\ Goto("deal")
      BY <1>14, <2>1 DEF InitSend, SendFold, At, Goto, Threads, Libraries, TUIEvents
    <2>2. CASE TuiDaemonClear /\ Return
      BY <1>14, <2>2 DEF InitSend, SendFold, At, Goto, TuiDaemonClear, Return, Threads, Libraries, TUIEvents
    <2> QED
      BY <1>14, <2>1, <2>2 DEF InitSend
  <1>15. CASE DealInit
    BY <1>15 DEF DealInit, Return, Goto, At, Threads, Libraries, TUIEvents
  <1>16. CASE TUIGetRunningLock
    BY <1>16 DEF TUIGetRunningLock, At, Goto, Threads, Libraries, TUIEvents
  <1>17. CASE SetStatus
    BY <1>17 DEF SetStatus, At, Goto, Threads, Libraries, TUIEvents
  <1>18. CASE DealSend
    BY <1>18 DEF DealSend, SendFold, At, Goto, Threads, Libraries, TUIEvents
  <1>19. CASE DealEnd
    BY <1>19 DEF DealEnd, At, Goto, Threads, Libraries, TUIEvents
  <1>20. CASE EndClear
    BY <1>20 DEF EndClear, Return, Goto, TuiDaemonClear, At, Threads, Libraries,
       TUIEvents
  <1>21. CASE FoldGetDisplay
    <2>1. CASE onFold' = [onFold EXCEPT !.waiting = @ - 1, !.pc = "status"]
      BY <1>21, <2>1 DEF FoldGetDisplay, Threads, Libraries, TUIEvents
    <2>2. CASE onFold' = [waiting |-> onFold.waiting - 1, pc |-> "rotate",
                          shot |-> device.fold]
      BY <1>21, <2>2 DEF FoldGetDisplay, Threads, Libraries, TUIEvents
    <2> QED
      BY <1>21, <2>1, <2>2 DEF FoldGetDisplay
  <1>22. CASE FoldGetRotation
    BY <1>22 DEF FoldGetRotation, TUIGetFoldable, FoldGoto, Threads, Libraries,
       TUIEvents
  <1>23. CASE FoldSetSize
    BY <1>23 DEF FoldSetSize, TUISetPanelInfo, FoldGoto, Threads, Libraries, TUIEvents
  <1>24. CASE FoldSend
    BY <1>24 DEF FoldSend, SendFold, FoldGoto, Threads, Libraries, TUIEvents
  <1>25. CASE FoldStatus
    BY <1>25 DEF FoldStatus, FoldGoto, Threads, Libraries, TUIEvents
  <1>26. CASE FoldCancel
    BY <1>26 DEF FoldCancel, SendCancel, FoldGoto, Threads, Libraries, TUIEvents
  <1>27. CASE CallStatus
    BY <1>27 DEF CallStatus, Threads, Libraries, TUIEvents
  <1>28. CASE CallClearStatus
    BY <1>28 DEF CallClearStatus, Threads, Libraries, TUIEvents
  <1>29. CASE CallCancel
    BY <1>29 DEF CallCancel, SendCancel, Threads, Libraries, TUIEvents
  <1>30. CASE FoldDevice
    BY <1>30 DEF FoldDevice, AtRest, At, Threads, Libraries, TUIEvents
  <1>31. CASE IncomingCall
    BY <1>31 DEF IncomingCall, At, Threads, Libraries, TUIEvents
  <1> QED
    BY <1>1, <1>2, <1>3, <1>4, <1>5, <1>6, <1>7, <1>8, <1>9, <1>10, <1>11, <1>12,
       <1>13, <1>14, <1>15, <1>16, <1>17, <1>18, <1>19, <1>20, <1>21, <1>22, <1>23,
       <1>24, <1>25, <1>26, <1>27, <1>28, <1>29, <1>30, <1>31 DEF Next

\* A TUI that was started keeps the status until a call is about to cancel it.
LEMMA ServedNext == TuiInv /\ Next => Served'
  <1> SUFFICES ASSUME TuiInv, Next PROVE Served'
    OBVIOUS
  <1> USE TuiAssumption DEF TuiInv, HoldInv, TypeOK, Loaded, Quiet, Served, Held
  <1>1. CASE BootLoad
    <2>1. CASE library' = [library EXCEPT !.loaded = TRUE] /\ Goto("library")
      BY <1>1, <2>1 DEF BootLoad, At, Goto, Threads, Libraries, TUIEvents, CallBacks
    <2>2. CASE library' = library /\ BootAgain(FALSE)
      <3>1. ~library'.inited
        BY <1>1 , <2>2 DEF BootLoad, At
      <3> QED
        BY <3>1
    <2> QED
      BY <1>1, <2>1, <2>2 DEF BootLoad
  <1>2. CASE TuiDaemonClean
    <2>1. library.inited \in BOOLEAN
      BY DEF Libraries
    <2> QED
      BY <1>2, <2>1, BootAgainThread DEF TuiDaemonClean, At, TuiEventInit, Threads, Libraries, TUIEvents, CallBacks
  <1>3. CASE HandleConfig
    <2>1. CASE thread' = [thread EXCEPT !.pc = "library", !.work = "start"]
      BY <1>3, <2>1 DEF Threads
    <2>2. CASE ~library.loaded /\ UNCHANGED <<library, thread>>
      <3>1. ~library.inited
        BY <2>2
      <3> QED
        BY <2>2, <3>1
    <2> QED
      BY <1>3, <2>1, <2>2 DEF HandleConfig
  <1>4. CASE HandleUnused
    <2>1. CASE library.loaded /\ thread' = [thread EXCEPT !.pc = "library", !.work = "end"]
      BY <1>4, <2>1 DEF HandleUnused, Event, At, Threads, Libraries, TUIEvents, CallBacks
    <2>2. CASE thread' = thread
      BY <1>4, <2>2 DEF HandleUnused, Event, At, Threads, Libraries, TUIEvents, CallBacks
    <2> QED
      BY <1>4, <2>1, <2>2 DEF HandleUnused
  <1>5. CASE GetEventFails
    BY <1>5 DEF GetEventFails, Event, At, Goto, Threads, Libraries, TUIEvents,
       CallBacks
  <1>6. CASE NewDaemon
    BY <1>6 DEF NewDaemon, At, Goto, TuiEventInit, NoPanel, Threads, Libraries,
       TUIEvents, CallBacks
  <1>7. CASE TuiRegisteCallBack
    BY <1>7 DEF TuiRegisteCallBack, At, Goto, Threads, Libraries, TUIEvents, CallBacks
  <1>8. CASE TuiRegisteDisplayListener
    BY <1>8 DEF TuiRegisteDisplayListener, At, Goto, Threads, Libraries, TUIEvents,
       CallBacks
  <1>9. CASE GetDisplay
    BY <1>9 DEF GetDisplay, TuiDaemonClear, At, Threads, Libraries, TUIEvents,
       CallBacks
  <1>10. CASE PanelFails
    BY <1>10 DEF PanelFails, Return, Goto, TuiDaemonClear, At, Threads, Libraries,
       TUIEvents, CallBacks
  <1>11. CASE DealPanelFails
    BY <1>11 DEF DealPanelFails, At, Goto, Threads, Libraries, TUIEvents, CallBacks
  <1>12. CASE GetRotation
    BY <1>12 DEF GetRotation, TUIGetFoldable, At, Goto, Threads, Libraries, TUIEvents,
       CallBacks
  <1>13. CASE SetSize
    BY <1>13 DEF SetSize, TUISetPanelInfo, At, Goto, Threads, Libraries, TUIEvents,
       CallBacks
  <1>14. CASE InitSend
    <2>1. CASE library' = [library EXCEPT !.inited = TRUE] /\ Goto("deal")
      BY <1>14, <2>1 DEF InitSend, SendFold, At, Goto, Threads, Libraries, TUIEvents, CallBacks
    <2>2. CASE TuiDaemonClear /\ Return
      BY <1>14, <2>2 DEF InitSend, SendFold, At, Goto, TuiDaemonClear, Return, Threads, Libraries, TUIEvents, CallBacks
    <2> QED
      BY <1>14, <2>1, <2>2 DEF InitSend
  <1>15. CASE DealInit
    BY <1>15 DEF DealInit, Return, Goto, At, Threads, Libraries, TUIEvents, CallBacks
  <1>16. CASE TUIGetRunningLock
    BY <1>16 DEF TUIGetRunningLock, At, Goto, Threads, Libraries, TUIEvents, CallBacks
  <1>17. CASE SetStatus
    BY <1>17 DEF SetStatus, At, Goto, Threads, Libraries, TUIEvents, CallBacks
  <1>18. CASE DealSend
    BY <1>18 DEF DealSend, SendFold, At, Goto, Threads, Libraries, TUIEvents,
       CallBacks
  <1>19. CASE DealEnd
    BY <1>19 DEF DealEnd, At, Goto, Threads, Libraries, TUIEvents, CallBacks
  <1>20. CASE EndClear
    BY <1>20 DEF EndClear, Return, Goto, TuiDaemonClear, At, Threads, Libraries,
       TUIEvents, CallBacks
  <1>21. CASE FoldGetDisplay
    <2>1. CASE onFold' = [onFold EXCEPT !.waiting = @ - 1, !.pc = "status"]
      BY <1>21, <2>1 DEF FoldGetDisplay, Threads, Libraries, TUIEvents, CallBacks
    <2>2. CASE onFold' = [waiting |-> onFold.waiting - 1, pc |-> "rotate",
                          shot |-> device.fold]
      BY <1>21, <2>2 DEF FoldGetDisplay, Threads, Libraries, TUIEvents, CallBacks
    <2> QED
      BY <1>21, <2>1, <2>2 DEF FoldGetDisplay
  <1>22. CASE FoldGetRotation
    BY <1>22 DEF FoldGetRotation, TUIGetFoldable, FoldGoto, Threads, Libraries,
       TUIEvents, CallBacks
  <1>23. CASE FoldSetSize
    BY <1>23 DEF FoldSetSize, TUISetPanelInfo, FoldGoto, Threads, Libraries,
       TUIEvents, CallBacks
  <1>24. CASE FoldSend
    BY <1>24 DEF FoldSend, SendFold, FoldGoto, Threads, Libraries, TUIEvents,
       CallBacks
  <1>25. CASE FoldStatus
    BY <1>25 DEF FoldStatus, FoldGoto, Threads, Libraries, TUIEvents, CallBacks
  <1>26. CASE FoldCancel
    BY <1>26 DEF FoldCancel, SendCancel, FoldGoto, Threads, Libraries, TUIEvents,
       CallBacks
  <1>27. CASE CallStatus
    BY <1>27 DEF CallStatus, Threads, Libraries, TUIEvents, CallBacks
  <1>28. CASE CallClearStatus
    BY <1>28 DEF CallClearStatus, Threads, Libraries, TUIEvents, CallBacks
  <1>29. CASE CallCancel
    BY <1>29 DEF CallCancel, SendCancel, Threads, Libraries, TUIEvents, CallBacks
  <1>30. CASE FoldDevice
    BY <1>30 DEF FoldDevice, AtRest, At, Threads, Libraries, TUIEvents, CallBacks
  <1>31. CASE IncomingCall
    BY <1>31 DEF IncomingCall, At, Threads, Libraries, TUIEvents, CallBacks
  <1> QED
    BY <1>1, <1>2, <1>3, <1>4, <1>5, <1>6, <1>7, <1>8, <1>9, <1>10, <1>11, <1>12,
       <1>13, <1>14, <1>15, <1>16, <1>17, <1>18, <1>19, <1>20, <1>21, <1>22, <1>23,
       <1>24, <1>25, <1>26, <1>27, <1>28, <1>29, <1>30, <1>31 DEF Next

\* A call that came in is on its way to the cancel until the TUI is down.
LEMMA RingingNext == TuiInv /\ Next => Ringing'
  <1> SUFFICES ASSUME TuiInv, Next PROVE Ringing'
    OBVIOUS
  <1> USE TuiAssumption DEF TuiInv, HoldInv, TypeOK, Ringing, Served
  <1>1. CASE BootLoad
    <2>1. CASE Goto("library")
      BY <1>1, <2>1 DEF BootLoad, At, Goto, Threads, Libraries, TUIEvents, CallBacks
    <2>2. CASE BootAgain(FALSE)
      BY <1>1, <2>2, BootAgainThread DEF BootLoad, At, Threads, Libraries, TUIEvents, CallBacks
    <2> QED
      BY <1>1, <2>1, <2>2 DEF BootLoad
  <1>2. CASE TuiDaemonClean
    <2>1. library.inited \in BOOLEAN
      BY DEF Libraries
    <2> QED
      BY <1>2, <2>1, BootAgainThread DEF TuiDaemonClean, At, TuiEventInit, Threads, Libraries, TUIEvents, CallBacks
  <1>3. CASE HandleConfig
    BY <1>3 DEF HandleConfig, Event, At, Threads, Libraries, TUIEvents, CallBacks
  <1>4. CASE HandleUnused
    <2>1. CASE library.loaded /\ thread' = [thread EXCEPT !.pc = "library", !.work = "end"]
      BY <1>4, <2>1 DEF HandleUnused, Event, At, Threads, Libraries, TUIEvents, CallBacks
    <2>2. CASE thread' = thread
      BY <1>4, <2>2 DEF HandleUnused, Event, At, Threads, Libraries, TUIEvents, CallBacks
    <2> QED
      BY <1>4, <2>1, <2>2 DEF HandleUnused
  <1>5. CASE GetEventFails
    BY <1>5 DEF GetEventFails, Event, At, Goto, Threads, Libraries, TUIEvents,
       CallBacks
  <1>6. CASE NewDaemon
    BY <1>6 DEF NewDaemon, At, Goto, TuiEventInit, NoPanel, Threads, Libraries,
       TUIEvents, CallBacks
  <1>7. CASE TuiRegisteCallBack
    BY <1>7 DEF TuiRegisteCallBack, At, Goto, Threads, Libraries, TUIEvents, CallBacks
  <1>8. CASE TuiRegisteDisplayListener
    BY <1>8 DEF TuiRegisteDisplayListener, At, Goto, Threads, Libraries, TUIEvents,
       CallBacks
  <1>9. CASE GetDisplay
    BY <1>9 DEF GetDisplay, TuiDaemonClear, At, Threads, Libraries, TUIEvents,
       CallBacks
  <1>10. CASE PanelFails
    BY <1>10 DEF PanelFails, Return, Goto, TuiDaemonClear, At, Threads, Libraries,
       TUIEvents, CallBacks
  <1>11. CASE DealPanelFails
    BY <1>11 DEF DealPanelFails, At, Goto, Threads, Libraries, TUIEvents, CallBacks
  <1>12. CASE GetRotation
    BY <1>12 DEF GetRotation, TUIGetFoldable, At, Goto, Threads, Libraries, TUIEvents,
       CallBacks
  <1>13. CASE SetSize
    BY <1>13 DEF SetSize, TUISetPanelInfo, At, Goto, Threads, Libraries, TUIEvents,
       CallBacks
  <1>14. CASE InitSend
    <2>1. CASE library' = [library EXCEPT !.inited = TRUE] /\ Goto("deal")
      BY <1>14, <2>1 DEF InitSend, SendFold, At, Goto, Threads, Libraries, TUIEvents, CallBacks
    <2>2. CASE TuiDaemonClear /\ Return
      BY <1>14, <2>2 DEF InitSend, SendFold, At, Goto, TuiDaemonClear, Return, Threads, Libraries, TUIEvents, CallBacks
    <2> QED
      BY <1>14, <2>1, <2>2 DEF InitSend
  <1>15. CASE DealInit
    BY <1>15 DEF DealInit, Return, Goto, At, Threads, Libraries, TUIEvents, CallBacks
  <1>16. CASE TUIGetRunningLock
    BY <1>16 DEF TUIGetRunningLock, At, Goto, Threads, Libraries, TUIEvents, CallBacks
  <1>17. CASE SetStatus
    BY <1>17 DEF SetStatus, At, Goto, Threads, Libraries, TUIEvents, CallBacks
  <1>18. CASE DealSend
    BY <1>18 DEF DealSend, SendFold, At, Goto, Threads, Libraries, TUIEvents,
       CallBacks
  <1>19. CASE DealEnd
    BY <1>19 DEF DealEnd, At, Goto, Threads, Libraries, TUIEvents, CallBacks
  <1>20. CASE EndClear
    BY <1>20 DEF EndClear, Return, Goto, TuiDaemonClear, At, Threads, Libraries,
       TUIEvents, CallBacks
  <1>21. CASE FoldGetDisplay
    <2>1. CASE onFold' = [onFold EXCEPT !.waiting = @ - 1, !.pc = "status"]
      BY <1>21, <2>1 DEF FoldGetDisplay, Threads, Libraries, TUIEvents, CallBacks
    <2>2. CASE onFold' = [waiting |-> onFold.waiting - 1, pc |-> "rotate",
                          shot |-> device.fold]
      BY <1>21, <2>2 DEF FoldGetDisplay, Threads, Libraries, TUIEvents, CallBacks
    <2> QED
      BY <1>21, <2>1, <2>2 DEF FoldGetDisplay
  <1>22. CASE FoldGetRotation
    BY <1>22 DEF FoldGetRotation, TUIGetFoldable, FoldGoto, Threads, Libraries,
       TUIEvents, CallBacks
  <1>23. CASE FoldSetSize
    BY <1>23 DEF FoldSetSize, TUISetPanelInfo, FoldGoto, Threads, Libraries,
       TUIEvents, CallBacks
  <1>24. CASE FoldSend
    BY <1>24 DEF FoldSend, SendFold, FoldGoto, Threads, Libraries, TUIEvents,
       CallBacks
  <1>25. CASE FoldStatus
    BY <1>25 DEF FoldStatus, FoldGoto, Threads, Libraries, TUIEvents, CallBacks
  <1>26. CASE FoldCancel
    BY <1>26 DEF FoldCancel, SendCancel, FoldGoto, Threads, Libraries, TUIEvents,
       CallBacks
  <1>27. CASE CallStatus
    BY <1>27 DEF CallStatus, Serving, At, Threads, Libraries, TUIEvents, CallBacks
  <1>28. CASE CallClearStatus
    BY <1>28 DEF CallClearStatus, Threads, Libraries, TUIEvents, CallBacks
  <1>29. CASE CallCancel
    BY <1>29 DEF CallCancel, SendCancel, Threads, Libraries, TUIEvents, CallBacks
  <1>30. CASE FoldDevice
    BY <1>30 DEF FoldDevice, AtRest, At, Threads, Libraries, TUIEvents, CallBacks
  <1>31. CASE IncomingCall
    BY <1>31 DEF IncomingCall, At, Threads, Libraries, TUIEvents, CallBacks
  <1> QED
    BY <1>1, <1>2, <1>3, <1>4, <1>5, <1>6, <1>7, <1>8, <1>9, <1>10, <1>11, <1>12,
       <1>13, <1>14, <1>15, <1>16, <1>17, <1>18, <1>19, <1>20, <1>21, <1>22, <1>23,
       <1>24, <1>25, <1>26, <1>27, <1>28, <1>29, <1>30, <1>31 DEF Next

\* Without a race the display objects on their way show the present fold state.
LEMMA ShotsNext == TuiInv /\ Next => Shots'
  <1> SUFFICES ASSUME TuiInv, Next PROVE Shots'
    OBVIOUS
  <1> USE TuiAssumption DEF TuiInv, HoldInv, TypeOK, Shots
  <1>1. CASE BootLoad
    <2>1. CASE Goto("library")
      BY <1>1, <2>1 DEF BootLoad, At, Goto, Threads, Listeners, Devices
    <2>2. CASE BootAgain(FALSE)
      BY <1>1, <2>2, BootAgainThread DEF BootLoad, At, Threads, Listeners, Devices
    <2> QED
      BY <1>1, <2>1, <2>2 DEF BootLoad
  <1>2. CASE TuiDaemonClean
    <2>1. library.inited \in BOOLEAN
      BY DEF Libraries
    <2> QED
      BY <1>2, <2>1, BootAgainThread DEF TuiDaemonClean, At, TuiEventInit, Threads, Listeners, Devices
  <1>3. CASE HandleConfig
    BY <1>3 DEF HandleConfig, Event, At, Threads, Listeners, Devices
  <1>4. CASE HandleUnused
    <2>1. CASE library.loaded /\ thread' = [thread EXCEPT !.pc = "library", !.work = "end"]
      BY <1>4, <2>1 DEF HandleUnused, Event, At, Threads, Listeners, Devices
    <2>2. CASE thread' = thread
      BY <1>4, <2>2 DEF HandleUnused, Event, At, Threads, Listeners, Devices
    <2> QED
      BY <1>4, <2>1, <2>2 DEF HandleUnused
  <1>5. CASE GetEventFails
    BY <1>5 DEF GetEventFails, Event, At, Goto, Threads, Listeners, Devices
  <1>6. CASE NewDaemon
    BY <1>6 DEF NewDaemon, At, Goto, TuiEventInit, NoPanel, Threads, Listeners,
       Devices
  <1>7. CASE TuiRegisteCallBack
    BY <1>7 DEF TuiRegisteCallBack, At, Goto, Threads, Listeners, Devices
  <1>8. CASE TuiRegisteDisplayListener
    BY <1>8 DEF TuiRegisteDisplayListener, At, Goto, Threads, Listeners, Devices
  <1>9. CASE GetDisplay
    BY <1>9 DEF GetDisplay, TuiDaemonClear, At, Threads, Listeners, Devices
  <1>10. CASE PanelFails
    BY <1>10 DEF PanelFails, Return, Goto, TuiDaemonClear, At, Threads, Listeners,
       Devices
  <1>11. CASE DealPanelFails
    BY <1>11 DEF DealPanelFails, At, Goto, Threads, Listeners, Devices
  <1>12. CASE GetRotation
    BY <1>12 DEF GetRotation, TUIGetFoldable, At, Goto, Threads, Listeners, Devices
  <1>13. CASE SetSize
    BY <1>13 DEF SetSize, TUISetPanelInfo, At, Goto, Threads, Listeners, Devices
  <1>14. CASE InitSend
    <2>1. CASE library' = [library EXCEPT !.inited = TRUE] /\ Goto("deal")
      BY <1>14, <2>1 DEF InitSend, SendFold, At, Goto, Threads, Listeners, Devices
    <2>2. CASE TuiDaemonClear /\ Return
      BY <1>14, <2>2 DEF InitSend, SendFold, At, Goto, TuiDaemonClear, Return, Threads, Listeners, Devices
    <2> QED
      BY <1>14, <2>1, <2>2 DEF InitSend
  <1>15. CASE DealInit
    BY <1>15 DEF DealInit, Return, Goto, At, Threads, Listeners, Devices
  <1>16. CASE TUIGetRunningLock
    BY <1>16 DEF TUIGetRunningLock, At, Goto, Threads, Listeners, Devices
  <1>17. CASE SetStatus
    BY <1>17 DEF SetStatus, At, Goto, Threads, Listeners, Devices
  <1>18. CASE DealSend
    BY <1>18 DEF DealSend, SendFold, At, Goto, Threads, Listeners, Devices
  <1>19. CASE DealEnd
    BY <1>19 DEF DealEnd, At, Goto, Threads, Listeners, Devices
  <1>20. CASE EndClear
    BY <1>20 DEF EndClear, Return, Goto, TuiDaemonClear, At, Threads, Listeners,
       Devices
  <1>21. CASE FoldGetDisplay
    <2>1. CASE onFold' = [onFold EXCEPT !.waiting = @ - 1, !.pc = "status"]
      BY <1>21, <2>1 DEF FoldGetDisplay, Threads, Listeners, Devices
    <2>2. CASE onFold' = [waiting |-> onFold.waiting - 1, pc |-> "rotate",
                          shot |-> device.fold]
      BY <1>21, <2>2 DEF FoldGetDisplay, Threads, Listeners, Devices
    <2> QED
      BY <1>21, <2>1, <2>2 DEF FoldGetDisplay
  <1>22. CASE FoldGetRotation
    BY <1>22 DEF FoldGetRotation, TUIGetFoldable, FoldGoto, Threads, Listeners,
       Devices
  <1>23. CASE FoldSetSize
    BY <1>23 DEF FoldSetSize, TUISetPanelInfo, FoldGoto, Threads, Listeners, Devices
  <1>24. CASE FoldSend
    BY <1>24 DEF FoldSend, SendFold, FoldGoto, Threads, Listeners, Devices
  <1>25. CASE FoldStatus
    BY <1>25 DEF FoldStatus, FoldGoto, Threads, Listeners, Devices
  <1>26. CASE FoldCancel
    BY <1>26 DEF FoldCancel, SendCancel, FoldGoto, Threads, Listeners, Devices
  <1>27. CASE CallStatus
    BY <1>27 DEF CallStatus, Threads, Listeners, Devices
  <1>28. CASE CallClearStatus
    BY <1>28 DEF CallClearStatus, Threads, Listeners, Devices
  <1>29. CASE CallCancel
    BY <1>29 DEF CallCancel, SendCancel, Threads, Listeners, Devices
  <1>30. CASE FoldDevice
    BY <1>30 DEF FoldDevice, AtRest, At, Threads, Listeners, Devices
  <1>31. CASE IncomingCall
    BY <1>31 DEF IncomingCall, At, Threads, Listeners, Devices
  <1> QED
    BY <1>1, <1>2, <1>3, <1>4, <1>5, <1>6, <1>7, <1>8, <1>9, <1>10, <1>11, <1>12,
       <1>13, <1>14, <1>15, <1>16, <1>17, <1>18, <1>19, <1>20, <1>21, <1>22, <1>23,
       <1>24, <1>25, <1>26, <1>27, <1>28, <1>29, <1>30, <1>31 DEF Next

\* Without a race the panel a START has read is the present one.
LEMMA ReadNext == TuiInv /\ Next => Read'
  <1> SUFFICES ASSUME TuiInv, Next PROVE Read'
    OBVIOUS
  <1> USE TuiAssumption DEF TuiInv, HoldInv, TypeOK, Read, Shots, Present
  <1>1. CASE BootLoad
    <2>1. CASE Goto("library")
      BY <1>1, <2>1 DEF BootLoad, At, Goto, Threads, TUIEvents, Listeners, Devices, Panel
    <2>2. CASE BootAgain(FALSE)
      BY <1>1, <2>2, BootAgainThread DEF BootLoad, At, Threads, TUIEvents, Listeners, Devices, Panel
    <2> QED
      BY <1>1, <2>1, <2>2 DEF BootLoad
  <1>2. CASE TuiDaemonClean
    <2>1. library.inited \in BOOLEAN
      BY DEF Libraries
    <2> QED
      BY <1>2, <2>1, BootAgainThread DEF TuiDaemonClean, At, TuiEventInit, Threads, TUIEvents, Listeners, Devices, Panel
  <1>3. CASE HandleConfig
    BY <1>3 DEF HandleConfig, Event, At, Threads, TUIEvents, Listeners, Devices, Panel
  <1>4. CASE HandleUnused
    <2>1. CASE library.loaded /\ thread' = [thread EXCEPT !.pc = "library", !.work = "end"]
      BY <1>4, <2>1 DEF HandleUnused, Event, At, Threads, TUIEvents, Listeners, Devices, Panel
    <2>2. CASE thread' = thread
      BY <1>4, <2>2 DEF HandleUnused, Event, At, Threads, TUIEvents, Listeners, Devices, Panel
    <2> QED
      BY <1>4, <2>1, <2>2 DEF HandleUnused
  <1>5. CASE GetEventFails
    BY <1>5 DEF GetEventFails, Event, At, Goto, Threads, TUIEvents, Listeners,
       Devices, Panel
  <1>6. CASE NewDaemon
    BY <1>6 DEF NewDaemon, At, Goto, TuiEventInit, NoPanel, Threads, TUIEvents,
       Listeners, Devices, Panel
  <1>7. CASE TuiRegisteCallBack
    BY <1>7 DEF TuiRegisteCallBack, At, Goto, Threads, TUIEvents, Listeners, Devices,
       Panel
  <1>8. CASE TuiRegisteDisplayListener
    BY <1>8 DEF TuiRegisteDisplayListener, At, Goto, Threads, TUIEvents, Listeners,
       Devices, Panel
  <1>9. CASE GetDisplay
    BY <1>9 DEF GetDisplay, TuiDaemonClear, At, Threads, TUIEvents, Listeners,
       Devices, Panel
  <1>10. CASE PanelFails
    BY <1>10 DEF PanelFails, Return, Goto, TuiDaemonClear, At, Threads, TUIEvents,
       Listeners, Devices, Panel
  <1>11. CASE DealPanelFails
    BY <1>11 DEF DealPanelFails, At, Goto, Threads, TUIEvents, Listeners, Devices,
       Panel
  <1>12. CASE GetRotation
    BY <1>12 DEF GetRotation, TUIGetFoldable, At, Goto, Threads, TUIEvents, Listeners,
       Devices, Panel
  <1>13. CASE SetSize
    BY <1>13 DEF SetSize, TUISetPanelInfo, At, Goto, Threads, TUIEvents, Listeners,
       Devices, Panel
  <1>14. CASE InitSend
    <2>1. CASE library' = [library EXCEPT !.inited = TRUE] /\ Goto("deal")
      BY <1>14, <2>1 DEF InitSend, SendFold, At, Goto, Threads, TUIEvents, Listeners, Devices, Panel
    <2>2. CASE TuiDaemonClear /\ Return
      BY <1>14, <2>2 DEF InitSend, SendFold, At, Goto, TuiDaemonClear, Return, Threads, TUIEvents, Listeners, Devices, Panel
    <2> QED
      BY <1>14, <2>1, <2>2 DEF InitSend
  <1>15. CASE DealInit
    BY <1>15 DEF DealInit, Return, Goto, At, Threads, TUIEvents, Listeners, Devices,
       Panel
  <1>16. CASE TUIGetRunningLock
    BY <1>16 DEF TUIGetRunningLock, At, Goto, Threads, TUIEvents, Listeners, Devices,
       Panel
  <1>17. CASE SetStatus
    BY <1>17 DEF SetStatus, At, Goto, Threads, TUIEvents, Listeners, Devices, Panel
  <1>18. CASE DealSend
    BY <1>18 DEF DealSend, SendFold, At, Goto, Threads, TUIEvents, Listeners, Devices,
       Panel
  <1>19. CASE DealEnd
    BY <1>19 DEF DealEnd, At, Goto, Threads, TUIEvents, Listeners, Devices, Panel
  <1>20. CASE EndClear
    BY <1>20 DEF EndClear, Return, Goto, TuiDaemonClear, At, Threads, TUIEvents,
       Listeners, Devices, Panel
  <1>21. CASE FoldGetDisplay
    <2>1. CASE onFold' = [onFold EXCEPT !.waiting = @ - 1, !.pc = "status"]
      BY <1>21, <2>1 DEF FoldGetDisplay, Threads, TUIEvents, Listeners, Devices, Panel
    <2>2. CASE onFold' = [waiting |-> onFold.waiting - 1, pc |-> "rotate",
                          shot |-> device.fold]
      BY <1>21, <2>2 DEF FoldGetDisplay, Threads, TUIEvents, Listeners, Devices, Panel
    <2> QED
      BY <1>21, <2>1, <2>2 DEF FoldGetDisplay
  <1>22. CASE FoldGetRotation
    BY <1>22 DEF FoldGetRotation, TUIGetFoldable, FoldGoto, Threads, TUIEvents,
       Listeners, Devices, Panel
  <1>23. CASE FoldSetSize
    BY <1>23 DEF FoldSetSize, TUISetPanelInfo, FoldGoto, Threads, TUIEvents,
       Listeners, Devices, Panel
  <1>24. CASE FoldSend
    BY <1>24 DEF FoldSend, SendFold, FoldGoto, Threads, TUIEvents, Listeners, Devices,
       Panel
  <1>25. CASE FoldStatus
    BY <1>25 DEF FoldStatus, FoldGoto, Threads, TUIEvents, Listeners, Devices, Panel
  <1>26. CASE FoldCancel
    BY <1>26 DEF FoldCancel, SendCancel, FoldGoto, Threads, TUIEvents, Listeners,
       Devices, Panel
  <1>27. CASE CallStatus
    BY <1>27 DEF CallStatus, Threads, TUIEvents, Listeners, Devices, Panel
  <1>28. CASE CallClearStatus
    BY <1>28 DEF CallClearStatus, Threads, TUIEvents, Listeners, Devices, Panel
  <1>29. CASE CallCancel
    BY <1>29 DEF CallCancel, SendCancel, Threads, TUIEvents, Listeners, Devices, Panel
  <1>30. CASE FoldDevice
    BY <1>30 DEF FoldDevice, AtRest, At, Threads, TUIEvents, Listeners, Devices, Panel
  <1>31. CASE IncomingCall
    BY <1>31 DEF IncomingCall, At, Threads, TUIEvents, Listeners, Devices, Panel
  <1> QED
    BY <1>1, <1>2, <1>3, <1>4, <1>5, <1>6, <1>7, <1>8, <1>9, <1>10, <1>11, <1>12,
       <1>13, <1>14, <1>15, <1>16, <1>17, <1>18, <1>19, <1>20, <1>21, <1>22, <1>23,
       <1>24, <1>25, <1>26, <1>27, <1>28, <1>29, <1>30, <1>31 DEF Next

\* A TUI that is behind the device has a listener on its way to it.
LEMMA FollowingNext == TuiInv /\ Next => Following'
  <1> SUFFICES ASSUME TuiInv, Next PROVE Following'
    OBVIOUS
  <1> USE TuiAssumption DEF TuiInv, HoldInv, TypeOK, Loaded, Quiet, Served, Held,
     Read, Shots, Following, Present
  <1>1. CASE BootLoad
    <2>1. CASE Goto("library")
      BY <1>1, <2>1 DEF BootLoad, At, Goto, Threads, Libraries, TUIEvents, Listeners, CallBacks, Devices, Panel
    <2>2. CASE BootAgain(FALSE)
      BY <1>1, <2>2, BootAgainThread DEF BootLoad, At, Threads, Libraries, TUIEvents, Listeners, CallBacks, Devices, Panel
    <2> QED
      BY <1>1, <2>1, <2>2 DEF BootLoad
  <1>2. CASE TuiDaemonClean
    <2>1. library.inited \in BOOLEAN
      BY DEF Libraries
    <2> QED
      BY <1>2, <2>1, BootAgainThread DEF TuiDaemonClean, At, TuiEventInit, Threads, Libraries, TUIEvents, Listeners, CallBacks, Devices, Panel
  <1>3. CASE HandleConfig
    BY <1>3 DEF HandleConfig, Event, At, Threads, Libraries, TUIEvents, Listeners,
       CallBacks, Devices, Panel
  <1>4. CASE HandleUnused
    <2>1. CASE library.loaded /\ thread' = [thread EXCEPT !.pc = "library", !.work = "end"]
      BY <1>4, <2>1 DEF HandleUnused, Event, At, Threads, Libraries, TUIEvents, Listeners, CallBacks, Devices, Panel
    <2>2. CASE thread' = thread
      BY <1>4, <2>2 DEF HandleUnused, Event, At, Threads, Libraries, TUIEvents, Listeners, CallBacks, Devices, Panel
    <2> QED
      BY <1>4, <2>1, <2>2 DEF HandleUnused
  <1>5. CASE GetEventFails
    BY <1>5 DEF GetEventFails, Event, At, Goto, Threads, Libraries, TUIEvents,
       Listeners, CallBacks, Devices, Panel
  <1>6. CASE NewDaemon
    BY <1>6 DEF NewDaemon, At, Goto, TuiEventInit, NoPanel, Threads, Libraries,
       TUIEvents, Listeners, CallBacks, Devices, Panel
  <1>7. CASE TuiRegisteCallBack
    BY <1>7 DEF TuiRegisteCallBack, At, Goto, Threads, Libraries, TUIEvents,
       Listeners, CallBacks, Devices, Panel
  <1>8. CASE TuiRegisteDisplayListener
    BY <1>8 DEF TuiRegisteDisplayListener, At, Goto, Threads, Libraries, TUIEvents,
       Listeners, CallBacks, Devices, Panel
  <1>9. CASE GetDisplay
    BY <1>9 DEF GetDisplay, TuiDaemonClear, At, Threads, Libraries, TUIEvents,
       Listeners, CallBacks, Devices, Panel
  <1>10. CASE PanelFails
    BY <1>10 DEF PanelFails, Return, Goto, TuiDaemonClear, At, Threads, Libraries,
       TUIEvents, Listeners, CallBacks, Devices, Panel
  <1>11. CASE DealPanelFails
    BY <1>11 DEF DealPanelFails, At, Goto, Threads, Libraries, TUIEvents, Listeners,
       CallBacks, Devices, Panel
  <1>12. CASE GetRotation
    BY <1>12 DEF GetRotation, TUIGetFoldable, At, Goto, Threads, Libraries, TUIEvents,
       Listeners, CallBacks, Devices, Panel
  <1>13. CASE SetSize
    BY <1>13 DEF SetSize, TUISetPanelInfo, At, Goto, Threads, Libraries, TUIEvents,
       Listeners, CallBacks, Devices, Panel
  <1>14. CASE InitSend
    <2>1. CASE library' = [library EXCEPT !.inited = TRUE] /\ Goto("deal")
      BY <1>14, <2>1 DEF InitSend, SendFold, At, Goto, Threads, Libraries, TUIEvents, Listeners, CallBacks, Devices, Panel
    <2>2. CASE TuiDaemonClear /\ Return
      BY <1>14, <2>2 DEF InitSend, SendFold, At, Goto, TuiDaemonClear, Return, Threads, Libraries, TUIEvents, Listeners, CallBacks, Devices, Panel
    <2> QED
      BY <1>14, <2>1, <2>2 DEF InitSend
  <1>15. CASE DealInit
    BY <1>15 DEF DealInit, Return, Goto, At, Threads, Libraries, TUIEvents, Listeners,
       CallBacks, Devices, Panel
  <1>16. CASE TUIGetRunningLock
    BY <1>16 DEF TUIGetRunningLock, At, Goto, Threads, Libraries, TUIEvents,
       Listeners, CallBacks, Devices, Panel
  <1>17. CASE SetStatus
    BY <1>17 DEF SetStatus, At, Goto, Threads, Libraries, TUIEvents, Listeners,
       CallBacks, Devices, Panel
  <1>18. CASE DealSend
    BY <1>18 DEF DealSend, SendFold, At, Goto, Threads, Libraries, TUIEvents,
       Listeners, CallBacks, Devices, Panel
  <1>19. CASE DealEnd
    BY <1>19 DEF DealEnd, At, Goto, Threads, Libraries, TUIEvents, Listeners,
       CallBacks, Devices, Panel
  <1>20. CASE EndClear
    BY <1>20 DEF EndClear, Return, Goto, TuiDaemonClear, At, Threads, Libraries,
       TUIEvents, Listeners, CallBacks, Devices, Panel
  <1>21. CASE FoldGetDisplay
    <2>1. CASE onFold' = [onFold EXCEPT !.waiting = @ - 1, !.pc = "status"]
      BY <1>21, <2>1 DEF FoldGetDisplay, Threads, Libraries, TUIEvents, Listeners, CallBacks, Devices, Panel
    <2>2. CASE onFold' = [waiting |-> onFold.waiting - 1, pc |-> "rotate",
                          shot |-> device.fold]
      BY <1>21, <2>2 DEF FoldGetDisplay, Threads, Libraries, TUIEvents, Listeners, CallBacks, Devices, Panel
    <2> QED
      BY <1>21, <2>1, <2>2 DEF FoldGetDisplay
  <1>22. CASE FoldGetRotation
    BY <1>22 DEF FoldGetRotation, TUIGetFoldable, FoldGoto, Threads, Libraries,
       TUIEvents, Listeners, CallBacks, Devices, Panel
  <1>23. CASE FoldSetSize
    BY <1>23 DEF FoldSetSize, TUISetPanelInfo, FoldGoto, Threads, Libraries,
       TUIEvents, Listeners, CallBacks, Devices, Panel
  <1>24. CASE FoldSend
    BY <1>24 DEF FoldSend, SendFold, FoldGoto, Threads, Libraries, TUIEvents,
       Listeners, CallBacks, Devices, Panel
  <1>25. CASE FoldStatus
    BY <1>25 DEF FoldStatus, FoldGoto, Held, Registering, Threads, Libraries, TUIEvents, Listeners,
       CallBacks, Devices, Panel
  <1>26. CASE FoldCancel
    BY <1>26 DEF FoldCancel, SendCancel, FoldGoto, Threads, Libraries, TUIEvents,
       Listeners, CallBacks, Devices, Panel
  <1>27. CASE CallStatus
    BY <1>27 DEF CallStatus, Threads, Libraries, TUIEvents, Listeners, CallBacks,
       Devices, Panel
  <1>28. CASE CallClearStatus
    BY <1>28 DEF CallClearStatus, Threads, Libraries, TUIEvents, Listeners, CallBacks,
       Devices, Panel
  <1>29. CASE CallCancel
    BY <1>29 DEF CallCancel, SendCancel, Threads, Libraries, TUIEvents, Listeners,
       CallBacks, Devices, Panel
  <1>30. CASE FoldDevice
    BY <1>30 DEF FoldDevice, AtRest, At, Threads, Libraries, TUIEvents, Listeners,
       CallBacks, Devices, Panel
  <1>31. CASE IncomingCall
    BY <1>31 DEF IncomingCall, At, Threads, Libraries, TUIEvents, Listeners,
       CallBacks, Devices, Panel
  <1> QED
    BY <1>1, <1>2, <1>3, <1>4, <1>5, <1>6, <1>7, <1>8, <1>9, <1>10, <1>11, <1>12,
       <1>13, <1>14, <1>15, <1>16, <1>17, <1>18, <1>19, <1>20, <1>21, <1>22, <1>23,
       <1>24, <1>25, <1>26, <1>27, <1>28, <1>29, <1>30, <1>31 DEF Next

--------------------------------------------------------------------------------
\* The invariant holds initially.
LEMMA TuiInvInit == Init => TuiInv
  <1> SUFFICES ASSUME Init PROVE TuiInv
    OBVIOUS
  <1> USE TuiAssumption DEF Init, TuiEventInit, NoPanel
  <1>1. TypeOK
    BY DEF TypeOK, Threads, Libraries, TUIEvents, Listeners, CallBacks, Devices,
       Panel, Fold
  <1>2. Counted /\ Loaded /\ Held
    BY DEF Counted, Booting, Loaded, Quiet, Held, Dealing, Registering
  <1>3. Served /\ Ringing /\ Shots /\ Read /\ Following
    BY DEF Served, Ringing, Shots, Read, Following
  <1> QED
    BY <1>1, <1>2, <1>3 DEF TuiInv, HoldInv

\* No step breaks it.
LEMMA TuiInvNext == TuiInv /\ [Next]_vars => TuiInv'
  <1> SUFFICES ASSUME TuiInv, [Next]_vars PROVE TuiInv'
    OBVIOUS
  <1>1. CASE Next
    <2>1. HoldInv'
      BY <1>1, TypeOKNext, CountedNext, LoadedNext, HeldNext DEF TuiInv, HoldInv
    <2> QED
      BY <1>1, <2>1, ServedNext, RingingNext, ShotsNext, ReadNext, FollowingNext DEF TuiInv
  <1>2. CASE UNCHANGED vars
    BY <1>2 DEF vars, TuiInv, HoldInv, TypeOK, Counted, Booting, Loaded, Quiet, Held,
       Served, Ringing, Shots, Read, Following, Present
  <1> QED
    BY <1>1, <1>2

LEMMA TuiInvAlways == Spec => []TuiInv
  <1> QED
    BY TuiInvInit, TuiInvNext, PTL DEF Spec

(***************************************************************************)
(* The state of the TUI daemon keeps its types.                            *)
(***************************************************************************)
THEOREM TypeCorrect == Spec => []TypeOK
  <1>1. TuiInv => TypeOK
    BY DEF TuiInv, HoldInv
  <1> QED
    BY <1>1, TuiInvAlways, PTL

(***************************************************************************)
(* Every exit of TuiDaemonInit and of TUIDealWithEvent that leaves no      *)
(* daemon has released the running lock and both callbacks.                *)
(***************************************************************************)
THEOREM HeldOnlyWhenInited == Spec => []NothingHeldIdle
  <1>1. TuiInv => NothingHeldIdle
    BY DEF TuiInv, HoldInv, Held, Registering, NothingHeldIdle, At
  <1> QED
    BY <1>1, TuiInvAlways, PTL

(***************************************************************************)
(* The library is never unloaded while a service may call into it.         *)
(***************************************************************************)
THEOREM UnloadedWithoutCallbacks == Spec => []UnloadedQuiet
  <1>1. TuiInv => UnloadedQuiet
    BY DEF TuiInv, HoldInv, Loaded, Quiet, UnloadedQuiet
  <1> QED
    BY <1>1, TuiInvAlways, PTL

(***************************************************************************)
(* A call that comes in while a TUI is served ends it, whatever the        *)
(* listener and the TUI thread do with the status in between.              *)
(***************************************************************************)
THEOREM IncomingCallEndsTui == Spec => []CallEndsTui
  <1>1. TuiInv => CallEndsTui
    BY DEF TuiInv, HoldInv, TypeOK, CallBacks, Ringing, CallEndsTui, AtRest, At
  <1> QED
    BY <1>1, TuiInvAlways, PTL

(***************************************************************************)
(* A TUI that is up when the daemon is at rest shows the panel the device  *)
(* has now, if every fold found the daemon at rest.                        *)
(***************************************************************************)
THEOREM PanelFollowsFold == Spec => []PanelCurrent
  <1>1. TuiInv => PanelCurrent
    BY DEF TuiInv, HoldInv, TypeOK, Listeners, Following, Present, PanelCurrent, AtRest, At
  <1> QED
    BY <1>1, TuiInvAlways, PTL

================================================================================
