------------------------------- MODULE TuiDaemon -------------------------------
(***************************************************************************)
(* The trusted user interface of cadaemon.  A thread of cadaemon           *)
(* (tee_tui_daemon_wrapper.cpp) reads the state of the TUI from the kernel *)
(* and loads a library (tee_tui_daemon.cpp, tui_event.cpp) to serve it: at *)
(* a start the library keeps the screen on, reads the panel from the       *)
(* display service and sends it to the TEE; at an end it lets go of        *)
(* everything.  In between, the display and the telephony service call it  *)
(* back on threads of their own, when the device is folded and when a call *)
(* comes in, and both callbacks use the fields of the TUI thread without a *)
(* lock.                                                                   *)
(*                                                                         *)
(* The panel is abstracted to two values of different origin: foldState is *)
(* asked from the service at the moment it is stored (TUIGetFoldable), the *)
(* size comes from the display object fetched at the beginning of          *)
(* TUIGetPannelInfo.  Every access to a shared field is a step.            *)
(***************************************************************************)
EXTENDS Naturals

CONSTANTS
    InitRetries,    \* TUI_INIT_RETRY_TIMES
    MaxFolds,       \* how often the device is folded or unfolded
    MaxCalls,       \* how many calls come in
    MaxEvents       \* how many states the kernel reports

ASSUME TuiAssumption ==
    {InitRetries, MaxFolds, MaxCalls, MaxEvents} \subseteq Nat

VARIABLES
    thread,     \* the TUI thread: where it is, what it was asked, its display
    library,    \* libcadaemon_tui.so: loaded, initialised, its callbacks registered
    event,      \* the TUIEvent: status, panel, running lock
    onFold,     \* the display listener: calls waiting, the one that runs
    onCall,     \* the telephony callback
    device,     \* the device's fold state; folds, calls and events so far
    tee,        \* the TUI in the TEE: whether it is up, the panel it was sent
    history     \* what the properties have to know of the past

vars == <<thread, library, event, onFold, onCall, device, tee, history>>

Fold == {0, 1}
Panel == [foldState : Fold, size : Fold]
NoPanel == [foldState |-> 0, size |-> 0]

(***************************************************************************)
(* A TUIEvent after TuiEventInit.  The device starts in the fold state     *)
(* that an empty panel does not have.                                      *)
(***************************************************************************)
TuiEventInit == [status |-> FALSE, panel |-> NoPanel, lock |-> FALSE]

Init ==
    /\ thread = [pc |-> "boot", work |-> "init", tries |-> 0, shot |-> 0]
    /\ library = [loaded |-> FALSE, inited |-> FALSE, call |-> FALSE, listener |-> FALSE]
    /\ event = TuiEventInit
    /\ onFold = [waiting |-> 0, pc |-> "idle", shot |-> 0]
    /\ onCall = [waiting |-> 0, pc |-> "idle"]
    /\ device = [fold |-> 1, folds |-> 0, calls |-> 0, events |-> 0]
    /\ tee = [up |-> FALSE, panel |-> NoPanel]
    /\ history = [raced |-> FALSE, failed |-> FALSE, rang |-> FALSE]

At(pc) == thread.pc = pc
Goto(pc) == thread' = [thread EXCEPT !.pc = pc]
AtRest == At("event") /\ onFold.waiting = 0 /\ onFold.pc = "idle"
                      /\ onCall.waiting = 0 /\ onCall.pc = "idle"

--------------------------------------------------------------------------------
(***************************************************************************)
(* TUISendCmd copies the panel and sends it, or a cancel, to the TEE with  *)
(* an ioctl that may fail.  The hash of the font that goes with it until   *)
(* it has been accepted once is left out.                                  *)
(***************************************************************************)
SendFold(ok) ==
    /\ tee' = IF ok THEN [tee EXCEPT !.panel = event.panel] ELSE tee
    /\ history' = [history EXCEPT !.failed = @ \/ ~ok]

SendCancel(ok) ==
    /\ tee' = IF ok THEN [tee EXCEPT !.up = FALSE] ELSE tee
    /\ history' = [history EXCEPT !.failed = @ \/ ~ok]

(***************************************************************************)
(* TUIGetPannelInfo after the display was fetched: TUIGetRotation with     *)
(* TUIGetFoldable, then TUISetPanelInfo.                                   *)
(***************************************************************************)
TUIGetFoldable == event' = [event EXCEPT !.panel.foldState = device.fold]
TUISetPanelInfo(shot) == event' = [event EXCEPT !.panel.size = shot]

--------------------------------------------------------------------------------
(***************************************************************************)
(* The wrapper.  TeeTuiThreadWork first loads the library to have the      *)
(* panel sent once, unloads it, and tries again, a limited number of       *)
(* times, when that failed; then it waits for events.                      *)
(***************************************************************************)
BootAgain(success) ==
    LET again == ~success /\ thread.tries < InitRetries
    IN  thread' = [thread EXCEPT !.pc = IF again THEN "boot" ELSE "event",
                                 !.tries = IF success THEN @ ELSE @ + 1]

BootLoad ==
    /\ At("boot")
    /\ \/ library' = [library EXCEPT !.loaded = TRUE] /\ Goto("library")
       \/ library' = library /\ BootAgain(FALSE)
    /\ UNCHANGED <<event, onFold, onCall, device, tee, history>>

TuiDaemonClean ==
    /\ At("clean")
    /\ library' = [library EXCEPT !.loaded = FALSE, !.inited = FALSE]
    /\ event' = TuiEventInit
    /\ BootAgain(library.inited)
    /\ UNCHANGED <<onFold, onCall, device, tee, history>>

(***************************************************************************)
(* GetEvent and HandleEvent.  The library is loaded at the first start and *)
(* never unloaded again; when the state cannot be read the thread ends.    *)
(* The order of the kernel's states is not fixed by this code, so any is   *)
(* taken.                                                                  *)
(***************************************************************************)
Event ==
    /\ At("event")
    /\ device.events < MaxEvents
    /\ device' = [device EXCEPT !.events = @ + 1]

HandleConfig ==
    /\ Event
    /\ tee' = [tee EXCEPT !.up = TRUE]
    /\ history' = [history EXCEPT !.rang = FALSE]
    /\ \/ library' = [library EXCEPT !.loaded = TRUE]
          /\ thread' = [thread EXCEPT !.pc = "library", !.work = "start"]
       \/ ~library.loaded /\ UNCHANGED <<library, thread>>
    /\ UNCHANGED <<event, onFold, onCall>>

HandleUnused ==
    /\ Event
    /\ tee' = [tee EXCEPT !.up = FALSE]
    /\ IF library.loaded
          THEN thread' = [thread EXCEPT !.pc = "library", !.work = "end"]
          ELSE thread' = thread
    /\ UNCHANGED <<library, event, onFold, onCall, history>>

GetEventFails ==
    /\ Event
    /\ Goto("stopped")
    /\ UNCHANGED <<library, event, onFold, onCall, tee, history>>

--------------------------------------------------------------------------------
(***************************************************************************)
(* TuiDaemonInit of the library: nothing if it was done, else a new        *)
(* TUIDaemon, whose callbacks are registered unless only the panel is      *)
(* wanted, the panel and its sending.  Each registration may fail, which   *)
(* is not reported.                                                        *)
(***************************************************************************)
\* Mutant: the callbacks are registered also for the INIT of the boot.
NewDaemonRegisters ==
    /\ At("library")
    /\ IF library.inited
          THEN event' = event /\ Goto("deal")
          ELSE event' = TuiEventInit /\ Goto("callback")
    /\ UNCHANGED <<library, onFold, onCall, device, tee, history>>

NewDaemon ==
    /\ At("library")
    /\ IF library.inited
          THEN event' = event /\ Goto("deal")
          ELSE /\ event' = TuiEventInit
               /\ Goto(IF thread.work = "init" THEN "read" ELSE "callback")
    /\ UNCHANGED <<library, onFold, onCall, device, tee, history>>

TuiRegisteCallBack ==
    /\ At("callback")
    /\ \E ok \in BOOLEAN : library' = [library EXCEPT !.call = @ \/ ok]
    /\ Goto("listener")
    /\ UNCHANGED <<event, onFold, onCall, device, tee, history>>

TuiRegisteDisplayListener ==
    /\ At("listener")
    /\ \E ok \in BOOLEAN : library' = [library EXCEPT !.listener = @ \/ ok]
    /\ Goto("read")
    /\ UNCHANGED <<event, onFold, onCall, device, tee, history>>

(***************************************************************************)
(* TuiDaemonClear deletes the TUIDaemon, whose destructor takes both       *)
(* callbacks back.  TeeTuiDaemonWork returns after it.                     *)
(***************************************************************************)
Return == Goto(IF thread.work = "init" THEN "clean" ELSE "event")

TuiDaemonClear ==
    library' = [library EXCEPT !.inited = FALSE, !.call = FALSE, !.listener = FALSE]

(***************************************************************************)
(* TUIGetPannelInfo on the TUI thread: in TuiDaemonInit ("read") and in    *)
(* TUIDealWithEvent ("dread"), which goes on with the panel it has when    *)
(* the display cannot be read.                                             *)
(***************************************************************************)
GetDisplay ==
    /\ At("read") \/ At("dread")
    /\ thread' = [thread EXCEPT !.pc = IF @ = "read" THEN "rotate" ELSE "drotate",
                                !.shot = device.fold]
    /\ UNCHANGED <<library, event, onFold, onCall, device, tee, history>>

\* Mutant: no TuiDaemonClear when the panel cannot be read.
PanelFailsNoClear ==
    /\ At("read")
    /\ Return
    /\ UNCHANGED <<library, event, onFold, onCall, device, tee, history>>

PanelFails ==
    /\ At("read")
    /\ TuiDaemonClear
    /\ Return
    /\ UNCHANGED <<event, onFold, onCall, device, tee, history>>

DealPanelFails ==
    /\ At("dread")
    /\ Goto("dstatus")
    /\ history' = [history EXCEPT !.failed = TRUE]
    /\ UNCHANGED <<library, event, onFold, onCall, device, tee>>

GetRotation ==
    /\ At("rotate") \/ At("drotate")
    /\ TUIGetFoldable
    /\ Goto(IF At("rotate") THEN "size" ELSE "dsize")
    /\ UNCHANGED <<library, onFold, onCall, device, tee, history>>

SetSize ==
    /\ At("size") \/ At("dsize")
    /\ TUISetPanelInfo(thread.shot)
    /\ Goto(IF At("size") THEN "send" ELSE "dstatus")
    /\ UNCHANGED <<library, onFold, onCall, device, tee, history>>

InitSend ==
    /\ At("send")
    /\ \E ok \in BOOLEAN :
          /\ SendFold(ok)
          /\ IF ok THEN library' = [library EXCEPT !.inited = TRUE] /\ Goto("deal")
                   ELSE TuiDaemonClear /\ Return
    /\ UNCHANGED <<event, onFold, onCall, device>>

(***************************************************************************)
(* TeeTuiDaemonWork and TUIDealWithEvent.  A start takes the running lock  *)
(* (if the power service gives one), reads the panel, sets the status and  *)
(* sends the panel; an end releases the lock, clears the status and the    *)
(* daemon.                                                                 *)
(***************************************************************************)
DealInit ==
    /\ At("deal") /\ thread.work = "init"
    /\ Return
    /\ UNCHANGED <<library, event, onFold, onCall, device, tee, history>>

TUIGetRunningLock ==
    /\ At("deal") /\ thread.work = "start"
    /\ \E ok \in BOOLEAN : event' = [event EXCEPT !.lock = @ \/ ok]
    /\ Goto("dread")
    /\ UNCHANGED <<library, onFold, onCall, device, tee, history>>

\* Mutant: a start without the running lock does not count.
SetStatusIfLocked ==
    /\ At("dstatus")
    /\ event' = [event EXCEPT !.status = event.lock]
    /\ Goto("dsend")
    /\ UNCHANGED <<library, onFold, onCall, device, tee, history>>

SetStatus ==
    /\ At("dstatus")
    /\ event' = [event EXCEPT !.status = TRUE]
    /\ Goto("dsend")
    /\ UNCHANGED <<library, onFold, onCall, device, tee, history>>

DealSend ==
    /\ At("dsend")
    /\ \E ok \in BOOLEAN : SendFold(ok)
    /\ Goto("event")
    /\ UNCHANGED <<library, event, onFold, onCall, device>>

DealEnd ==
    /\ At("deal") /\ thread.work = "end"
    /\ event' = [event EXCEPT !.lock = FALSE, !.status = FALSE]
    /\ Goto("clear")
    /\ UNCHANGED <<library, onFold, onCall, device, tee, history>>

EndClear ==
    /\ At("clear")
    /\ TuiDaemonClear
    /\ Return
    /\ UNCHANGED <<event, onFold, onCall, device, tee, history>>

--------------------------------------------------------------------------------
(***************************************************************************)
(* OnFoldStatusChanged, called on a thread of the display service, one     *)
(* call after the other.                                                   *)
(***************************************************************************)
FoldGoto(pc) == onFold' = [onFold EXCEPT !.pc = pc]

\* Mutant: the listener gives up when the display cannot be read.
FoldGetDisplayOrReturn ==
    /\ onFold.pc = "idle" /\ onFold.waiting > 0
    /\ \/ onFold' = [waiting |-> onFold.waiting - 1, pc |-> "rotate", shot |-> device.fold]
       \/ onFold' = [onFold EXCEPT !.waiting = @ - 1]
    /\ UNCHANGED <<thread, library, event, onCall, device, tee, history>>

FoldGetDisplay ==
    /\ onFold.pc = "idle" /\ onFold.waiting > 0
    /\ \/ onFold' = [waiting |-> onFold.waiting - 1, pc |-> "rotate", shot |-> device.fold]
       \/ onFold' = [onFold EXCEPT !.waiting = @ - 1, !.pc = "status"]
    /\ UNCHANGED <<thread, library, event, onCall, device, tee, history>>

FoldGetRotation ==
    /\ onFold.pc = "rotate"
    /\ TUIGetFoldable
    /\ FoldGoto("size")
    /\ UNCHANGED <<thread, library, onCall, device, tee, history>>

FoldSetSize ==
    /\ onFold.pc = "size"
    /\ TUISetPanelInfo(onFold.shot)
    /\ FoldGoto("send")
    /\ UNCHANGED <<thread, library, onCall, device, tee, history>>

FoldSend ==
    /\ onFold.pc = "send"
    /\ \E ok \in BOOLEAN : SendFold(ok)
    /\ FoldGoto("status")
    /\ UNCHANGED <<thread, library, event, onCall, device>>

FoldStatus ==
    /\ onFold.pc = "status"
    /\ FoldGoto(IF event.status THEN "cancel" ELSE "idle")
    /\ UNCHANGED <<thread, library, event, onCall, device, tee, history>>

FoldCancel ==
    /\ onFold.pc = "cancel"
    /\ \E ok \in BOOLEAN : SendCancel(ok)
    /\ FoldGoto("idle")
    /\ UNCHANGED <<thread, library, event, onCall, device>>

(***************************************************************************)
(* OnCallDetailsChange for CALL_STATUS_INCOMING.  history.rang says that   *)
(* it tested the status while the daemon served the TUI that is up: after  *)
(* the START has set the status, or before, when it was set already.       *)
(***************************************************************************)
Serving == tee.up /\ library.inited /\ (At("dsend") \/ At("event") \/ event.status)

CallStatus ==
    /\ onCall.pc = "idle" /\ onCall.waiting > 0
    /\ onCall' = [waiting |-> onCall.waiting - 1,
                  pc |-> IF event.status THEN "clear" ELSE "idle"]
    /\ history' = [history EXCEPT !.rang = @ \/ Serving]
    /\ UNCHANGED <<thread, library, event, onFold, device, tee>>

CallClearStatus ==
    /\ onCall.pc = "clear"
    /\ event' = [event EXCEPT !.status = FALSE]
    /\ onCall' = [onCall EXCEPT !.pc = "cancel"]
    /\ UNCHANGED <<thread, library, onFold, device, tee, history>>

CallCancel ==
    /\ onCall.pc = "cancel"
    /\ \E ok \in BOOLEAN : SendCancel(ok)
    /\ onCall' = [onCall EXCEPT !.pc = "idle"]
    /\ UNCHANGED <<thread, library, event, onFold, device>>

--------------------------------------------------------------------------------
(***************************************************************************)
(* The device: it is folded or unfolded, which is reported to a registered *)
(* listener, and it is called, which is reported to a registered callback. *)
(* history.raced says that it was folded while the daemon was not at rest. *)
(***************************************************************************)
FoldDevice ==
    /\ device.folds < MaxFolds
    /\ device' = [device EXCEPT !.fold = 1 - @, !.folds = @ + 1]
    /\ onFold' = [onFold EXCEPT !.waiting = @ + (IF library.listener THEN 1 ELSE 0)]
    /\ history' = [history EXCEPT !.raced = @ \/ ~AtRest]
    /\ UNCHANGED <<thread, library, event, onCall, tee>>

IncomingCall ==
    /\ library.call
    /\ device.calls < MaxCalls
    /\ device' = [device EXCEPT !.calls = @ + 1]
    /\ onCall' = [onCall EXCEPT !.waiting = @ + 1]
    /\ UNCHANGED <<thread, library, event, onFold, tee, history>>

Next ==
    \/ BootLoad \/ TuiDaemonClean \/ HandleConfig \/ HandleUnused \/ GetEventFails
    \/ NewDaemon \/ TuiRegisteCallBack \/ TuiRegisteDisplayListener
    \/ GetDisplay \/ PanelFails \/ DealPanelFails \/ GetRotation \/ SetSize \/ InitSend
    \/ DealInit \/ TUIGetRunningLock \/ SetStatus \/ DealSend \/ DealEnd \/ EndClear
    \/ FoldGetDisplay \/ FoldGetRotation \/ FoldSetSize
    \/ FoldSend \/ FoldStatus \/ FoldCancel
    \/ CallStatus \/ CallClearStatus \/ CallCancel
    \/ FoldDevice \/ IncomingCall

Spec == Init /\ [][Next]_vars

--------------------------------------------------------------------------------
(***************************************************************************)
(* The types of the state; the boot is tried at most InitRetries + 1       *)
(* times.                                                                  *)
(***************************************************************************)
Threads == [pc : {"boot", "clean", "event", "stopped", "library", "callback",
                  "listener", "read", "rotate", "size", "send", "deal", "dread",
                  "drotate", "dsize", "dstatus", "dsend", "clear"},
            work : {"init", "start", "end"},
            tries : 0 .. InitRetries + 1, shot : Fold]
Libraries == [loaded : BOOLEAN, inited : BOOLEAN, call : BOOLEAN, listener : BOOLEAN]
TUIEvents == [status : BOOLEAN, panel : Panel, lock : BOOLEAN]
Listeners == [waiting : 0 .. MaxFolds, shot : Fold,
              pc : {"idle", "rotate", "size", "send", "status", "cancel"}]
CallBacks == [waiting : 0 .. MaxCalls, pc : {"idle", "clear", "cancel"}]
Devices == [fold : Fold, folds : 0 .. MaxFolds, calls : 0 .. MaxCalls,
            events : 0 .. MaxEvents]

TypeOK ==
    /\ thread \in Threads
    /\ library \in Libraries
    /\ event \in TUIEvents
    /\ onFold \in Listeners
    /\ onCall \in CallBacks
    /\ device \in Devices
    /\ tee \in [up : BOOLEAN, panel : Panel]
    /\ history \in [raced : BOOLEAN, failed : BOOLEAN, rang : BOOLEAN]

(***************************************************************************)
(* However a start or an end turned out, a thread that waits for the next  *)
(* event without an initialised daemon holds nothing of it: the screen may *)
(* go off (the running lock is released) and neither service has a         *)
(* callback left.  The failing exits of TuiDaemonInit run after callbacks  *)
(* were registered, the failing START and END after a START took the lock. *)
(***************************************************************************)
NothingHeldIdle ==
    At("event") /\ ~library.inited => /\ ~event.lock
                                      /\ ~library.call
                                      /\ ~library.listener

(***************************************************************************)
(* The library is never unloaded under a callback: when it is not loaded   *)
(* no service has a pointer into it, no callback runs and none is waiting. *)
(* TuiDaemonClean unloads it after the INIT of the boot, whatever that     *)
(* INIT returned.                                                          *)
(***************************************************************************)
UnloadedQuiet ==
    ~library.loaded => /\ ~library.call /\ ~library.listener
                       /\ onFold.pc = "idle" /\ onFold.waiting = 0
                       /\ onCall.pc = "idle" /\ onCall.waiting = 0

(***************************************************************************)
(* A TUI is never left up on a panel that is gone: once the daemon is at   *)
(* rest, a TUI that is still up, with a listener registered, was sent the  *)
(* panel of the present fold state, or has been cancelled.  It holds for   *)
(* folds that find the daemon at rest; one in the middle of a START can be *)
(* lost (history.raced).  The listener must cancel also when it could not  *)
(* read the panel.                                                         *)
(***************************************************************************)
PanelCurrent ==
    AtRest /\ tee.up /\ library.listener /\ ~history.failed /\ ~history.raced
        => tee.panel = [foldState |-> device.fold, size |-> device.fold]

(***************************************************************************)
(* A call that comes in while the daemon serves a TUI ends that TUI: when  *)
(* the callbacks are done it is down, unless the cancel could not be sent. *)
(* The callback, the listener and the TUI thread share the status without  *)
(* a lock.  It is not so for a call whose callback tests the status before *)
(* the START of the TUI has set it (TUIDealWithEvent sets it after the     *)
(* panel was read): the code takes no notice of that call and the TUI      *)
(* stays up.                                                               *)
(***************************************************************************)
CallEndsTui ==
    AtRest /\ history.rang /\ ~history.failed => ~tee.up

================================================================================
