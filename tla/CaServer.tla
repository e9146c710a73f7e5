------------------------------ MODULE CaServer ------------------------------
(***************************************************************************)
(* The thread of teecd that hands a descriptor of tzdriver to client       *)
(* applications (CaServerWorkThread of tee_ca_daemon.c, tee_ca_auth.c),    *)
(* and the applications that ask for one (CaDaemonConnectWithCaInfo of     *)
(* tee_client_socket.c).  The thread serves one connection at a time: it   *)
(* reads the peer's credentials and its message, logs a new descriptor in  *)
(* with the peer's certificate and sends it.                               *)
(***************************************************************************)
EXTENDS Naturals, Sequences

CONSTANTS
  Cas,         \* client applications
  SleepCount,  \* attempts to connect (SLEEP_COUNT)
  None         \* no application

ASSUME CaServerAssumption == SleepCount \in Nat \ {0} /\ None \notin Cas

VARIABLES
  server,   \* the step of the thread
  cur,      \* the application served (the socket s2)
  cr,       \* the local variable cr: whose credentials it holds
  dev,      \* the descriptor of /dev/tc_ns_client the thread holds
  queue,    \* connections that wait for accept
  ca,       \* application -> its step
  tries,    \* application -> attempts so far
  cmd,      \* application -> what it asks for
  reply,    \* application -> what is in its socket
  synced,   \* syncSysTimed
  clock,    \* gettimeofday returns a plausible time
  told,     \* history: sending a plausible time to the TEE was attempted
  early,    \* history: the applications that sent their message when the
            \* clock was plausible
  blind     \* history: one of these was served before any such attempt

vars == <<server, cur, cr, dev, queue, ca, tries, cmd, reply, synced, clock, told, early, blind>>

ServerSteps == {"none", "create", "accept", "cred", "recv", "sync", "open",
                "login", "send", "close", "gone"}
NoDev == [open |-> FALSE, login |-> None]

Init ==
  /\ server = "none" /\ cur = None /\ cr = None /\ dev = NoDev
  /\ queue = <<>>
  /\ ca = [c \in Cas |-> "new"]
  /\ tries = [c \in Cas |-> 0]
  /\ cmd \in [Cas -> {"fd", "version"}]
  /\ reply = [c \in Cas |-> [kind |-> "none", login |-> None]]
  /\ synced = FALSE /\ clock = FALSE /\ told = FALSE
  /\ early = {} /\ blind = FALSE

Listening == server \notin {"none", "create", "gone"}

(***************************************************************************)
(* A client application.                                                   *)
(***************************************************************************)

Ends(c, how) == ca' = [ca EXCEPT ![c] = how]

\* ConnectTeecdSocket: connected; or no one listens, which is tried again
\* up to SleepCount times; or the access is denied, which is not.
Connect(c) ==
  /\ ca[c] = "new"
  /\ \/ /\ Listening
        /\ queue' = Append(queue, c)
        /\ Ends(c, "connected")
        /\ UNCHANGED tries
     \/ /\ ~Listening
        /\ tries' = [tries EXCEPT ![c] = @ + 1]
        /\ IF tries'[c] = SleepCount THEN Ends(c, "failed") ELSE UNCHANGED ca
        /\ UNCHANGED queue
     \/ /\ Ends(c, "failed")
        /\ UNCHANGED <<queue, tries>>
  /\ UNCHANGED <<server, cur, cr, dev, cmd, reply, synced, clock, told, early, blind>>

\* FillMsgBuffer and sendmsg; on an error the socket is closed.
SendMsg(c) ==
  /\ ca[c] = "connected"
  /\ IF reply[c].kind = "closed" THEN Ends(c, "failed") /\ UNCHANGED early
     ELSE Ends(c, "sent") /\ early' = IF clock THEN early \cup {c} ELSE early
  /\ UNCHANGED <<server, cur, cr, dev, queue, tries, cmd, reply, synced, clock, told, blind>>

\* The process ends; its end of the socket is closed.
Dies(c) ==
  /\ ca[c] \in {"connected", "sent"}
  /\ Ends(c, "dead")
  /\ UNCHANGED <<server, cur, cr, dev, queue, tries, cmd, reply, synced, clock, told, early, blind>>

RecvFileDescriptor(c) ==
  /\ ca[c] = "sent"
  /\ reply[c].kind # "none"
  /\ Ends(c, IF reply[c].kind = "closed" THEN "failed" ELSE "served")
  /\ UNCHANGED <<server, cur, cr, dev, queue, tries, cmd, reply, synced, clock, told, early, blind>>

(***************************************************************************)
(* CaServerWorkThread.                                                     *)
(***************************************************************************)

Goes(s) == server' = s

\* CreateSocket and listen; a failure ends the thread.
CreateSocket ==
  /\ server = "create"
  /\ Goes("accept") \/ Goes("gone")
  /\ UNCHANGED <<cur, cr, dev, queue, ca, tries, cmd, reply, synced, clock, told, early, blind>>

Accept ==
  /\ server = "accept"
  /\ queue # <<>>
  /\ cur' = Head(queue)
  /\ queue' = Tail(queue)
  /\ Goes("cred")
  /\ UNCHANGED <<cr, dev, ca, tries, cmd, reply, synced, clock, told, early, blind>>

\* What the kernel does to the peer of a closed socket.
Closed(c) == IF reply[c].kind # "none" THEN reply
             ELSE [reply EXCEPT ![c] = [kind |-> "closed", login |-> None]]

\* Mutant: a failing getsockopt is ignored.
PeerCredIgnored ==
  /\ server = "cred"
  /\ cr' = cur \/ UNCHANGED cr
  /\ Goes("recv")
  /\ UNCHANGED <<cur, reply, dev, queue, ca, tries, cmd, synced, clock, told, early, blind>>

PeerCred ==
  /\ server = "cred"
  /\ \/ /\ cr' = cur
        /\ Goes("recv")
        /\ UNCHANGED <<cur, reply>>
     \/ /\ reply' = Closed(cur)
        /\ cur' = None
        /\ Goes("accept")
        /\ UNCHANGED cr
  /\ UNCHANGED <<dev, queue, ca, tries, cmd, synced, clock, told, early, blind>>

\* Mutant: no timeout.
RecvCaMsgForever ==
  /\ server = "recv"
  /\ \/ ca[cur] = "sent" /\ Goes("sync")
     \/ ca[cur] = "dead" /\ Goes("close")
  /\ UNCHANGED <<cur, cr, dev, queue, ca, tries, cmd, reply, synced, clock, told, early, blind>>

\* The message, the end of the connection or the timeout of 3 seconds.
RecvCaMsg ==
  /\ server = "recv"
  /\ \/ ca[cur] = "sent" /\ Goes("sync")
     \/ ca[cur] # "sent" /\ Goes("close")
  /\ UNCHANGED <<cur, cr, dev, queue, ca, tries, cmd, reply, synced, clock, told, early, blind>>

\* Mutant: one attempt, whether it succeeds or not.
TrySyncSysTimeToSecureOnce ==
  /\ synced' = TRUE
  /\ told' = (told \/ (~synced /\ clock))

\* A time that is not plausible is not sent, and opening the device or the
\* ioctl may fail: it is tried again at the next call.
TrySyncSysTimeToSecure ==
  IF synced \/ ~clock THEN UNCHANGED <<synced, told>>
  ELSE told' = TRUE /\ synced' \in BOOLEAN

\* main: the first attempt, and later the thread is created.
Boot ==
  /\ server = "none"
  /\ TrySyncSysTimeToSecure
  /\ Goes("create")
  /\ UNCHANGED <<cur, cr, dev, queue, ca, tries, cmd, reply, clock, early, blind>>

SyncTime ==
  /\ server = "sync"
  /\ TrySyncSysTimeToSecure
  /\ Goes("open")
  /\ UNCHANGED <<cur, cr, dev, queue, ca, tries, cmd, reply, clock, early, blind>>

Reply(c, kind, login) ==
  reply' = [reply EXCEPT ![c] = [kind |-> kind, login |-> login]]

\* ProcessCaMsg: the version at once, or a new descriptor.
OpenDevice ==
  /\ server = "open"
  /\ IF cmd[cur] = "version"
     THEN /\ IF ca[cur] = "dead" THEN UNCHANGED reply ELSE Reply(cur, "version", None)
          /\ Goes("close")
          /\ UNCHANGED dev
     ELSE /\ UNCHANGED reply
          /\ \/ dev' = [open |-> TRUE, login |-> None] /\ Goes("login")
             \/ Goes("close") /\ UNCHANGED dev
  /\ UNCHANGED <<cur, cr, queue, ca, tries, cmd, synced, clock, told, early, blind>>

\* TeeGetNativeCert of the peer, then the LOGIN ioctl; tee_close on error.
SendLoginInfo ==
  /\ server = "login"
  /\ \/ dev' = [dev EXCEPT !.login = cr] /\ Goes("send")
     \/ dev' = NoDev /\ Goes("close")
  /\ UNCHANGED <<cur, cr, queue, ca, tries, cmd, reply, synced, clock, told, early, blind>>

\* The descriptor goes to the peer, if it is there, and is closed here.
SendFileDescriptor ==
  /\ server = "send"
  /\ IF ca[cur] = "dead" THEN UNCHANGED <<reply, blind>>
     ELSE /\ Reply(cur, "fd", dev.login)
          /\ blind' = (blind \/ (cur \in early /\ ~told))
  /\ dev' = NoDev
  /\ Goes("close")
  /\ UNCHANGED <<cur, cr, queue, ca, tries, cmd, synced, clock, told, early>>

CloseSocket ==
  /\ server = "close"
  /\ reply' = Closed(cur)
  /\ cur' = None
  /\ Goes("accept")
  /\ UNCHANGED <<cr, dev, queue, ca, tries, cmd, synced, clock, told, early, blind>>

ServerStep ==
  \/ Boot \/ CreateSocket \/ Accept \/ PeerCred \/ RecvCaMsg \/ SyncTime
  \/ OpenDevice \/ SendLoginInfo \/ SendFileDescriptor \/ CloseSocket

\* Something else sets the system's clock, at any moment, also between the
\* sync and the sending of a connection.  It is not set back below what
\* SyncSysTimeToSecure takes for plausible.
SetClock ==
  /\ ~clock
  /\ clock' = TRUE
  /\ UNCHANGED <<server, cur, cr, dev, queue, ca, tries, cmd, reply, synced, told, early, blind>>

CaStep(c) == Connect(c) \/ SendMsg(c) \/ Dies(c) \/ RecvFileDescriptor(c)

Next == ServerStep \/ SetClock \/ \E c \in Cas : CaStep(c)

(***************************************************************************)
(* The thread is scheduled; an application that waits for an answer, or    *)
(* for the next attempt to connect, is scheduled too.  Nothing makes an    *)
(* application send its message.                                           *)
(***************************************************************************)
Spec ==
  /\ Init
  /\ [][Next]_vars
  /\ WF_vars(ServerStep)
  /\ \A c \in Cas : WF_vars(Connect(c)) /\ WF_vars(RecvFileDescriptor(c))

(***************************************************************************)
(* Properties.                                                             *)
(***************************************************************************)

\* The types of the state; no more attempts to connect than SleepCount.
TypeOK ==
  /\ server \in ServerSteps
  /\ {cur, cr} \subseteq Cas \cup {None}
  /\ dev \in [open : BOOLEAN, login : Cas \cup {None}]
  /\ queue \in Seq(Cas)
  /\ ca \in [Cas -> {"new", "connected", "sent", "served", "failed", "dead"}]
  /\ tries \in [Cas -> 0 .. SleepCount]
  /\ reply \in [Cas -> [kind : {"none", "fd", "version", "closed"},
                        login : Cas \cup {None}]]
  /\ {synced, clock, told, blind} \subseteq BOOLEAN
  /\ early \subseteq Cas

\* A descriptor works with the login of the application that gets it, never
\* with that of an earlier peer whose credentials are still in cr
\* (ProcessAccept, SendLoginInfo).
LoginIsPeers == \A c \in Cas : reply[c].kind = "fd" => reply[c].login = c

\* An application that sends its message once the clock is plausible does
\* not get a descriptor before an attempt to send the TEE the time: a sync
\* that came too early, as that of main or of another connection may, is
\* repeated after each message (ProcessAccept, TrySyncSysTimeToSecure).
\* One whose message came before may: the clock can be set between the sync
\* and the sending.
TimeKnown == ~blind

\* Whatever other applications do, one that has sent its message gets an
\* answer or the end of the connection (the timeout in RecvCaMsg).
ConnectEnds ==
  \A c \in Cas : ca[c] = "sent" ~> ca[c] \in {"served", "failed", "dead"}
=============================================================================
