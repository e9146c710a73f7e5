--------------------------- MODULE CaServerProofs ---------------------------
(***************************************************************************)
(* Every application that gets a descriptor from teecd gets one that was   *)
(* logged in with its own credentials, for any number of applications, any *)
(* failure of a call and any death.                                        *)
(***************************************************************************)
EXTENDS CaServer, TLAPS

(***************************************************************************)
(* LoginIsPeers alone is not inductive: the credentials are read in one    *)
(* step, used in a second and their result is sent in a third, and cr      *)
(* keeps those of the connection before.  From the step that reads them to *)
(* the step that uses them cr is about the socket at hand, and between the *)
(* login and the sending so is the descriptor.                             *)
(***************************************************************************)
Shapes ==
  /\ reply = [c \in Cas |-> reply[c]]
  /\ dev = [open |-> dev.open, login |-> dev.login]

CrCurrent == server \in {"recv", "sync", "open", "login", "send"} => cr = cur
DevCurrent == server = "send" => dev.login = cur

LoginInv == Shapes /\ CrCurrent /\ DevCurrent /\ LoginIsPeers

\* Nothing has been sent at first.
LEMMA InitLoginInv == Init => LoginInv
BY DEF Init, NoDev, LoginInv, Shapes, CrCurrent, DevCurrent, LoginIsPeers

\* The applications change none of what LoginInv is about, and the clock
\* does not either.
LEMMA CaLoginInv ==
  ASSUME LoginInv, SetClock \/ \E c \in Cas : CaStep(c)
  PROVE  LoginInv'
<1>1. UNCHANGED <<server, cur, cr, dev, reply>>
  BY DEF SetClock, CaStep, Connect, SendMsg, Dies, RecvFileDescriptor
<1> QED
  BY <1>1 DEF LoginInv, Shapes, CrCurrent, DevCurrent, LoginIsPeers

\* The end of a connection puts nothing but "closed" into a socket.
LEMMA ClosedKeeps ==
  ASSUME LoginInv, reply' = Closed(cur)
  PROVE  /\ reply' = [c \in Cas |-> reply'[c]]
         /\ LoginIsPeers'
BY DEF LoginInv, Shapes, LoginIsPeers, Closed

\* The steps of the thread.
LEMMA ServerLoginInv ==
  ASSUME LoginInv, ServerStep
  PROVE  LoginInv'
<1> USE DEF LoginInv, Shapes, CrCurrent, DevCurrent, LoginIsPeers, Goes
<1>1. CASE Boot \/ CreateSocket \/ Accept
  BY <1>1 DEF Boot, CreateSocket, Accept
<1>2. CASE PeerCred
  <2>1. CASE cr' = cur /\ Goes("recv") /\ UNCHANGED <<cur, reply>>
    BY <1>2, <2>1 DEF PeerCred
  <2>2. CASE reply' = Closed(cur) /\ Goes("accept")
    BY <1>2, <2>2, ClosedKeeps DEF PeerCred
  <2> QED BY <1>2, <2>1, <2>2 DEF PeerCred
<1>3. CASE RecvCaMsg \/ SyncTime
  BY <1>3 DEF RecvCaMsg, SyncTime
<1>4. CASE OpenDevice
  <2>1. /\ UNCHANGED <<cur, cr>>
        /\ server' \in {"close", "login"}
        /\ dev' = [open |-> TRUE, login |-> None] \/ UNCHANGED dev
        /\ UNCHANGED reply \/ Reply(cur, "version", None)
    BY <1>4 DEF OpenDevice
  <2>2. /\ reply' = [c \in Cas |-> reply'[c]]
        /\ LoginIsPeers'
    BY <2>1 DEF Reply
  <2> QED BY <1>4, <2>1, <2>2 DEF OpenDevice
<1>5. CASE SendLoginInfo
  <2>1. /\ UNCHANGED <<cur, cr, reply>>
        /\ \/ dev' = [dev EXCEPT !.login = cr] /\ server' = "send"
           \/ dev' = NoDev /\ server' = "close"
        /\ cr = cur
    BY <1>5 DEF SendLoginInfo
  <2> QED BY <2>1 DEF NoDev
<1>6. CASE SendFileDescriptor
  <2>1. /\ UNCHANGED <<cur, cr>>
        /\ server' = "close"
        /\ dev' = NoDev
        /\ UNCHANGED reply \/ Reply(cur, "fd", cur)
    BY <1>6 DEF SendFileDescriptor
  <2> QED BY <2>1 DEF NoDev, Reply
<1>7. CASE CloseSocket
  BY <1>7, ClosedKeeps DEF CloseSocket
<1> QED
  BY <1>1, <1>2, <1>3, <1>4, <1>5, <1>6, <1>7 DEF ServerStep

\* A descriptor works with the login of the application that gets it, never
\* with the credentials that an earlier peer left in cr (ProcessAccept,
\* SendLoginInfo).
THEOREM DescriptorsArePeers == Spec => []LoginIsPeers
<1>1. LoginInv /\ UNCHANGED vars => LoginInv'
  BY DEF vars, LoginInv, Shapes, CrCurrent, DevCurrent, LoginIsPeers
<1>2. LoginInv /\ [Next]_vars => LoginInv'
  BY <1>1, CaLoginInv, ServerLoginInv DEF Next
<1>3. LoginInv => LoginIsPeers
  BY DEF LoginInv
<1> QED BY InitLoginInv, <1>2, <1>3, PTL DEF Spec

(***************************************************************************)
(* The types.  The bound on the attempts to connect needs that an          *)
(* application that has not given up has one left.                         *)
(***************************************************************************)
AttemptLeft == \A c \in Cas : ca[c] = "new" => tries[c] < SleepCount
TypeInv == TypeOK /\ AttemptLeft

\* An application keeps the types, and counts its attempts.
LEMMA CaTypeInv ==
  ASSUME TypeInv, NEW c \in Cas, CaStep(c)
  PROVE  TypeInv'
<1> USE CaServerAssumption DEF TypeInv, TypeOK, AttemptLeft, Ends
<1>1. CASE Connect(c)
  <2>1. tries[c] + 1 \in 0 .. SleepCount
    BY <1>1 DEF Connect
  <2>2. tries' \in [Cas -> 0 .. SleepCount]
    BY <1>1, <2>1 DEF Connect
  <2>3. queue' \in Seq(Cas)
    <3>1. queue \in Seq(Cas) /\ (queue' = Append(queue, c) \/ queue' = queue)
      BY <1>1 DEF Connect
    <3>2. Append(queue, c) \in Seq(Cas)
      BY <3>1
    <3> QED BY <3>1, <3>2
  <2>4. ca' \in [Cas -> {"new", "connected", "sent", "served", "failed", "dead"}]
    BY <1>1 DEF Connect
  <2>5. AttemptLeft'
    BY <1>1, <2>1 DEF Connect
  <2> QED BY <1>1, <2>2, <2>3, <2>4, <2>5 DEF Connect
<1>2. CASE SendMsg(c)
  <2>1. ca' = [ca EXCEPT ![c] = "failed"] \/ ca' = [ca EXCEPT ![c] = "sent"]
    BY <1>2 DEF SendMsg
  <2>2. early' \subseteq Cas
    BY <1>2 DEF SendMsg
  <2>3. UNCHANGED <<server, cur, cr, dev, queue, tries, reply, synced, clock, told, blind>>
    BY <1>2 DEF SendMsg
  <2> QED BY <2>1, <2>2, <2>3
<1>3. CASE Dies(c)
  BY <1>3 DEF Dies
<1>4. CASE RecvFileDescriptor(c)
  BY <1>4 DEF RecvFileDescriptor
<1> QED BY <1>1, <1>2, <1>3, <1>4 DEF CaStep

\* The end of a connection and an answer are replies.
LEMMA ReplyTyped ==
  ASSUME TypeOK, NEW kind \in {"fd", "version"}, NEW login \in Cas \cup {None},
         reply' = Closed(cur) \/ Reply(cur, kind, login)
  PROVE  reply' \in [Cas -> [kind : {"none", "fd", "version", "closed"},
                             login : Cas \cup {None}]]
<1>1. CASE reply' = Closed(cur)
  BY <1>1 DEF TypeOK, Closed
<1>2. CASE Reply(cur, kind, login)
  BY <1>2 DEF TypeOK, Reply
<1> QED BY <1>1, <1>2

\* The thread keeps them.
LEMMA ServerTypeInv ==
  ASSUME TypeInv, ServerStep
  PROVE  TypeInv'
<1> USE CaServerAssumption DEF TypeInv, AttemptLeft, Goes, ServerSteps
<1>1. CASE Boot \/ SyncTime
  BY <1>1 DEF Boot, SyncTime, TrySyncSysTimeToSecure, TypeOK
<1>2. CASE CreateSocket
  BY <1>2 DEF CreateSocket, TypeOK
<1>3. CASE Accept
  <2>1. Head(queue) \in Cas /\ Tail(queue) \in Seq(Cas)
    BY <1>3 DEF Accept, TypeOK
  <2> QED BY <1>3, <2>1 DEF Accept, TypeOK
<1>4. CASE PeerCred
  BY <1>4, ReplyTyped DEF PeerCred, TypeOK
<1>5. CASE RecvCaMsg
  BY <1>5 DEF RecvCaMsg, TypeOK
<1>6. CASE OpenDevice
  <2>1. /\ server' \in {"close", "login"}
        /\ dev' = [open |-> TRUE, login |-> None] \/ UNCHANGED dev
        /\ UNCHANGED reply \/ Reply(cur, "version", None)
    BY <1>6 DEF OpenDevice
  <2>2. reply' \in [Cas -> [kind : {"none", "fd", "version", "closed"},
                            login : Cas \cup {None}]]
    BY <2>1, ReplyTyped DEF TypeOK
  <2>3. dev' \in [open : BOOLEAN, login : Cas \cup {None}]
    <3>1. [open |-> TRUE, login |-> None] \in [open : BOOLEAN, login : Cas \cup {None}]
      OBVIOUS
    <3> QED BY <2>1, <3>1 DEF TypeOK
  <2> QED BY <1>6, <2>1, <2>2, <2>3 DEF OpenDevice, TypeOK
<1>7. CASE SendLoginInfo
  <2>1. NoDev \in [open : BOOLEAN, login : Cas \cup {None}]
    BY DEF NoDev
  <2> QED BY <1>7, <2>1 DEF SendLoginInfo, TypeOK
<1>8. CASE SendFileDescriptor
  <2>1. /\ dev' \in [open : BOOLEAN, login : Cas \cup {None}]
        /\ dev.login \in Cas \cup {None}
    BY <1>8 DEF SendFileDescriptor, NoDev, TypeOK
  <2>2. UNCHANGED reply \/ Reply(cur, "fd", dev.login)
    BY <1>8 DEF SendFileDescriptor
  <2>3. blind' \in BOOLEAN
    BY <1>8 DEF SendFileDescriptor, TypeOK
  <2> QED BY <1>8, <2>1, <2>2, <2>3, ReplyTyped DEF SendFileDescriptor, TypeOK
<1>9. CASE CloseSocket
  BY <1>9, ReplyTyped DEF CloseSocket, TypeOK
<1> QED
  BY <1>1, <1>2, <1>3, <1>4, <1>5, <1>6, <1>7, <1>8, <1>9 DEF ServerStep

\* The state keeps its types, and no application tries to connect more than
\* SleepCount times (ConnectTeecdSocket).
THEOREM TypeCorrect == Spec => []TypeOK
<1>1. Init => TypeInv
  <2> SUFFICES ASSUME Init PROVE TypeInv
    OBVIOUS
  <2> USE CaServerAssumption DEF Init
  <2>1. server \in ServerSteps /\ queue \in Seq(Cas)
    BY DEF ServerSteps
  <2>2. dev \in [open : BOOLEAN, login : Cas \cup {None}]
    BY DEF NoDev
  <2>3. tries \in [Cas -> 0 .. SleepCount] /\ AttemptLeft
    BY DEF AttemptLeft
  <2> QED BY <2>1, <2>2, <2>3 DEF TypeInv, TypeOK
<1>2. TypeInv /\ UNCHANGED vars => TypeInv'
  BY DEF vars, TypeInv, TypeOK, AttemptLeft
<1>3. TypeInv /\ SetClock => TypeInv'
  BY DEF SetClock, TypeInv, TypeOK, AttemptLeft
<1>4. TypeInv /\ [Next]_vars => TypeInv'
  BY <1>2, <1>3, CaTypeInv, ServerTypeInv DEF Next
<1>5. TypeInv => TypeOK
  BY DEF TypeInv
<1> QED BY <1>1, <1>4, <1>5, PTL DEF Spec

(***************************************************************************)
(* The time.  The clock may be set between any two steps, so TimeKnown     *)
(* speaks of the applications whose message was sent afterwards.  It needs *)
(* why the attempt at SyncTime counts for the sending several steps later: *)
(* the message of the application served precedes that attempt and cannot  *)
(* follow it (SentBefore), the clock was plausible when the message was    *)
(* sent (EarlyClock), and an attempt that was left out had succeeded       *)
(* before (SyncedTold).                                                    *)
(***************************************************************************)
SyncedTold == synced => told
EarlyClock == early # {} => clock
SentBefore ==
  /\ server \in {"cred", "recv", "sync", "open", "login", "send", "close"} => cur \in Cas
  /\ server \in {"sync", "open", "login", "send"} => ca[cur] \notin {"new", "connected"}
ServedTold == server \in {"open", "login", "send"} /\ cur \in early => told

TimeInv ==
  /\ TypeOK
  /\ SyncedTold
  /\ EarlyClock
  /\ SentBefore
  /\ ServedTold
  /\ TimeKnown

\* The applications keep it: one that sends its message now is not past
\* the sync.
LEMMA CaTimeInv ==
  ASSUME TimeInv, NEW c \in Cas, CaStep(c), TypeOK'
  PROVE  TimeInv'
<1> USE DEF TimeInv, SyncedTold, EarlyClock, SentBefore, ServedTold, TimeKnown
<1>1. /\ UNCHANGED <<server, cur, synced, clock, told, blind>>
      /\ \/ early' = early
         \/ clock /\ ca[c] = "connected" /\ early' = early \cup {c}
  BY DEF CaStep, Connect, SendMsg, Dies, RecvFileDescriptor
<1>2. \/ ca' = ca
      \/ \E how \in {"failed", "sent", "dead", "served"} : ca' = [ca EXCEPT ![c] = how]
      \/ ca[c] = "new" /\ ca' = [ca EXCEPT ![c] = "connected"]
  BY DEF CaStep, Connect, SendMsg, Dies, RecvFileDescriptor, Ends
<1>3. \A x \in Cas : ca[x] \notin {"new", "connected"} => ca'[x] \notin {"new", "connected"}
  BY <1>2 DEF TypeOK
<1>4. SentBefore'
  BY <1>1, <1>3
<1>5. EarlyClock' /\ ServedTold'
  BY <1>1
<1> QED BY <1>1, <1>4, <1>5

\* So does the clock, whenever it is set.
LEMMA ClockTimeInv ==
  ASSUME TimeInv, SetClock, TypeOK'
  PROVE  TimeInv'
BY DEF SetClock, TimeInv, SyncedTold, EarlyClock, SentBefore, ServedTold, TimeKnown

\* After an attempt to send the time, the TEE was told one or there is none.
LEMMA SyncTells ==
  ASSUME SyncedTold, TrySyncSysTimeToSecure
  PROVE  SyncedTold' /\ (clock => told')
BY DEF SyncedTold, TrySyncSysTimeToSecure

\* The steps of the thread.
LEMMA ServerTimeInv ==
  ASSUME TimeInv, ServerStep, TypeOK'
  PROVE  TimeInv'
<1> USE DEF TimeInv, EarlyClock, SentBefore, ServedTold, TimeKnown, Goes
<1>1. CASE Boot \/ SyncTime
  BY <1>1, SyncTells DEF Boot, SyncTime
<1>2. CASE Accept
  <2>1. cur' \in Cas
    BY <1>2 DEF Accept, TypeOK
  <2> QED BY <1>2, <2>1 DEF SyncedTold, Accept
<1>3. CASE CreateSocket \/ PeerCred \/ CloseSocket
  BY <1>3 DEF SyncedTold, CreateSocket, PeerCred, CloseSocket
<1>4. CASE RecvCaMsg
  BY <1>4 DEF SyncedTold, RecvCaMsg
<1>5. CASE OpenDevice \/ SendLoginInfo
  BY <1>5 DEF SyncedTold, OpenDevice, SendLoginInfo
<1>6. CASE SendFileDescriptor
  <2>1. cur \in early => told
    BY <1>6 DEF SendFileDescriptor
  <2>2. ~blind'
    BY <1>6, <2>1 DEF SendFileDescriptor
  <2> QED BY <1>6, <2>2 DEF SendFileDescriptor, SyncedTold
<1> QED
  BY <1>1, <1>2, <1>3, <1>4, <1>5, <1>6 DEF ServerStep

\* An application whose message was sent once the clock was plausible gets
\* no descriptor before an attempt to tell the TEE the time, wherever in a
\* connection the clock is set (TrySyncSysTimeToSecure is repeated after
\* each message), for any number of applications.
THEOREM TimeToldBeforeUse == Spec => []TimeKnown
<1>1. Init /\ TypeOK => TimeInv
  BY DEF Init, TimeInv, SyncedTold, EarlyClock, SentBefore, ServedTold, TimeKnown
<1>2. TimeInv /\ UNCHANGED vars /\ TypeOK' => TimeInv'
  BY DEF vars, TimeInv, SyncedTold, EarlyClock, SentBefore, ServedTold, TimeKnown
<1>3. TimeInv /\ [Next]_vars /\ TypeOK' => TimeInv'
  BY <1>2, CaTimeInv, ClockTimeInv, ServerTimeInv DEF Next
<1>4. TimeInv => TimeKnown
  BY DEF TimeInv
<1> QED BY TypeCorrect, <1>1, <1>3, <1>4, PTL DEF Spec
=============================================================================
