--------------------------- MODULE FsAgentProofs ---------------------------
(***************************************************************************)
(* Proofs about FsAgent.                                                   *)
(*                                                                         *)
(* Two inductive invariants carry them.  FsInv has the channel's invariant *)
(* (AgentChannelProofs), the types, and what an answer on its way is about;*)
(* no failure breaks it.  PromiseInv says that the list, the buffers, the  *)
(* kernel and the disk are what the TEE believes or, between a handler and *)
(* the reply (Pending), what it will believe once it has the answer: that  *)
(* is why Ends reads the histories through HeldAfter, SentAfter,           *)
(* FlushedAfter and SyncedAfter.  It needs fclose not to fail: a failing   *)
(* one leaves a dead entry in the list, whose number is given out again.   *)
(*                                                                         *)
(* A handler moves content towards the disk (Growing), or gives the        *)
(* content of a file up with the promises about it (Cutting); only         *)
(* an open and a close change the list.  Home and Injective are what the   *)
(* separation of the users' files rests on.                                *)
(***************************************************************************)
EXTENDS FsAgent, AgentChannelProofs, SequenceTheorems, FiniteSetTheorems, WellFoundedInduction

\* A command was handled and the TEE has not seen its answer.
Pending == answered < did

JoinedPath(name) == Resolve(JoinFileName(name, userId, storageId))

\* What an answer is about: an open names a listed file, a copy existing ones.
AnswerTells ==
  /\ GotFd(request) => \E n \in DOMAIN opened : opened[n].fd = answer.fd
  /\ answer.ret = 0 /\ request.cmd = "cp" =>
       {JoinedPath(request.name), JoinedPath(request.name2)} \subseteq DOMAIN dir

\* The types of what a handler changes.
FileTypes ==
  /\ answer \in [ret : {-1, 0}, fd : Fds \cup {0}]
  /\ userId \in Components
  /\ storageId \in {"std", "ce"}
  /\ opened \in Seq(Entries)
  /\ DOMAIN dir \subseteq Seq(Components)
  /\ dir \in [DOMAIN dir -> Inodes]
  /\ kern \in [Inodes -> SUBSET Pieces]
  /\ disk \in [Inodes -> SUBSET Pieces]
HistoryTypes ==
  /\ DOMAIN held \subseteq Fds
  /\ held \in [DOMAIN held -> Inodes]
  /\ sent \in [Fds -> SUBSET Pieces]
  /\ flushed \in [Inodes -> SUBSET Pieces]
  /\ synced \in [Inodes -> SUBSET Pieces]

\* No number is listed twice, and no closed FILE is listed.
Listed ==
  /\ \A m, n \in DOMAIN opened : opened[m].fd = opened[n].fd => m = n
  /\ \A n \in DOMAIN opened : opened[n].live

\* The files against what the TEE would hold (h), have sent (s), and rely on
\* (f in the kernel, y on the disk).
Match(h) ==
  /\ DOMAIN h = {opened[n].fd : n \in DOMAIN opened}
  /\ \A n \in DOMAIN opened : h[opened[n].fd] = opened[n].ino
Buffers(s) ==
  \A n \in DOMAIN opened :
    s[opened[n].fd] \subseteq kern[opened[n].ino] \cup opened[n].buf
Promises(f, y) ==
  \A i \in Inodes : f[i] \subseteq kern[i] /\ y[i] \subseteq kern[i] /\ y[i] \subseteq disk[i]

\* While an answer is on its way, the files are as the TEE will believe.
Ends ==
  IF Pending
  THEN /\ Match(HeldAfter(request)) /\ Buffers(SentAfter(request))
       /\ Promises(FlushedAfter(request), SyncedAfter(request))
  ELSE Match(held) /\ Buffers(sent) /\ Promises(flushed, synced)

-----------------------------------------------------------------------------
(* Lemmas about the helpers *)

\* The least element of a set of numbers is one of them.
LEMMA MinMember ==
  ASSUME NEW S \in SUBSET Nat, S # {}
  PROVE  Min(S) \in S
<1>1. PICK i \in S : \A j \in S : ~ (<<j, i>> \in OpToRel(<, Nat))
  BY WFMin, NatLessThanWellFounded, Zenon
<1>2. \A j \in S : ~ (j < i)
  BY <1>1, Zenon DEF OpToRel
<1>3. \A j \in S : i <= j
  BY <1>2, SMT
<1> QED
  BY <1>3 DEF Min

\* A sequence without its n-th element.
LEMMA RemoveAtProperties ==
  ASSUME NEW S, NEW s \in Seq(S), NEW n \in DOMAIN s
  PROVE  /\ RemoveAt(s, n) \in Seq(S)
         /\ Len(RemoveAt(s, n)) = Len(s) - 1
         /\ \A i \in 1 .. Len(s) - 1 :
              RemoveAt(s, n)[i] = IF i < n THEN s[i] ELSE s[i + 1]
<1> DEFINE a == SubSeq(s, 1, n - 1)
           b == SubSeq(s, n + 1, Len(s))
<1>1. /\ Len(s) \in Nat /\ DOMAIN s = 1 .. Len(s) /\ n \in 1 .. Len(s)
      /\ \A i \in 1 .. Len(s) : s[i] \in S
  BY LenProperties, ElementOfSeq
<1>2. /\ n - 1 \in Int /\ n + 1 \in Int /\ Len(s) \in Int
      /\ \A i \in 1 .. n - 1 : s[i] \in S
      /\ \A i \in n + 1 .. Len(s) : s[i] \in S
  BY <1>1
<1>3. /\ a \in Seq(S)
      /\ Len(a) = IF 1 <= n - 1 THEN n - 1 - 1 + 1 ELSE 0
      /\ \A i \in 1 .. n - 1 - 1 + 1 : a[i] = s[1 + i - 1]
  BY <1>2, SubSeqProperties
<1>4. /\ b \in Seq(S)
      /\ Len(b) = IF n + 1 <= Len(s) THEN Len(s) - (n + 1) + 1 ELSE 0
      /\ \A i \in 1 .. Len(s) - (n + 1) + 1 : b[i] = s[n + 1 + i - 1]
  BY <1>2, SubSeqProperties
<1>5. Len(a) = n - 1 /\ Len(b) = Len(s) - n
  BY <1>1, <1>3, <1>4
<1>6. /\ a \o b \in Seq(S)
      /\ Len(a \o b) = Len(a) + Len(b)
      /\ \A i \in 1 .. Len(a) + Len(b) :
           (a \o b)[i] = IF i <= Len(a) THEN a[i] ELSE b[i - Len(a)]
  BY <1>3, <1>4, ConcatProperties
<1>7. RemoveAt(s, n) = a \o b
  BY DEF RemoveAt
<1> HIDE DEF a, b
<1>8. ASSUME NEW i \in 1 .. Len(s) - 1
      PROVE  (a \o b)[i] = IF i < n THEN s[i] ELSE s[i + 1]
  <2>1. i \in 1 .. Len(a) + Len(b)
    BY <1>1, <1>5
  <2>2. CASE i < n
    BY <1>1, <1>3, <1>5, <1>6, <2>1, <2>2
  <2>3. CASE ~(i < n)
    <3>1. i - (n - 1) \in 1 .. Len(s) - (n + 1) + 1
      BY <1>1, <2>3
    <3>2. b[i - (n - 1)] = s[n + 1 + (i - (n - 1)) - 1]
      BY <1>4, <3>1
    <3>3. n + 1 + (i - (n - 1)) - 1 = i + 1
      BY <1>1
    <3>4. (a \o b)[i] = b[i - (n - 1)]
      BY <1>1, <1>5, <1>6, <2>1, <2>3
    <3> QED BY <2>3, <3>2, <3>3, <3>4
  <2> QED BY <2>2, <2>3
<1>9. Len(a \o b) = Len(s) - 1
  BY <1>1, <1>5, <1>6
<1> QED
  BY <1>6, <1>7, <1>8, <1>9

\* FindOpenFile gives an entry with the number, or 0 when there is none.
LEMMA FindOpenFileFinds ==
  ASSUME opened \in Seq(Entries), NEW fd
  PROVE  LET n == FindOpenFile(fd)
         IN  \/ n = 0 /\ \A m \in DOMAIN opened : opened[m].fd # fd
             \/ n # 0 /\ n \in DOMAIN opened /\ opened[n].fd = fd
<1> DEFINE hits == {n \in DOMAIN opened : opened[n].fd = fd}
<1>1. DOMAIN opened = 1 .. Len(opened) /\ Len(opened) \in Nat
  BY LenProperties
<1>2. hits \in SUBSET Nat /\ 0 \notin hits
  BY <1>1
<1>3. CASE hits = {}
  BY <1>3 DEF FindOpenFile
<1>4. CASE hits # {}
  <2>1. Min(hits) \in hits
    BY <1>2, <1>4, MinMember
  <2>2. FindOpenFile(fd) = Min(hits)
    BY <1>4 DEF FindOpenFile
  <2> HIDE DEF hits
  <2>3. Min(hits) # 0
    BY <1>2, <2>1
  <2> USE DEF hits
  <2> QED BY <2>1, <2>2, <2>3
<1> QED BY <1>3, <1>4

\* An entry of the list.
LEMMA EntryType ==
  ASSUME opened \in Seq(Entries), NEW n \in DOMAIN opened
  PROVE  /\ opened[n] \in Entries
         /\ opened[n].fd \in Fds
         /\ opened[n].ino \in Inodes
         /\ opened[n].buf \subseteq Pieces
<1>1. opened[n] \in Entries
  BY LenProperties, ElementOfSeq
<1> QED BY <1>1 DEF Entries

\* Changing the buffer of an entry.
LEMMA BufferSet ==
  ASSUME opened \in Seq(Entries), NEW n \in DOMAIN opened, NEW b \in SUBSET Pieces,
         opened' = [opened EXCEPT ![n].buf = b]
  PROVE  /\ opened' \in Seq(Entries)
         /\ DOMAIN opened' = DOMAIN opened
         /\ \A m \in DOMAIN opened :
              /\ opened'[m].fd = opened[m].fd
              /\ opened'[m].ino = opened[m].ino
              /\ opened'[m].live = opened[m].live
              /\ opened'[m].buf = IF m = n THEN b ELSE opened[m].buf
<1> DEFINE e == [opened[n] EXCEPT !.buf = b]
<1>1. DOMAIN opened = 1 .. Len(opened) /\ Len(opened) \in Nat
  BY LenProperties
<1>2. opened[n] \in Entries
  BY EntryType
<1>3. /\ e \in Entries
      /\ e.fd = opened[n].fd /\ e.ino = opened[n].ino /\ e.live = opened[n].live
      /\ e.buf = b
  BY <1>2 DEF Entries
<1>4. opened' = [opened EXCEPT ![n] = e]
  OBVIOUS
<1> HIDE DEF e
<1>5. opened' \in Seq(Entries) /\ Len(opened') = Len(opened)
  BY <1>1, <1>3, <1>4, ExceptSeq
<1>6. \A m \in DOMAIN opened : opened'[m] = IF m = n THEN e ELSE opened[m]
  BY <1>1, <1>3, <1>4, ExceptSeq
<1>7. DOMAIN opened' = DOMAIN opened
  BY <1>1, <1>5, LenProperties
<1> QED
  BY <1>3, <1>5, <1>6, <1>7

-----------------------------------------------------------------------------
(* The types *)

\* A joined and resolved path is a sequence of components.
LEMMA JoinType ==
  ASSUME NEW name \in Names, NEW user \in Components, NEW storage
  PROVE  /\ JoinFileName(name, user, storage) \in Seq(Components)
         /\ DoJoinFileName(name) \in Seq(Components)
<1>0. name \in Seq(Components) /\ name # <<>>
  BY DEF Names
<1>1. /\ UserDataDir \in Seq(Components) /\ RootDir \in Seq(Components)
      /\ PersistentDir \in Seq(Components) /\ <<user>> \in Seq(Components)
      /\ <<"sec_storage_data_users">> \in Seq(Components) /\ CeDir \in Seq(Components)
      /\ BadPath \in Seq(Components)
  BY FsAssumption DEF UserDataDir, RootDir, PersistentDir, CeDir, BadPath
<1>2. UsersDir \in Seq(Components) /\ RootDir \o PersistentDir \in Seq(Components)
  BY <1>1, ConcatProperties DEF UsersDir
<1>3. SubSeq(name, Len(TransientDir) + 1, Len(name)) \in Seq(Components)
  <2>1. Len(TransientDir) = 1
    BY DEF TransientDir
  <2>2. /\ Len(name) \in Int
        /\ \A i \in 1 + 1 .. Len(name) : name[i] \in Components
    BY <1>0, LenProperties, ElementOfSeq
  <2> QED BY <2>1, <2>2, SubSeqProperties
<1>4. Head(name) \in Components /\ Tail(name) \in Seq(Components)
  BY <1>0, HeadTailProperties
<1>5. DoJoinFileName(name) \in Seq(Components)
  BY <1>0, <1>1, <1>2, ConcatProperties DEF DoJoinFileName
<1>6. JoinFileNameTransient(name, user) \in Seq(Components)
  <2>1. UsersDir \o <<user>> \in Seq(Components)
    BY <1>1, <1>2, ConcatProperties
  <2> QED
    BY <1>0, <1>1, <1>3, <2>1, ConcatProperties DEF JoinFileNameTransient
<1>7. JoinFileNameForStorageCE(name) \in Seq(Components)
  <2>1. <<Head(name), "tee", "sec_storage_data">> \in Seq(Components)
    BY <1>4, FsAssumption
  <2>2. CeDir \o <<Head(name), "tee", "sec_storage_data">> \in Seq(Components)
    BY <1>1, <2>1, ConcatProperties
  <2> QED BY <1>4, <2>2, ConcatProperties DEF JoinFileNameForStorageCE
<1> QED
  BY <1>1, <1>5, <1>6, <1>7 DEF JoinFileName

LEMMA ResolveType ==
  ASSUME NEW path \in Seq(Components)
  PROVE  Resolve(path) \in Seq(Components)
<1>1. CASE ".." \notin ToSet(path)
  BY <1>1 DEF Resolve
<1>2. CASE ".." \in ToSet(path)
  <2> DEFINE i == CHOOSE n \in DOMAIN path : path[n] = ".."
  <2>1. i \in DOMAIN path
    BY <1>2 DEF ToSet
  <2>2. DOMAIN path = 1 .. Len(path) /\ Len(path) \in Nat
    BY LenProperties
  <2>3. Resolve(path) = SubSeq(path, 1, i - 2) \o SubSeq(path, i + 1, Len(path))
    BY <1>2 DEF Resolve
  <2> HIDE DEF i
  <2>4. /\ i - 2 \in Int /\ i + 1 \in Int /\ Len(path) \in Int
        /\ \A k \in 1 .. i - 2 : path[k] \in Components
        /\ \A k \in i + 1 .. Len(path) : path[k] \in Components
    BY <2>1, <2>2, ElementOfSeq
  <2>5. SubSeq(path, 1, i - 2) \in Seq(Components)
    BY <2>4, SubSeqProperties
  <2>6. SubSeq(path, i + 1, Len(path)) \in Seq(Components)
    BY <2>4, SubSeqProperties
  <2> QED BY <2>3, <2>5, <2>6, ConcatProperties
<1> QED BY <1>1, <1>2

\* The path of a command, once its ids are set.
LEMMA PathType ==
  ASSUME NEW name \in Names, userId' \in Components
  PROVE  PathOf(name) \in Seq(Components)
BY JoinType, ResolveType DEF PathOf

\* Binding a path in a directory.
LEMMA BindType ==
  ASSUME NEW d, NEW P, NEW T, d \in [DOMAIN d -> T], DOMAIN d \subseteq P,
         NEW p \in P, NEW v \in T
  PROVE  /\ DOMAIN Bind(d, p, v) = DOMAIN d \cup {p}
         /\ DOMAIN Bind(d, p, v) \subseteq P
         /\ Bind(d, p, v) \in [DOMAIN Bind(d, p, v) -> T]
         /\ Bind(d, p, v)[p] = v
         /\ \A q \in DOMAIN d : q # p => Bind(d, p, v)[q] = d[q]
BY DEF Bind

LEMMA RestrictType ==
  ASSUME NEW d, NEW T, d \in [DOMAIN d -> T], NEW S \in SUBSET DOMAIN d
  PROVE  /\ DOMAIN Restrict(d, S) = S
         /\ Restrict(d, S) \in [S -> T]
         /\ \A q \in S : Restrict(d, S)[q] = d[q]
BY DEF Restrict

\* Discarding keeps the types, takes promises back and makes none.
LEMMA DiscardTypes ==
  ASSUME HistoryTypes, NEW ino, NEW cut, Discard(ino, cut)
  PROVE  /\ HistoryTypes'
         /\ held' = held
         /\ \A i \in Inodes :
              /\ flushed'[i] = IF i = ino THEN flushed[i] \ cut ELSE flushed[i]
              /\ synced'[i] = IF i = ino THEN synced[i] \ cut ELSE synced[i]
         /\ \A f \in DOMAIN held : sent'[f] = IF held[f] = ino THEN sent[f] \ cut ELSE sent[f]
BY DEF Discard, HistoryTypes

\* The requests.
LEMMA RequestFields ==
  ASSUME NEW r \in Requests
  PROVE  /\ r.cmd = "write" => r.piece \in Pieces /\ r.ssa \in BOOLEAN
         /\ r.cmd \in WithName =>
              r.user \in Components \ {".."} /\ r.storage \in {"std", "ce"} /\ r.name \in Names
         /\ r.cmd \in WithTwoNames => r.name2 \in Names
BY FsAssumption

LEMMA AnswerTypes ==
  /\ Ok \in [ret : {-1, 0}, fd : Fds \cup {0}] /\ Ok.ret = 0
  /\ Failed \in [ret : {-1, 0}, fd : Fds \cup {0}] /\ Failed.ret = -1
BY DEF Ok, Failed

\* An inode for a new file, and a number for a new FILE.
LEMMA FreshType ==
  /\ FreeInodes # {} => Min(FreeInodes) \in FreeInodes /\ Min(FreeInodes) \in Inodes
  /\ FreeFds # {} => Min(FreeFds) \in FreeFds /\ Min(FreeFds) \in Fds
<1>1. FreeInodes \in SUBSET Nat /\ FreeInodes \subseteq Inodes
  BY FsAssumption DEF FreeInodes
<1>2. FreeFds \in SUBSET Nat /\ FreeFds \subseteq Fds
  BY FsAssumption DEF FreeFds, Fds
<1> QED BY <1>1, <1>2, MinMember
-----------------------------------------------------------------------------
(* The two kinds of steps of a handler *)

\* Nothing is lost: pieces move from a buffer to the kernel to the disk.
Growing ==
  /\ UNCHANGED historyVars
  /\ DOMAIN opened' = DOMAIN opened
  /\ \A n \in DOMAIN opened :
       /\ opened'[n].fd = opened[n].fd
       /\ opened'[n].ino = opened[n].ino
       /\ opened'[n].live = opened[n].live
       /\ opened[n].buf \subseteq kern'[opened[n].ino] \cup opened'[n].buf
  /\ \A i \in Inodes :
       kern[i] \subseteq kern'[i] /\ (disk'[i] = disk[i] \/ disk'[i] = kern'[i])

\* Of one file the pieces in cut are given up, and the promises about them.
Cutting(ino, cut) ==
  /\ Discard(ino, cut)
  /\ \A i \in Inodes : kern[i] \ kern'[i] \subseteq IF i = ino THEN cut ELSE {}
  /\ \A i \in Inodes : disk[i] \ disk'[i] \subseteq IF i = ino THEN cut ELSE {}

LEMMA GrowingKeeps ==
  ASSUME FileTypes, HistoryTypes, Listed,
         Match(held), Buffers(sent), Promises(flushed, synced), Growing
  PROVE  Listed' /\ Match(held)' /\ Buffers(sent)' /\ Promises(flushed, synced)'
<1>1. \A n \in DOMAIN opened : opened[n].fd \in Fds /\ opened[n].ino \in Inodes
  BY EntryType DEF FileTypes
<1>2. Listed'
  BY DEF Growing, Listed
<1>3. Match(held)'
  BY DEF Growing, Match, historyVars
<1>4. Buffers(sent)'
  BY <1>1 DEF Growing, Buffers, historyVars
<1>5. Promises(flushed, synced)'
  BY DEF Growing, Promises, historyVars
<1> QED BY <1>2, <1>3, <1>4, <1>5

LEMMA CuttingKeeps ==
  ASSUME FileTypes, HistoryTypes, Match(held), Buffers(sent), Promises(flushed, synced),
         NEW ino, NEW cut, Cutting(ino, cut)
  PROVE  /\ Promises(flushed, synced)'
         /\ \A n \in DOMAIN opened :
              sent'[opened[n].fd] \subseteq kern'[opened[n].ino] \cup opened[n].buf
<1>1. \A n \in DOMAIN opened : opened[n].ino \in Inodes /\ opened[n].fd \in DOMAIN held
  BY EntryType DEF FileTypes, Match
<1>2. /\ \A i \in Inodes :
           /\ flushed'[i] = IF i = ino THEN flushed[i] \ cut ELSE flushed[i]
           /\ synced'[i] = IF i = ino THEN synced[i] \ cut ELSE synced[i]
      /\ \A f \in DOMAIN held : sent'[f] = IF held[f] = ino THEN sent[f] \ cut ELSE sent[f]
  <2>1. Discard(ino, cut)
    BY DEF Cutting
  <2> QED BY <2>1, DiscardTypes
<1>3. Promises(flushed, synced)'
  <2> SUFFICES ASSUME NEW i \in Inodes
               PROVE  /\ flushed'[i] \subseteq kern'[i]
                      /\ synced'[i] \subseteq kern'[i] /\ synced'[i] \subseteq disk'[i]
    BY DEF Promises
  <2>1. /\ flushed[i] \subseteq kern[i]
        /\ synced[i] \subseteq kern[i] /\ synced[i] \subseteq disk[i]
    BY DEF Promises
  <2>2. /\ kern[i] \ kern'[i] \subseteq IF i = ino THEN cut ELSE {}
        /\ disk[i] \ disk'[i] \subseteq IF i = ino THEN cut ELSE {}
    BY DEF Cutting
  <2>3. CASE i = ino
    <3>1. flushed'[i] = flushed[i] \ cut /\ synced'[i] = synced[i] \ cut
      BY <1>2, <2>3
    <3>2. kern[i] \ kern'[i] \subseteq cut /\ disk[i] \ disk'[i] \subseteq cut
      BY <2>2, <2>3
    <3> QED BY <2>1, <3>1, <3>2
  <2>4. CASE i # ino
    <3>1. flushed'[i] = flushed[i] /\ synced'[i] = synced[i]
      BY <1>2, <2>4
    <3>2. kern[i] \ kern'[i] \subseteq {} /\ disk[i] \ disk'[i] \subseteq {}
      BY <2>2, <2>4
    <3> QED BY <2>1, <3>1, <3>2
  <2> QED BY <2>3, <2>4
<1>4. ASSUME NEW n \in DOMAIN opened
      PROVE  sent'[opened[n].fd] \subseteq kern'[opened[n].ino] \cup opened[n].buf
  <2>1. held[opened[n].fd] = opened[n].ino
    BY DEF Match
  <2>2. sent[opened[n].fd] \subseteq kern[opened[n].ino] \cup opened[n].buf
    BY DEF Buffers
  <2>3. kern[opened[n].ino] \ kern'[opened[n].ino]
          \subseteq IF opened[n].ino = ino THEN cut ELSE {}
    BY <1>1 DEF Cutting
  <2>4. sent'[opened[n].fd]
          = IF opened[n].ino = ino THEN sent[opened[n].fd] \ cut ELSE sent[opened[n].fd]
    BY <1>1, <1>2, <2>1
  <2>5. CASE opened[n].ino = ino
    <3>1. kern[opened[n].ino] \ kern'[opened[n].ino] \subseteq cut
      BY <2>3, <2>5
    <3>2. sent'[opened[n].fd] = sent[opened[n].fd] \ cut
      BY <2>4, <2>5
    <3> QED BY <2>2, <3>1, <3>2
  <2>6. CASE opened[n].ino # ino
    <3>1. kern[opened[n].ino] \ kern'[opened[n].ino] \subseteq {}
      BY <2>3, <2>6
    <3>2. sent'[opened[n].fd] = sent[opened[n].fd]
      BY <2>4, <2>6
    <3> QED BY <2>2, <3>1, <3>2
  <2> QED BY <2>5, <2>6
<1> QED BY <1>3, <1>4

\* A failure teaches the TEE nothing, and neither do the other commands.
Teaching == {"open", "create", "close", "write", "fsync", "cp"}

LEMMA NothingLearned ==
  ASSUME request' = request, answer'.ret # 0 \/ request.cmd \notin Teaching
  PROVE  /\ HeldAfter(request)' = held'
         /\ SentAfter(request)' = sent'
         /\ FlushedAfter(request)' = flushed'
         /\ SyncedAfter(request)' = synced'
         /\ ~GotFd(request)'
BY DEF Teaching, HeldAfter, SentAfter, FlushedAfter, SyncedAfter, GotFd, Confirmed, Opening

\* What a handler must have done when its answer is on its way.
Settled ==
  /\ Match(HeldAfter(request)) /\ Buffers(SentAfter(request))
  /\ Promises(FlushedAfter(request), SyncedAfter(request))

LEMMA QuietSettles ==
  ASSUME FileTypes, HistoryTypes, Listed,
         Match(held), Buffers(sent), Promises(flushed, synced), Growing,
         request' = request, answer'.ret # 0 \/ request.cmd \notin Teaching
  PROVE  Listed' /\ Settled'
<1>1. Listed' /\ Match(held)' /\ Buffers(sent)' /\ Promises(flushed, synced)'
  BY GrowingKeeps
<1> QED
  BY <1>1, NothingLearned DEF Settled, Match, Buffers, Promises
-----------------------------------------------------------------------------
(* The handlers that change no file's content *)

\* What a handler keeps of the types, and what its answer tells.
FilesTyped == FileTypes /\ HistoryTypes
Before == Listed /\ Match(held) /\ Buffers(sent) /\ Promises(flushed, synced)

LEMMA UnchangedGrows ==
  ASSUME UNCHANGED <<opened, kern, disk, historyVars>>
  PROVE  Growing
BY DEF Growing

LEMMA SilentHandlers ==
  ASSUME FilesTyped, request \in Requests, request' = request,
         \/ request.cmd \in {"read", "info"} /\ ReadWork(request)
         \/ request.cmd \in {"access", "access2", "diskusage"} /\ AccessWork(request)
         \/ request.cmd = "invalid" /\ UnknownCommand
  PROVE  FilesTyped' /\ AnswerTells' /\ (Before => Listed' /\ Settled')
<1>1. UNCHANGED <<opened, dir, kern, disk, historyVars>>
  BY DEF ReadWork, AccessWork, UnknownCommand, NoFileChange
<1>2. request.cmd \notin Teaching
  BY DEF Teaching
<1>3. answer' \in {Ok, Failed, answer}
  BY DEF ReadWork, AccessWork, UnknownCommand, Reply
<1>4. userId' \in Components /\ storageId' \in {"std", "ce"}
  BY RequestFields DEF ReadWork, AccessWork, UnknownCommand, KeepIds, SetIds, FilesTyped, FileTypes,
     WithName
<1>5. FilesTyped'
  BY <1>1, <1>3, <1>4, AnswerTypes DEF FilesTyped, FileTypes, HistoryTypes, historyVars
<1>6. AnswerTells'
  BY <1>2 DEF AnswerTells, GotFd, Opening, Teaching
<1>7. Before => Listed' /\ Settled'
  BY <1>1, <1>2, UnchangedGrows, QuietSettles DEF Before, FilesTyped
<1> QED BY <1>5, <1>6, <1>7

\* Names go away or change; the files stay what they are.
LEMMA UnlinkTypes ==
  ASSUME FilesTyped, NEW path, UnlinkRecursive(path)
  PROVE  /\ DOMAIN dir' \subseteq DOMAIN dir
         /\ dir' \in [DOMAIN dir' -> Inodes]
         /\ \A p \in DOMAIN dir' : dir'[p] = dir[p]
         /\ \A p \in DOMAIN dir \ DOMAIN dir' : IsPrefix(path, p)
         /\ answer' \in {Ok, Failed}
         /\ UNCHANGED <<opened, kern, disk, historyVars>>
<1> DEFINE victims == {p \in DOMAIN dir : IsPrefix(path, p)}
<1>1. PICK gone \in SUBSET victims :
        /\ dir' = Restrict(dir, DOMAIN dir \ gone)
        /\ Reply(IF gone = victims /\ gone # {} THEN Ok ELSE Failed)
        /\ UNCHANGED <<opened, kern, disk, historyVars>>
  BY DEF UnlinkRecursive
<1>2. dir \in [DOMAIN dir -> Inodes] /\ DOMAIN dir \ gone \in SUBSET DOMAIN dir
  BY DEF FilesTyped, FileTypes
<1>3. /\ DOMAIN dir' = DOMAIN dir \ gone
      /\ dir' \in [DOMAIN dir \ gone -> Inodes]
      /\ \A q \in DOMAIN dir \ gone : dir'[q] = dir[q]
  BY <1>1, <1>2, RestrictType
<1>4. answer' \in {Ok, Failed}
  BY <1>1 DEF Reply
<1> QED BY <1>1, <1>3, <1>4

LEMMA RemoveHandlers ==
  ASSUME FilesTyped, request \in Requests, request' = request,
         \/ request.cmd = "remove" /\ RemoveWork(request)
         \/ request.cmd = "deleteall" /\ DeleteAllWork(request)
  PROVE  FilesTyped' /\ AnswerTells' /\ (Before => Listed' /\ Settled')
<1>1. /\ DOMAIN dir' \subseteq DOMAIN dir
      /\ dir' \in [DOMAIN dir' -> Inodes]
      /\ answer' \in {Ok, Failed}
      /\ UNCHANGED <<opened, kern, disk, historyVars>>
  <2>1. CASE RemoveWork(request) /\ PathOf(request.name) = BadPath
    BY <2>1 DEF RemoveWork, Reply, NoFileChange, FilesTyped, FileTypes
  <2>2. CASE RemoveWork(request) /\ PathOf(request.name) # BadPath
    BY <2>2, UnlinkTypes DEF RemoveWork
  <2>3. CASE DeleteAllWork(request)
    BY <2>3, UnlinkTypes DEF DeleteAllWork
  <2> QED BY <2>1, <2>2, <2>3
<1>2. request.cmd \notin Teaching
  BY DEF Teaching
<1>3. userId' \in Components /\ storageId' \in {"std", "ce"}
  BY RequestFields DEF RemoveWork, DeleteAllWork, SetIds, FilesTyped, FileTypes, WithName
<1>4. FilesTyped'
  BY <1>1, <1>3, AnswerTypes DEF FilesTyped, FileTypes, HistoryTypes, historyVars
<1>5. AnswerTells'
  BY <1>2 DEF AnswerTells, GotFd, Opening, Teaching
<1>6. Before => Listed' /\ Settled'
  BY <1>1, <1>2, UnchangedGrows, QuietSettles DEF Before, FilesTyped
<1> QED BY <1>4, <1>5, <1>6

LEMMA RenameHandler ==
  ASSUME FilesTyped, request \in Requests, request' = request,
         request.cmd = "rename", RenameWork(request)
  PROVE  FilesTyped' /\ AnswerTells' /\ (Before => Listed' /\ Settled')
<1> DEFINE from == PathOf(request.name)
           to == PathOf(request.name2)
           rest == Restrict(dir, DOMAIN dir \ {from, to})
<1>1. /\ UNCHANGED <<opened, kern, disk, historyVars>>
      /\ userId' = request.user /\ storageId' = request.storage
      /\ \/ answer' = Failed /\ dir' = dir
         \/ from \in DOMAIN dir /\ dir' = Bind(rest, to, dir[from]) /\ answer' = Ok
  BY DEF RenameWork, SetIds, Reply
<1>2. userId' \in Components /\ storageId' \in {"std", "ce"}
      /\ request.name \in Names /\ request.name2 \in Names
  BY <1>1, RequestFields DEF WithName, WithTwoNames
<1>3. to \in Seq(Components)
  BY <1>2, PathType
<1> HIDE DEF from, to
<1>4. DOMAIN dir' \subseteq Seq(Components) /\ dir' \in [DOMAIN dir' -> Inodes]
  <2>0. dir \in [DOMAIN dir -> Inodes] /\ DOMAIN dir \ {from, to} \in SUBSET DOMAIN dir
    BY DEF FilesTyped, FileTypes
  <2>1. DOMAIN rest = DOMAIN dir \ {from, to} /\ rest \in [DOMAIN rest -> Inodes]
    BY <2>0, RestrictType
  <2>2. DOMAIN rest \subseteq Seq(Components)
    BY <2>1 DEF FilesTyped, FileTypes
  <2> HIDE DEF rest
  <2>3. CASE dir' = dir
    BY <2>3 DEF FilesTyped, FileTypes
  <2>4. CASE from \in DOMAIN dir /\ dir' = Bind(rest, to, dir[from])
    <3>1. dir[from] \in Inodes
      BY <2>4 DEF FilesTyped, FileTypes
    <3>2. rest \in [DOMAIN rest -> Inodes]
      BY <2>1
    <3>3. LET new == Bind(rest, to, dir[from])
          IN  DOMAIN new \subseteq Seq(Components) /\ new \in [DOMAIN new -> Inodes]
      BY <1>3, <2>2, <3>1, <3>2 DEF Bind
    <3> QED BY <2>4, <3>3
  <2> QED BY <1>1, <2>3, <2>4
<1>5. request.cmd \notin Teaching
  BY DEF Teaching
<1>6. FilesTyped'
  BY <1>1, <1>2, <1>4, AnswerTypes DEF FilesTyped, FileTypes, HistoryTypes, historyVars
<1>7. AnswerTells'
  BY <1>5 DEF AnswerTells, GotFd, Opening, Teaching
<1>8. Before => Listed' /\ Settled'
  BY <1>1, <1>5, UnchangedGrows, QuietSettles DEF Before, FilesTyped
<1> QED BY <1>6, <1>7, <1>8
-----------------------------------------------------------------------------
(* The handlers of an open file *)

\* What stdio does with the buffer of entry n: it gets the pieces of more,
\* and either keeps all or hands all to the kernel.
Stdio(n, more) ==
  LET buf == opened[n].buf \cup more
  IN  \/ opened' = [opened EXCEPT ![n].buf = buf] /\ kern' = kern
      \/ /\ opened' = [opened EXCEPT ![n].buf = {}]
         /\ kern' = [kern EXCEPT ![opened[n].ino] = @ \cup buf]

LEMMA StdioGrows ==
  ASSUME FilesTyped, NEW n \in DOMAIN opened, NEW more \in SUBSET Pieces, Stdio(n, more),
         disk' \in [Inodes -> SUBSET Pieces],
         \A i \in Inodes : disk'[i] = disk[i] \/ disk'[i] = kern'[i],
         UNCHANGED historyVars
  PROVE  /\ opened' \in Seq(Entries)
         /\ kern' \in [Inodes -> SUBSET Pieces]
         /\ Growing
         /\ opened[n].buf \cup more \subseteq kern'[opened[n].ino] \cup opened'[n].buf
<1> DEFINE buf == opened[n].buf \cup more
           ino == opened[n].ino
<1>1. opened \in Seq(Entries) /\ kern \in [Inodes -> SUBSET Pieces]
  BY DEF FilesTyped, FileTypes
<1>2. ino \in Inodes /\ buf \in SUBSET Pieces /\ {} \in SUBSET Pieces
  BY <1>1, EntryType
<1>3. CASE opened' = [opened EXCEPT ![n].buf = buf] /\ kern' = kern
  <2>1. /\ opened' \in Seq(Entries)
        /\ DOMAIN opened' = DOMAIN opened
        /\ \A m \in DOMAIN opened :
             /\ opened'[m].fd = opened[m].fd
             /\ opened'[m].ino = opened[m].ino
             /\ opened'[m].live = opened[m].live
             /\ opened'[m].buf = IF m = n THEN buf ELSE opened[m].buf
    <3> HIDE DEF buf
    <3> QED BY <1>1, <1>2, <1>3, BufferSet
  <2>2. Growing
    BY <1>3, <2>1 DEF Growing
  <2> QED BY <1>1, <1>3, <2>1, <2>2
<1>4. CASE /\ opened' = [opened EXCEPT ![n].buf = {}]
           /\ kern' = [kern EXCEPT ![ino] = @ \cup buf]
  <2>1. /\ opened' \in Seq(Entries)
        /\ DOMAIN opened' = DOMAIN opened
        /\ \A m \in DOMAIN opened :
             /\ opened'[m].fd = opened[m].fd
             /\ opened'[m].ino = opened[m].ino
             /\ opened'[m].live = opened[m].live
             /\ opened'[m].buf = IF m = n THEN {} ELSE opened[m].buf
    BY <1>1, <1>2, <1>4, BufferSet
  <2>2. /\ kern' \in [Inodes -> SUBSET Pieces]
        /\ kern'[ino] = kern[ino] \cup buf
        /\ \A i \in Inodes : kern[i] \subseteq kern'[i]
    BY <1>1, <1>2, <1>4
  <2>3. Growing
    BY <2>1, <2>2 DEF Growing
  <2> QED BY <2>1, <2>2, <2>3
<1> QED BY <1>3, <1>4 DEF Stdio

LEMMA FlushIsStdio ==
  ASSUME NEW n, Flush(n)
  PROVE  Stdio(n, {})
BY DEF Flush, Stdio

LEMMA SeekHandler ==
  ASSUME FilesTyped, request \in Requests, request' = request,
         request.cmd = "seek", SeekWork(request)
  PROVE  FilesTyped' /\ AnswerTells' /\ (Before => Listed' /\ Settled')
<1> DEFINE n == FindOpenFile(request.fd)
<1>1. /\ UNCHANGED <<userId, storageId, dir, disk, historyVars>>
      /\ \/ answer' = Failed /\ UNCHANGED <<opened, kern>>
         \/ n # 0 /\ Flush(n) /\ answer' = Ok
  BY DEF SeekWork, KeepIds, Reply
<1>2. disk' \in [Inodes -> SUBSET Pieces] /\ {} \in SUBSET Pieces
  BY <1>1 DEF FilesTyped, FileTypes
<1>3. opened' \in Seq(Entries) /\ kern' \in [Inodes -> SUBSET Pieces] /\ Growing
  <2>1. CASE UNCHANGED <<opened, kern>>
    BY <1>1, <2>1, UnchangedGrows DEF FilesTyped, FileTypes
  <2>2. CASE n # 0 /\ Flush(n)
    <3>1. n \in DOMAIN opened
      BY <2>2, FindOpenFileFinds DEF FilesTyped, FileTypes
    <3> QED BY <1>1, <1>2, <2>2, <3>1, FlushIsStdio, StdioGrows
  <2> QED BY <1>1, <2>1, <2>2
<1>4. request.cmd \notin Teaching
  BY DEF Teaching
<1>5. FilesTyped'
  BY <1>1, <1>2, <1>3, AnswerTypes DEF FilesTyped, FileTypes, HistoryTypes, historyVars
<1>6. AnswerTells'
  BY <1>4 DEF AnswerTells, GotFd, Opening, Teaching
<1>7. Before => Listed' /\ Settled'
  BY <1>3, <1>4, QuietSettles DEF Before, FilesTyped
<1> QED BY <1>5, <1>6, <1>7

\* The entry that is found is the one the TEE holds.
LEMMA FoundIsHeld ==
  ASSUME FilesTyped, Listed, Match(held), NEW fd, FindOpenFile(fd) # 0
  PROVE  LET n == FindOpenFile(fd)
         IN  /\ n \in DOMAIN opened
             /\ opened[n].fd = fd
             /\ fd \in DOMAIN held
             /\ held[fd] = opened[n].ino
             /\ opened[n].ino \in Inodes
             /\ fd \in Fds
BY FindOpenFileFinds, EntryType DEF Match, FilesTyped, FileTypes

\* A confirmed write is at least in the buffer, a confirmed SEC_WRITE_SSA
\* write and all that came before it in the kernel.
LEMMA WriteHandler ==
  ASSUME FilesTyped, request \in Requests, request' = request,
         request.cmd = "write", WriteWork(request)
  PROVE  FilesTyped' /\ AnswerTells' /\ (Before => Listed' /\ Settled')
<1> DEFINE n == FindOpenFile(request.fd)
           buf == opened[n].buf \cup {request.piece}
           ino == opened[n].ino
           buffered == /\ n # 0
                       /\ opened' = [opened EXCEPT ![n].buf = buf]
                       /\ answer' = IF request.ssa THEN Failed ELSE Ok
                       /\ kern' = kern
           flushing == /\ n # 0
                       /\ kern' = [kern EXCEPT ![ino] = @ \cup buf]
                       /\ opened' = [opened EXCEPT ![n].buf = {}]
                       /\ answer' = Ok
<1>1. /\ UNCHANGED <<userId, storageId, dir, disk, historyVars>>
      /\ \/ answer' = Failed /\ UNCHANGED <<opened, kern>>
         \/ buffered
         \/ flushing
  BY DEF WriteWork, KeepIds, Reply
<1>2. disk' \in [Inodes -> SUBSET Pieces] /\ {request.piece} \in SUBSET Pieces
      /\ request.ssa \in BOOLEAN
  BY <1>1, RequestFields DEF FilesTyped, FileTypes
<1>3. ASSUME buffered \/ flushing
      PROVE  /\ n \in DOMAIN opened
             /\ opened' \in Seq(Entries) /\ kern' \in [Inodes -> SUBSET Pieces]
             /\ Growing
             /\ buf \subseteq kern'[ino] \cup opened'[n].buf
  <2>1. n \in DOMAIN opened
    BY <1>3, FindOpenFileFinds DEF FilesTyped, FileTypes
  <2>2. Stdio(n, {request.piece})
    BY <1>3 DEF Stdio
  <2> HIDE DEF n
  <2> QED BY <1>1, <1>2, <2>1, <2>2, StdioGrows
<1>4. opened' \in Seq(Entries) /\ kern' \in [Inodes -> SUBSET Pieces] /\ Growing
  <2>1. CASE UNCHANGED <<opened, kern>>
    BY <1>1, <2>1, UnchangedGrows DEF FilesTyped, FileTypes
  <2> QED BY <1>1, <1>3, <2>1
<1>5. FilesTyped'
  BY <1>1, <1>2, <1>4, AnswerTypes DEF FilesTyped, FileTypes, HistoryTypes, historyVars
<1>6. AnswerTells'
  BY DEF AnswerTells, GotFd, Opening
<1>7. ASSUME Before
      PROVE  Listed' /\ Settled'
  <2>1. CASE answer' = Failed
    BY <1>4, <1>7, <2>1, AnswerTypes, QuietSettles DEF Before, FilesTyped
  <2>2. CASE answer' = Ok
    <3>1. /\ buffered \/ flushing
          /\ request.ssa => flushing
      BY <1>1, <1>2, <2>2, AnswerTypes
    <3>2. Listed' /\ Match(held)' /\ Buffers(sent)' /\ Promises(flushed, synced)'
      BY <1>4, <1>7, GrowingKeeps DEF Before, FilesTyped
    <3>3. /\ n \in DOMAIN opened /\ opened[n].fd = request.fd
          /\ request.fd \in DOMAIN held /\ held[request.fd] = ino
          /\ ino \in Inodes /\ request.fd \in Fds
      BY <1>7, <3>1, FoundIsHeld DEF Before
    <3>4. /\ held' = held /\ sent' = sent /\ flushed' = flushed /\ synced' = synced
          /\ DOMAIN opened' = DOMAIN opened
          /\ \A m \in DOMAIN opened :
               opened'[m].fd = opened[m].fd /\ opened'[m].ino = opened[m].ino
      BY <1>4 DEF Growing, historyVars
    <3>5. Confirmed(request)' /\ ~GotFd(request)' /\ request'.cmd = "write"
      BY <2>2, <3>3, <3>4, AnswerTypes DEF Confirmed, GotFd, Opening
    <3>6. /\ HeldAfter(request)' = held
          /\ SentAfter(request)' = [sent EXCEPT ![request.fd] = @ \cup {request.piece}]
          /\ FlushedAfter(request)' =
               IF request.ssa
               THEN [flushed EXCEPT ![ino] = @ \cup sent[request.fd] \cup {request.piece}]
               ELSE flushed
          /\ SyncedAfter(request)' = synced
      BY <3>3, <3>4, <3>5 DEF HeldAfter, SentAfter, FlushedAfter, SyncedAfter
    <3>7. {request.piece} \subseteq kern'[ino] \cup opened'[n].buf
      BY <1>3, <3>1
    <3>8. Match(HeldAfter(request))'
      BY <3>2, <3>4, <3>6 DEF Match
    <3>9. Buffers(SentAfter(request))'
      <4> SUFFICES ASSUME NEW m \in DOMAIN opened
                   PROVE  [sent EXCEPT ![request.fd] = @ \cup {request.piece}][opened[m].fd]
                            \subseteq kern'[opened[m].ino] \cup opened'[m].buf
        BY <3>4, <3>6 DEF Buffers
      <4>1. sent[opened[m].fd] \subseteq kern'[opened[m].ino] \cup opened'[m].buf
        BY <3>2, <3>4 DEF Buffers
      <4>2. sent \in [Fds -> SUBSET Pieces] /\ opened[m].fd \in Fds
        BY EntryType DEF FilesTyped, FileTypes, HistoryTypes
      <4>3. CASE opened[m].fd = request.fd
        <5>1. m = n
          BY <1>7, <3>3, <4>3 DEF Before, Listed
        <5> QED BY <3>7, <4>1, <4>2, <4>3, <5>1
      <4>4. CASE opened[m].fd # request.fd
        BY <4>1, <4>2, <4>4
      <4> QED BY <4>3, <4>4
    <3>10. Promises(FlushedAfter(request), SyncedAfter(request))'
      <4>1. CASE ~request.ssa
        BY <3>2, <3>4, <3>6, <4>1 DEF Promises
      <4>2. CASE request.ssa
        <5>1. kern'[ino] = kern[ino] \cup buf
          BY <3>1, <3>3, <4>2 DEF FilesTyped, FileTypes
        <5>2. sent[request.fd] \subseteq kern[ino] \cup opened[n].buf
          BY <1>7, <3>3 DEF Before, Buffers
        <5>3. \A i \in Inodes : flushed[i] \subseteq kern'[i] /\ synced[i] \subseteq kern'[i]
                                /\ synced[i] \subseteq disk'[i]
          BY <3>2, <3>4 DEF Promises
        <5>4. flushed \in [Inodes -> SUBSET Pieces]
          BY DEF FilesTyped, HistoryTypes
        <5> DEFINE f == [flushed EXCEPT ![ino] = @ \cup sent[request.fd] \cup {request.piece}]
        <5>5. ASSUME NEW i \in Inodes PROVE f[i] \subseteq kern'[i]
          BY <3>3, <5>1, <5>2, <5>3, <5>4
        <5>6. FlushedAfter(request)' = f /\ SyncedAfter(request)' = synced
          BY <3>6, <4>2
        <5> HIDE DEF f, ino, n, buf
        <5> QED BY <5>3, <5>5, <5>6 DEF Promises
      <4> QED BY <1>2, <4>1, <4>2
    <3> QED BY <3>2, <3>8, <3>9, <3>10 DEF Settled
  <2> QED BY <1>1, <1>2, <2>1, <2>2
<1> QED BY <1>5, <1>6, <1>7

\* A confirmed fsync: all confirmed writes of the file are on the disk.
LEMMA FsyncHandler ==
  ASSUME FilesTyped, request \in Requests, request' = request,
         request.cmd = "fsync", FsyncWork(request)
  PROVE  FilesTyped' /\ AnswerTells' /\ (Before => Listed' /\ Settled')
<1> DEFINE n == FindOpenFile(request.fd)
           ino == opened[n].ino
<1>1. /\ UNCHANGED <<userId, storageId, dir, historyVars>>
      /\ \/ answer' = Failed /\ UNCHANGED <<opened, kern, disk>>
         \/ n # 0 /\ Flush(n) /\ answer' = Failed /\ disk' = disk
         \/ n # 0 /\ Flush(n) /\ answer' = Ok /\ disk' = [disk EXCEPT ![ino] = kern'[ino]]
  BY DEF FsyncWork, KeepIds, Reply
<1>2. disk \in [Inodes -> SUBSET Pieces] /\ kern \in [Inodes -> SUBSET Pieces]
      /\ opened \in Seq(Entries) /\ {} \in SUBSET Pieces
  BY DEF FilesTyped, FileTypes
<1>3. ASSUME n # 0, Flush(n)
      PROVE  /\ n \in DOMAIN opened
             /\ ino \in Inodes
             /\ kern' = [kern EXCEPT ![ino] = @ \cup opened[n].buf]
             /\ kern' \in [Inodes -> SUBSET Pieces]
  <2>1. n \in DOMAIN opened
    BY <1>2, <1>3, FindOpenFileFinds
  <2> HIDE DEF n
  <2>2. ino \in Inodes /\ opened[n].buf \subseteq Pieces
    BY <1>2, <2>1, EntryType
  <2> QED BY <1>2, <1>3, <2>1, <2>2 DEF Flush
<1>4. /\ disk' \in [Inodes -> SUBSET Pieces]
      /\ \A i \in Inodes : disk'[i] = disk[i] \/ disk'[i] = kern'[i]
  BY <1>1, <1>2, <1>3
<1>5. opened' \in Seq(Entries) /\ kern' \in [Inodes -> SUBSET Pieces] /\ Growing
  <2>1. CASE UNCHANGED <<opened, kern, disk>>
    BY <1>1, <1>2, <2>1, UnchangedGrows
  <2>2. CASE n # 0 /\ Flush(n)
    BY <1>1, <1>2, <1>3, <1>4, <2>2, FlushIsStdio, StdioGrows
  <2> QED BY <1>1, <2>1, <2>2
<1>6. FilesTyped'
  BY <1>1, <1>4, <1>5, AnswerTypes DEF FilesTyped, FileTypes, HistoryTypes, historyVars
<1>7. AnswerTells'
  BY DEF AnswerTells, GotFd, Opening
<1>8. ASSUME Before
      PROVE  Listed' /\ Settled'
  <2>1. CASE answer' = Failed
    BY <1>5, <1>8, <2>1, AnswerTypes, QuietSettles DEF Before, FilesTyped
  <2>2. CASE answer' = Ok
    <3>1. n # 0 /\ Flush(n) /\ disk' = [disk EXCEPT ![ino] = kern'[ino]]
      BY <1>1, <2>2, AnswerTypes
    <3>2. Listed' /\ Match(held)' /\ Buffers(sent)' /\ Promises(flushed, synced)'
      BY <1>5, <1>8, GrowingKeeps DEF Before, FilesTyped
    <3>3. /\ n \in DOMAIN opened /\ opened[n].fd = request.fd
          /\ request.fd \in DOMAIN held /\ held[request.fd] = ino
          /\ ino \in Inodes /\ request.fd \in Fds
      BY <1>8, <3>1, FoundIsHeld DEF Before
    <3>4. held' = held /\ sent' = sent /\ flushed' = flushed /\ synced' = synced
      BY <1>1 DEF historyVars
    <3>5. ~Confirmed(request)' /\ ~GotFd(request)'
      BY DEF Confirmed, GotFd, Opening
    <3>6. /\ HeldAfter(request)' = held
          /\ SentAfter(request)' = sent
          /\ FlushedAfter(request)' = flushed
          /\ SyncedAfter(request)' = [synced EXCEPT ![ino] = @ \cup sent[request.fd]]
      BY <2>2, <3>3, <3>4, <3>5, AnswerTypes
      DEF HeldAfter, SentAfter, FlushedAfter, SyncedAfter
    <3>7. sent[request.fd] \subseteq kern[ino] \cup opened[n].buf
      BY <1>8, <3>3 DEF Before, Buffers
    <3>8. kern'[ino] = kern[ino] \cup opened[n].buf /\ disk'[ino] = kern'[ino]
      BY <1>2, <1>3, <3>1
    <3>9. \A i \in Inodes : flushed[i] \subseteq kern'[i] /\ synced[i] \subseteq kern'[i]
                            /\ synced[i] \subseteq disk'[i]
      BY <3>2, <3>4 DEF Promises
    <3>10. synced \in [Inodes -> SUBSET Pieces]
      BY DEF FilesTyped, HistoryTypes
    <3> DEFINE y == [synced EXCEPT ![ino] = @ \cup sent[request.fd]]
    <3>11. ASSUME NEW i \in Inodes PROVE y[i] \subseteq kern'[i] /\ y[i] \subseteq disk'[i]
      <4> HIDE DEF ino, n
      <4>1. y[i] = IF i = ino THEN synced[i] \cup sent[request.fd] ELSE synced[i]
        BY <3>10
      <4> HIDE DEF y
      <4> QED BY <3>7, <3>8, <3>9, <4>1
    <3> HIDE DEF y, ino, n
    <3>12. Promises(FlushedAfter(request), SyncedAfter(request))'
      BY <3>6, <3>9, <3>11 DEF Promises, y
    <3> QED BY <3>2, <3>4, <3>6, <3>12 DEF Settled, Match, Buffers
  <2> QED BY <1>1, <2>1, <2>2
<1> QED BY <1>6, <1>7, <1>8

\* The types after a close, whether or not fclose succeeds.
LEMMA CloseTypes ==
  ASSUME FilesTyped, request \in Requests, request' = request,
         request.cmd = "close", CloseWork(request)
  PROVE  FilesTyped' /\ AnswerTells'
<1> DEFINE n == FindOpenFile(request.fd)
           ino == opened[n].ino
<1>1. opened \in Seq(Entries) /\ kern \in [Inodes -> SUBSET Pieces]
  BY DEF FilesTyped, FileTypes
<1>2. CASE n = 0
  <2>1. UNCHANGED <<userId, storageId, dir, disk, historyVars, opened, kern>> /\ answer' = Failed
    BY <1>2 DEF CloseWork, KeepIds, Reply
  <2>2. FilesTyped'
    BY <2>1, AnswerTypes DEF FilesTyped, FileTypes, HistoryTypes, historyVars
  <2> QED BY <2>2 DEF AnswerTells, GotFd, Opening
<1>3. CASE n # 0
  <2>1. n \in DOMAIN opened
    BY <1>1, <1>3, FindOpenFileFinds
  <2>2. PICK ret \in {0, -1} :
          /\ answer' = [ret |-> ret, fd |-> 0]
          /\ IF ret = 0
             THEN /\ kern' = [kern EXCEPT ![ino] = @ \cup opened[n].buf]
                  /\ DelOpenFile(n)
             ELSE /\ opened' = [opened EXCEPT ![n].live = FALSE, ![n].buf = {}]
                  /\ UNCHANGED kern
    BY <1>3 DEF CloseWork, Reply
  <2>3. UNCHANGED <<userId, storageId, dir, disk, historyVars>>
    BY DEF CloseWork, KeepIds
  <2> HIDE DEF n
  <2>4. opened[n] \in Entries /\ ino \in Inodes /\ opened[n].buf \subseteq Pieces
    BY <1>1, <2>1, EntryType
  <2>5. opened' \in Seq(Entries) /\ kern' \in [Inodes -> SUBSET Pieces]
    <3>1. CASE ret = 0
      <4>1. opened' \in Seq(Entries)
        BY <1>1, <2>1, <2>2, <3>1, RemoveAtProperties DEF DelOpenFile
      <4> QED BY <1>1, <2>2, <2>4, <3>1, <4>1
    <3>2. CASE ret # 0
      <4> DEFINE e == [opened[n] EXCEPT !.live = FALSE, !.buf = {}]
      <4>1. e \in Entries
        BY <2>4 DEF Entries
      <4>2. opened' = [opened EXCEPT ![n] = e]
        BY <1>1, <2>1, <2>2, <2>4, <3>2, LenProperties DEF Entries
      <4> HIDE DEF e
      <4>3. n \in 1 .. Len(opened)
        BY <1>1, <2>1, LenProperties
      <4>4. opened' \in Seq(Entries)
        BY <1>1, <4>1, <4>2, <4>3, ExceptSeq
      <4> QED BY <1>1, <2>2, <3>2, <4>4
    <3> QED BY <3>1, <3>2
  <2>6. FilesTyped'
    BY <2>2, <2>3, <2>5 DEF FilesTyped, FileTypes, HistoryTypes, historyVars
  <2> QED BY <2>6 DEF AnswerTells, GotFd, Opening
<1> QED BY <1>2, <1>3

\* A close hands the buffer to the kernel and takes the entry off the list.
LEMMA CloseSettles ==
  ASSUME FilesTyped, request \in Requests, request' = request, CloseFails = FALSE,
         request.cmd = "close", CloseWork(request), Before
  PROVE  Listed' /\ Settled'
<1> DEFINE n == FindOpenFile(request.fd)
           ino == opened[n].ino
<1>1. opened \in Seq(Entries) /\ kern \in [Inodes -> SUBSET Pieces]
  BY DEF FilesTyped, FileTypes
<1>2. CASE n = 0
  <2>1. UNCHANGED <<opened, kern, disk, historyVars>> /\ answer' = Failed
    BY <1>2 DEF CloseWork, Reply
  <2> QED BY <2>1, AnswerTypes, UnchangedGrows, QuietSettles DEF Before, FilesTyped
<1>3. CASE n # 0
  <2>1. /\ answer' = [ret |-> 0, fd |-> 0]
        /\ kern' = [kern EXCEPT ![ino] = @ \cup opened[n].buf]
        /\ opened' = RemoveAt(opened, n)
        /\ disk' = disk
        /\ held' = held /\ sent' = sent /\ flushed' = flushed /\ synced' = synced
    BY <1>3 DEF CloseWork, Reply, DelOpenFile, historyVars
  <2>2. /\ n \in DOMAIN opened /\ opened[n].fd = request.fd
        /\ ino \in Inodes
    BY <1>3, FoundIsHeld DEF Before
  <2>3. ~Confirmed(request)' /\ ~GotFd(request)'
    BY DEF Confirmed, GotFd, Opening
  <2>4. /\ HeldAfter(request)' = Restrict(held, DOMAIN held \ {request.fd})
        /\ SentAfter(request)' = sent
        /\ FlushedAfter(request)' = flushed
        /\ SyncedAfter(request)' = synced
    BY <2>1, <2>3 DEF HeldAfter, SentAfter, FlushedAfter, SyncedAfter
  <2> HIDE DEF n
  <2>5. /\ DOMAIN opened = 1 .. Len(opened) /\ Len(opened) \in Nat
        /\ DOMAIN opened' = 1 .. Len(opened) - 1
        /\ \A i \in 1 .. Len(opened) - 1 :
             opened'[i] = IF i < n THEN opened[i] ELSE opened[i + 1]
    <3>1. /\ opened' \in Seq(Entries) /\ Len(opened') = Len(opened) - 1
          /\ \A i \in 1 .. Len(opened) - 1 :
               opened'[i] = IF i < n THEN opened[i] ELSE opened[i + 1]
      BY <1>1, <2>1, <2>2, RemoveAtProperties
    <3> QED BY <1>1, <3>1, LenProperties
  <2> DEFINE old(i) == IF i < n THEN i ELSE i + 1
  <2>6. \A i \in DOMAIN opened' : /\ old(i) \in DOMAIN opened /\ old(i) # n
                                  /\ opened'[i] = opened[old(i)]
    BY <2>2, <2>5
  <2>7. \A i, j \in DOMAIN opened' : old(i) = old(j) => i = j
    BY <2>2, <2>5
  <2>8. \A m \in DOMAIN opened : m # n => \E i \in DOMAIN opened' : old(i) = m
    <3> SUFFICES ASSUME NEW m \in DOMAIN opened, m # n
                 PROVE  \E i \in DOMAIN opened' : old(i) = m
      OBVIOUS
    <3>1. CASE m < n
      <4>1. m \in DOMAIN opened' /\ old(m) = m
        BY <2>2, <2>5, <3>1
      <4> QED BY <4>1
    <3>2. CASE ~(m < n)
      <4>1. m - 1 \in DOMAIN opened' /\ old(m - 1) = m
        BY <2>2, <2>5, <3>2
      <4> QED BY <4>1
    <3> QED BY <3>1, <3>2
  <2> HIDE DEF old
  <2>9. Listed'
    BY <2>6, <2>7 DEF Before, Listed
  <2>10. \A i \in DOMAIN opened' : opened'[i].fd # request.fd
    BY <2>2, <2>6 DEF Before, Listed
  <2>11. Match(HeldAfter(request))'
    <3>1. DOMAIN held = {opened[m].fd : m \in DOMAIN opened}
      BY DEF Before, Match
    <3>2. DOMAIN held \ {request.fd} = {opened'[i].fd : i \in DOMAIN opened'}
      <4>1. ASSUME NEW x \in DOMAIN held \ {request.fd}
            PROVE  \E i \in DOMAIN opened' : opened'[i].fd = x
        <5>1. PICK m \in DOMAIN opened : opened[m].fd = x
          BY <3>1
        <5>2. m # n
          BY <2>2, <5>1
        <5> QED BY <2>6, <2>8, <5>1, <5>2
      <4>2. \A i \in DOMAIN opened' : opened'[i].fd \in DOMAIN held \ {request.fd}
        BY <2>6, <2>10, <3>1
      <4> QED BY <4>1, <4>2
    <3>3. \A i \in DOMAIN opened' : held[opened'[i].fd] = opened'[i].ino
      BY <2>6 DEF Before, Match
    <3>4. \A i \in DOMAIN opened' : opened'[i].fd \in DOMAIN held \ {request.fd}
      BY <3>2
    <3> QED BY <2>4, <3>2, <3>3, <3>4 DEF Match, Restrict
  <2>12. \A i \in Inodes : kern[i] \subseteq kern'[i]
    BY <1>1, <2>1, <2>2
  <2>13. Buffers(SentAfter(request))'
    <3> SUFFICES ASSUME NEW i \in DOMAIN opened'
                 PROVE  sent[opened'[i].fd] \subseteq kern'[opened'[i].ino] \cup opened'[i].buf
      BY <2>4 DEF Buffers
    <3>1. sent[opened'[i].fd] \subseteq kern[opened'[i].ino] \cup opened'[i].buf
      BY <2>6 DEF Before, Buffers
    <3>2. opened'[i].ino \in Inodes
      BY <1>1, <2>6, EntryType
    <3> QED BY <2>12, <3>1, <3>2
  <2>14. Promises(FlushedAfter(request), SyncedAfter(request))'
    BY <2>1, <2>4, <2>12 DEF Before, Promises
  <2> QED BY <2>9, <2>11, <2>13, <2>14 DEF Settled
<1> QED BY <1>2, <1>3
-----------------------------------------------------------------------------
(* The handlers that empty a file *)

LEMMA TruncateHandler ==
  ASSUME FilesTyped, request \in Requests, request' = request,
         request.cmd = "truncate", TruncateWork(request)
  PROVE  FilesTyped' /\ AnswerTells' /\ (Before => Listed' /\ Settled')
<1> DEFINE path == PathOf(request.name)
           ino == dir[path]
<1>1. /\ userId' = request.user /\ storageId' = request.storage
      /\ UNCHANGED <<opened, dir, disk>>
      /\ \/ answer' = Failed /\ UNCHANGED <<kern, historyVars>>
         \/ /\ path \in DOMAIN dir
            /\ \E cut \in SUBSET kern[ino] :
                 kern' = [kern EXCEPT ![ino] = @ \ cut] /\ Discard(ino, cut)
            /\ answer' = Ok
  BY DEF TruncateWork, SetIds, Reply
<1>2. userId' \in Components /\ storageId' \in {"std", "ce"}
  BY <1>1, RequestFields DEF WithName
<1> HIDE DEF path
<1>3. path \in DOMAIN dir => ino \in Inodes
  BY DEF FilesTyped, FileTypes
<1>4. kern' \in [Inodes -> SUBSET Pieces] /\ HistoryTypes'
  <2>1. CASE UNCHANGED <<kern, historyVars>>
    BY <2>1 DEF FilesTyped, FileTypes, HistoryTypes, historyVars
  <2>2. ASSUME NEW cut, kern' = [kern EXCEPT ![ino] = @ \ cut], Discard(ino, cut)
        PROVE  kern' \in [Inodes -> SUBSET Pieces] /\ HistoryTypes'
    <3>1. HistoryTypes'
      BY <2>2, DiscardTypes DEF FilesTyped
    <3> QED BY <2>2, <3>1 DEF FilesTyped, FileTypes
  <2> QED BY <1>1, <2>1, <2>2
<1>5. FilesTyped'
  BY <1>1, <1>2, <1>4, AnswerTypes DEF FilesTyped, FileTypes
<1>6. AnswerTells'
  BY DEF AnswerTells, GotFd, Opening
<1>7. ASSUME Before
      PROVE  Listed' /\ Settled'
  <2>0. request.cmd \notin Teaching
    BY DEF Teaching
  <2>1. CASE UNCHANGED <<kern, historyVars>>
    BY <1>1, <1>7, <2>0, <2>1, UnchangedGrows, QuietSettles DEF Before, FilesTyped
  <2>2. ASSUME path \in DOMAIN dir, NEW cut,
               kern' = [kern EXCEPT ![ino] = @ \ cut], Discard(ino, cut)
        PROVE  Listed' /\ Settled'
    <3>1. Cutting(ino, cut)
      BY <1>1, <1>3, <2>2 DEF Cutting, FilesTyped, FileTypes
    <3>2. /\ Promises(flushed, synced)'
          /\ \A n \in DOMAIN opened :
               sent'[opened[n].fd] \subseteq kern'[opened[n].ino] \cup opened[n].buf
      BY <1>7, <3>1, CuttingKeeps DEF Before, FilesTyped
    <3>3. opened' = opened /\ held' = held
      BY <1>1, <2>2 DEF Discard
    <3>4. Listed' /\ Match(held)'
      BY <1>7, <3>3 DEF Before, Listed, Match
    <3>5. Buffers(sent)'
      BY <3>2, <3>3 DEF Buffers
    <3> QED BY <2>0, <3>2, <3>4, <3>5, NothingLearned DEF Settled, Match, Buffers, Promises
  <2> QED BY <1>1, <2>1, <2>2
<1> QED BY <1>5, <1>6, <1>7

\* The cases of an open: it fails; the file is opened but not entered in
\* the list; or it is.  The file exists, or gets an inode nobody uses.
OpenCases(path, ino) ==
  /\ userId' = request.user /\ storageId' = request.storage
  /\ \/ answer' = Failed /\ UNCHANGED <<opened, dir, kern, disk, historyVars>>
     \/ /\ path # BadPath
        /\ IF path \in DOMAIN dir
           THEN ino = dir[path]
           ELSE request.cmd = "create" /\ ino \in FreeInodes
        /\ ino \in Inodes
        /\ \E truncate \in BOOLEAN :
             (path \in DOMAIN dir \/ truncate) /\ OpenFile(path, ino, truncate)
        /\ \/ answer' = Failed /\ UNCHANGED opened
           \/ \E fd \in FreeFds : AddOpenFile(fd, ino) /\ answer' = [ret |-> 0, fd |-> fd]

LEMMA OpenIsCases ==
  ASSUME FilesTyped, request \in Requests, request.cmd \in Opening, OpenWork(request)
  PROVE  \E ino : OpenCases(PathOf(request.name), ino)
<1> DEFINE path == PathOf(request.name)
           exists == path \in DOMAIN dir
           create == request.cmd = "create"
           ino == IF exists THEN dir[path]
                  ELSE IF FreeInodes = {} THEN 0 ELSE Min(FreeInodes)
           can == path # BadPath /\ (exists \/ create) /\ ino # 0 /\ FreeFds # {}
<1>1. /\ userId' = request.user /\ storageId' = request.storage
      /\ \/ answer' = Failed /\ UNCHANGED <<opened, dir, kern, disk, historyVars>>
         \/ /\ can
            /\ \E truncate \in BOOLEAN : (create => truncate) /\ OpenFile(path, ino, truncate)
            /\ \/ answer' = Failed /\ UNCHANGED opened
               \/ /\ AddOpenFile(Min(FreeFds), ino)
                  /\ answer' = [ret |-> 0, fd |-> Min(FreeFds)]
  BY DEF OpenWork, SetIds, Reply, NoFileChange
<1>2. can => /\ IF exists THEN ino = dir[path] ELSE create /\ ino \in FreeInodes
             /\ ino \in Inodes
             /\ Min(FreeFds) \in FreeFds
  BY FreshType DEF FilesTyped, FileTypes
<1> HIDE DEF ino
<1>3. OpenCases(path, ino)
  <2> HIDE DEF path
  <2> QED BY <1>1, <1>2 DEF OpenCases
<1> QED BY <1>3

\* fopen: the directory names the file, and only its own content changes.
LEMMA OpenFileTypes ==
  ASSUME FilesTyped, NEW path \in Seq(Components), NEW ino \in Inodes, NEW truncate \in BOOLEAN,
         path \in DOMAIN dir \/ truncate, OpenFile(path, ino, truncate)
  PROVE  /\ DOMAIN dir' \subseteq Seq(Components) /\ dir' \in [DOMAIN dir' -> Inodes]
         /\ kern' \in [Inodes -> SUBSET Pieces] /\ disk' \in [Inodes -> SUBSET Pieces]
         /\ HistoryTypes' /\ held' = held
         /\ Cutting(ino, IF truncate THEN Pieces ELSE {})
<1>0. /\ DOMAIN dir \subseteq Seq(Components) /\ dir \in [DOMAIN dir -> Inodes]
      /\ kern \in [Inodes -> SUBSET Pieces] /\ disk \in [Inodes -> SUBSET Pieces]
      /\ HistoryTypes
  BY DEF FilesTyped, FileTypes
<1>1. /\ dir' = Bind(dir, path, ino)
      /\ kern' = IF truncate THEN [kern EXCEPT ![ino] = {}] ELSE kern
      /\ disk' = IF path \in DOMAIN dir THEN disk ELSE [disk EXCEPT ![ino] = {}]
      /\ Discard(ino, IF truncate THEN Pieces ELSE {})
  BY DEF OpenFile
<1>2. DOMAIN dir' \subseteq Seq(Components) /\ dir' \in [DOMAIN dir' -> Inodes]
  BY <1>0, <1>1 DEF Bind
<1>3. kern' \in [Inodes -> SUBSET Pieces] /\ disk' \in [Inodes -> SUBSET Pieces]
  BY <1>0, <1>1
<1>4. HistoryTypes' /\ held' = held
  BY <1>0, <1>1, DiscardTypes
<1>5. Cutting(ino, IF truncate THEN Pieces ELSE {})
  <2>1. path \notin DOMAIN dir => truncate
    OBVIOUS
  <2>2. \A i \in Inodes : kern[i] \subseteq Pieces /\ disk[i] \subseteq Pieces
    BY <1>0
  <2>3. \A i \in Inodes : i # ino => kern'[i] = kern[i] /\ disk'[i] = disk[i]
    BY <1>0, <1>1
  <2>4. ~truncate => kern' = kern /\ disk' = disk
    BY <1>1, <2>1
  <2>5. \A i \in Inodes : kern[i] \ kern'[i] \subseteq IF i = ino
                                                    THEN IF truncate THEN Pieces ELSE {}
                                                    ELSE {}
    BY <2>2, <2>3, <2>4
  <2>6. \A i \in Inodes : disk[i] \ disk'[i] \subseteq IF i = ino
                                                    THEN IF truncate THEN Pieces ELSE {}
                                                    ELSE {}
    BY <2>2, <2>3, <2>4
  <2> QED BY <1>1, <2>5, <2>6 DEF Cutting
<1> QED BY <1>2, <1>3, <1>4, <1>5

\* A new entry at the end of the list.
LEMMA EntryAdded ==
  ASSUME opened \in Seq(Entries), NEW fd \in Fds, NEW ino \in Inodes, AddOpenFile(fd, ino)
  PROVE  /\ opened' \in Seq(Entries)
         /\ DOMAIN opened' = DOMAIN opened \cup {Len(opened) + 1}
         /\ Len(opened) + 1 \notin DOMAIN opened
         /\ \A n \in DOMAIN opened : opened'[n] = opened[n]
         /\ opened'[Len(opened) + 1] = [fd |-> fd, ino |-> ino, buf |-> {}, live |-> TRUE]
<1> DEFINE e == [fd |-> fd, ino |-> ino, buf |-> {}, live |-> TRUE]
<1>1. e \in Entries
  BY DEF Entries
<1>2. opened' = Append(opened, e)
  BY DEF AddOpenFile
<1> HIDE DEF e
<1>3. /\ opened' \in Seq(Entries) /\ Len(opened') = Len(opened) + 1
      /\ \A i \in 1 .. Len(opened) : opened'[i] = opened[i]
      /\ opened'[Len(opened) + 1] = e
  BY <1>1, <1>2, AppendProperties
<1>4. /\ DOMAIN opened = 1 .. Len(opened) /\ Len(opened) \in Nat
      /\ DOMAIN opened' = 1 .. Len(opened) + 1
  BY <1>3, LenProperties
<1> QED BY <1>3, <1>4 DEF e

LEMMA OpenHandler ==
  ASSUME FilesTyped, request \in Requests, request' = request,
         request.cmd \in Opening, OpenWork(request)
  PROVE  FilesTyped' /\ AnswerTells' /\ (Before => Listed' /\ Settled')
<1> DEFINE path == PathOf(request.name)
<1>1. PICK ino : OpenCases(path, ino)
  BY OpenIsCases
<1>2. userId' \in Components /\ storageId' \in {"std", "ce"} /\ request.name \in Names
  BY <1>1, RequestFields DEF OpenCases, WithName
<1>3. path \in Seq(Components)
  BY <1>2, PathType
<1> HIDE DEF path
<1>4. opened \in Seq(Entries)
  BY DEF FilesTyped, FileTypes
<1>5. request.cmd # "cp" /\ request.cmd # "close" /\ request.cmd # "write"
      /\ request.cmd # "fsync"
  BY DEF Opening
<1>6. CASE answer' = Failed /\ UNCHANGED <<opened, dir, kern, disk, historyVars>>
  <2>1. FilesTyped'
    BY <1>2, <1>6, AnswerTypes DEF FilesTyped, FileTypes, HistoryTypes, historyVars
  <2>2. AnswerTells'
    BY <1>5, <1>6, AnswerTypes DEF AnswerTells, GotFd
  <2>3. Before => Listed' /\ Settled'
    BY <1>6, AnswerTypes, UnchangedGrows, QuietSettles DEF Before, FilesTyped
  <2> QED BY <2>1, <2>2, <2>3
<1>7. CASE ~(answer' = Failed /\ UNCHANGED <<opened, dir, kern, disk, historyVars>>)
  <2>1. /\ ino \in Inodes
        /\ \E truncate \in BOOLEAN :
             (path \in DOMAIN dir \/ truncate) /\ OpenFile(path, ino, truncate)
        /\ \/ answer' = Failed /\ UNCHANGED opened
           \/ \E fd \in FreeFds : AddOpenFile(fd, ino) /\ answer' = [ret |-> 0, fd |-> fd]
    BY <1>1, <1>7 DEF OpenCases
  <2>2. /\ DOMAIN dir' \subseteq Seq(Components) /\ dir' \in [DOMAIN dir' -> Inodes]
        /\ kern' \in [Inodes -> SUBSET Pieces] /\ disk' \in [Inodes -> SUBSET Pieces]
        /\ HistoryTypes' /\ held' = held
        /\ \E cut : Cutting(ino, cut)
    BY <1>3, <2>1, OpenFileTypes
  <2>3. Before => /\ Promises(flushed, synced)'
                  /\ \A n \in DOMAIN opened :
                       sent'[opened[n].fd] \subseteq kern'[opened[n].ino] \cup opened[n].buf
    BY <2>2, CuttingKeeps DEF Before, FilesTyped
  <2>4. CASE answer' = Failed /\ UNCHANGED opened
    <3>1. FilesTyped'
      BY <1>2, <1>4, <2>2, <2>4, AnswerTypes DEF FilesTyped, FileTypes
    <3>2. AnswerTells'
      BY <1>5, <2>4, AnswerTypes DEF AnswerTells, GotFd
    <3>3. ASSUME Before PROVE Listed' /\ Settled'
      <4>1. Listed' /\ Match(held)'
        BY <2>2, <2>4, <3>3 DEF Before, Listed, Match
      <4>2. Buffers(sent)'
        BY <2>3, <2>4, <3>3 DEF Buffers
      <4> QED
        BY <2>3, <2>4, <3>3, <4>1, <4>2, AnswerTypes, NothingLearned
        DEF Settled, Match, Buffers, Promises
    <3> QED BY <3>1, <3>2, <3>3
  <2>5. CASE \E fd \in FreeFds : AddOpenFile(fd, ino) /\ answer' = [ret |-> 0, fd |-> fd]
    <3>1. PICK fd \in FreeFds : AddOpenFile(fd, ino) /\ answer' = [ret |-> 0, fd |-> fd]
      BY <2>5
    <3>2. fd \in Fds
      BY DEF FreeFds
    <3> DEFINE new == Len(opened) + 1
    <3>3. /\ opened' \in Seq(Entries)
          /\ DOMAIN opened' = DOMAIN opened \cup {new}
          /\ new \notin DOMAIN opened
          /\ \A n \in DOMAIN opened : opened'[n] = opened[n]
          /\ opened'[new] = [fd |-> fd, ino |-> ino, buf |-> {}, live |-> TRUE]
      BY <1>4, <2>1, <3>1, <3>2, EntryAdded
    <3> HIDE DEF new
    <3>4. answer' \in [ret : {-1, 0}, fd : Fds \cup {0}] /\ answer'.fd = fd /\ answer'.ret = 0
      BY <3>1, <3>2
    <3>5. FilesTyped'
      BY <1>2, <2>2, <3>3, <3>4 DEF FilesTyped, FileTypes
    <3>6. AnswerTells'
      BY <1>5, <3>3, <3>4 DEF AnswerTells
    <3>7. ASSUME Before PROVE Listed' /\ Settled'
      <4>1. \A n \in DOMAIN opened : opened[n].fd # fd
        BY <3>7 DEF Before, Listed, FreeFds, UsedFds
      <4>2. Listed'
        BY <3>3, <3>7, <4>1 DEF Before, Listed
      <4>3. InodeOf(answer.fd)' = ino
        <5> DEFINE hits == {m \in DOMAIN opened' : opened'[m].fd = fd}
        <5>1. hits = {new} /\ new \in Nat \ {0}
          BY <1>4, <3>3, <4>1, LenProperties DEF new
        <5>2. Min({new}) = new
          BY <5>1 DEF Min
        <5>3. FindOpenFile(answer.fd)' = new
          BY <3>4, <5>1, <5>2 DEF FindOpenFile
        <5>4. new # 0
          BY <5>1
        <5> HIDE DEF hits
        <5> QED BY <3>3, <5>3, <5>4 DEF InodeOf
      <4>4. GotFd(request)' /\ ~Confirmed(request)'
        BY <1>5, <3>4 DEF GotFd, Confirmed
      <4>5. /\ HeldAfter(request)' = Bind(held, fd, ino)
            /\ SentAfter(request)' = [sent' EXCEPT ![fd] = {}]
            /\ FlushedAfter(request)' = flushed'
            /\ SyncedAfter(request)' = synced'
        <5>1. HeldAfter(request)' = Bind(held', answer'.fd, InodeOf(answer.fd)')
          BY <4>4 DEF HeldAfter
        <5> QED
          BY <1>5, <2>2, <3>4, <4>3, <4>4, <5>1 DEF SentAfter, FlushedAfter, SyncedAfter
      <4>6. Match(HeldAfter(request))'
        <5>1. DOMAIN held = {opened[n].fd : n \in DOMAIN opened}
              /\ \A n \in DOMAIN opened : held[opened[n].fd] = opened[n].ino
          BY <3>7 DEF Before, Match
        <5>2. DOMAIN Bind(held, fd, ino) = {opened'[n].fd : n \in DOMAIN opened'}
          BY <3>3, <5>1 DEF Bind
        <5>3. \A n \in DOMAIN opened' : Bind(held, fd, ino)[opened'[n].fd] = opened'[n].ino
          BY <3>3, <4>1, <5>1 DEF Bind
        <5> QED BY <4>5, <5>2, <5>3 DEF Match
      <4>7. Buffers(SentAfter(request))'
        <5> SUFFICES ASSUME NEW n \in DOMAIN opened'
                     PROVE  [sent' EXCEPT ![fd] = {}][opened'[n].fd]
                              \subseteq kern'[opened'[n].ino] \cup opened'[n].buf
          BY <4>5 DEF Buffers
        <5>1. sent' \in [Fds -> SUBSET Pieces]
          BY <2>2 DEF HistoryTypes
        <5>2. CASE n = new
          BY <3>2, <3>3, <5>1, <5>2
        <5>3. CASE n \in DOMAIN opened
          <6>1. [sent' EXCEPT ![fd] = {}][opened[n].fd] = sent'[opened[n].fd]
            BY <1>4, <4>1, <5>1, <5>3, EntryType
          <6> QED BY <2>3, <3>3, <3>7, <5>3, <6>1
        <5> QED BY <3>3, <5>2, <5>3
      <4>8. Promises(FlushedAfter(request), SyncedAfter(request))'
        BY <2>3, <3>7, <4>5 DEF Promises
      <4> QED BY <4>2, <4>6, <4>7, <4>8 DEF Settled
    <3> QED BY <3>5, <3>6, <3>7
  <2> QED BY <2>1, <2>4, <2>5
<1> QED BY <1>6, <1>7

\* A confirmed copy: what was promised about the source, in the kernel or on
\* the disk, is on the disk in the target.
LEMMA CopyHandler ==
  ASSUME FilesTyped, request \in Requests, request' = request,
         request.cmd = "cp", CopyWork(request)
  PROVE  FilesTyped' /\ AnswerTells' /\ (Before => Listed' /\ Settled')
<1> DEFINE from == PathOf(request.name)
           to == PathOf(request.name2)
           ino == IF to \in DOMAIN dir THEN dir[to]
                  ELSE IF FreeInodes = {} THEN 0 ELSE Min(FreeInodes)
<1>1. /\ userId' = request.user /\ storageId' = request.storage
      /\ \/ answer' = Failed /\ UNCHANGED <<opened, dir, kern, disk, historyVars>>
         \/ from \in DOMAIN dir /\ ino # 0 /\ CopyFile(from, to, ino)
  BY DEF CopyWork, SetIds, Reply, NoFileChange
<1>2. userId' \in Components /\ storageId' \in {"std", "ce"}
      /\ request.name \in Names /\ request.name2 \in Names
  BY <1>1, RequestFields DEF WithName, WithTwoNames
<1>3. to \in Seq(Components)
  BY <1>2, PathType
<1>4. from = JoinedPath(request.name)' /\ to = JoinedPath(request.name2)'
  BY DEF PathOf, JoinedPath
<1>5. ino # 0 => ino \in Inodes
  BY FreshType DEF FilesTyped, FileTypes
<1> HIDE DEF from, to, ino
<1>6. ~GotFd(request)' /\ ~Confirmed(request)'
  BY DEF GotFd, Confirmed, Opening
<1>7. CASE answer' = Failed /\ UNCHANGED <<opened, dir, kern, disk, historyVars>>
  <2>1. FilesTyped'
    BY <1>2, <1>7, AnswerTypes DEF FilesTyped, FileTypes, HistoryTypes, historyVars
  <2>2. AnswerTells'
    BY <1>6, <1>7, AnswerTypes DEF AnswerTells
  <2>3. Before => Listed' /\ Settled'
    BY <1>7, AnswerTypes, UnchangedGrows, QuietSettles DEF Before, FilesTyped
  <2> QED BY <2>1, <2>2, <2>3
<1>8. CASE from \in DOMAIN dir /\ ino # 0 /\ CopyFile(from, to, ino)
  <2> DEFINE source == IF dir[from] = ino THEN {} ELSE kern[dir[from]]
  <2>1. /\ DOMAIN dir \subseteq Seq(Components) /\ dir \in [DOMAIN dir -> Inodes]
        /\ kern \in [Inodes -> SUBSET Pieces] /\ disk \in [Inodes -> SUBSET Pieces]
        /\ ino \in Inodes /\ dir[from] \in Inodes
    BY <1>5, <1>8 DEF FilesTyped, FileTypes
  <2>2. /\ dir' = Bind(dir, to, ino) /\ Discard(ino, Pieces) /\ opened' = opened
        /\ \/ \E part \in SUBSET source :
                /\ kern' = [kern EXCEPT ![ino] = part]
                /\ disk' = [disk EXCEPT ![ino] = IF to \in DOMAIN dir THEN @ ELSE {}]
                /\ answer' = Failed
           \/ /\ kern' = [kern EXCEPT ![ino] = source]
              /\ disk' = [disk EXCEPT ![ino] = source]
              /\ answer' = Ok
    BY <1>8 DEF CopyFile, Reply
  <2>3. source \in SUBSET Pieces
    BY <2>1
  <2> HIDE DEF source
  <2>4. kern' \in [Inodes -> SUBSET Pieces] /\ disk' \in [Inodes -> SUBSET Pieces]
    <3>1. kern' \in [Inodes -> SUBSET Pieces]
      BY <2>1, <2>2, <2>3
    <3>2. disk' \in [Inodes -> SUBSET Pieces]
      BY <2>1, <2>2, <2>3
    <3> QED BY <3>1, <3>2
  <2>5. /\ DOMAIN dir' = DOMAIN dir \cup {to}
        /\ DOMAIN dir' \subseteq Seq(Components) /\ dir' \in [DOMAIN dir' -> Inodes]
        /\ dir'[to] = ino
        /\ from # to => dir'[from] = dir[from]
    BY <1>3, <1>8, <2>1, <2>2 DEF Bind
  <2>6. HistoryTypes' /\ held' = held
    BY <2>2, DiscardTypes DEF FilesTyped
  <2>7. FilesTyped'
    BY <1>2, <2>2, <2>4, <2>5, <2>6, AnswerTypes DEF FilesTyped, FileTypes
  <2>8. AnswerTells'
    BY <1>4, <1>6, <1>8, <2>5 DEF AnswerTells
  <2>9. ASSUME Before PROVE Listed' /\ Settled'
    <3>1. Cutting(ino, Pieces)
      BY <2>1, <2>2 DEF Cutting
    <3>2. /\ Promises(flushed, synced)'
          /\ \A n \in DOMAIN opened :
               sent'[opened[n].fd] \subseteq kern'[opened[n].ino] \cup opened[n].buf
      BY <2>9, <3>1, CuttingKeeps DEF Before, FilesTyped
    <3>3. Listed' /\ Match(held)'
      BY <2>2, <2>6, <2>9 DEF Before, Listed, Match
    <3>4. Buffers(sent)'
      BY <2>2, <3>2 DEF Buffers
    <3>5. CASE answer' = Failed
      BY <3>2, <3>3, <3>4, <3>5, AnswerTypes, NothingLearned
      DEF Settled, Match, Buffers, Promises
    <3>6. CASE answer' = Ok
      <4>1. kern'[ino] = source /\ disk'[ino] = source
        BY <2>1, <2>2, <3>6, AnswerTypes
      <4> DEFINE src == dir'[from]
                 y == [synced' EXCEPT ![ino] = @ \cup flushed'[src] \cup synced'[src]]
      <4>2. InodeAt(request.name)' = src /\ InodeAt(request.name2)' = ino
        BY <1>4, <2>5 DEF InodeAt, JoinedPath
      <4>3. /\ HeldAfter(request)' = held'
            /\ SentAfter(request)' = sent'
            /\ FlushedAfter(request)' = flushed'
            /\ SyncedAfter(request)' = y
        BY <1>6, <3>6, <4>2, AnswerTypes
        DEF HeldAfter, SentAfter, FlushedAfter, SyncedAfter
      <4>4. src \in Inodes /\ (src # ino => src = dir[from])
        BY <1>8, <2>1, <2>5
      <4> HIDE DEF src
      <4>5. flushed'[src] \subseteq source /\ synced'[src] \subseteq source
        <5>1. CASE src = ino
          <6>1. flushed[ino] \subseteq Pieces /\ synced[ino] \subseteq Pieces
            BY <2>1 DEF FilesTyped, HistoryTypes
          <6>2. flushed'[ino] = flushed[ino] \ Pieces /\ synced'[ino] = synced[ino] \ Pieces
            BY <2>1, <2>2, DiscardTypes DEF FilesTyped
          <6> QED BY <5>1, <6>1, <6>2
        <5>2. CASE src # ino
          <6>1. flushed'[src] \subseteq kern'[src] /\ synced'[src] \subseteq kern'[src]
            BY <3>2, <4>4 DEF Promises
          <6>2. kern'[src] = source
            BY <2>1, <2>2, <3>6, <4>4, <5>2 DEF source
          <6> QED BY <6>1, <6>2
        <5> QED BY <5>1, <5>2
      <4>6. synced' \in [Inodes -> SUBSET Pieces]
        BY <2>6 DEF HistoryTypes
      <4>7. ASSUME NEW i \in Inodes
            PROVE  y[i] \subseteq kern'[i] /\ y[i] \subseteq disk'[i]
        <5>1. synced'[i] \subseteq kern'[i] /\ synced'[i] \subseteq disk'[i]
          BY <3>2 DEF Promises
        <5>2. CASE i = ino
          BY <2>1, <4>1, <4>5, <4>6, <5>1, <5>2
        <5>3. CASE i # ino
          BY <4>6, <5>1, <5>3
        <5> QED BY <5>2, <5>3
      <4> HIDE DEF y
      <4>8. Promises(FlushedAfter(request), SyncedAfter(request))'
        BY <3>2, <4>3, <4>7 DEF Promises
      <4> QED BY <3>3, <3>4, <4>3, <4>8 DEF Settled, Match, Buffers
    <3> QED BY <2>2, <3>3, <3>5, <3>6
  <2> QED BY <2>7, <2>8, <2>9
<1> QED BY <1>1, <1>7, <1>8

-----------------------------------------------------------------------------
(* The steps *)

\* Every handler keeps the types, and without failing closes it leaves the
\* files as the TEE will believe once it has its answer.
LEMMA HandlerSettles ==
  ASSUME FilesTyped, request \in Requests, request' = request, Handler(request)
  PROVE  /\ FilesTyped' /\ AnswerTells'
         /\ CloseFails = FALSE /\ Before => Listed' /\ Settled'
<1>1. CASE request.cmd \in Opening /\ OpenWork(request)
  BY <1>1, OpenHandler
<1>2. CASE request.cmd = "close" /\ CloseWork(request)
  BY <1>2, CloseTypes, CloseSettles
<1>3. CASE \/ request.cmd \in {"read", "info"} /\ ReadWork(request)
           \/ request.cmd \in {"access", "access2", "diskusage"} /\ AccessWork(request)
           \/ request.cmd = "invalid" /\ UnknownCommand
  BY <1>3, SilentHandlers
<1>4. CASE request.cmd = "write" /\ WriteWork(request)
  BY <1>4, WriteHandler
<1>5. CASE request.cmd = "seek" /\ SeekWork(request)
  BY <1>5, SeekHandler
<1>6. CASE \/ request.cmd = "remove" /\ RemoveWork(request)
           \/ request.cmd = "deleteall" /\ DeleteAllWork(request)
  BY <1>6, RemoveHandlers
<1>7. CASE request.cmd = "truncate" /\ TruncateWork(request)
  BY <1>7, TruncateHandler
<1>8. CASE request.cmd = "rename" /\ RenameWork(request)
  BY <1>8, RenameHandler
<1>9. CASE request.cmd = "fsync" /\ FsyncWork(request)
  BY <1>9, FsyncHandler
<1>10. CASE request.cmd = "cp" /\ CopyWork(request)
  BY <1>10, CopyHandler
<1> QED
  BY <1>1, <1>2, <1>3, <1>4, <1>5, <1>6, <1>7, <1>8, <1>9, <1>10 DEF Handler

\* What the TEE takes over from an answer has its type.
LEMMA LearnTypes ==
  ASSUME FilesTyped, request \in Requests, AnswerTells, Learn(request)
  PROVE  HistoryTypes'
<1>1. /\ held' = HeldAfter(request) /\ sent' = SentAfter(request)
      /\ flushed' = FlushedAfter(request) /\ synced' = SyncedAfter(request)
  BY DEF Learn
<1>2. /\ DOMAIN held \subseteq Fds /\ held \in [DOMAIN held -> Inodes]
      /\ sent \in [Fds -> SUBSET Pieces]
      /\ flushed \in [Inodes -> SUBSET Pieces] /\ synced \in [Inodes -> SUBSET Pieces]
      /\ opened \in Seq(Entries) /\ dir \in [DOMAIN dir -> Inodes]
  BY DEF FilesTyped, FileTypes, HistoryTypes
<1>3. GotFd(request) => answer.fd \in Fds /\ InodeOf(answer.fd) \in Inodes
  <2> SUFFICES ASSUME GotFd(request)
               PROVE  answer.fd \in Fds /\ InodeOf(answer.fd) \in Inodes
    OBVIOUS
  <2>1. PICK n \in DOMAIN opened : opened[n].fd = answer.fd
    BY DEF AnswerTells
  <2>2. FindOpenFile(answer.fd) # 0 /\ FindOpenFile(answer.fd) \in DOMAIN opened
    BY <1>2, <2>1, FindOpenFileFinds
  <2> QED BY <1>2, <2>1, <2>2, EntryType DEF InodeOf
<1>4. DOMAIN held' \subseteq Fds /\ held' \in [DOMAIN held' -> Inodes]
  BY <1>1, <1>2, <1>3 DEF HeldAfter, Bind, Restrict
<1>5. Confirmed(request) => request.piece \in Pieces /\ request.fd \in Fds
                            /\ held[request.fd] \in Inodes
  BY <1>2, RequestFields DEF Confirmed
<1>6. sent' \in [Fds -> SUBSET Pieces]
  BY <1>1, <1>2, <1>3, <1>5 DEF SentAfter
<1>7. flushed' \in [Inodes -> SUBSET Pieces]
  BY <1>1, <1>2, <1>5 DEF FlushedAfter
<1>8. synced' \in [Inodes -> SUBSET Pieces]
  <2>1. request.fd \in DOMAIN held => request.fd \in Fds /\ held[request.fd] \in Inodes
    BY <1>2
  <2>2. answer.ret = 0 /\ request.cmd = "cp" =>
          InodeAt(request.name) \in Inodes /\ InodeAt(request.name2) \in Inodes
    BY <1>2 DEF AnswerTells, InodeAt, JoinedPath
  <2> QED BY <1>1, <1>2, <2>1, <2>2 DEF SyncedAfter
<1> QED BY <1>4, <1>6, <1>7, <1>8 DEF HistoryTypes

\* Every step is one of the channel.
LEMMA NextIsChannel ==
  ASSUME [Next]_vars
  PROVE  [ChannelNext]_channelVars
<1>1. CASE Next
  BY <1>1 DEF Next, Send, Handle, Take, OtherStep, ChannelNext, WorkerStep
<1>2. CASE UNCHANGED vars
  BY <1>2 DEF vars
<1> QED BY <1>1, <1>2

FsInv == ChannelInv /\ TypeOK /\ (Pending => AnswerTells)
PromiseInv == Listed /\ Ends

\* The type invariant is that of the channel, the files and the history.
LEMMA TypeOKParts ==
  /\ TypeOK <=> ChannelTypeOK /\ request \in Requests /\ FilesTyped
  /\ TypeOK' <=> ChannelTypeOK' /\ request' \in Requests /\ FilesTyped'
BY DEF TypeOK, FilesTyped, FileTypes, HistoryTypes

LEMMA InitFs ==
  Init => FsInv /\ PromiseInv
<1> SUFFICES ASSUME Init PROVE FsInv /\ PromiseInv
  OBVIOUS
<1>1. ChannelInv
  BY InitChannelInv DEF Init
<1>2. ~Pending
  BY DEF Init, ChannelInit, Pending
<1>3. ChannelTypeOK
  BY ChannelTypeInit DEF Init
<1>4. /\ opened = <<>> /\ opened \in Seq(Entries) /\ DOMAIN opened = {}
      /\ DOMAIN dir = {} /\ dir \in [DOMAIN dir -> Inodes]
      /\ DOMAIN held = {} /\ held \in [DOMAIN held -> Inodes]
  BY DEF Init
<1>5. FilesTyped
  BY <1>4, AnswerTypes, FsAssumption DEF Init, FilesTyped, FileTypes, HistoryTypes
<1>6. TypeOK
  BY <1>3, <1>5, TypeOKParts DEF Init
<1>7. Listed /\ Match(held) /\ Buffers(sent)
  BY <1>4 DEF Listed, Match, Buffers
<1>8. Promises(flushed, synced)
  BY DEF Init, Promises
<1> QED BY <1>1, <1>2, <1>6, <1>7, <1>8 DEF FsInv, PromiseInv, Ends

\* A command starts when none is under way; its answer is on its way from
\* its handler to the reply that finds the magic set.
LEMMA Phases ==
  ASSUME ChannelInv
  PROVE  /\ ~TeeWaits => ~Pending
         /\ RunHandler => ~Pending /\ Pending'
         /\ SendCommand => ~Pending /\ ~Pending'
         /\ TakeReply /\ magic = "agent" => Pending /\ ~Pending'
         /\ TakeReply /\ magic # "agent" => (Pending' <=> Pending)
BY DEF ChannelInv, Typed, Counts, MagicTells, Pending, TeeWaits, RunHandler, SendCommand,
   TakeReply, WorkerStates

\* The types, and what an answer tells, are kept by every step.
LEMMA NextFsInv ==
  ASSUME EarlyAsk = FALSE, FsInv, [Next]_vars
  PROVE  FsInv'
<1>0. ChannelInv /\ TypeOK /\ (Pending => AnswerTells)
  BY DEF FsInv
<1>1. ChannelInv' /\ ChannelTypeOK'
  BY <1>0, NextIsChannel, NextChannelInv, ChannelTypeNext DEF TypeOK
<1>2. request \in Requests /\ FilesTyped
  BY <1>0, TypeOKParts
<1>3. CASE \E r \in Requests : Send(r)
  <2>1. request' \in Requests /\ UNCHANGED <<answer, fileVars, historyVars>> /\ ~Pending'
    BY <1>0, <1>3, Phases DEF Send
  <2>2. FilesTyped'
    BY <1>2, <2>1 DEF FilesTyped, FileTypes, HistoryTypes, fileVars, historyVars
  <2>3. TypeOK'
    BY <1>1, <2>1, <2>2, TypeOKParts
  <2> QED BY <1>1, <2>1, <2>3 DEF FsInv
<1>4. CASE Handle
  <2>1. FilesTyped' /\ AnswerTells' /\ request' = request
    BY <1>2, <1>4, HandlerSettles DEF Handle
  <2>2. TypeOK'
    BY <1>1, <1>2, <2>1, TypeOKParts
  <2> QED BY <1>1, <2>1, <2>2 DEF FsInv
<1>5. CASE Take /\ magic = "agent"
  <2>1. /\ UNCHANGED <<request, answer, fileVars>> /\ Learn(request) /\ Pending /\ ~Pending'
    BY <1>0, <1>5, Phases DEF Take
  <2>2. HistoryTypes'
    BY <1>0, <1>2, <2>1, LearnTypes
  <2>3. FilesTyped'
    BY <1>2, <2>1, <2>2 DEF FilesTyped, FileTypes, fileVars
  <2>4. TypeOK'
    BY <1>1, <1>2, <2>1, <2>3, TypeOKParts
  <2> QED BY <1>1, <2>1, <2>4 DEF FsInv
<1>6. CASE (Take /\ magic # "agent") \/ OtherStep \/ UNCHANGED vars
  <2>1. UNCHANGED <<request, answer, fileVars, historyVars>>
    BY <1>6 DEF Take, OtherStep, vars
  <2>2. Pending' <=> Pending
    <3>1. CASE Take /\ magic # "agent"
      BY <1>0, <3>1, Phases DEF Take
    <3>2. CASE OtherStep
      BY <3>2 DEF OtherStep, Pending, GhostWakeup, StartWorker, WaitEvent, CheckMagic, MarkDone,
         SendResponse, IoctlFails
    <3>3. CASE UNCHANGED vars
      BY <3>3 DEF vars, channelVars, Pending
    <3> QED BY <1>6, <3>1, <3>2, <3>3
  <2>3. FilesTyped' /\ request' \in Requests
    BY <1>2, <2>1 DEF FilesTyped, FileTypes, HistoryTypes, fileVars, historyVars
  <2>4. AnswerTells => AnswerTells'
    BY <2>1 DEF AnswerTells, GotFd, JoinedPath, fileVars
  <2>5. TypeOK'
    BY <1>1, <2>3, TypeOKParts
  <2> QED BY <1>0, <1>1, <2>2, <2>4, <2>5 DEF FsInv
<1> QED BY <1>3, <1>4, <1>5, <1>6 DEF Next

\* So is that the files are what the TEE believes or will believe, as long
\* as fclose does not fail.
LEMMA NextPromiseInv ==
  ASSUME EarlyAsk = FALSE, CloseFails = FALSE, FsInv, PromiseInv, [Next]_vars
  PROVE  PromiseInv'
<1>0. ChannelInv /\ request \in Requests /\ FilesTyped /\ Listed /\ Ends
  BY TypeOKParts DEF FsInv, PromiseInv
<1>1. CASE \E r \in Requests : Send(r)
  <2>1. UNCHANGED <<fileVars, historyVars>> /\ ~Pending /\ ~Pending'
    BY <1>0, <1>1, Phases DEF Send
  <2> QED
    BY <1>0, <2>1
    DEF PromiseInv, Listed, Ends, Match, Buffers, Promises, fileVars, historyVars
<1>2. CASE Handle
  <2>1. ~Pending /\ Pending' /\ Handler(request) /\ request' = request
    BY <1>0, <1>2, Phases DEF Handle
  <2>2. Before
    BY <1>0, <2>1 DEF Ends, Before
  <2>3. Listed' /\ Settled'
    BY <1>0, <2>1, <2>2, HandlerSettles
  <2> QED BY <2>1, <2>3 DEF PromiseInv, Ends, Settled
<1>3. CASE Take /\ magic = "agent"
  <2>1. UNCHANGED fileVars /\ Learn(request) /\ Pending /\ ~Pending'
    BY <1>0, <1>3, Phases DEF Take
  <2> QED
    BY <1>0, <2>1 DEF PromiseInv, Listed, Ends, Match, Buffers, Promises, fileVars, Learn
<1>4. CASE (Take /\ magic # "agent") \/ OtherStep \/ UNCHANGED vars
  <2>1. UNCHANGED <<request, answer, fileVars, historyVars>>
    BY <1>4 DEF Take, OtherStep, vars
  <2>2. Pending' <=> Pending
    <3>1. CASE Take /\ magic # "agent"
      BY <1>0, <3>1, Phases DEF Take
    <3>2. CASE OtherStep
      BY <3>2 DEF OtherStep, Pending, GhostWakeup, StartWorker, WaitEvent, CheckMagic, MarkDone,
         SendResponse, IoctlFails
    <3>3. CASE UNCHANGED vars
      BY <3>3 DEF vars, channelVars, Pending
    <3> QED BY <1>4, <3>1, <3>2, <3>3
  <2>3. Listed'
    BY <1>0, <2>1 DEF Listed, fileVars
  <2>4. CASE ~Pending
    BY <1>0, <2>1, <2>2, <2>3, <2>4
    DEF PromiseInv, Ends, Match, Buffers, Promises, fileVars, historyVars
  <2>5. CASE Pending
    <3>1. /\ HeldAfter(request)' = HeldAfter(request)
          /\ SentAfter(request)' = SentAfter(request)
          /\ FlushedAfter(request)' = FlushedAfter(request)
          /\ SyncedAfter(request)' = SyncedAfter(request)
      BY <2>1 DEF HeldAfter, SentAfter, FlushedAfter, SyncedAfter, GotFd, Confirmed, InodeOf,
         InodeAt, FindOpenFile, fileVars, historyVars
    <3> QED
      BY <1>0, <2>1, <2>2, <2>3, <2>5, <3>1
      DEF PromiseInv, Ends, Match, Buffers, Promises, fileVars
  <2> QED BY <2>4, <2>5
<1> QED BY <1>1, <1>2, <1>3, <1>4 DEF Next
-----------------------------------------------------------------------------
(* The directories of the users *)

\* Where a command of a user may lead: outside the directory of the users,
\* to none of its parents, or to the part of that user.
Home(path, user) ==
  /\ path \in Seq(Components)
  /\ \/ \E i \in 1 .. 3 : i <= Len(path) /\ path[i] # UsersDir[i]
     \/ Len(path) >= 4 /\ path[4] = user

LEMMA PrefixItems ==
  ASSUME NEW s \in Seq(Components), NEW t \in Seq(Components), IsPrefix(s, t)
  PROVE  Len(s) <= Len(t) /\ \A i \in 1 .. Len(s) : t[i] = s[i]
<1>1. Len(s) <= Len(t) /\ SubSeq(s, 1, Len(s)) = SubSeq(t, 1, Len(s))
  BY DEF IsPrefix
<1>2. /\ Len(s) \in Int /\ 1 \in Int
      /\ \A i \in 1 .. Len(s) : s[i] \in Components
      /\ \A i \in 1 .. Len(s) : t[i] \in Components
  BY <1>1, LenProperties, ElementOfSeq
<1>3. /\ \A i \in 1 .. Len(s) - 1 + 1 : SubSeq(s, 1, Len(s))[i] = s[1 + i - 1]
      /\ \A i \in 1 .. Len(s) - 1 + 1 : SubSeq(t, 1, Len(s))[i] = t[1 + i - 1]
  BY <1>2, SubSeqProperties
<1> QED BY <1>1, <1>2, <1>3

\* The items of two sequences put together.
LEMMA ConcatItems ==
  ASSUME NEW s \in Seq(Components), NEW t \in Seq(Components)
  PROVE  /\ s \o t \in Seq(Components)
         /\ Len(s) \in Nat /\ Len(t) \in Nat /\ Len(s \o t) = Len(s) + Len(t)
         /\ \A i \in 1 .. Len(s) : (s \o t)[i] = s[i]
         /\ \A i \in 1 .. Len(t) : (s \o t)[Len(s) + i] = t[i]
<1>1. Len(s) \in Nat /\ Len(t) \in Nat
  BY LenProperties
<1>2. /\ s \o t \in Seq(Components)
      /\ Len(s \o t) = Len(s) + Len(t)
      /\ \A i \in 1 .. Len(s) + Len(t) :
           (s \o t)[i] = IF i <= Len(s) THEN s[i] ELSE t[i - Len(s)]
  BY ConcatProperties
<1>3. ASSUME NEW i \in 1 .. Len(t)
      PROVE  (s \o t)[Len(s) + i] = t[i]
  <2>1. Len(s) + i \in 1 .. Len(s) + Len(t) /\ ~(Len(s) + i <= Len(s)) /\ Len(s) + i - Len(s) = i
    BY <1>1
  <2> QED BY <1>2, <2>1
<1> QED BY <1>1, <1>2, <1>3

\* The same with a known length of the first.
LEMMA ConcatAfter ==
  ASSUME NEW s \in Seq(Components), NEW t \in Seq(Components), NEW n \in Nat, Len(s) = n
  PROVE  /\ s \o t \in Seq(Components)
         /\ Len(s \o t) = n + Len(t) /\ Len(t) \in Nat
         /\ \A i \in 1 .. n : (s \o t)[i] = s[i]
         /\ \A i \in 1 .. Len(t) : (s \o t)[n + i] = t[i]
BY ConcatItems

\* The directories of the build.
LEMMA Directories ==
  /\ UserDataDir \in Seq(Components) /\ Len(UserDataDir) = 2
  /\ UserDataDir[1] = "/" /\ UserDataDir[2] = "data"
  /\ RootDir \in Seq(Components) /\ Len(RootDir) = 1
  /\ TransientDir \in Seq(Components) /\ Len(TransientDir) = 1
  /\ TransientDir[1] = "sec_storage_data"
  /\ PrivateDir \in Seq(Components) /\ Len(PrivateDir) = 2
  /\ PrivateDir[1] = "sec_storage_data"
  /\ PersistentDir \in Seq(Components) /\ Len(PersistentDir) = 1
  /\ PersistentDir[1] = "sec_storage"
  /\ CeDir \in Seq(Components) /\ Len(CeDir) = 2 /\ CeDir[2] = "el2"
BY FsAssumption DEF UserDataDir, RootDir, TransientDir, PrivateDir, PersistentDir, CeDir

LEMMA JoinedDirectories ==
  /\ UsersDir \in Seq(Components) /\ Len(UsersDir) = 3
  /\ UsersDir[1] = "/" /\ UsersDir[2] = "data" /\ UsersDir[3] = "sec_storage_data_users"
  /\ RootDir \o PersistentDir \in Seq(Components) /\ Len(RootDir \o PersistentDir) = 2
  /\ (RootDir \o PersistentDir)[2] = "sec_storage"
<1> DEFINE users == <<"sec_storage_data_users">>
           root == RootDir \o PersistentDir
<1>1. users \in Seq(Components) /\ Len(users) = 1 /\ users[1] = "sec_storage_data_users"
  BY FsAssumption
<1>2. UsersDir = UserDataDir \o users
  BY DEF UsersDir
<1> HIDE DEF users, root
<1>3. /\ UsersDir \in Seq(Components) /\ Len(UsersDir) = 2 + 1
      /\ \A i \in 1 .. 2 : UsersDir[i] = UserDataDir[i]
      /\ \A i \in 1 .. 1 : UsersDir[2 + i] = users[i]
  BY <1>1, <1>2, Directories, ConcatItems
<1>4. UsersDir[2 + 1] = "sec_storage_data_users"
  BY <1>1, <1>3
<1>5. /\ root \in Seq(Components) /\ Len(root) = 1 + 1
      /\ \A i \in 1 .. 1 : root[1 + i] = PersistentDir[i]
  BY Directories, ConcatItems DEF root
<1>6. root[1 + 1] = "sec_storage"
  BY <1>5, Directories
<1> QED BY <1>3, <1>4, <1>5, <1>6, Directories DEF root

\* A file of a user is below the home of a command only if the command is
\* for that user.
LEMMA BelowHome ==
  ASSUME NEW path, NEW user, Home(path, user), NEW p \in Seq(Components),
         IsPrefix(UsersDir, p), IsPrefix(path, p)
  PROVE  p[4] = user
<1>1. path \in Seq(Components) /\ Len(path) \in Nat
  BY LenProperties DEF Home
<1>2. \A i \in 1 .. 3 : p[i] = UsersDir[i]
  BY JoinedDirectories, PrefixItems
<1>3. \A i \in 1 .. Len(path) : p[i] = path[i]
  BY <1>1, PrefixItems
<1> QED BY <1>1, <1>2, <1>3 DEF Home

LEMMA SelfPrefix ==
  ASSUME NEW p \in Seq(Components)
  PROVE  IsPrefix(p, p)
BY LenProperties DEF IsPrefix

\* A joined name leads home.
LEMMA DoJoinHome ==
  ASSUME NEW name \in Names, NEW user
  PROVE  Home(DoJoinFileName(name), user)
<1> DEFINE root == RootDir \o PersistentDir
<1>0. name \in Seq(Components) /\ Len(name) \in Nat
  BY LenProperties DEF Names
<1>1. root \in Seq(Components) /\ Len(root) = 2 /\ root[2] = "sec_storage"
  BY JoinedDirectories
<1>2. DoJoinFileName(name) = IF IsPrefix(PrivateDir, name) THEN UserDataDir \o name
                             ELSE IF IsPrefix(PersistentDir, name) THEN RootDir \o name
                             ELSE IF IsPrefix(root, name) THEN name
                             ELSE root \o name
  BY DEF DoJoinFileName
<1> HIDE DEF root
<1>3. CASE IsPrefix(PrivateDir, name)
  <2>1. Len(PrivateDir) <= Len(name) /\ \A i \in 1 .. Len(PrivateDir) : name[i] = PrivateDir[i]
    BY <1>0, <1>3, Directories, PrefixItems
  <2>2. Len(name) >= 2 /\ name[1] = "sec_storage_data"
    BY <1>0, <2>1, Directories
  <2>3. /\ UserDataDir \o name \in Seq(Components) /\ Len(UserDataDir \o name) = 2 + Len(name)
        /\ \A i \in 1 .. Len(name) : (UserDataDir \o name)[2 + i] = name[i]
    <3>1. name \in Seq(Components) /\ UserDataDir \in Seq(Components) /\ Len(UserDataDir) = 2 /\ 2 \in Nat
      BY <1>0, Directories
    <3> QED BY ONLY <3>1, ConcatAfter, Zenon
  <2>4. Len(UserDataDir \o name) >= 3 /\ (UserDataDir \o name)[2 + 1] = "sec_storage_data"
    BY <1>0, <2>2, <2>3
  <2> QED BY <1>2, <1>3, <2>3, <2>4, JoinedDirectories DEF Home
<1>4. CASE ~IsPrefix(PrivateDir, name) /\ IsPrefix(PersistentDir, name)
  <2>1. Len(PersistentDir) <= Len(name)
        /\ \A i \in 1 .. Len(PersistentDir) : name[i] = PersistentDir[i]
    BY <1>0, <1>4, Directories, PrefixItems
  <2>2. Len(name) >= 1 /\ name[1] = "sec_storage"
    BY <1>0, <2>1, Directories
  <2>3. /\ RootDir \o name \in Seq(Components) /\ Len(RootDir \o name) = 1 + Len(name)
        /\ \A i \in 1 .. Len(name) : (RootDir \o name)[1 + i] = name[i]
    <3>1. name \in Seq(Components) /\ RootDir \in Seq(Components) /\ Len(RootDir) = 1 /\ 1 \in Nat
      BY <1>0, Directories
    <3> QED BY ONLY <3>1, ConcatAfter, Zenon
  <2>4. Len(RootDir \o name) >= 2 /\ (RootDir \o name)[1 + 1] = "sec_storage"
    BY <1>0, <2>2, <2>3
  <2> QED BY <1>2, <1>4, <2>3, <2>4, JoinedDirectories DEF Home
<1>5. CASE ~IsPrefix(PrivateDir, name) /\ ~IsPrefix(PersistentDir, name) /\ IsPrefix(root, name)
  <2>1. Len(root) <= Len(name) /\ \A i \in 1 .. Len(root) : name[i] = root[i]
    BY <1>0, <1>1, <1>5, PrefixItems
  <2>2. Len(name) >= 2 /\ name[2] = "sec_storage"
    BY <1>0, <1>1, <2>1
  <2> QED BY <1>0, <1>2, <1>5, <2>2, JoinedDirectories DEF Home
<1>6. CASE ~IsPrefix(PrivateDir, name) /\ ~IsPrefix(PersistentDir, name) /\ ~IsPrefix(root, name)
  <2>1. /\ root \o name \in Seq(Components) /\ Len(root \o name) = 2 + Len(name)
        /\ \A i \in 1 .. 2 : (root \o name)[i] = root[i]
    <3>1. name \in Seq(Components) /\ root \in Seq(Components) /\ Len(root) = 2 /\ 2 \in Nat
      BY <1>0, <1>1
    <3> QED BY ONLY <3>1, ConcatAfter, Zenon
  <2>2. Len(root \o name) >= 2 /\ (root \o name)[2] = "sec_storage"
    BY <1>0, <1>1, <2>1
  <2> QED BY <1>2, <1>6, <2>1, <2>2, JoinedDirectories DEF Home
<1> QED BY <1>3, <1>4, <1>5, <1>6

LEMMA JoinHome ==
  ASSUME NEW name \in Names, NEW user \in Components, NEW storage,
         JoinFileName(name, user, storage) # BadPath
  PROVE  Home(JoinFileName(name, user, storage), user)
<1> DEFINE path == JoinFileName(name, user, storage)
<1>0. name \in Seq(Components) /\ Len(name) \in Nat /\ name # <<>>
  BY LenProperties DEF Names
<1>1. CheckFileNameAndPath(name)
  BY DEF JoinFileName
<1>2. CASE storage = "ce"
  <2> DEFINE mid == <<Head(name), "tee", "sec_storage_data">>
             front == CeDir \o mid
  <2>1. Head(name) \in Components /\ Tail(name) \in Seq(Components)
    BY <1>0, HeadTailProperties
  <2>2. mid \in Seq(Components)
    BY <2>1, FsAssumption
  <2>3. path = front \o Tail(name)
    BY <1>1, <1>2 DEF JoinFileName, JoinFileNameForStorageCE
  <2> HIDE DEF mid, path
  <2>4. /\ front \in Seq(Components) /\ Len(front) \in Nat /\ Len(front) >= 2
        /\ \A i \in 1 .. 2 : front[i] = CeDir[i]
    <3>1. mid \in Seq(Components) /\ CeDir \in Seq(Components) /\ Len(CeDir) = 2 /\ 2 \in Nat
      BY <2>2, Directories
    <3>2. /\ front \in Seq(Components) /\ Len(front) = 2 + Len(mid) /\ Len(mid) \in Nat
          /\ \A i \in 1 .. 2 : front[i] = CeDir[i]
      BY ONLY <3>1, ConcatAfter, Zenon
    <3> QED BY <3>2
  <2>5. front[2] = "el2"
    BY <2>4, Directories
  <2> HIDE DEF front
  <2>6. /\ path \in Seq(Components) /\ Len(Tail(name)) \in Nat
        /\ Len(path) = Len(front) + Len(Tail(name))
        /\ \A i \in 1 .. Len(front) : path[i] = front[i]
    BY <2>1, <2>3, <2>4, ConcatItems
  <2>7. Len(path) >= 2 /\ path[2] = "el2"
    BY <2>4, <2>5, <2>6
  <2>8. Home(path, user)
    BY <2>6, <2>7, JoinedDirectories DEF Home
  <2> QED BY <2>8 DEF path
<1>3. CASE storage # "ce" /\ IsPrefix(TransientDir, name)
  <2>1. path = JoinFileNameTransient(name, user)
    BY <1>1, <1>3 DEF JoinFileName
  <2>2. Len(TransientDir) <= Len(name)
        /\ \A i \in 1 .. Len(TransientDir) : name[i] = TransientDir[i]
    BY <1>0, <1>3, Directories, PrefixItems
  <2>3. Len(name) >= 1 /\ name[1] = "sec_storage_data"
    BY <1>0, <2>2, Directories
  <2>4. CASE user = "0"
    <3>1. path = UserDataDir \o name
      BY <2>1, <2>4 DEF JoinFileNameTransient
    <3> HIDE DEF path
    <3>2. /\ path \in Seq(Components) /\ Len(path) = 2 + Len(name)
          /\ \A i \in 1 .. Len(name) : path[2 + i] = name[i]
      <4>1. name \in Seq(Components) /\ UserDataDir \in Seq(Components) /\ Len(UserDataDir) = 2 /\ 2 \in Nat
        BY <1>0, Directories
      <4> QED BY ONLY <3>1, <4>1, ConcatAfter, Zenon
    <3>3. Len(path) >= 3 /\ path[2 + 1] = "sec_storage_data"
      BY <1>0, <2>3, <3>2
    <3>4. Home(path, user)
      BY <3>2, <3>3, JoinedDirectories DEF Home
    <3> QED BY <3>4 DEF path
  <2>5. CASE user # "0"
    <3> DEFINE front == UsersDir \o <<user>>
               rest == SubSeq(name, Len(TransientDir) + 1, Len(name))
    <3>1. path = front \o rest
      BY <2>1, <2>5 DEF JoinFileNameTransient
    <3> HIDE DEF path
    <3>2. rest \in Seq(Components)
      <4>1. /\ Len(name) \in Int /\ 1 + 1 \in Int
            /\ \A i \in 1 + 1 .. Len(name) : name[i] \in Components
        BY <1>0, ElementOfSeq
      <4> QED BY <4>1, Directories, SubSeqProperties
    <3>3. <<user>> \in Seq(Components) /\ Len(<<user>>) = 1 /\ <<user>>[1] = user
      OBVIOUS
    <3>4. /\ front \in Seq(Components) /\ Len(front) = 3 + 1
          /\ \A i \in 1 .. 1 : front[3 + i] = <<user>>[i]
      <4>1. <<user>> \in Seq(Components) /\ Len(<<user>>) = 1
            /\ UsersDir \in Seq(Components) /\ Len(UsersDir) = 3 /\ 3 \in Nat
        BY <3>3, JoinedDirectories
      <4> QED BY ONLY <4>1, ConcatAfter, Zenon
    <3>5. front[3 + 1] = user
      BY <3>3, <3>4
    <3> HIDE DEF front, rest
    <3>6. /\ path \in Seq(Components) /\ Len(rest) \in Nat /\ Len(path) = Len(front) + Len(rest)
          /\ \A i \in 1 .. Len(front) : path[i] = front[i]
      BY <3>1, <3>2, <3>4, ConcatItems
    <3>7. Len(path) >= 4 /\ path[4] = user
      BY <3>4, <3>5, <3>6
    <3>8. Home(path, user)
      BY <3>6, <3>7 DEF Home
    <3> QED BY <3>8 DEF path
  <2> QED BY <2>4, <2>5
<1>4. CASE storage # "ce" /\ ~IsPrefix(TransientDir, name)
  <2>1. path = DoJoinFileName(name)
    BY <1>1, <1>4 DEF JoinFileName
  <2> QED BY <2>1, DoJoinHome
<1> QED BY <1>2, <1>3, <1>4

\* The names of the commands that are joined without a check.
DeleteAllStays ==
  \A r \in Requests : r.cmd = "deleteall" => CheckFileNameAndPath(r.name)

LEMMA NoDots ==
  ASSUME NEW path \in Seq(Components), ".." \notin ToSet(path)
  PROVE  Resolve(path) = path
BY DEF Resolve

\* The components of two sequences put together.
LEMMA ConcatSet ==
  ASSUME NEW s \in Seq(Components), NEW t \in Seq(Components),
         ".." \notin ToSet(s), ".." \notin ToSet(t)
  PROVE  s \o t \in Seq(Components) /\ ".." \notin ToSet(s \o t)
<1>1. /\ s \o t \in Seq(Components) /\ Len(s) \in Nat /\ Len(t) \in Nat
      /\ Len(s \o t) = Len(s) + Len(t)
      /\ \A i \in 1 .. Len(s) + Len(t) :
           (s \o t)[i] = IF i <= Len(s) THEN s[i] ELSE t[i - Len(s)]
  BY ConcatProperties, LenProperties
<1>2. DOMAIN s = 1 .. Len(s) /\ DOMAIN t = 1 .. Len(t) /\ DOMAIN (s \o t) = 1 .. Len(s) + Len(t)
  BY <1>1, LenProperties
<1>3. ASSUME NEW i \in 1 .. Len(s) + Len(t)
      PROVE  (s \o t)[i] # ".."
  <2>1. CASE i <= Len(s)
    <3>1. i \in DOMAIN s /\ (s \o t)[i] = s[i]
      BY <1>1, <1>2, <2>1
    <3> QED BY <3>1 DEF ToSet
  <2>2. CASE ~(i <= Len(s))
    <3>1. i - Len(s) \in DOMAIN t /\ (s \o t)[i] = t[i - Len(s)]
      BY <1>1, <1>2, <2>2
    <3> QED BY <3>1 DEF ToSet
  <2> QED BY <2>1, <2>2
<1> QED BY <1>1, <1>2, <1>3 DEF ToSet

LEMMA SubSeqSet ==
  ASSUME NEW s \in Seq(Components), ".." \notin ToSet(s), NEW m \in Nat \ {0}
  PROVE  SubSeq(s, m, Len(s)) \in Seq(Components) /\ ".." \notin ToSet(SubSeq(s, m, Len(s)))
<1> DEFINE u == SubSeq(s, m, Len(s))
<1>1. DOMAIN s = 1 .. Len(s) /\ Len(s) \in Nat
  BY LenProperties
<1>2. /\ m \in Int /\ Len(s) \in Int
      /\ \A i \in m .. Len(s) : s[i] \in Components
  BY <1>1, ElementOfSeq
<1>3. /\ u \in Seq(Components)
      /\ Len(u) = IF m <= Len(s) THEN Len(s) - m + 1 ELSE 0
      /\ \A i \in 1 .. Len(s) - m + 1 : u[i] = s[m + i - 1]
  BY <1>2, SubSeqProperties
<1> HIDE DEF u
<1>4. DOMAIN u = 1 .. Len(u)
  BY <1>3, LenProperties
<1>5. ASSUME NEW i \in DOMAIN u
      PROVE  u[i] # ".."
  <2>1. i \in 1 .. Len(s) - m + 1 /\ m + i - 1 \in DOMAIN s
    BY <1>1, <1>3, <1>4
  <2> QED BY <1>3, <2>1 DEF ToSet
<1> QED BY <1>3, <1>5 DEF ToSet, u

LEMMA TailSet ==
  ASSUME NEW s \in Seq(Components), s # <<>>, ".." \notin ToSet(s)
  PROVE  /\ Head(s) \in Components \ {".."}
         /\ Tail(s) \in Seq(Components) /\ ".." \notin ToSet(Tail(s))
<1>1. DOMAIN s = 1 .. Len(s) /\ Len(s) \in Nat /\ Len(s) # 0
  BY LenProperties, EmptySeq
<1>2. /\ Head(s) \in Components /\ Tail(s) \in Seq(Components)
      /\ Len(Tail(s)) = Len(s) - 1
      /\ \A i \in 1 .. Len(Tail(s)) : Tail(s)[i] = s[i + 1]
  BY HeadTailProperties
<1>3. Head(s) = s[1] /\ 1 \in DOMAIN s
  BY <1>1
<1>4. DOMAIN Tail(s) = 1 .. Len(Tail(s))
  BY <1>2, LenProperties
<1>5. ASSUME NEW i \in DOMAIN Tail(s)
      PROVE  Tail(s)[i] # ".."
  <2>1. i \in 1 .. Len(Tail(s)) /\ i + 1 \in DOMAIN s
    BY <1>1, <1>2, <1>4
  <2> QED BY <1>2, <2>1 DEF ToSet
<1>6. Head(s) # ".."
  BY <1>3 DEF ToSet
<1> QED BY <1>2, <1>5, <1>6 DEF ToSet

\* No ".." comes into a path by the directories it is joined to.
LEMMA DirectoriesSet ==
  /\ ".." \notin ToSet(UserDataDir) /\ ".." \notin ToSet(RootDir)
  /\ ".." \notin ToSet(PersistentDir) /\ ".." \notin ToSet(CeDir)
  /\ ".." \notin ToSet(UsersDir) /\ ".." \notin ToSet(RootDir \o PersistentDir)
<1>1. /\ ".." \notin ToSet(UserDataDir) /\ ".." \notin ToSet(RootDir)
      /\ ".." \notin ToSet(PersistentDir) /\ ".." \notin ToSet(CeDir)
      /\ ".." \notin ToSet(<<"sec_storage_data_users">>)
  BY DEF ToSet, UserDataDir, RootDir, PersistentDir, CeDir
<1>2. <<"sec_storage_data_users">> \in Seq(Components)
  BY FsAssumption
<1>3. ".." \notin ToSet(UsersDir)
  BY <1>1, <1>2, Directories, ConcatSet DEF UsersDir
<1>4. ".." \notin ToSet(RootDir \o PersistentDir)
  BY <1>1, Directories, ConcatSet
<1> QED BY <1>1, <1>3, <1>4

LEMMA DoJoinSet ==
  ASSUME NEW name \in Names, CheckFileNameAndPath(name)
  PROVE  /\ DoJoinFileName(name) \in Seq(Components)
         /\ ".." \notin ToSet(DoJoinFileName(name))
<1>1. name \in Seq(Components) /\ ".." \notin ToSet(name)
  BY DEF Names, CheckFileNameAndPath
<1>2. /\ UserDataDir \o name \in Seq(Components) /\ ".." \notin ToSet(UserDataDir \o name)
      /\ RootDir \o name \in Seq(Components) /\ ".." \notin ToSet(RootDir \o name)
  BY <1>1, Directories, DirectoriesSet, ConcatSet
<1>3. /\ (RootDir \o PersistentDir) \o name \in Seq(Components)
      /\ ".." \notin ToSet((RootDir \o PersistentDir) \o name)
  BY <1>1, JoinedDirectories, DirectoriesSet, ConcatSet
<1> QED BY <1>1, <1>2, <1>3 DEF DoJoinFileName

LEMMA JoinSet ==
  ASSUME NEW name \in Names, NEW user \in Components \ {".."}, NEW storage
  PROVE  /\ JoinFileName(name, user, storage) \in Seq(Components)
         /\ ".." \notin ToSet(JoinFileName(name, user, storage))
<1>0. BadPath \in Seq(Components) /\ ".." \notin ToSet(BadPath)
  BY DEF BadPath, ToSet
<1>1. CASE ~CheckFileNameAndPath(name)
  BY <1>0, <1>1 DEF JoinFileName
<1>2. CASE CheckFileNameAndPath(name)
  <2>1. name \in Seq(Components) /\ name # <<>> /\ ".." \notin ToSet(name)
    BY <1>2 DEF Names, CheckFileNameAndPath
  <2>2. /\ JoinFileNameForStorageCE(name) \in Seq(Components)
        /\ ".." \notin ToSet(JoinFileNameForStorageCE(name))
    <3> DEFINE mid == <<Head(name), "tee", "sec_storage_data">>
    <3>1. /\ Head(name) \in Components \ {".."}
          /\ Tail(name) \in Seq(Components) /\ ".." \notin ToSet(Tail(name))
      BY <2>1, TailSet
    <3>2. mid \in Seq(Components) /\ ".." \notin ToSet(mid)
      BY <3>1, FsAssumption DEF ToSet
    <3>3. JoinFileNameForStorageCE(name) = (CeDir \o mid) \o Tail(name)
      BY DEF JoinFileNameForStorageCE
    <3> HIDE DEF mid
    <3>4. CeDir \o mid \in Seq(Components) /\ ".." \notin ToSet(CeDir \o mid)
      BY <3>2, Directories, DirectoriesSet, ConcatSet
    <3> QED BY <3>1, <3>3, <3>4, ConcatSet
  <2>3. /\ JoinFileNameTransient(name, user) \in Seq(Components)
        /\ ".." \notin ToSet(JoinFileNameTransient(name, user))
    <3> DEFINE rest == SubSeq(name, Len(TransientDir) + 1, Len(name))
    <3>1. UserDataDir \o name \in Seq(Components) /\ ".." \notin ToSet(UserDataDir \o name)
      BY <2>1, Directories, DirectoriesSet, ConcatSet
    <3>2. <<user>> \in Seq(Components) /\ ".." \notin ToSet(<<user>>)
      BY DEF ToSet
    <3>3. UsersDir \o <<user>> \in Seq(Components) /\ ".." \notin ToSet(UsersDir \o <<user>>)
      BY <3>2, JoinedDirectories, DirectoriesSet, ConcatSet
    <3>4. rest \in Seq(Components) /\ ".." \notin ToSet(rest)
      <4>1. Len(TransientDir) + 1 \in Nat \ {0}
        BY Directories
      <4> QED BY <2>1, <4>1, SubSeqSet
    <3> HIDE DEF rest
    <3>5. (UsersDir \o <<user>>) \o rest \in Seq(Components)
          /\ ".." \notin ToSet((UsersDir \o <<user>>) \o rest)
      BY <3>3, <3>4, ConcatSet
    <3> QED BY <1>0, <3>1, <3>5 DEF JoinFileNameTransient, rest
  <2> QED BY <1>2, <2>2, <2>3, DoJoinSet DEF JoinFileName
<1> QED BY <1>1, <1>2

\* The path of a command is none, or leads home.
LEMMA PathHome ==
  ASSUME NEW name \in Names, userId' \in Components \ {".."}, PathOf(name) # BadPath
  PROVE  Home(PathOf(name), userId')
<1>1. PathOf(name) = JoinFileName(name, userId', storageId')
  BY JoinSet, NoDots DEF PathOf
<1> QED BY <1>1, JoinHome

\* Files have names, and none has two.
Injective ==
  /\ BadPath \notin DOMAIN dir
  /\ \A p, q \in DOMAIN dir : dir[p] = dir[q] => p = q

LEMMA HomeIsPath ==
  ASSUME NEW path, NEW user, Home(path, user)
  PROVE  path # BadPath
<1>1. Len(BadPath) = 0
  BY DEF BadPath
<1> QED BY <1>1 DEF Home

Spares == \A p \in UserFiles : Disturbed(p) => p[4] = request.user

\* A step that changes one file at most, under a name that leads home.
LEMMA OneFileSpares ==
  ASSUME FilesTyped, Injective, NEW path, Home(path, request.user), NEW ino \in Inodes,
         IF path \in DOMAIN dir THEN ino = dir[path] ELSE ino \in FreeInodes,
         dir' = dir \/ dir' = Bind(dir, path, ino),
         \A i \in Inodes \ {ino} : kern[i] \subseteq kern'[i]
  PROVE  Injective' /\ Spares
<1>0. DOMAIN dir \subseteq Seq(Components) /\ dir \in [DOMAIN dir -> Inodes]
  BY DEF FilesTyped, FileTypes
<1>1. path \notin DOMAIN dir => \A q \in DOMAIN dir : dir[q] # ino
  BY DEF FreeInodes, Range
<1>2. /\ \A q \in DOMAIN dir : q \in DOMAIN dir' /\ dir'[q] = dir[q]
      /\ \A q \in DOMAIN dir' : q \in DOMAIN dir \/ (q = path /\ dir'[q] = ino)
  BY DEF Bind
<1>3. Injective'
  BY <1>1, <1>2, HomeIsPath DEF Injective
<1>4. ASSUME NEW p \in UserFiles, Disturbed(p)
      PROVE  p[4] = request.user
  <2>1. p \in DOMAIN dir /\ IsPrefix(UsersDir, p) /\ p \in Seq(Components) /\ dir[p] \in Inodes
    BY <1>0 DEF UserFiles
  <2>2. dir[p] = ino
    BY <1>2, <1>4, <2>1 DEF Disturbed
  <2>3. p = path
    BY <1>1, <2>1, <2>2 DEF Injective
  <2> QED BY <2>1, <2>3, SelfPrefix, BelowHome
<1> QED BY <1>3, <1>4 DEF Spares

\* A step that takes names away, all below one that leads home.
LEMMA UnlinkSpares ==
  ASSUME FilesTyped, Injective, NEW path, Home(path, request.user), UnlinkRecursive(path)
  PROVE  Injective' /\ Spares
<1>1. /\ DOMAIN dir' \subseteq DOMAIN dir
      /\ \A p \in DOMAIN dir' : dir'[p] = dir[p]
      /\ \A p \in DOMAIN dir \ DOMAIN dir' : IsPrefix(path, p)
      /\ kern' = kern
  BY UnlinkTypes
<1>2. Injective'
  BY <1>1 DEF Injective
<1>3. ASSUME NEW p \in UserFiles, Disturbed(p)
      PROVE  p[4] = request.user
  <2>1. p \in Seq(Components) /\ IsPrefix(UsersDir, p) /\ p \in DOMAIN dir
    BY DEF UserFiles, FilesTyped, FileTypes
  <2>2. IsPrefix(path, p)
    BY <1>1, <1>3, <2>1 DEF Disturbed
  <2> QED BY <2>1, <2>2, BelowHome
<1> QED BY <1>2, <1>3 DEF Spares

\* A step that only adds to files.
LEMMA GrowthSpares ==
  ASSUME Injective, FilesTyped, dir' = dir, \A i \in Inodes : kern[i] \subseteq kern'[i]
  PROVE  Injective' /\ Spares
BY DEF Injective, Spares, Disturbed, UserFiles, FilesTyped, FileTypes

\* A file moves from one name to another, both of which lead home.
LEMMA RenameSpares ==
  ASSUME FilesTyped, Injective, NEW from \in DOMAIN dir, NEW to,
         Home(from, request.user), Home(to, request.user), kern' = kern,
         dir' = Bind(Restrict(dir, DOMAIN dir \ {from, to}), to, dir[from])
  PROVE  Injective' /\ Spares
<1>0. DOMAIN dir \subseteq Seq(Components) /\ dir \in [DOMAIN dir -> Inodes]
  BY DEF FilesTyped, FileTypes
<1>1. /\ \A q \in DOMAIN dir \ {from, to} : q \in DOMAIN dir' /\ dir'[q] = dir[q]
      /\ \A q \in DOMAIN dir' : \/ q \in DOMAIN dir \ {from, to}
                                \/ q = to /\ dir'[q] = dir[from]
  BY DEF Bind, Restrict
<1>2. Injective'
  BY <1>1, HomeIsPath DEF Injective
<1>3. ASSUME NEW p \in UserFiles, Disturbed(p)
      PROVE  p[4] = request.user
  <2>1. p \in Seq(Components) /\ IsPrefix(UsersDir, p) /\ p \in DOMAIN dir
    BY <1>0 DEF UserFiles
  <2>2. p = from \/ p = to
    BY <1>1, <1>3, <2>1 DEF Disturbed
  <2> QED BY <2>1, <2>2, SelfPrefix, BelowHome
<1> QED BY <1>2, <1>3 DEF Spares

LEMMA HandlerSpares ==
  ASSUME DeleteAllStays, FilesTyped, Injective, request \in Requests, Handler(request)
  PROVE  Injective' /\ Spares
<1>0. /\ kern \in [Inodes -> SUBSET Pieces] /\ DOMAIN dir \subseteq Seq(Components)
      /\ dir \in [DOMAIN dir -> Inodes]
  BY DEF FilesTyped, FileTypes
<1>1. CASE \/ request.cmd \in {"read", "info"} /\ ReadWork(request)
           \/ request.cmd \in {"access", "access2", "diskusage"} /\ AccessWork(request)
           \/ request.cmd = "invalid" /\ UnknownCommand
  <2>1. dir' = dir /\ kern' = kern
    BY <1>1 DEF ReadWork, AccessWork, UnknownCommand, NoFileChange
  <2> QED BY <2>1, GrowthSpares
<1>2. CASE \/ request.cmd = "close" /\ CloseWork(request)
           \/ request.cmd = "write" /\ WriteWork(request)
           \/ request.cmd = "seek" /\ SeekWork(request)
           \/ request.cmd = "fsync" /\ FsyncWork(request)
  <2>1. dir' = dir
    BY <1>2 DEF CloseWork, WriteWork, SeekWork, FsyncWork
  <2>2. kern' = kern \/ \E i, more : kern' = [kern EXCEPT ![i] = @ \cup more]
    BY <1>2, Zenon DEF CloseWork, WriteWork, SeekWork, FsyncWork, Flush
  <2>3. \A i \in Inodes : kern[i] \subseteq kern'[i]
    BY <1>0, <2>2
  <2> QED BY <2>1, <2>3, GrowthSpares
<1>3. CASE request.cmd \in Opening /\ OpenWork(request)
  <2> DEFINE path == PathOf(request.name)
  <2>1. PICK ino : OpenCases(path, ino)
    BY <1>3, OpenIsCases
  <2>2. userId' = request.user /\ request.user \in Components \ {".."} /\ request.name \in Names
    BY <1>3, <2>1, RequestFields DEF OpenCases, WithName
  <2>3. path # BadPath => Home(path, request.user)
    BY <2>2, PathHome
  <2> HIDE DEF path
  <2>4. CASE UNCHANGED <<opened, dir, kern, disk, historyVars>>
    BY <2>4, GrowthSpares
  <2>5. CASE /\ path # BadPath
             /\ IF path \in DOMAIN dir
                THEN ino = dir[path]
                ELSE request.cmd = "create" /\ ino \in FreeInodes
             /\ ino \in Inodes
             /\ \E truncate \in BOOLEAN :
                  (path \in DOMAIN dir \/ truncate) /\ OpenFile(path, ino, truncate)
    <3>1. dir' = Bind(dir, path, ino) /\ \A i \in Inodes \ {ino} : kern[i] \subseteq kern'[i]
      BY <1>0, <2>5 DEF OpenFile
    <3> QED BY <2>3, <2>5, <3>1, OneFileSpares
  <2> QED BY <2>1, <2>4, <2>5 DEF OpenCases
<1>4. CASE request.cmd = "remove" /\ RemoveWork(request)
  <2> DEFINE path == PathOf(request.name)
  <2>1. userId' = request.user /\ request.user \in Components \ {".."} /\ request.name \in Names
    BY <1>4, RequestFields DEF RemoveWork, SetIds, WithName
  <2>2. CASE path = BadPath
    <3>1. dir' = dir /\ kern' = kern
      BY <1>4, <2>2 DEF RemoveWork, NoFileChange
    <3> QED BY <3>1, GrowthSpares
  <2>3. CASE path # BadPath
    <3>1. Home(path, request.user)
      BY <2>1, <2>3, PathHome
    <3>2. UnlinkRecursive(path)
      BY <1>4, <2>3 DEF RemoveWork
    <3> HIDE DEF path
    <3> QED BY <3>1, <3>2, UnlinkSpares
  <2> QED BY <2>2, <2>3
<1>5. CASE request.cmd = "deleteall" /\ DeleteAllWork(request)
  <2> DEFINE path == DoJoinFileName(request.name)
  <2>1. request.name \in Names /\ CheckFileNameAndPath(request.name)
    BY <1>5, RequestFields DEF WithName, DeleteAllStays
  <2>2. path \in Seq(Components) /\ ".." \notin ToSet(path) /\ Home(path, request.user)
    BY <2>1, DoJoinSet, DoJoinHome
  <2>3. UnlinkRecursive(Resolve(path))
    BY <1>5 DEF DeleteAllWork
  <2> HIDE DEF path
  <2>4. Resolve(path) = path
    BY <2>2, NoDots
  <2> QED BY <2>2, <2>3, <2>4, UnlinkSpares
<1>6. CASE request.cmd = "truncate" /\ TruncateWork(request)
  <2> DEFINE path == PathOf(request.name)
  <2>1. userId' = request.user /\ request.user \in Components \ {".."} /\ request.name \in Names
    BY <1>6, RequestFields DEF TruncateWork, SetIds, WithName
  <2>2. path # BadPath => Home(path, request.user)
    BY <2>1, PathHome
  <2>3. /\ dir' = dir
        /\ \/ kern' = kern
           \/ path \in DOMAIN dir /\ \E cut : kern' = [kern EXCEPT ![dir[path]] = @ \ cut]
    BY <1>6 DEF TruncateWork
  <2> HIDE DEF path
  <2>4. CASE kern' = kern
    BY <2>3, <2>4, GrowthSpares
  <2>5. CASE path \in DOMAIN dir /\ \E cut : kern' = [kern EXCEPT ![dir[path]] = @ \ cut]
    <3>1. path # BadPath /\ dir[path] \in Inodes
      BY <1>0, <2>5 DEF Injective
    <3>2. \A i \in Inodes \ {dir[path]} : kern[i] \subseteq kern'[i]
      BY <1>0, <2>5
    <3> QED BY <2>2, <2>3, <2>5, <3>1, <3>2, OneFileSpares
  <2> QED BY <2>3, <2>4, <2>5
<1>7. CASE request.cmd = "rename" /\ RenameWork(request)
  <2> DEFINE from == PathOf(request.name)
             to == PathOf(request.name2)
  <2>1. /\ userId' = request.user /\ request.user \in Components \ {".."}
        /\ request.name \in Names /\ request.name2 \in Names
    BY <1>7, RequestFields DEF RenameWork, SetIds, WithName, WithTwoNames
  <2>2. /\ from # BadPath => Home(from, request.user)
        /\ to # BadPath => Home(to, request.user)
    BY <2>1, PathHome
  <2>3. /\ kern' = kern
        /\ \/ dir' = dir
           \/ /\ from \in DOMAIN dir /\ to # BadPath
              /\ dir' = Bind(Restrict(dir, DOMAIN dir \ {from, to}), to, dir[from])
    BY <1>7 DEF RenameWork
  <2> HIDE DEF from, to
  <2>4. CASE dir' = dir
    BY <2>3, <2>4, GrowthSpares
  <2>5. CASE /\ from \in DOMAIN dir /\ to # BadPath
             /\ dir' = Bind(Restrict(dir, DOMAIN dir \ {from, to}), to, dir[from])
    <3>1. from # BadPath
      BY <2>5 DEF Injective
    <3> QED BY <2>2, <2>3, <2>5, <3>1, RenameSpares
  <2> QED BY <2>3, <2>4, <2>5
<1>8. CASE request.cmd = "cp" /\ CopyWork(request)
  <2> DEFINE from == PathOf(request.name)
             to == PathOf(request.name2)
             ino == IF to \in DOMAIN dir THEN dir[to]
                    ELSE IF FreeInodes = {} THEN 0 ELSE Min(FreeInodes)
  <2>1. /\ userId' = request.user /\ request.user \in Components \ {".."}
        /\ request.name2 \in Names
    BY <1>8, RequestFields DEF CopyWork, SetIds, WithName, WithTwoNames
  <2>2. to # BadPath => Home(to, request.user)
    BY <2>1, PathHome
  <2>3. \/ dir' = dir /\ kern' = kern
        \/ to # BadPath /\ ino # 0 /\ CopyFile(from, to, ino)
    BY <1>8 DEF CopyWork, NoFileChange
  <2>4. ino # 0 => /\ ino \in Inodes
                   /\ IF to \in DOMAIN dir THEN ino = dir[to] ELSE ino \in FreeInodes
    BY <1>0, FreshType
  <2> HIDE DEF from, to, ino
  <2>5. CASE dir' = dir /\ kern' = kern
    BY <2>5, GrowthSpares
  <2>6. CASE to # BadPath /\ ino # 0 /\ CopyFile(from, to, ino)
    <3>1. dir' = Bind(dir, to, ino) /\ \A i \in Inodes \ {ino} : kern[i] \subseteq kern'[i]
      BY <1>0, <2>6 DEF CopyFile
    <3> QED BY <2>2, <2>4, <2>6, <3>1, OneFileSpares
  <2> QED BY <2>3, <2>5, <2>6
<1> QED
  BY <1>1, <1>2, <1>3, <1>4, <1>5, <1>6, <1>7, <1>8 DEF Handler
-----------------------------------------------------------------------------
(* The theorems *)

\* As many entries as numbers the TEE holds.
LEMMA ListCounts ==
  ASSUME FilesTyped, Listed, Match(held)
  PROVE  Len(opened) = Cardinality(DOMAIN held)
<1> DEFINE f == [n \in 1 .. Len(opened) |-> opened[n].fd]
           S == 1 .. Len(opened)
           T == DOMAIN held
<1>1. DOMAIN opened = S /\ Len(opened) \in Nat
  BY LenProperties DEF FilesTyped, FileTypes
<1>2. f \in [S -> T] /\ (\A t \in T : \E n \in S : f[n] = t)
  BY <1>1 DEF Match
<1>3. IsInjective(f)
  BY <1>1 DEF IsInjective, Listed
<1>4. f \in Bijection(S, T)
  BY <1>2, <1>3 DEF Bijection, Injection, Surjection
<1>5. ExistsBijection(S, T)
  BY <1>4 DEF ExistsBijection
<1>6. IsFiniteSet(S) /\ Cardinality(S) = Len(opened)
  <2>1. 1 \in Int /\ Len(opened) \in Int
    BY <1>1
  <2>2. /\ IsFiniteSet(1 .. Len(opened))
        /\ Cardinality(1 .. Len(opened))
             = IF 1 > Len(opened) THEN 0 ELSE Len(opened) - 1 + 1
    BY ONLY <2>1, FS_Interval, Zenon
  <2>3. (IF 1 > Len(opened) THEN 0 ELSE Len(opened) - 1 + 1) = Len(opened)
    BY ONLY <1>1
  <2> QED BY ONLY <2>2, <2>3
<1> QED BY <1>5, <1>6, FS_Bijection

LEMMA FsInvAlways ==
  ASSUME EarlyAsk = FALSE
  PROVE  Spec => []FsInv
<1> QED BY InitFs, NextFsInv, PTL DEF Spec

LEMMA PromiseInvAlways ==
  ASSUME EarlyAsk = FALSE, CloseFails = FALSE
  PROVE  Spec => [](FsInv /\ PromiseInv)
<1> QED BY InitFs, NextFsInv, NextPromiseInv, PTL DEF Spec

\* The state keeps its types whatever fails, a file number that is told to
\* the TEE is one of the list, and a copy ends at files that exist.
THEOREM TypeCorrect ==
  ASSUME EarlyAsk = FALSE
  PROVE  Spec => []TypeOK
<1>1. FsInv => TypeOK
  BY DEF FsInv
<1> QED BY <1>1, FsInvAlways, PTL

\* With its handlers the FS agent still gives the TEE what it owes: every
\* command is handled once, and ends after its handler (FsWorkEventHandle).
THEOREM AgentImplementsCall ==
  ASSUME EarlyAsk = FALSE
  PROVE  Spec => Call!SafeSpec
<1>1. Init => ChannelInit
  BY DEF Init
<1>2. Spec => ChannelSpec
  BY <1>1, NextIsChannel, PTL DEF Spec, ChannelSpec
<1> QED BY <1>2, ChannelImplementsCall, PTL

\* Whatever wakeups come and whichever calls but fclose fail, between two
\* commands the list of open files is exactly what the TEE holds (AddOpenFile,
\* DelOpenFile, FindOpenFile and the check of the magic).
THEOREM OpenedOnce ==
  ASSUME EarlyAsk = FALSE, CloseFails = FALSE
  PROVE  Spec => []FdExact
<1>1. FsInv /\ PromiseInv => FdExact
  <2> SUFFICES ASSUME FsInv, PromiseInv, ~TeeWaits
               PROVE  /\ DOMAIN held = {opened[n].fd : n \in DOMAIN opened}
                      /\ Len(opened) = Cardinality(DOMAIN held)
                      /\ \A n \in DOMAIN opened : held[opened[n].fd] = opened[n].ino
    BY DEF FdExact
  <2>1. ~Pending
    BY Phases DEF FsInv
  <2>2. FilesTyped /\ Listed /\ Match(held)
    BY <2>1, TypeOKParts DEF FsInv, PromiseInv, Ends
  <2> QED BY <2>2, ListCounts DEF Match
<1> QED BY <1>1, PromiseInvAlways, PTL

\* What the TEE learns adds to what it relies on.
LEMMA PromisesHold ==
  ASSUME FsInv, PromiseInv
  PROVE  Promises(flushed, synced)
<1>0. FilesTyped /\ Ends
  BY TypeOKParts DEF FsInv, PromiseInv
<1>1. CASE ~Pending
  BY <1>0, <1>1 DEF Ends
<1>2. CASE Pending
  <2>1. Promises(FlushedAfter(request), SyncedAfter(request))
    BY <1>0, <1>2 DEF Ends
  <2>2. \A i \in Inodes : flushed[i] \subseteq FlushedAfter(request)[i]
    BY <1>0 DEF FilesTyped, HistoryTypes, FlushedAfter
  <2>3. \A i \in Inodes : synced[i] \subseteq SyncedAfter(request)[i]
    BY <1>0 DEF FilesTyped, HistoryTypes, SyncedAfter
  <2> QED BY <2>1, <2>2, <2>3 DEF Promises
<1> QED BY <1>1, <1>2

\* A SEC_WRITE_SSA write that the TEE saw confirmed is in the kernel
\* (WriteWork), until the TEE has the file emptied or overwritten.
THEOREM SsaWritesFlushed ==
  ASSUME EarlyAsk = FALSE, CloseFails = FALSE
  PROVE  Spec => []ConfirmedInKernel
<1>1. FsInv /\ PromiseInv => ConfirmedInKernel
  BY PromisesHold DEF Promises, ConfirmedInKernel
<1> QED BY <1>1, PromiseInvAlways, PTL

\* All writes confirmed before a confirmed fsync are on the disk (FsyncWork),
\* and so is what a confirmed copy took over (DoCopy).
THEOREM FsyncDurable ==
  ASSUME EarlyAsk = FALSE, CloseFails = FALSE
  PROVE  Spec => []SyncedOnDisk
<1>1. FsInv /\ PromiseInv => SyncedOnDisk
  BY PromisesHold DEF Promises, SyncedOnDisk
<1> QED BY <1>1, PromiseInvAlways, PTL

LEMMA NextSpares ==
  ASSUME DeleteAllStays, FsInv, Injective, [Next]_vars
  PROVE  Injective' /\ Spares
<1>0. request \in Requests /\ FilesTyped
  BY TypeOKParts DEF FsInv
<1>1. CASE Handle
  BY <1>0, <1>1, HandlerSpares DEF Handle
<1>2. CASE (\E r \in Requests : Send(r)) \/ Take \/ OtherStep \/ UNCHANGED vars
  <2>1. dir' = dir /\ kern' = kern
    BY <1>2 DEF Send, Take, OtherStep, vars, fileVars
  <2> QED BY <1>0, <2>1, GrowthSpares
<1> QED BY <1>1, <1>2 DEF Next

\* A command disturbs no file in the directory of another user than its own
\* (JoinFileName with the ids that SetCurrentUserId has set before it), as
\* long as no SEC_DELETE_ALL names a path with "..": that handler joins its
\* name without CheckFileNameAndPath.
THEOREM UsersKeptApart ==
  ASSUME EarlyAsk = FALSE, DeleteAllStays
  PROVE  Spec => UsersSeparate
<1>1. Init => Injective
  BY DEF Init, Injective
<1>2. FsInv /\ Injective /\ [Next]_vars => Injective'
  BY NextSpares
<1>3. FsInv /\ Injective /\ [Next]_vars =>
        [\A p \in UserFiles : Disturbed(p) => p[Len(UsersDir) + 1] = request.user]_vars
  BY NextSpares, JoinedDirectories DEF Spares
<1> QED BY <1>1, <1>2, <1>3, FsInvAlways, PTL DEF Spec, UsersSeparate
=============================================================================
