------------------------------ MODULE FsAgent ------------------------------
(***************************************************************************)
(* The FS agent of teecd (fs_work_agent.c): it carries out the file        *)
(* commands of the TEE's secure storage.  The channel is AgentChannel's;   *)
(* this module adds the handlers, the list of open files and the files.    *)
(*                                                                         *)
(* A path is a sequence of components and a file's content is the set of   *)
(* pieces (Pieces) written to it, held at three levels: buf, the user space*)
(* buffer of a FILE; kern, what the kernel has; disk, what an fsync made   *)
(* durable.  The backup partition (CONFIG_BACKUP_PARTITION) is not built.  *)
(***************************************************************************)
EXTENDS AgentChannel, Sequences, SequencesExt, FiniteSetsExt, Functions

CONSTANTS
  Components, \* the components of paths, user ids among them
  Requests,   \* the commands the TEE may send, records with a field cmd
  Inodes,     \* bound: files that exist at a time (numbers)
  MaxFd,      \* the limit on open files (FILE_NUM_LIMIT_MAX)
  Pieces,     \* what a write can write
  LongUsers,  \* user ids whose decimal form does not fit userPath
  CloseFails  \* TRUE: fclose may fail

Opening == {"open", "create"}
WithFile == {"close", "read", "info", "write", "seek", "fsync"}
WithTwoNames == {"rename", "cp"}
WithName == Opening \cup WithTwoNames \cup {"remove", "truncate", "access", "deleteall"}
WithoutBoth == {"access2", "diskusage", "invalid"}

\* A name is never empty.
Names == Seq(Components) \ {<<>>}

ASSUME FsAssumption ==
  /\ Inodes \subseteq Nat \ {0}
  /\ MaxFd \in Nat
  /\ {"/", "data", "el2", "tee", "sec_storage", "sec_storage_data", "_private",
      "sec_storage_data_users", "0"} \subseteq Components
  /\ \A r \in Requests :
       /\ r.cmd \in WithFile \cup WithName \cup WithoutBoth
       /\ r.cmd = "write" => r.piece \in Pieces /\ r.ssa \in BOOLEAN
       /\ r.cmd \in WithName =>
            r.user \in Components \ {".."} /\ r.storage \in {"std", "ce"} /\ r.name \in Names
       /\ r.cmd \in WithTwoNames => r.name2 \in Names

VARIABLES
  request,    \* the command in the shared buffer
  answer,     \* its ret field and, for an open, the file's number
  userId,     \* g_userId
  storageId,  \* g_storageId
  opened,     \* the list g_firstFile, head first
  dir,        \* path -> inode, for the files that exist
  kern, disk, \* inode -> pieces
  held,       \* history: file number -> inode, as the TEE was told
  sent,       \* history: file number -> pieces whose write was confirmed
  flushed,    \* history: inode -> pieces of confirmed SEC_WRITE_SSA writes
  synced      \* history: inode -> pieces confirmed by an fsync

fileVars == <<userId, storageId, opened, dir, kern, disk>>
historyVars == <<held, sent, flushed, synced>>
vars == <<channelVars, request, answer, fileVars, historyVars>>

\* The function f with one more argument, or with another value at it.
Bind(f, x, v) == [y \in DOMAIN f \cup {x} |-> IF y = x THEN v ELSE f[y]]

Fds == 1 .. MaxFd
BadPath == <<>>

Ok == [ret |-> 0, fd |-> 0]
Failed == [ret |-> -1, fd |-> 0]

Entries == [fd : Fds, ino : Inodes, buf : SUBSET Pieces, live : BOOLEAN]

\* The types of the state.
TypeOK ==
  /\ ChannelTypeOK
  /\ request \in Requests
  /\ answer \in [ret : {-1, 0}, fd : Fds \cup {0}]
  /\ userId \in Components
  /\ storageId \in {"std", "ce"}
  /\ opened \in Seq(Entries)
  /\ DOMAIN dir \subseteq Seq(Components)
  /\ dir \in [DOMAIN dir -> Inodes]
  /\ kern \in [Inodes -> SUBSET Pieces]
  /\ disk \in [Inodes -> SUBSET Pieces]
  /\ DOMAIN held \subseteq Fds
  /\ held \in [DOMAIN held -> Inodes]
  /\ sent \in [Fds -> SUBSET Pieces]
  /\ flushed \in [Inodes -> SUBSET Pieces]
  /\ synced \in [Inodes -> SUBSET Pieces]

Init ==
  /\ ChannelInit
  /\ request \in Requests /\ request.cmd = "invalid"
  /\ answer = Ok
  /\ userId = "0" /\ storageId = "std"
  /\ opened = <<>>
  /\ dir = <<>>
  /\ kern = [i \in Inodes |-> {}] /\ disk = kern
  /\ held = <<>> /\ sent = [f \in Fds |-> {}]
  /\ flushed = kern /\ synced = kern

(***************************************************************************)
(* Where a name lives.                                                     *)
(***************************************************************************)

UserDataDir == <<"/", "data">>                        \* USER_DATA_DIR
RootDir == <<"/">>                                    \* ROOT_DIR
TransientDir == <<"sec_storage_data">>                \* SFS_PARTITION_TRANSIENT
PrivateDir == <<"sec_storage_data", "_private">>      \* ..._PRIVATE, ..._PERSO
PersistentDir == <<"sec_storage">>                    \* SFS_PARTITION_PERSISTENT
UsersDir == UserDataDir \o <<"sec_storage_data_users">>
CeDir == <<"/", "el2">>                               \* SEC_STORAGE_DATA_CE

JoinFileNameTransient(name, user) ==
  IF user = "0" THEN UserDataDir \o name
  ELSE IF user \in LongUsers \/ Len(name) <= Len(TransientDir) THEN BadPath
  ELSE UsersDir \o <<user>> \o SubSeq(name, Len(TransientDir) + 1, Len(name))

DoJoinFileName(name) ==
  IF IsPrefix(PrivateDir, name) THEN UserDataDir \o name
  ELSE IF IsPrefix(PersistentDir, name) THEN RootDir \o name
  ELSE IF IsPrefix(RootDir \o PersistentDir, name) THEN name
  ELSE RootDir \o PersistentDir \o name

\* The first component of the name is the user's id.
JoinFileNameForStorageCE(name) ==
  CeDir \o <<Head(name), "tee", "sec_storage_data">> \o Tail(name)

CheckFileNameAndPath(name) == ".." \notin ToSet(name)

JoinFileName(name, user, storage) ==
  IF ~CheckFileNameAndPath(name) THEN BadPath
  ELSE IF storage = "ce" THEN JoinFileNameForStorageCE(name)
  ELSE IF IsPrefix(TransientDir, name) THEN JoinFileNameTransient(name, user)
  ELSE DoJoinFileName(name)

IsValidFilePath(path) ==
  \E base \in {UserDataDir \o TransientDir, UsersDir,
               RootDir \o PersistentDir, CeDir} : IsPrefix(base, path)

\* What the kernel makes of a path with one "..".
Resolve(path) ==
  IF ".." \notin ToSet(path) THEN path
  ELSE LET i == CHOOSE n \in DOMAIN path : path[n] = ".."
       IN  SubSeq(path, 1, i - 2) \o SubSeq(path, i + 1, Len(path))

PathOf(name) == Resolve(JoinFileName(name, userId', storageId'))

(***************************************************************************)
(* The list of open files.                                                 *)
(***************************************************************************)

\* 0, or the position of the first entry with that number.
FindOpenFile(fd) ==
  LET hits == {n \in DOMAIN opened : opened[n].fd = fd}
  IN  IF hits = {} THEN 0 ELSE Min(hits)

\* The numbers the kernel has given out.
UsedFds == {opened[n].fd : n \in {m \in DOMAIN opened : opened[m].live}}

FreeFds == Fds \ UsedFds

AddOpenFile(fd, ino) ==
  opened' = Append(opened, [fd |-> fd, ino |-> ino, buf |-> {}, live |-> TRUE])

DelOpenFile(n) == opened' = RemoveAt(opened, n)

FreeInodes == Inodes \ (Range(dir) \cup {opened[n].ino : n \in DOMAIN opened})

(***************************************************************************)
(* What a command does to promises already made: what the TEE itself asks  *)
(* to cut from a file is no longer owed.                                   *)
(***************************************************************************)

Discard(ino, cut) ==
  /\ flushed' = [flushed EXCEPT ![ino] = @ \ cut]
  /\ synced' = [synced EXCEPT ![ino] = @ \ cut]
  /\ sent' = [f \in Fds |->
       IF f \in DOMAIN held /\ held[f] = ino THEN sent[f] \ cut ELSE sent[f]]
  /\ UNCHANGED held

Reply(a) == answer' = a
NoFileChange == UNCHANGED <<opened, dir, kern, disk, historyVars>>
KeepIds == UNCHANGED <<userId, storageId>>

\* Mutant: the user of the command before is taken.
SetIdsForgotten(r) == storageId' = r.storage /\ UNCHANGED userId

\* SetCurrentUserId and SetCurrentStorageId.
SetIds(r) == userId' = r.user /\ storageId' = r.storage

(***************************************************************************)
(* The handlers.                                                           *)
(***************************************************************************)

\* fopen: "w+" empties the file, and makes it if there is none.
OpenFile(path, ino, truncate) ==
  /\ dir' = Bind(dir, path, ino)
  /\ kern' = IF truncate THEN [kern EXCEPT ![ino] = {}] ELSE kern
  /\ disk' = IF path \in DOMAIN dir THEN disk ELSE [disk EXCEPT ![ino] = {}]
  /\ Discard(ino, IF truncate THEN Pieces ELSE {})

\* A lack of memory, of a directory, of a file number, or a partition that
\* is not mounted makes an open fail; without memory for the list entry the
\* file has been opened, and emptied, all the same.  The TEE chooses the mode
\* of an open ("r+", or "w+" which empties the file); to create is "w+".
OpenWork(r) ==
  LET origin == JoinFileName(r.name, userId', storageId')
      path == PathOf(r.name)
      exists == path \in DOMAIN dir
      create == r.cmd = "create"
      ino == IF exists THEN dir[path]
             ELSE IF FreeInodes = {} THEN 0 ELSE Min(FreeInodes)
      canOpen == /\ path # BadPath
                 /\ exists \/ create
                 /\ IsValidFilePath(IF exists THEN path ELSE origin)
                 /\ ino # 0
                 /\ FreeFds # {}
  IN  /\ SetIds(r)
      /\ \/ /\ Reply(Failed)
            /\ NoFileChange
         \/ \E truncate \in IF create THEN {TRUE} ELSE BOOLEAN :
              /\ canOpen
              /\ OpenFile(path, ino, truncate)
              /\ \/ Reply(Failed) /\ UNCHANGED opened
                 \/ /\ AddOpenFile(Min(FreeFds), ino)
                    /\ Reply([ret |-> 0, fd |-> Min(FreeFds)])

\* Stdio hands the buffer of entry n to the kernel.
Flush(n) ==
  /\ kern' = [kern EXCEPT ![opened[n].ino] = @ \cup opened[n].buf]
  /\ opened' = [opened EXCEPT ![n].buf = {}]

\* fclose ends the FILE whatever it returns; the entry goes only if it
\* returned 0.
CloseWork(r) ==
  LET n == FindOpenFile(r.fd)
  IN  /\ KeepIds
      /\ UNCHANGED <<dir, disk, historyVars>>
      /\ \/ /\ n = 0
            /\ Reply(Failed)
            /\ UNCHANGED <<opened, kern>>
         \/ \E ret \in IF CloseFails THEN {0, -1} ELSE {0} :
              /\ n # 0
              /\ Reply([ret |-> ret, fd |-> 0])
              /\ IF ret = 0
                 THEN /\ kern' = [kern EXCEPT ![opened[n].ino] = @ \cup opened[n].buf]
                      /\ DelOpenFile(n)
                 ELSE /\ opened' = [opened EXCEPT ![n].live = FALSE, ![n].buf = {}]
                      /\ UNCHANGED kern

\* SEC_READ, SEC_INFO: the FILE is asked, nothing is written.
ReadWork(r) ==
  /\ KeepIds
  /\ NoFileChange
  /\ \E a \in {Ok, Failed} : (FindOpenFile(r.fd) = 0 => a = Failed) /\ Reply(a)

\* Mutant: no fflush after a SEC_WRITE_SSA write.
WriteWorkNoFlush(r) ==
  LET n == FindOpenFile(r.fd)
  IN  /\ KeepIds
      /\ UNCHANGED <<dir, disk, historyVars>>
      /\ \/ Reply(Failed) /\ UNCHANGED <<opened, kern>>
         \/ /\ n # 0
            /\ opened' = [opened EXCEPT ![n].buf = @ \cup {r.piece}]
            /\ Reply(Ok)
            /\ UNCHANGED kern

\* An answer with the full count is Ok.  fwrite may fall short, or stay in
\* the buffer; a SEC_WRITE_SSA write is flushed, and counts 0 if that fails.
WriteWork(r) ==
  LET n == FindOpenFile(r.fd)
      ino == opened[n].ino
      buf == opened[n].buf \cup {r.piece}
  IN  /\ KeepIds
      /\ UNCHANGED <<dir, disk, historyVars>>
      /\ \/ /\ Reply(Failed)
            /\ UNCHANGED <<opened, kern>>
         \/ /\ n # 0
            /\ opened' = [opened EXCEPT ![n].buf = buf]
            /\ Reply(IF r.ssa THEN Failed ELSE Ok)
            /\ UNCHANGED kern
         \/ /\ n # 0
            /\ kern' = [kern EXCEPT ![ino] = @ \cup buf]
            /\ opened' = [opened EXCEPT ![n].buf = {}]
            /\ Reply(Ok)

\* fseek writes the buffer out before it moves.
SeekWork(r) ==
  LET n == FindOpenFile(r.fd)
  IN  /\ KeepIds
      /\ UNCHANGED <<dir, disk, historyVars>>
      /\ \/ Reply(Failed) /\ UNCHANGED <<opened, kern>>
         \/ n # 0 /\ Flush(n) /\ Reply(Ok)

\* UnlinkRecursive: it stops at the first entry it cannot remove.
UnlinkRecursive(path) ==
  LET victims == {p \in DOMAIN dir : IsPrefix(path, p)}
  IN  \E gone \in SUBSET victims :
        /\ dir' = Restrict(dir, DOMAIN dir \ gone)
        /\ Reply(IF gone = victims /\ gone # {} THEN Ok ELSE Failed)
        /\ UNCHANGED <<opened, kern, disk, historyVars>>

RemoveWork(r) ==
  /\ SetIds(r)
  /\ LET path == PathOf(r.name)
     IN  IF path = BadPath THEN Reply(Failed) /\ NoFileChange
         ELSE UnlinkRecursive(path)

\* The name is joined without the user, and g_storageId is left alone.
DeleteAllWork(r) ==
  /\ userId' = r.user
  /\ UNCHANGED storageId
  /\ UnlinkRecursive(Resolve(DoJoinFileName(r.name)))

\* The file is cut to a length: some of its pieces stay.
TruncateWork(r) ==
  LET path == PathOf(r.name)
  IN  /\ SetIds(r)
      /\ UNCHANGED <<opened, dir, disk>>
      /\ \/ Reply(Failed) /\ UNCHANGED <<kern, historyVars>>
         \/ /\ path \in DOMAIN dir
            /\ \E cut \in SUBSET kern[dir[path]] :
                 /\ kern' = [kern EXCEPT ![dir[path]] = @ \ cut]
                 /\ Discard(dir[path], cut)
            /\ Reply(Ok)

RenameWork(r) ==
  LET from == PathOf(r.name)
      to == PathOf(r.name2)
  IN  /\ SetIds(r)
      /\ UNCHANGED <<opened, kern, disk, historyVars>>
      /\ \/ Reply(Failed) /\ UNCHANGED dir
         \/ /\ from \in DOMAIN dir
            /\ to # BadPath
            /\ dir' = Bind(Restrict(dir, DOMAIN dir \ {from, to}), to, dir[from])
            /\ Reply(Ok)

\* CopyFile and DoCopy: the target is emptied, filled from the kernel's copy
\* of the source and synced.  A failure leaves what was written so far.  When
\* both names are one file, nothing of it is left to be read.
CopyFile(from, to, ino) ==
  LET source == IF dir[from] = ino THEN {} ELSE kern[dir[from]]
  IN  /\ dir' = Bind(dir, to, ino)
      /\ Discard(ino, Pieces)
      /\ UNCHANGED opened
      /\ \/ \E part \in SUBSET source :
              /\ kern' = [kern EXCEPT ![ino] = part]
              /\ disk' = [disk EXCEPT ![ino] = IF to \in DOMAIN dir THEN @ ELSE {}]
              /\ Reply(Failed)
         \/ /\ kern' = [kern EXCEPT ![ino] = source]
            /\ disk' = [disk EXCEPT ![ino] = source]
            /\ Reply(Ok)

CopyWork(r) ==
  LET from == PathOf(r.name)
      to == PathOf(r.name2)
      ino == IF to \in DOMAIN dir THEN dir[to]
             ELSE IF FreeInodes = {} THEN 0 ELSE Min(FreeInodes)
  IN  /\ SetIds(r)
      /\ \/ Reply(Failed) /\ NoFileChange
         \/ /\ from \in DOMAIN dir /\ IsValidFilePath(from)
            /\ to # BadPath /\ (to \in DOMAIN dir => IsValidFilePath(to))
            /\ ino # 0
            /\ CopyFile(from, to, ino)

\* Mutant: the kernel's copy is synced before the buffer is flushed.
FsyncWorkWrongOrder(r) ==
  LET n == FindOpenFile(r.fd)
  IN  /\ KeepIds
      /\ UNCHANGED <<dir, historyVars>>
      /\ \/ Reply(Failed) /\ UNCHANGED <<opened, kern, disk>>
         \/ n # 0 /\ Flush(n) /\ Reply(Failed) /\ UNCHANGED disk
         \/ /\ n # 0
            /\ Flush(n)
            /\ disk' = [disk EXCEPT ![opened[n].ino] = kern[opened[n].ino]]
            /\ Reply(Ok)

\* fflush, then fsync: either may fail.
FsyncWork(r) ==
  LET n == FindOpenFile(r.fd)
  IN  /\ KeepIds
      /\ UNCHANGED <<dir, historyVars>>
      /\ \/ Reply(Failed) /\ UNCHANGED <<opened, kern, disk>>
         \/ n # 0 /\ Flush(n) /\ Reply(Failed) /\ UNCHANGED disk
         \/ /\ n # 0
            /\ Flush(n)
            /\ disk' = [disk EXCEPT ![opened[n].ino] = kern'[opened[n].ino]]
            /\ Reply(Ok)

\* SEC_ACCESS joins the name; SEC_ACCESS2 and SEC_DISKUSAGE take no id.
AccessWork(r) ==
  /\ IF r.cmd = "access" THEN SetIds(r) ELSE KeepIds
  /\ NoFileChange
  /\ \E a \in {Ok, Failed} : Reply(a)

\* A command number that is not in g_fsWorkTbl: the answer is left as it is.
UnknownCommand == KeepIds /\ NoFileChange /\ UNCHANGED answer

Handler(r) ==
  \/ r.cmd \in Opening /\ OpenWork(r)
  \/ r.cmd = "close" /\ CloseWork(r)
  \/ r.cmd \in {"read", "info"} /\ ReadWork(r)
  \/ r.cmd = "write" /\ WriteWork(r)
  \/ r.cmd = "seek" /\ SeekWork(r)
  \/ r.cmd = "remove" /\ RemoveWork(r)
  \/ r.cmd = "truncate" /\ TruncateWork(r)
  \/ r.cmd = "rename" /\ RenameWork(r)
  \/ r.cmd \in {"access", "access2", "diskusage"} /\ AccessWork(r)
  \/ r.cmd = "fsync" /\ FsyncWork(r)
  \/ r.cmd = "cp" /\ CopyWork(r)
  \/ r.cmd = "deleteall" /\ DeleteAllWork(r)
  \/ r.cmd = "invalid" /\ UnknownCommand

(***************************************************************************)
(* The TEE: what it is told, and what it relies on from then on.           *)
(***************************************************************************)

InodeOf(fd) == IF FindOpenFile(fd) = 0 THEN 0 ELSE opened[FindOpenFile(fd)].ino

\* Where the two names of the command led.
InodeAt(name) == dir[Resolve(JoinFileName(name, userId, storageId))]

GotFd(r) == r.cmd \in Opening /\ answer.ret = 0
Confirmed(r) == answer.ret = 0 /\ r.cmd = "write" /\ r.fd \in DOMAIN held

HeldAfter(r) ==
  IF GotFd(r) THEN Bind(held, answer.fd, InodeOf(answer.fd))
  ELSE IF answer.ret = 0 /\ r.cmd = "close" THEN Restrict(held, DOMAIN held \ {r.fd})
  ELSE held

SentAfter(r) ==
  IF GotFd(r) THEN [sent EXCEPT ![answer.fd] = {}]
  ELSE IF Confirmed(r) THEN [sent EXCEPT ![r.fd] = @ \cup {r.piece}]
  ELSE sent

FlushedAfter(r) ==
  IF Confirmed(r) /\ r.ssa
  THEN [flushed EXCEPT ![held[r.fd]] = @ \cup sent[r.fd] \cup {r.piece}]
  ELSE flushed

SyncedAfter(r) ==
  IF answer.ret = 0 /\ r.cmd = "fsync" /\ r.fd \in DOMAIN held
  THEN [synced EXCEPT ![held[r.fd]] = @ \cup sent[r.fd]]
  ELSE IF answer.ret = 0 /\ r.cmd = "cp"
  THEN [synced EXCEPT ![InodeAt(r.name2)] =
          @ \cup flushed[InodeAt(r.name)] \cup synced[InodeAt(r.name)]]
  ELSE synced

Learn(r) ==
  /\ held' = HeldAfter(r)
  /\ sent' = SentAfter(r)
  /\ flushed' = FlushedAfter(r)
  /\ synced' = SyncedAfter(r)

Send(r) ==
  /\ SendCommand
  /\ request' = r
  /\ UNCHANGED <<answer, fileVars, historyVars>>

Take ==
  /\ TakeReply
  /\ IF magic = "agent" THEN Learn(request) ELSE UNCHANGED historyVars
  /\ UNCHANGED <<request, answer, fileVars>>

Handle ==
  /\ RunHandler
  /\ Handler(request)
  /\ UNCHANGED request

OtherStep ==
  /\ \/ GhostWakeup \/ StartWorker \/ WaitEvent \/ CheckMagic \/ MarkDone
     \/ SendResponse \/ IoctlFails
  /\ UNCHANGED <<request, answer, fileVars, historyVars>>

Next == (\E r \in Requests : Send(r)) \/ Handle \/ Take \/ OtherStep

Spec == Init /\ [][Next]_vars

(***************************************************************************)
(* Properties.                                                             *)
(***************************************************************************)

\* Between two commands the list of open files is exactly what the TEE
\* holds: no FILE is left open that nobody will close (the repeated opens of
\* the comment in FsWorkEventHandle), no number is listed twice, and each
\* number still names the file it was given for.
FdExact ==
  ~TeeWaits =>
    /\ DOMAIN held = {opened[n].fd : n \in DOMAIN opened}
    /\ Len(opened) = Cardinality(DOMAIN held)
    /\ \A n \in DOMAIN opened : held[opened[n].fd] = opened[n].ino

\* A write the TEE marked SEC_WRITE_SSA and saw confirmed is in the kernel:
\* it survives the end of teecd (the fflush of WriteWork).
ConfirmedInKernel == \A i \in Inodes : flushed[i] \subseteq kern[i]

\* What an fsync confirmed is on the disk, also the buffered writes that
\* came before it (fflush before fsync in FsyncWork), and so is what a copy
\* took over from its source (the fsync of DoCopy).  What the target of a copy
\* held before is no longer owed, also when target and source are one file
\* under two spellings and the copy loses it.
SyncedOnDisk == \A i \in Inodes : synced[i] \subseteq disk[i]

\* A file under the directory of a user changes its place, disappears or is
\* emptied only by a command for that user: no handler works with the user
\* id of the command before.
UserFiles == {p \in DOMAIN dir : IsPrefix(UsersDir, p)}
Disturbed(p) ==
  \/ p \notin DOMAIN dir'
  \/ dir'[p] # dir[p]
  \/ ~(kern[dir[p]] \subseteq kern'[dir[p]])
UsersSeparate ==
  [][\A p \in UserFiles : Disturbed(p) => p[Len(UsersDir) + 1] = request.user]_vars
=============================================================================
