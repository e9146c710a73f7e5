------------------------------ MODULE Tlogcat ------------------------------
(***************************************************************************)
(* tlogcat -f (tlogcat.c, tarzip.c): it reads the log records of the TEE   *)
(* from /dev/teelog and keeps, per uuid, up to IndexMax log files and up   *)
(* to IndexMax archives.  New records go to the file with index 0; a full  *)
(* file 0 takes the next free index; when all indices are used, the files  *)
(* are moved to a temporary directory, compressed and removed.             *)
(*                                                                         *)
(* A record is a number, counted per uuid; a file is the sequence of its   *)
(* records and an archive the set of them.  Every rename, unlink and write *)
(* of a rotation is a step, for the process may be killed between them.    *)
(***************************************************************************)
EXTENDS Integers, Sequences, FiniteSets, SequencesExt, FiniteSetsExt

CONSTANTS
  Uuids,       \* the uuids that log (the TEE itself has one too)
  IndexMax,    \* LOG_FILE_INDEX_MAX
  SlotMax,     \* LOG_FILES_MAX
  Limit,       \* records that fill a file (LOG_FILE_LIMIT)
  MaxRecords,  \* bound: uuid -> records
  MaxFailures, \* bound: kills of the process and failing calls together
  CrashAt,     \* the steps before which the process may be killed
  NoFile       \* a name without a file

ASSUME TlogcatAssumption ==
  /\ IndexMax \in Nat /\ IndexMax > 1
  /\ {SlotMax, Limit} \subseteq Nat \ {0}
  /\ MaxRecords \in [Uuids -> Nat]
  /\ MaxFailures \in Nat

VARIABLES
  pc,       \* the step of the process
  last,     \* uuid -> records read so far
  uuid,     \* the uuid of the record or of the compression at hand
  slots,    \* g_files
  logs,     \* uuid -> index -> log file
  tmp,      \* index -> log file, in the temporary directory
  archives, \* uuid -> index -> archive
  job,      \* a compression: its slot, its index, its archive, what follows
  refused,  \* history: uuid -> records that found no slot or were not written
  torn,     \* history: the files of a uuid were left shifted half way
  crashes, faults

vars == <<pc, last, uuid, slots, logs, tmp, archives, job, refused, torn, crashes, faults>>

Index == 0 .. IndexMax - 1
Slots == 1 .. SlotMax
Records == Nat \ {0}
Free == [none |-> TRUE]
NoJob == [slot |-> 0, k |-> 0, back |-> "read"]
CompressSteps == {"mktmp", "move", "pick", "arrange", "zip", "tar", "unlink"}
Steps == {"select", "read", "get", "open", "close"} \cup CompressSteps

NoLogs == [i \in Index |-> NoFile]

Init ==
  /\ pc = "select"
  /\ last = [u \in Uuids |-> 0]
  /\ uuid \in Uuids
  /\ slots = [s \in Slots |-> Free]
  /\ logs = [u \in Uuids |-> NoLogs]
  /\ tmp = NoLogs
  /\ archives = [u \in Uuids |-> NoLogs]
  /\ job = NoJob
  /\ refused = [u \in Uuids |-> {}]
  /\ torn = FALSE
  /\ crashes = 0 /\ faults = 0

Fault ==
  /\ crashes + faults < MaxFailures
  /\ faults' = faults + 1

(***************************************************************************)
(* The table of open log files.                                            *)
(***************************************************************************)

Used == {s \in Slots : slots[s] # Free}
SlotsOf(u) == {s \in Used : slots[s].uuid = u}

GetFileIndex(files) == Max({0} \cup {i \in Index : files[i] # NoFile})

\* What fclose leaves in file 0: the buffered records are written.
Flushed(s) == LET f == slots[s]
              IN  [logs EXCEPT ![f.uuid][0] = @ \o f.buf]

\* rename of file 0 to the next index; when it fails file 0 stays.
LogFileFull(u, files, index) ==
  \/ /\ logs' = [files EXCEPT ![u][index + 1] = files[u][0], ![u][0] = NoFile]
     /\ UNCHANGED faults
  \/ logs' = files /\ Fault

Cleared(s) == [slots EXCEPT ![s] = Free]

Full(s) == slots[s].len >= Limit

\* A full file of slot s is closed: the next index if there is one, and
\* else a compression after which the process goes on at "back".
LogFilesRotate(s, back) ==
  LET f == slots[s]
      closed == Flushed(s)
  IN  IF f.index >= IndexMax - 1
      THEN /\ logs' = closed
           /\ slots' = [slots EXCEPT ![s].buf = <<>>]
           /\ job' = [slot |-> s, k |-> IndexMax - 1, back |-> back]
           /\ uuid' = f.uuid
           /\ pc' = "mktmp"
           /\ UNCHANGED faults
      ELSE /\ LogFileFull(f.uuid, closed, f.index)
           /\ slots' = Cleared(s)
           /\ pc' = back
           /\ UNCHANGED <<job, uuid>>

(***************************************************************************)
(* Reading.                                                                *)
(***************************************************************************)

\* select returns: Func calls ProcReadLog.
Select ==
  /\ pc = "select"
  /\ pc' = "read"
  /\ UNCHANGED <<last, uuid, slots, logs, tmp, archives, job, refused, torn, crashes, faults>>

\* The next record of the buffer; one that goes to the system log only
\* (ShouldSkipLogPrint) changes nothing here.
ReadLogBuffer(u) ==
  /\ pc = "read"
  /\ last[u] < MaxRecords[u]
  /\ last' = [last EXCEPT ![u] = @ + 1]
  /\ uuid' = u
  /\ pc' = "get"
  /\ UNCHANGED <<slots, logs, tmp, archives, job, refused, torn, crashes, faults>>

\* read returns nothing or fails: Func goes back to LogFilesClose.
ReadEnd ==
  /\ pc = "read"
  /\ pc' = "close"
  /\ UNCHANGED <<last, uuid, slots, logs, tmp, archives, job, refused, torn, crashes, faults>>

(***************************************************************************)
(* WritePrivateLogFile: the record of uuid, last[uuid].                    *)
(***************************************************************************)

\* fwrite to the file of slot s, given the table and the files so far.  The
\* record stays in the buffer of the FILE or the buffer is written out.
Write(s, table, files) ==
  LET u == uuid
      f == [table[s] EXCEPT !.buf = Append(@, last[u]), !.len = @ + 1]
  IN  /\ \/ /\ slots' = [table EXCEPT ![s] = f]
            /\ logs' = files
         \/ /\ slots' = [table EXCEPT ![s] = [f EXCEPT !.buf = <<>>]]
            /\ logs' = [files EXCEPT ![u][0] = @ \o f.buf]
      /\ UNCHANGED <<refused, faults>>

\* A short fwrite: the file is closed and its slot cleared.
WriteFails(s, table, files) ==
  /\ Fault
  /\ slots' = [table EXCEPT ![s] = Free]
  /\ logs' = [files EXCEPT ![uuid][0] = @ \o table[s].buf]
  /\ refused' = [refused EXCEPT ![uuid] = @ \cup {last[uuid]}]

\* GetUsableFile finds the slot of the uuid; it rotates a full file.
GetUsableFile ==
  /\ pc = "get"
  /\ \/ \E s \in SlotsOf(uuid) :
          /\ ~Full(s)
          /\ Write(s, slots, logs) \/ WriteFails(s, slots, logs)
          /\ pc' = "read"
          /\ UNCHANGED <<uuid, job>>
     \/ \E s \in SlotsOf(uuid) :
          /\ Full(s)
          /\ LogFilesRotate(s, "open")
          /\ UNCHANGED refused
     \/ /\ SlotsOf(uuid) = {}
        /\ pc' = "open"
        /\ UNCHANGED <<uuid, slots, logs, job, refused, faults>>
  /\ UNCHANGED <<last, tmp, archives, torn, crashes>>

\* LogFilesOpen: file 0, at its end, created when it is not there.
Opened == IF logs[uuid][0] = NoFile THEN [logs EXCEPT ![uuid][0] = <<>>] ELSE logs

NewSlot == [uuid |-> uuid, len |-> Len(Opened[uuid][0]),
            index |-> GetFileIndex(logs[uuid]), buf |-> <<>>]

\* The rest of LogFilesGet: open file 0 and enter it (LogFilesAdd).
LogFilesGet ==
  /\ pc = "open"
  /\ \/ /\ Used # Slots
        /\ LET s == Min(Slots \ Used)
               table == [slots EXCEPT ![s] = NewSlot]
           IN  Write(s, table, Opened) \/ WriteFails(s, table, Opened)
     \/ /\ Used = Slots
        /\ refused' = [refused EXCEPT ![uuid] = @ \cup {last[uuid]}]
        /\ logs' = Opened
        /\ UNCHANGED <<slots, faults>>
     \/ /\ Fault                        \* the directory or file is not there
        /\ refused' = [refused EXCEPT ![uuid] = @ \cup {last[uuid]}]
        /\ UNCHANGED <<slots, logs>>
  /\ pc' = "read"
  /\ UNCHANGED <<last, uuid, tmp, archives, job, torn, crashes>>

\* Mutant: files are closed at the end of a batch and never rotated there.
LogFilesCloseOnly ==
  /\ pc = "close"
  /\ \/ /\ Used # {}
        /\ slots' = Cleared(Min(Used))
        /\ logs' = Flushed(Min(Used))
        /\ pc' = "close"
     \/ /\ Used = {}
        /\ pc' = "select"
        /\ UNCHANGED <<slots, logs>>
  /\ UNCHANGED <<last, uuid, tmp, archives, job, refused, torn, crashes, faults>>

\* All files are closed, slot by slot, and the full ones rotated.
LogFilesClose ==
  /\ pc = "close"
  /\ \/ /\ Used # {}
        /\ LET s == Min(Used)
           IN  \/ Full(s) /\ LogFilesRotate(s, "close")
               \/ /\ ~Full(s)
                  /\ slots' = Cleared(s)
                  /\ logs' = Flushed(s)
                  /\ UNCHANGED <<pc, uuid, job, faults>>
     \/ /\ Used = {}
        /\ pc' = "select"
        /\ UNCHANGED <<slots, logs, uuid, job, faults>>
  /\ UNCHANGED <<last, tmp, archives, refused, torn, crashes>>

(***************************************************************************)
(* LogFilesCompress, for the files of uuid.                                *)
(***************************************************************************)

\* The caller clears the slot and goes on.
CompressReturns ==
  /\ slots' = Cleared(job.slot)
  /\ pc' = job.back
  /\ job' = NoJob

\* What an earlier compression left in the directory is removed.
MkdirTmpPath ==
  /\ pc = "mktmp"
  /\ \/ /\ tmp' = NoLogs
        /\ pc' = "move"
        /\ UNCHANGED <<slots, job, faults>>
     \/ /\ Fault
        /\ CompressReturns
        /\ UNCHANGED tmp
  /\ UNCHANGED <<last, uuid, logs, archives, refused, torn, crashes>>

\* The files go to the temporary directory, from the highest index down.
\* One that cannot be renamed is removed, or stays when that fails too.
MoveFileToTmpPath ==
  /\ pc = "move"
  /\ \/ /\ tmp' = [tmp EXCEPT ![job.k] = logs[uuid][job.k]]
        /\ logs' = [logs EXCEPT ![uuid][job.k] = NoFile]
        /\ UNCHANGED <<torn, faults>>
     \/ /\ logs[uuid][job.k] # NoFile
        /\ Fault
        /\ \/ logs' = [logs EXCEPT ![uuid][job.k] = NoFile] /\ UNCHANGED torn
           \/ UNCHANGED logs /\ torn' = TRUE
        /\ UNCHANGED tmp
  /\ IF job.k > 0 THEN /\ job' = [job EXCEPT !.k = @ - 1]
                       /\ UNCHANGED pc
                  ELSE pc' = "pick" /\ UNCHANGED job
  /\ UNCHANGED <<last, uuid, slots, archives, refused, crashes>>

Unused(files) == {i \in Index : files[i] = NoFile}

\* Mutants: a full set of archives is recycled from index 0; the renames
\* are done from the highest index down.
GetCompressFileRecycle ==
  /\ pc = "pick"
  /\ job' = [job EXCEPT !.k = IF Unused(archives[uuid]) # {}
                              THEN Min(Unused(archives[uuid])) ELSE 0]
  /\ pc' = "zip"
  /\ UNCHANGED <<last, uuid, slots, logs, tmp, archives, refused, torn, crashes, faults>>
ArrangeCompressFileDown ==
  /\ pc = "arrange"
  /\ LET from == IndexMax - job.k
     IN  archives' = [archives EXCEPT ![uuid][from - 1] = archives[uuid][from],
                                      ![uuid][from] = NoFile]
  /\ IF job.k < IndexMax - 1
     THEN job' = [job EXCEPT !.k = @ + 1] /\ UNCHANGED pc
     ELSE pc' = "zip" /\ UNCHANGED job
  /\ UNCHANGED <<last, uuid, slots, logs, tmp, refused, torn, crashes, faults>>

\* The first unused archive name; without one the first archive goes.
GetCompressFile ==
  /\ pc = "pick"
  /\ LET unused == Unused(archives[uuid])
     IN  IF unused # {}
         THEN /\ job' = [job EXCEPT !.k = Min(unused)]
              /\ pc' = "zip"
              /\ UNCHANGED archives
         ELSE /\ archives' = [archives EXCEPT ![uuid][0] = NoFile]
              /\ job' = [job EXCEPT !.k = 1]
              /\ pc' = "arrange"
  /\ UNCHANGED <<last, uuid, slots, logs, tmp, refused, torn, crashes, faults>>

\* The other archives move down by one; the last name becomes free.  After
\* a failing rename the next archive goes to the name of the one that
\* stayed.
ArrangeCompressFile ==
  /\ pc = "arrange"
  /\ \/ /\ archives' = [archives EXCEPT ![uuid][job.k - 1] = archives[uuid][job.k],
                                        ![uuid][job.k] = NoFile]
        /\ UNCHANGED <<torn, faults>>
     \/ Fault /\ torn' = TRUE /\ UNCHANGED archives
  /\ IF job.k < IndexMax - 1
     THEN job' = [job EXCEPT !.k = @ + 1] /\ UNCHANGED pc
     ELSE pc' = "zip" /\ UNCHANGED job
  /\ UNCHANGED <<last, uuid, slots, logs, tmp, refused, crashes>>

\* OpenZipFile creates the archive; when that or a later call of it fails
\* TarZipFiles gives up, perhaps with an empty archive.
OpenZipFile ==
  /\ pc = "zip"
  /\ \/ /\ archives' = [archives EXCEPT ![uuid][job.k] = {}]
        /\ pc' = "tar"
        /\ UNCHANGED faults
     \/ /\ Fault
        /\ pc' = "unlink"
        /\ archives' = [archives EXCEPT ![uuid][job.k] = {}] \/ UNCHANGED archives
  /\ UNCHANGED <<last, uuid, slots, logs, tmp, job, refused, torn, crashes>>

RecordsOf(file) == IF file = NoFile THEN {} ELSE ToSet(file)

\* WriteSingleFile for each file.  An error of it ends the loop, one of
\* WriteZipContent goes on with the next file.
WriteSingleFiles ==
  /\ pc = "tar"
  /\ \E written \in SUBSET Index :
       /\ IF written = Index THEN UNCHANGED faults ELSE Fault
       /\ archives' = [archives EXCEPT
            ![uuid][job.k] = UNION {RecordsOf(tmp[i]) : i \in written}]
  /\ pc' = "unlink"
  /\ UNCHANGED <<last, uuid, slots, logs, tmp, job, refused, torn, crashes>>

\* TriggerCompress removes the files, compressed or not, and the directory.
UnlinkCompressed ==
  /\ pc = "unlink"
  /\ tmp' = NoLogs
  /\ CompressReturns
  /\ UNCHANGED <<last, uuid, logs, archives, refused, torn, crashes, faults>>

(***************************************************************************)
(* The process is killed; init starts it again.                            *)
(***************************************************************************)
Crash ==
  /\ pc \in CrashAt
  /\ crashes + faults < MaxFailures
  /\ crashes' = crashes + 1
  /\ torn' = (torn \/ pc = "arrange")
  /\ slots' = [s \in Slots |-> Free]
  /\ job' = NoJob
  /\ pc' = "select"
  /\ UNCHANGED <<last, uuid, logs, tmp, archives, refused, faults>>

Compress ==
  \/ MkdirTmpPath \/ MoveFileToTmpPath \/ GetCompressFile \/ ArrangeCompressFile
  \/ OpenZipFile \/ WriteSingleFiles \/ UnlinkCompressed

Next ==
  \/ Select \/ ReadEnd \/ \E u \in Uuids : ReadLogBuffer(u)
  \/ GetUsableFile \/ LogFilesGet \/ LogFilesClose
  \/ Compress
  \/ Crash

Spec == Init /\ [][Next]_vars

(***************************************************************************)
(* Properties.                                                             *)
(***************************************************************************)

\* The types of the state.
TypeOK ==
  /\ pc \in Steps
  /\ last \in [Uuids -> Nat]
  /\ uuid \in Uuids
  /\ \A s \in Used : slots[s] \in
       [uuid : Uuids, len : Nat, index : Index, buf : Seq(Records)]
  /\ \A f \in {tmp} \cup {logs[u] : u \in Uuids} :
       /\ DOMAIN f = Index
       /\ \A i \in Index : f[i] # NoFile => f[i] \in Seq(Records)
  /\ \A u \in Uuids : \A i \in Index :
       archives[u][i] # NoFile => archives[u][i] \subseteq Records
  /\ job.k \in Index
  /\ torn \in BOOLEAN

\* The records of a uuid, oldest first: its archives, then the full files
\* by index, then file 0 with what is still buffered for it.
Buffered(u) == UNION {ToSet(slots[s].buf) : s \in SlotsOf(u)}
Archived(u, i) == IF archives[u][i] = NoFile THEN {} ELSE archives[u][i]
ByAge(u) ==
  [i \in 1 .. IndexMax |-> Archived(u, i - 1)]
  \o [i \in 1 .. IndexMax - 1 |-> RecordsOf(logs[u][i])]
  \o <<RecordsOf(logs[u][0]), Buffered(u)>>

\* Rotation keeps the order: an archive holds older records than the next
\* one, the files are younger than the archives and file 0 is the youngest
\* (LogFileFull gives the highest index, GetCompressFile and
\* ArrangeCompressFile the last name).  This survives a failing write, open,
\* compression or rename of a log file, and a kill at any step but one: the
\* code does not undo a shift of the archives that a kill or a failing
\* rename has left half way, nor a log file that could neither be moved nor
\* removed (torn); the next compression then archives out of order.
HistoryOrdered ==
  ~torn => \A u \in Uuids :
    LET ages == ByAge(u)
    IN  \A i, j \in DOMAIN ages :
          i < j => \A a \in ages[i], b \in ages[j] : a < b

\* Every record is kept until IndexMax archives of younger ones exist: only
\* a record that found no slot, or one older than everything kept, is gone
\* (no rename of LogFileFull or ArrangeCompressFile hits an existing file).
Compressing(u) == pc \in CompressSteps /\ uuid = u
Kept(u) ==
  UNION Range(ByAge(u))
  \cup (IF Compressing(u) THEN UNION {RecordsOf(tmp[i]) : i \in Index} ELSE {})
  \cup (IF uuid = u /\ (pc \in {"get", "open"} \/ job.back = "open") THEN {last[u]} ELSE {})
KeepsNewest ==
  crashes = 0 /\ faults = 0 =>
    \A u \in Uuids :
      LET kept == Kept(u)
      IN  \A n \in 1 .. last[u] :
            \/ n \in kept \cup refused[u]
            \/ /\ \A m \in kept : n < m
               /\ Cardinality(Unused(archives[u])) <= 1

\* No log file outgrows the limit: a file that is full when its batch ends
\* is rotated by LogFilesClose, so that LogFilesGet, which writes to a file
\* it opens without a check, finds a full one only after a kill or a failed
\* call, once for each.
SizeBounded ==
  \A u \in Uuids : \A i \in Index :
    logs[u][i] # NoFile =>
      Len(logs[u][i]) + (IF i = 0 THEN Cardinality(Buffered(u)) ELSE 0)
        <= Limit + crashes + faults
=============================================================================
