# tee_client: a TLA+ verification project

The repository is the normal-world side of a TEE: the library client
applications (CAs) link against, the daemon that carries their requests to the
TEE driver (cadaemon), the daemon that serves the TEE's own requests (teecd), the
trusted user interface and the log tool.  This directory holds TLA+ models of
it, TLC instances that check them and TLAPS proofs about them.

## 1. Inventory

| Component | Source | State it keeps | Operations | What makes it correct | Module |
|---|---|---|---|---|---|
| cadaemon service | `services/cadaemon/src/ca_daemon/cadaemon_service.cpp` | `g_teecProcDataList` (per pid: identity, open context descriptors), `mClients`, `mTidList`, three mutexes | one handler per TEEC request, the death of a client | references taken are given back on every path; a request reaches only its caller's context; a dead client leaves nothing; handlers return | CaDaemonService |
| TEEC objects | `frameworks/libteec_vendor/tee_client_api.c` (`*Inner`, `Get*/Put*`) | contexts, sessions, shared memories, each with `ops_cnt`; the lists; `shm_bitmap` | Get, Put, add, find and remove, finalize, bit allocation | counts are exact, nothing in use is freed, a block's offset is its own | TeecInner |
| libteec_vendor public API | the same file (`TEEC_*`), `tee_client_socket.c` | the same objects in a vendor CA's process | `TEEC_*` calls, connection to teecd | as above; a connection ends | CaServer (the connection) |
| libteec client | `frameworks/libteec_client/tee_client.cpp` | proxy to cadaemon, death notifier, table of shared memories; per call the memory of an operation | `TEEC_*` calls over IPC, encoding and decoding of operations, reconnection | both sides agree on the layout of an operation and stay inside the buffers; the table matches the daemon's; a restarted daemon is noticed | TeecOperation, TeeClient |
| cadaemon stub | `services/cadaemon/src/ca_daemon/cadaemon_stub.cpp` | none | unmarshalling | sizes checked before use | - |
| teecd | `services/teecd/src/tee_agent.c`, `tee_ca_daemon.c` | the agents' descriptors and buffers, threads, `syncSysTimed` | start, load drivers, serve applications, unwind | an agent that fails to start is undone; the boot does not wait for itself; an application is answered with its own login | Teecd, CaServer |
| CA authentication | `tee_ca_auth.c`, `services/authentication` | none | receipt of a message, login with the peer's certificate; hashing | the login is the peer's | CaServer (without the hashing) |
| FS agent | `services/teecd/src/fs_work_agent.c` | open-file list, current user and storage, shared buffer | the commands of the TEE's storage | each command is handled exactly once; the list is what the TEE holds; confirmed writes are where they were promised; users are separate | AgentCall, AgentChannel, FsAgent |
| other agents | `misc_work_agent.c`, `secfile_load_agent.c`, `late_init_agent.c` | shared buffer | one loop each | a request is answered | Teecd |
| TA loading | `tee_client_app_load.c`, `load_sec_file.c`, `tee_load_dynamic.c` | none | reads images, passes them on | the default directory is used when the other gave nothing | Teecd (without file I/O) |
| TUI daemon | `services/cadaemon/src/tui_daemon` | the loaded library, status, panel and running lock of a TUI, registered callbacks | init, start, end, fold, call | nothing is held when no TUI runs; the library is not unloaded under a callback; a fold or a call ends a TUI | TuiDaemon |
| tlogcat | `services/tlogcat` | table of open log files, log files, archives | read, rotate, compress | the history stays in order, what is lost is old, files stay within their limit | Tlogcat |

How they meet: a CA links libteec, which sends each call over binder to cadaemon.
cadaemon validates the caller's descriptor against the entry of its pid, takes a
reference to the context (and session, and memory blocks) and calls the
`*Inner` function, which makes an ioctl on the driver.  Binder delivers the death
of a CA to cadaemon, and the death of cadaemon to a CA, as a callback on a
binder thread.  A vendor CA links libteec_vendor, gets a descriptor of the
driver from teecd over a socket and calls the same `*Inner` functions in its own
process.  teecd waits in the driver for commands of the TEE and answers through
shared buffers; while it loads a driver, the TEE may need the FS agent, which is
a thread of the same teecd.  A thread of cadaemon waits for the kernel to report
a TUI and serves it against callbacks of the display and telephony services.

What is hard there: handlers of several binder threads on the same context; the
death of a CA, of cadaemon or of tlogcat in the middle of a sequence of steps;
error paths that run after references were given back; a descriptor closed and
opened again between its validation and its use; locks held across TEE calls;
wakeups without a command; fields shared with callbacks without a lock; a boot
that needs the threads it starts.  The list, each at its line, is `hazards` in
PROJECT.json.

## 2. Modules

### cadaemon

* **TeecInner** - the objects of `tee_client_api.c`: `ctx*` (context, list,
  `ops_cnt`, fd, bitmap), `ses*`, `shm*`.  It has no actions of its own; each
  operator is one critical section of the C code, used by the programs the
  file is compiled into.
* **CaDaemonService** - cadaemon.  `procOwner`/`cxtFd` are `g_teecProcDataList`,
  `procLock` is `mProcDataLock` where it is held across actions, `mClients` the
  client map.  Each binder thread has a program counter `pc`, locals `loc` and
  the references in its hands (`cx`, `se`, `sm`); `fin` is the context it is
  tearing down.  `owner` and `lost` are history variables: who a context was
  initialized for, and how many references to an object were dropped on an
  error path.  An action is one critical section or one TEE call of a handler:

  | Request | Actions |
  |---|---|
  | InitializeContext | `InitializeContext`, `SetContextToProcData` or `...Fails`, `PutBnContextAndReleaseFd`, on failure `ReleaseContext` |
  | FinalizeContext | `FinalizeContext`, `CallFinalizeContext`, `PutBnContextAndReleaseFd` |
  | OpenSession | `OpenSession`, `CallGetBnContext`, `TeecOptDecodePartialMem`*, `TEEC_OpenSessionInner`, `PutAllocShrMem`, Put, `RecOpenReply` |
  | InvokeCommand, CloseSession | the same with `CallGetBnSession`, `TEEC_CommandInner`, `ReleaseSession` |
  | Register/Allocate/ReleaseSharedMemory | `CallGetBnContext`, `RegisterBlock` / `AllocateOffset`, `AllocateBuffer` / `ReleaseBlock`, `PutBlock`, Put, then `RegisterReply` / `UndoAllocate` |
  | last Put | `FinalizeSessionList`, `FinalizeShmList`, `FinalizeClose`, `RemoveContextFromProcData` |
  | death | `OnRemoteDied`, `ProcessCaDied`, `CleanProcDataForOneCa`*, `CleanPutBnContext` |

  `GiveUp` is the error exit after `CallGetBnContext`.  `OnRemoteDied` takes
  `mClientLock`, which is held until the death is dealt with: meanwhile no other death
  and no `SetCallBack` (whose failures leave the CA as it was) gets it.  The constant `Faults`
  says which calls may fail in an instance; with a fault switched on its
  failure is a choice in every state.
* **MCCaDaemon** - values for TLC (every CA has its own pid) and the symmetry
  sets.  Threads, contexts, descriptors, sessions and blocks are only compared
  for equality, so permuting them is sound; the liveness run uses no symmetry.
* **CaDaemonServiceProofs** - the theorems about it.

### The client library

* **TeecOperation** - the memory parameters of one TEEC_Operation on their way
  from a CA through libteec and cadaemon and back.  `phase` says which loop is
  running and `i` its next parameter; an action is one turn of one loop:
  `GetOptMemSize` (the client adds up), `TeecOptEncode` (it copies), `GetTeecOptMem`
  (cadaemon decodes), `TeecOptDecode` (the client copies back).  `total`, `left` and
  `pos` are the counters of the code; `encAt`, `srvAt`, `repAt` record where each
  walk saw a parameter's bytes, `readEnd` and `wroteEnd` how far it touched the
  CA's buffer; `end` is a history variable used by the proof.  Integers have
  the width `Max`.  Bytes are left out; values, ION handles and TEEC_NONE are
  type "none"; the driver and the TA are external and answer any size.
  `IpcFails` stands for every failure of Ashmem and binder.  **MCOperation** has
  the parameters TLC combines, **TeecOperationProofs** the theorems.
* **TeeClient**, **MCTeeClient** - the rest of `tee_client.cpp`: `valid`, `service`
  and `notifier` are `mServiceValid`, `mTeecService` and `mDeathNotifier`, `table` is
  `mShareMem`, `lock` is `mServiceLock`.  A call of a thread is `Lock`, `Lookup`,
  `AddCaDeathRecipient`, `SetCallBack`, `SetValid` (InitTeecService) and then its request;
  `mTeecService` is read again without the lock, as in the code.  cadaemon is
  abstracted to a process with descriptors and blocks that is killed and
  started again (`daemon.epoch`).  `table` holds the entries of `mShareMem` that are
  mapped, `zeros` those of size 0, oldest first, all of which have the address
  `ZeroPtr`.  `block`, `orphans`, `crossed` and `midInit` are history: the block of each
  memory, blocks whose mapping failed, a release of size 0 that found another
  block, a death of cadaemon inside InitTeecService.
  **TeeClientProofs** has the theorems.

### teecd

* **AgentCall** - the abstract specification: what an agent owes the TEE.  A call
  is carried out exactly once and answered only then; it is answered in the
  end as long as the agent's thread lives.
* **AgentChannel** - how the FS agent does it: the shared buffer with its magic
  word, the wakeup and the response.  `asked`, `did` and `answered` count commands;
  they are the refinement mapping to AgentCall (`ImplementsAgentCall`, with `up`
  mapped to `worker # "gone"`).  The TEE and the driver are external: they are
  modelled from the comment in `FsWorkEventHandle`.
* **AgentChannelProofs** - the safety part of the refinement, proved.
* **FsAgent**, **MCFsAgent** - AgentChannel with the handlers: `opened` is the list
  `g_firstFile`, `userId` and `storageId` the globals, `dir`, `kern`, `disk` the files.
  A path is a sequence of components; contents are sets of pieces, held in
  stdio's buffer, in the kernel or on the disk.  Each entry of `g_fsWorkTbl` is an
  operator with the name of its C function.  `held`, `sent`, `flushed` and `synced`
  are what the TEE was told; `HeldAfter` and the like say what an answer on its way
  will add to them.  **FsAgentProofs** has the theorems.
* **Teecd**, **MCTeecd** - `main` of `tee_agent.c` composed with AgentChannel and the
  threads of the misc and secfile agents, the late-init thread and the
  server's life.  `load` says which `LOAD_APP_REQ` runs and whether it waits
  for the FS agent; `dir` is the directory `main` is loading.
* **CaServer**, **MCCaServer** - `CaServerWorkThread` with the applications that
  connect (`tee_client_socket.c`): one action per system call of `ProcessAccept`
  and `ProcessCaMsg`; applications may stay silent or die.
* **TeecdProofs**, **CaServerProofs** - the theorems about them.

### The others

* **TuiDaemon**, **MCTui** - the wrapper's thread, the library's `TuiDaemonInit` and
  `TUIDealWithEvent`, and the two callbacks, each access to a shared field a step.
  The panel is reduced to two fields of different origin, so that a mixture of
  an old and a new panel can be seen.  **TuiDaemonProofs** has the theorems.
* **Tlogcat**, **MCTlogcat** - `tlogcat -f`: records are numbers, a log file is a
  sequence of them and an archive a set; each rename, unlink and write of a
  rotation or compression is a step, so that a kill can come between any two, and
  every rename can fail.

Abstractions: strings, UUIDs, parameters' values, log output and the layout of a
parcel are left out.  The TEE either performs a call or rejects it.  A block
registered rather than allocated is named by its buffer in the code and by
`NoBit` here.  `ops_cnt` is an integer; the code only tests the step from 1 to
0.  Parameters of one operation that name the same block count as one.

`TypeOK` of a module is the type invariant of its state.  All are proved (section
4) but that of Tlogcat, which was checked with TLC.

## 3. Runs

| Run | Instance | What it checks |
|---|---|---|
| objects | 3 threads, 1 mortal CA with 3 requests in flight, all eight requests, 1 context, 2 sessions, 2 blocks, 2 bits | `ShmRefCount`, `OffsetExclusive`, `NothingOrphaned` |
| requests | 2 threads, 1 mortal CA, all eight requests, 2 contexts, 2 blocks for 1 bit, up to 2 memory references (a bit's and a registered block's); malloc, AddTidData, decode failures | `ContextRefCount`, `ContextNotFreedInUse`, `SessionRefCount`, `ShmContextLive` |
| ownership | 2 CAs, one request in flight each, reply failures | `CallerOwnsContext`, `ProcDataExact` |
| liveness | 2 threads, 2 CAs (one mortal), fairness | `HandlerReturns`, `FinalizedContextFreed` |
| operation | every operation of 3 parameters out of 19, every answer | `AcceptedFits`, `SameLayout`, `ReadsInside`, `WritesInside`, `SizeReported` |
| client | 2 threads, 2 contexts, 2 memories, 2 entries of size 0, 1 death and restart of cadaemon | `DaemonKnowsClient`, `DeathHeard`, `MappedKept`, `BlocksMatch` |
| fs_agent | 4 commands out of the 32 of MCFsAgent, 1 ghost wakeup, failures of every call but fclose | `FdExact`, `ConfirmedInKernel`, `SyncedOnDisk`, `UsersSeparate` |
| teecd | 2 + 1 driver files, 0 + 1 service files, 3 storage commands, 1 ghost, 2 other requests, fairness | `AgentsMatch`, `FallbackComplete`, `ImplementsAgentCall`, `BootCompletes`, `SecRequestEnds` |
| ca_server | 2 applications, 2 attempts, fairness | `LoginIsPeers`, `TimeKnown`, `ConnectEnds` |
| tui | 3 events, 2 folds, 1 call, 2 attempts at boot, failures of every call | `NothingHeldIdle`, `UnloadedQuiet`, `PanelCurrent`, `CallEndsTui` |
| tlogcat | 2 uuids with 16 and 1 records, 1 slot, 3 indices, 1 kill or failure | `HistoryOrdered`, `KeepsNewest`, `SizeBounded` |
| death_race | the smallest instance that shows it | `DeadClientReleased` is violated, see Findings |

Bounds.  cadaemon: three threads are two users of an object and a third that
takes it away.  Two contexts and two descriptors let a descriptor be reused while
its former context is still allocated.  Two bits make the bitmap run full and be
reused, one slot (`MaxCxt = 1`) makes the table of a CA run full.  `InFlight` bounds
the requests of one CA at a time; with 1 (run ownership) a CA is
single-threaded, and the properties of that run do not hold for multi-threaded
CAs: see Limits of ownership below.  `MaxLost` stops new requests once a reference
was lost, since otherwise an error path repeated forever counts up forever; the
error itself is reached.

operation: integers end at 15, a header has 2 bytes and the limit is 12: three
parameters reach exactly the limit, exceed it, and overflow, and an offset of 15
makes `offset + size` wrap around.  Three parameters are one before and one after
the one that goes wrong, and the third is the first that OpenSession drops.
Whole references have offset 0 there.

client: two threads are one that is inside a call when another changes the table,
the connection or the context; two of each number let numbers be reused.
`InitApart` keeps the initialization of a context from overlapping with the
finalization of another (see Other disagreements).  `MappedKept` and `BlocksMatch`
are about the first cadaemon: after a restart the client keeps mappings and
descriptors of a cadaemon that is gone, by design of the API.  The table has at most
`MaxZeros` entries of size 0 at a time, since nothing need ever remove them, and a
death is explored further only when no memory of size 0 is about
(`DeathWithoutZeros`): what is promised after a death is not about memory.

fs_agent: four commands are create, write, sync or flush, and one that may spoil
it, for two users; a ghost wakeup can come before, between or after.  User 2's id
does not fit its buffer, a name contains "..", two spellings name one file.
Two descriptors can run out.  teecd: the first driver directory has a file
that fails before or after one that does not; the first service directory is
empty.  tlogcat: with three indices and one record per file a compression
happens every third record, and archives are dropped from the fourth; the one
slot makes the second uuid find no slot.  tui: two folds are one to a state and
one back; three events are start, end, start.

Deadlock is not checked where the system may stop: once the only CA is dead and
cleaned up, nothing can arrive; a context whose reference was lost occupies the
instance's heap forever; an operation ends; teecd, the TUI thread and the
bounded inputs of the other instances come to an end.

Fairness.  cadaemon (`Fairness`): weak fairness of the next step of each handler
(a runnable thread runs, and TEE calls return), strong fairness of the steps
that wait for `mProcDataLock` (it is free again and again, and a waiter is served
in the end; `ProcessCaDied` waits with `mClientLock` held), and strong fairness of the delivery of a death once a binder thread
is idle.  Nothing forces a CA to send, finalize or die.  teecd: weak fairness
of `main`, of each agent's thread and of a load in the TEE that waits for nobody;
none for failures, requests or ghost wakeups.  `BootCompletes` and `SecRequestEnds`
assume that the FS thread lives: when its ioctl fails it ends and the TEE
waits.  ca_server: weak fairness of the server's thread, of an application
that waits for its answer and of the retries to connect; an application that is
connected may stay silent for ever, which is what `ConnectEnds` is about.

Each property of a passing run has a mutant in PROJECT.json: a change to one
definition (next to it, marked as a mutant) under which TLC finds the property
violated.

### Findings

**death_race** - `InitializeContext` of a CA whose death was already handled records
a context that nobody will release.

### Other disagreements

Met while modelling; each is a constant or a premise of the models, and TLC shows
it when the constant is changed or the premise dropped:

* `ReleaseContext` puts the context and then reads its fd; the comment there says that
  `ops_cnt` is 2 and the Put cannot free it (`cadaemon_service.cpp:444`).  When the reply of
  `InitializeContext` fails because the CA is dead, the clean-up of the death may have
  given back the list's reference before (`ReleaseKeepsContext` in the instance of
  death_race with reply failures).
* `OpenSession` returns without giving its context back when an operation cannot be
  decoded or AddTidData fails (`cadaemon_service.cpp:847`; the model counts the
  reference in `lost`), and frees a session that is on its context's list
  when the reply cannot be written (`:878`; `SessionRefCount` with reply failures).
* `InvokeCommand` answers TEEC_SUCCESS for a command it did not send when AddTidData
  fails (`cadaemon_service.cpp:949`; `AddTidDataFails` of TeecOperation).
* The client copies the answer of a TEEC_MEMREF_WHOLE reference to the offset in the
  reference, which nobody checked and the encoding ignores
  (`tee_client.cpp:663`; `WritesInside` with `WholeOffsets = {1}`).
* A command the TEE sends after the FS agent is registered and before its thread has
  marked the buffer is taken for a ghost wakeup and answered without being
  handled (`fs_work_agent.c:1557`; `ImplementsAgentCall` with
  `PromptWorker = FALSE`).  `main` starts the thread before the first load for
  the sake of such commands (`tee_agent.c:258`), but does not wait for it.
* `FreeAllShareMemoryInContext` goes by the descriptor after FINAL_CONTEXT has freed it: a
  context another thread gets in between loses its mappings
  (`tee_client.cpp:329`; `MappedKept` with `InitApart = FALSE`).
* Memories of size 0, which an application may allocate (`tee_client_api.h:179`; line
  182 says that the size cannot be 0), all have the address `ZERO_SIZE_PTR`
  (`tee_client.cpp:1355`), by which the table finds its entries.  Releasing one takes
  the first such entry (`:297`, `:1475`) and sends its offset, so another block may be
  freed, in the wrong context perhaps, and its own stays; and
  `FreeAllShareMemoryInContext` skips entries of size 0 (`:335`), which are left behind
  for the next release to find (`BlocksMatch` without `~crossed`).
* After a restart of cadaemon the client's death notifier is not registered again
  (`tee_client.cpp:65`), so the second death is not heard until a request fails;
  and a death in the middle of `InitTeecService` may be overwritten by
  `mServiceValid = true` (`DeathHeard` without `service = 0` or `~midInit`).
* `CloseWork` keeps its entry when fclose fails, though the stream is gone
  (`fs_work_agent.c:963`; `FdExact` with `CloseFails = TRUE`).
* Copying a file onto another spelling of its own path empties it: `CopyFile` compares
  the names only and opens the target with O_TRUNC before it reads the source
  (`fs_work_agent.c:1234`).  `SyncedOnDisk` takes the promises about a file back when a
  command overwrites it, this one included.
* A fold in the middle of a START can leave the TUI up on the old panel: the
  listener sees the status still FALSE and does not cancel, and the START sends
  what it read before (`tui_event.cpp:650`; `PanelCurrent` without `~history.raced`).
* A call during a START is lost when its callback tests the status before the START has
  set it (`tui_event.cpp:667`, set at `:631` after the panel was read): the TUI comes up
  and stays up during the call (`CallEndsTui` if `Serving` is only `tee.up`).
* A kill between the renames of `ArrangeCompressFile` leaves a gap among the archives
  that the next compression fills, out of order (`tlogcat.c:425`).  A rename there that
  fails is logged and the shift goes on (`:458`), so the next archive overwrites the one
  that stayed, or a gap appears.  And a full file that can neither be moved nor removed
  (`:566`) stays behind while younger ones are archived (`HistoryOrdered` without `~torn`).

### Limits of ownership

`CallerOwnsContext` is checked with one request per CA in flight, where nobody but the
request itself can finalize the context it works on: the run shows that contexts,
records and reused descriptors of different CAs are not confused, not that the
validation is safe in a CA with several threads.  It is not: with `InFlight = 2` and one
descriptor TLC finds that a descriptor validated under `mProcDataLock` is looked up
after the lock is released, when the CA's other thread may have finalized the context
and another CA got the same number.  With two requests in flight a release may also
free a block that `RegisterSharedMemory` still reads for its reply
(`cadaemon_service.cpp:1057`).  `SizeReported` holds for operations that carry some memory: when the only
memory parameter is an empty output, `TeecOptDecode` skips it and the CA does not
learn the size the TA asked for.

## 4. Proofs

Each proof module begins with lemmas on the helpers, has one lemma per action for
each part of the invariant that the action can disturb, and ends with the
induction and the theorems.  TLC checked every inductive invariant on an instance
before its proof was written.

`CaDaemonServiceProofs` proves, for every value of the constants that satisfies
`InnerAssumption` and `ServiceAssumption` (finite sets of threads and objects,
distinct kinds of objects, a positive number of slots), with all faults and
deaths allowed:

* `TypeCorrect`: `Spec => []TypeOK`
* `ContextCounted`: `Spec => []ContextRefCount`
* `ContextSafe`: `Spec => []ContextNotFreedInUse`

and, with every fault but a reply that cannot be written (`"reply" \notin Faults`;
with it `RecOpenReply` frees a session that is in use, see Other disagreements):

* `SessionsCounted`: `Spec => []SessionRefCount`
* `BlocksCounted`: `Spec => []ShmRefCount`
* `BlocksOutliveNoContext`: `Spec => []ShmContextLive`
* `OffsetsExclusive`: `Spec => []OffsetExclusive`
* `NothingLeftBehind`: `Spec => [](NothingLost => NothingOrphaned)`, where `NothingLost`
  says that no error exit has kept a reference; the run objects, without faults and
  memory references, takes none of these exits

and, with every fault, for one request of a CA in flight and no death (`InFlight = 1`,
`Mortal = {}`):

* `TableMatchesContexts`: `Spec => []ProcDataExact`

None is inductive.  That a Put decrements a count that is at least 1 needs the
count to be exact *and* the thread at that program point to hold a reference;
that a teardown is exclusive needs the count of a context being torn down to be
0.  The inductive invariant of the first three is `ContextInv`:

* `TypeOK`;
* `ControlInv`: the program counter tells whether a thread holds a context
  (`HoldPC`) or tears one down (`FinPC`), where a Put may return to (`ReturnPC`),
  that the caller is known outside `idle`, and that a block being mapped exists;
* `RefInv`: `ContextRefCount`; listed or held contexts are live; a context
  being torn down is live, has count 0 and one tearer; nothing is lost of a
  context that is not allocated.

The others add `ObjectControl` (what else the program counter tells: which session,
blocks and locals a handler has, and that the paths of a failed reply are not
taken), `SessionInv` (counts are positive and exact, nothing is lost of a freed
session, a context whose sessions were finalized has none) and `BlockInv` (the same
for blocks, whose count is exact only once they are listed; a block being mapped is
known to its allocating handler alone; offsets are exclusive).  The argument goes
by kind of step: `RefInitialize`, `RefGet`, `RefGetLost`, `RefRemove`, `RefPut`, `RefFree`,
`RefAbandon`, `RefKeep` for contexts, and the like for sessions and blocks, each
about the cardinality of the set of holders; the lemma of an action then only
says of which kind it is.

For `NothingOrphaned` the counts are not enough: `TidyInv` adds that a context without
references has a thread that tears it down and that every set bit is that of an
allocated block.  When every thread is idle the sets of holders are empty, so an
object with a reference is listed, and one without is a context with a tearer,
which no idle thread is.

The table needs an invariant about who may touch what at all.  `OwnInv` says that each
CA is served by at most one thread, that a live context is held, torn down or
remembered only by the thread that serves its owner, that open contexts have
distinct descriptors, and that a record of the table is current unless its thread
is about to remove it under `mProcDataLock`.

`TeecOperationProofs` proves, for every `N`, `Max`, `Limit`, every header of at least
one byte, every set of parameters and every set of answers (`OperationAssumption`):

* `OperationTypeCorrect`: `Spec => []TypeOK`
* `OperationFits`: `Spec => []AcceptedFits`
* `OperationLayout`: `Spec => []SameLayout`
* `OperationReads`: `Spec => []ReadsInside`
* `OperationWrites`: `Spec => []WritesInside`, assuming that whole references have
  offset 0

That a parameter fits says nothing about the next one, so none is inductive.  The
invariant `IInv` ties every walk to the first one: before parameter `i` it stands
at `end[i-1]` (`Walks`), the ends grow by exactly what a parameter needs (`Ends`,
kept as a fact about all pairs so that no induction over the parameters is
needed), every recorded position is `Start(k)` (`Places`), and references passed
the check (`Checked`).  `Room` then shows that the next parameter always fits and
`CheckAccepts` that the 32-bit test of cadaemon agrees.  TLC checked `IInv` on the
run operation first.

`AgentChannelProofs` proves `ChannelImplementsCall`: `ChannelSpec => Call!SafeSpec`, for any
number of commands and ghost wakeups, assuming that no command comes before the
worker has marked its buffer (`EarlyAsk = FALSE`).  The refinement mapping is the
identity on the counters.  The invariant `ChannelInv` says that the magic tells
the state of a command: it is clear exactly while a command waits for its
handler, or between the handler and its mark (`MagicTells`); without it a step of
the worker could be a second `Do`, and a reply an `Answer` before the `Do`.

`TeecdProofs` proves, for any directories (`TeecdAssumption`: a directory has a number
of files or cannot be opened), any set of files the TEE refuses and any number of
commands and requests:

* `TypeCorrect`: `Spec => []TypeOK`
* `ThreadsServeAgents`: `Spec => []AgentsMatch`
* `DefaultsTried`: `Spec => []FallbackComplete`
* `BootImplementsCall`: `Spec => Call!SafeSpec`, assuming `PromptWorker`

`TeecdInv` says which agents are registered and which threads exist at each step of
`main` (`Stages`, `Threads`), what a load waits for (`Loads`), that the files behind
`dir.left` were tried and that a directory counts as loaded only if one of its files
was (`DirTried`), and what holds of the directories that are done (`DirsDone`).  For
the refinement, `Marked` (a thread that exists has marked its buffer) makes every
step of teecd one of a channel without early commands, and the step of
`AgentChannelProofs` applies.

`CaServerProofs` proves, for any set of applications:

* `TypeCorrect`: `Spec => []TypeOK`
* `DescriptorsArePeers`: `Spec => []LoginIsPeers`
* `TimeToldBeforeUse`: `Spec => []TimeKnown`

The credentials are read in one step, used in a second and sent in a third, so the
invariant `LoginInv` adds that `cr`, and after the login the descriptor, are about
the socket at hand (`CrCurrent`, `DevCurrent`).  The clock may be set
at any moment, so `TimeKnown` speaks of the applications whose message was sent once it
was plausible; one whose message came before may be served blind (it is set between
the sync and the sending).  `TimeInv` adds that such a message precedes the attempt of
its connection (`SentBefore`), that the clock was plausible when it was sent
(`EarlyClock`) and that an attempt that was left out had succeeded before
(`SyncedTold`).  The clock is assumed never to be set back below the limit of
`SyncSysTimeToSecure`.  The type invariant needs that an application about to connect
has an attempt left (`AttemptLeft`).

`TuiDaemonProofs` proves, for every number of retries, folds, calls and events:

* `TypeCorrect`: `Spec => []TypeOK`
* `HeldOnlyWhenInited`: `Spec => []NothingHeldIdle`
* `UnloadedWithoutCallbacks`: `Spec => []UnloadedQuiet`
* `IncomingCallEndsTui`: `Spec => []CallEndsTui`
* `PanelFollowsFold`: `Spec => []PanelCurrent`

`TuiInv` has, besides the types, who holds what at each step (`Held`), that callbacks
are registered only after an INIT has ended, from when on the library stays loaded
(`Loaded`), that an initialised daemon that has served a START has the status set, or
is cancelling (`Served`), that a call which tests it is on its way to the cancel
(`Ringing`), and for the panel what each thread
last read (`Shots`, `Read`) and that a panel that is behind has a listener on its way
(`Following`).

`TeeClientProofs` proves, for any number of threads, contexts, memory objects and
deaths of cadaemon (`ClientAssumption`: numbers are numbers and `None` is none of the
others):

* `TypeCorrect`: `Spec => []TypeOK`
* `DaemonTold`: `Spec => []DaemonKnowsClient`
* `DeathNotMissed`: `Spec => []DeathHeard`
* `MemoryStaysMapped`: `Spec => []MappedKept`, assuming `InitApart`
* `BlocksAreMemory`: `Spec => []BlocksMatch`, assuming `InitApart`

The first three rest on `ClientInv`: a call works on the objects its guards found and
on nothing another call uses (`Calls`), the table lists each mapping once (`Tables`),
the step of a thread tells who holds `mServiceLock` (`Locked`), a cadaemon that gave a
descriptor is the one the client points to and is told or about to be told (`Told`),
the first one is watched before it is taken for valid (`Watched`) and, once dead, not
taken for valid without news to come (`Heard`).  While the first cadaemon runs,
requests reach it (`Reached`), which is what lets `MemInv` follow the daemon's side:
every live context has a descriptor of its own until FINAL_CONTEXT drops it
(`Descriptors`), mapped memory has its own entry with its own block (`Entries`) and,
until a release of size 0 has found the entry of another memory (`crossed`), the
daemon's blocks are those of the memory and of failed mappings (`Blocks`) and a
release knows its block after the entry is gone (`Releases`).  `InitApart` is used in
exactly one place: a new context cannot get the descriptor of one that is between
FINAL_CONTEXT and `FreeAllShareMemoryInContext`.

`FsAgentProofs` proves, for any set of commands, files, names, user ids and pieces
(`FsAssumption`: a command has the fields its handler reads, a name is not empty and
no user id is ".."), any number of ghost wakeups and no early command (`EarlyAsk =
FALSE`, as above):

* `TypeCorrect`: `Spec => []TypeOK`
* `AgentImplementsCall`: `Spec => Call!SafeSpec`, from `ChannelImplementsCall`: every step
  of the agent is one of its channel
* `OpenedOnce`: `Spec => []FdExact`, `SsaWritesFlushed`: `Spec => []ConfirmedInKernel` and
  `FsyncDurable`: `Spec => []SyncedOnDisk`, assuming that fclose does not fail
  (`CloseFails = FALSE`): `CloseWork` then leaves a dead entry listed whose number
  the kernel gives out again
* `UsersKeptApart`: `Spec => UsersSeparate`, assuming that no SEC_DELETE_ALL names a path
  with "..": `DeleteAllWork` joins its name without the `CheckFileNameAndPath` that
  every other handler makes (`fs_work_agent.c:1442` and `:520`)

The first part of the invariant, `FsInv`, is that of the channel with the types and
with what an answer on its way is about (`AnswerTells`); no failure breaks it.  The
second, `PromiseInv`, says that no number is listed twice (`Listed`) and that list,
stdio buffers, kernel and disk are what the TEE believes or, between a handler and
its reply, will believe when it has the answer (`Ends`).  Without that case nothing
could be said at the moments when the files are ahead of what the TEE was told.
Handlers come in kinds: those that move content towards the disk (`Growing`), those
that give content up together with the promises about it (`Cutting`), an open and
a close; a lemma per kind carries the invariant, a lemma per handler says of which
kind it is.  The separation of users is a property of paths: a joined path stays
under the directory of its user (`Home`), and different users have different
directories (`Injective`); every handler leaves alone the files that are not under a
path it joined (`Spares`).

Only model-checked: `CallerOwnsContext` (see Limits of ownership); `SizeReported`; the
invariants of Tlogcat, whose archives are compared as sequences of sets; and
everything temporal under fairness, that is also the liveness part of
`ImplementsAgentCall`, which TLAPS does not reach.

## 5. Not modelled

* cadaemon: the list of thread ids that `SendSigToTzdriver` walks (what an
  interrupted ioctl does is decided in the driver), pid reuse, and the
  authentication data passed to the driver.  The IPC stub: unmarshalling
  without state.
* libteec_vendor: the public `TEEC_*` functions, which wrap the modelled
  `*Inner` operators for a process of its own, with the retries of open and
  `TEEC_RequestCancellation`; `tee_client_app_load.c`, which reads images.
* Authentication: reading certificates and hashing identities
  (`tcu_authentication.c`, `tee_auth_system.cpp`), computations on strings.
* FS agent: the backup partition (`CONFIG_BACKUP_PARTITION`), the positions in files,
  and the number `DiskUsageWork` computes.
* tlogcat: the tag filter (`proc_tag.c`), output to hilog, the command line, the
  property that keeps a second instance from starting.
* TUI: the fields of the panel beyond the two of the model, and the hash of the font.

## 6. Plan

`TeecVendor`: the public API of libteec_vendor over TeecInner.
