# TLA+ models of the 6.5840 test harness and labs

This directory holds TLA+ models of the Go code under
`src/lab1/6.5840/src`. The models are checked with TLC. Each module is
translated from the Go source, and `PROJECT.json` maps every definition
to the lines it models.

## 1. The system and its parts

The repository is a test harness that runs every server under test as a
separate OS process. On top of that harness sit the lab services.

| Part | Source | State | Operations | Interacts with |
|---|---|---|---|---|
| Frame transport | `tester1/demux/transport.go` | the socket, a write lock | ReadCall, WriteCall, Close | the peer's transport |
| Pending-call table | `tester1/demux/callmap.go` | `calls: tag -> chan`, `closed` | put, remove, close, isClosed, outstanding | DemuxClnt |
| DemuxClnt | `tester1/demux/dmxclnt.go` | `nextTag` (uint32), `mu`, one reader goroutine | tag, SendReceive, reader/reply, Close | transport, callMap |
| DemuxSrv | `tester1/demux/dmxsrv.go` | `closed`, `mu`, one goroutine per request | NewDemuxSrv (init frame), reader, handler | transport, RPCSrv |
| Socket RPC | `tester1/sockrpc/*.go` | listener, one DemuxClnt per target | dial with retry, Call, ServeRequest | Demux |
| DaemonSrv | `tester1/daemonsrv.go` | channel `ch`, the persister, the labrpc net in the process | Init, InitWait, CheckpointPersister, StateSize, MemSize, forward, 10-minute self-kill | DaemonClnt, the service |
| DaemonClnt | `tester1/daemonclnt.go` | the OS process, the rpc client | runDaemon, init, waitInit, forward, checkpointPersister, kill | DaemonSrv, labrpc |
| Server, ServerGrp | `tester1/srv.go`, `tester1/group.go` | `saved` persister, end names, `connected[]`, the daemon handle | StartServer, ShutdownServer, connect, disconnect, Partition, MakePartition | DaemonClnt, labrpc (external) |
| MapReduce | `mr/coordinator.go`, `mr/worker.go` | task table, mapDone/reduceDone | RequestTask, ReportTask, checkTimeouts, Done; Worker loop | RPC between processes |
| kvsrv1 | `kvsrv1/server.go`, `kvsrv1/client.go` | key -> (value, version) | Get, Put; the Clerk retries with ErrMaybe | labrpc (lossy) |
| Lock | `kvsrv1/lock/lock.go` | one key in kvsrv1 | Acquire, Release | kvsrv1 Clerk |
| rfsrv (Raft test server) | `raft1/server.go`, `raft1/proxy.go` | `lastApplied`, `log` (index -> command), the persister | newRfsrv, applierSnap, ingestSnap, rf.Snapshot every 10 commands; CheckLogs, IngestLog, ApplyErr to the tester | the Raft library (not in src) over applyCh, the tester over CheckLogs/IngestLog/ApplyErr |
| rsm, shardgrp, main | various | glue or lab skeletons | — | libraries that are not in src |

A call from the tester travels like this. First a `ServerGrp` operation
uses the `DaemonClnt`. The `DaemonClnt` sends an RPC over a `DemuxClnt`
connection to the daemon's `DemuxSrv`. The daemon dispatches the call
into the service. RPCs that a service sends to its peers go back
through the tester's simulated network (`labrpc`, which is not in src).

Hard behaviours of the code:
- concurrent callers share one connection, and replies can come back in
  any order;
- the server process can die while calls are in flight;
- `Close` races with the reader goroutine;
- tags are uint32 and can wrap;
- a checkpoint is taken while a disconnected process is still running;
- a Raft server keeps applying and snapshotting after its connection to
  the tester is closed, between the checkpoint and the kill;
- partitions are built from sequences of connect and disconnect calls;
- a kv Put whose reply was lost is retried;
- MapReduce tasks time out and are reassigned while their late reports
  still arrive.

## 2. Modules

### Demux: `Demux.tla`, `DemuxAbs.tla`, `MCDemux*.tla`

`Demux` models one multiplexed connection. It covers a `DemuxClnt`, its
callMap, the two frame streams and the `DemuxSrv` at the far end.

Variables and the code they stand for:
- `nextTag`, `mu`, `calls`, `cmClosed` are the DemuxClnt and callMap fields.
- `c2s` and `s2c` are the two directions of the socket. They are bounded
  by `BufCap`, and a write blocks while its stream is full.
- `cliClosed` means `trans.Close()` ran on the client side.
- `srvDead` means the daemon process was killed (`DaemonClnt.kill`).
- `handlers` is the set of server goroutines that have not replied yet.

Threads:
- Each caller in `Callers` runs `SendReceive` as four steps, one per
  `pc` value: `Tag`, `Put` (callMap.put, refused once the map is closed),
  `Lock` and `Write` (WriteCall under `dmx.mu`). The caller then blocks
  until `Deliver`.
- The reader goroutine runs `ReadOk`/`ReadErr`, then `Reply` (remove,
  then either send or Fatalf). After a read error it runs
  `ReaderCloseMap`, then `Outstanding`, then one `Drain` step per
  outstanding tag, in any order, as Go map iteration gives.
- Each closer in `Closers` runs `DemuxClnt.Close` as three steps:
  `CloseCheck`, `CloseTrans`, `CloseMap`.
- The server runs `SrvInit` (reading the init frame), then
  `SrvRead`/`SrvReadEOF`. `Handler` writes one reply at a time, for any
  pending request. `SrvCrash` is the process being killed.

Tags are kept at width `TagBits`: `nextTag' = (nextTag + 1) % 2^TagBits`.
This is how the uint32 wrap shows up at a small width.

`DemuxAbs` is what the connection promises to each caller. A call
returns exactly once, either with the reply to its own request (ok or
not) or with an error. `Demux` implements it through the refinement
mapping "caller idle ↔ idle, `ncalls`, `result`". TLC checks this as the
property `DemuxRefinesAbs`, and that property includes the liveness
condition that every call returns.

### GroupNet: `GroupNet.tla`

`GroupNet` models the lifecycle of a server in a `ServerGrp`, while a
clerk's writes race with it. It covers `StartServer` and `ShutdownServer`
(`group.go`, `srv.go`), `DaemonClnt` (`daemonclnt.go`), the daemon's
`InitDaemon`, `Init`/`InitWait` and `CheckpointPersister`
(`daemonsrv.go`), and the listener of `RPCSrv` (`sockrpc/rpcsrv.go`).

Variables and the code they stand for:
- `tpc` is the test goroutine: which ServerGrp call it is in, and at
  which step.
- `dpc` is the pc of the daemon's main goroutine. `lst` is its listener
  goroutine. `svc` means the service is registered. `ckd` means the
  checkpoint ran in this process.
- `dp` is the daemon's persister and `saved` is `Server.saved`. A
  persister is abstracted to the number of writes it holds.
- `reg` is the server generation that is registered in labrpc.
- `req` holds the clerk's requests, and `acked` is the largest write
  whose reply the clerk saw.

Actions:
- `StartServer` is five tester steps: `StartSpawn`, `StartInit`,
  `StartDial` (which needs the listener), `StartWaitInit` and
  `StartAdd`.
- `ShutdownServer` is three steps: `ShutdownDelete`, `ShutdownCkpt` and
  `ShutdownKill`. `ShutdownCkpt` closes `rpcs.l`. If the listener
  goroutine has not yet assigned `rpcs.l`, the daemon panics and the
  tester's `log.Fatalf` ends the test (`tpc.op = "fatal"`).
- The daemon steps are `DaemonNewSrv`, `DaemonMks`, `Listen` and
  `ListenSet`.
- labrpc is not in src, so `Dispatch` and `ReturnReply` are modelled from
  the spec. `Dispatch` delivers only to a registered server.
  `ReturnReply` drops the reply when the registration has changed.
  `Serve` is the daemon's handler: it applies the write to `dp` and
  replies, answers "unknown service" before registration, or fails once
  the process is gone.

Properties:
- `AckedDurable`: every write the clerk saw acknowledged is in the
  persister that a restart would load.
- `NoDispatchBeforeInit`: no request meets an unregistered service.
- `StartServerReturns`: `StartServer` always returns.
- `NoReplyAfterCheckpoint` (violation run): an action property saying
  that no request is answered after the checkpoint.
- `ShutdownNeverFatal` (violation run).

### GroupConn: `GroupConn.tla`

`GroupConn` models the fault-injection calls of `ServerGrp`. The network
state is `[conn, en]`: `sg.connected` and the enable bit of every end
`srvs[i].endNames[j]`. `Connect` and `Disconnect` translate
`sg.connect` and `sg.disconnect`. The calls that are made of them are
folds of those two operators over their arguments, in the code's order:
- `ConnectOne`, `DisconnectAll` and `ConnectAll`;
- `Partition`, which folds over p1 and then over p2;
- `PartitionLeader`, which is `Partition(MakePartition(l))`.
- `StartSrvs` and `Kill`, which fold `StartServer` and `ShutdownServer`
  over a list of servers; `StartServers` is `StartSrvs(all())` followed
  by `ConnectAll()`, and `Shutdown` is `Kill(all())`.

`MakePartition` is a pure operator: a fold that fills preallocated
slices. `StartServer` gives a restarted server fresh ends, which are
disabled. Each ServerGrp call is one step, because a single test
goroutine makes them all.

### MRCoordinator: `MRCoordinator.tla`, `MCMRCoordinator.tla`

This module models the MapReduce coordinator (`mr/coordinator.go`) and
its worker processes (`mr/worker.go`). Each handler runs under `c.mu`,
so each is one step.

Variables and the code they stand for:
- `mapStatus`, `reduceStatus`, `mapDone` and `reduceDone` are the
  coordinator's fields.
- `files` is the set of intermediate files `mr-m-r` that exist.
- `out[r]` means `mr-out-r` exists.
- `coordUp` means the mrcoordinator process runs.
- `wpc`, `wtask` and `wok` are where each worker is in its loop, the task
  it holds, and the success flag it will report. `Gone` is the set of
  `wpc` values of an exited process ("exited", "dead", "crashed"). In
  that state the goroutine `startWorker` spawned has returned from
  `cmd.Wait` and is blocked on `c <- i`.
- `rst` is the restarter goroutine of TestCrashWorker. `ranMR` means
  `runMRchan` has returned to the test.

Actions:
- `RequestTask` hands out the first Idle map task. Once
  `mapDone == len(mapTasks)` it hands out the first Idle reduce task;
  otherwise it answers Exit if `reduceDone == nReduce`, and NoTask after
  that. A worker whose dial fails exits.
- `ExecuteMap` writes its files in order. An I/O error stops it after a
  prefix.
- `ExecuteReduce` fails when an input file is missing or empty, because
  `readKeyValuesFromFile` returns nil for both. It can also fail on an
  I/O error.
- `ReportTask`, `CheckTimeouts` and `CoordinatorExit` (loop until
  `Done()`, then exit).
- `Crash`: a worker process dies inside mapf or reducef.
- `Restart` (`startWorker`): the restarter receives a worker's index on
  the unbuffered channel `c` and starts a new worker. The send and the
  receive are one step. Every exit is restarted, including a normal exit
  after ExitTask and a failed dial after the coordinator has gone.
- `CoordWaited` (`runMRchan`): `coord.Wait()` has returned and `c <- n`
  meets the restarter's receive, so the restarter returns. A worker that
  exits after this leaks its goroutine on `c <- i`. That state is
  reachable, but it is harmless until the test binary exits.

`Empty` is the set of intermediate files that a map leaves empty. The
`workerIDCounter` is left out, because no decision reads it.

Properties:
- `NoEarlyExit`: TestEarlyExit's condition. No process exits before every
  output file is final.
- No property says that a reduce task is handed out only after every map
  has written its files. The code breaks that as soon as a map can fail.
  With two map tasks, one timeout and one I/O error, TLC finds this trace:
  1. Worker w1 runs map 0 and fails.
  2. Map 0 times out and is given to w3, which completes it.
  3. w1's late failure report resets the Completed map 0 to Idle
     (coordinator.go:165).
  4. Map 0 is completed again, so `mapDone` reaches 2 while map 1 is
     still InProgress.
  5. A reduce task is handed out with `mr-1-r` missing.

  The reduce then fails on the missing file and is retried. The cause is
  the double count that mr_stale_failure shows for reduce tasks. mr_core
  needs MaxFails = 0 for `NoEarlyExit` to hold, so such a property could
  only pass there by excluding the case that breaks it.
- `JobCompletes`: eventually, and from then on, the coordinator has
  exited, `runMRchan` has returned, and every worker process has exited.
  This includes the workers restarted around the coordinator's exit. The
  mutant `RestartReturnsOnAny` returns on any value received. It leaves
  `runMRchan` blocked on `c <- n`, and the property fails.

### KVLock: `KVLock.tla`

`KVLock` models the lock of `kvsrv1/lock/lock.go` over the versioned
server of `kvsrv1/server.go`, reached through the Clerk of `client.go`.
The clients are `lock_test.go`'s `oneClient` loop. Each round:
1. Acquire `lk`.
2. Get `l0`, which must be free.
3. Put our name into `l0`.
4. Put "" into `l0`.
5. Release.

How the code maps to steps:
- `ServerPut` is `KVServer.Put`. `Get` is `KVServer.Get`, seen through
  Clerk.Get's resend loop as one read.
- `PutAttempt` is one attempt of Clerk.Put. The request is lost, or it is
  served and its reply is lost, or it is served and answered. A lost
  attempt clears `firstTry`, and ErrVersion on a resend becomes
  ErrMaybe.
- Every call site of Acquire, Release and the test has its own action.
- `call[c].execs` counts how many attempts of the current Put the server
  performed.

Properties:
- `MutualExclusion`.
- `NoTestFailure`: none of the test's `Fatalf` checks fires.
- `PutResultTruthful`: the contract in the comment on `Clerk.Put`. OK
  means performed once; ErrVersion and ErrNoKey mean not performed;
  nothing is ever performed twice.
- `AllRoundsFinish`: every client finishes its rounds.

### RfSrv: `RfSrv.tla`, `RfSrvAbs.tla`

`RfSrv` models the Raft test server of `raft1/server.go`, with one server
process that may be killed and restarted. The variable `snapshot` is
newRfsrv's argument `MaxRaftState > 0`. Init chooses it, so one run
checks both configurations.

The Raft library and the tester's `CheckLogsRPC`/`IngestLogRPC` are not
in the repository. They are modelled by the contract rfsrv relies on
(marked spec_modelled in the map):
- `LeaderCommit`: the leader commits the next command. The command at
  index j is the value `Cmd(j)`.
- `RaftApply`: Raft's applier queues the next committed command for
  `applyCh` (`out` is the FIFO of messages on their way).
- `RaftInstall(K)`: a leader's snapshot at an index K, which the leader's
  own rfsrv made, so (K+1) % SnapShotInterval = 0. Raft takes it only if
  K is beyond what it has queued. It persists the snapshot and queues it
  behind the commands already queued. Without snapshots nobody makes one, so
  there are no installs.
- `RaftSnapshot`: `rf.Snapshot` persists a snapshot newer than the one
  the persister holds.
- `CheckErr`/`Prevok`: the tester compares the command with the
  committed one and reports whether it holds the previous index of this
  server (`tlog`, which `IngestLog` replaces).

The rfsrv code is translated from the source:
- `NewRfsrv`: `sn := persister.ReadSnapshot()`, then `Make`. Raft
  restarts from its persisted snapshot.
- `Ingest`: the snapshot branch of newRfsrv. It runs `ingestSnap(sn, -1)`
  and `IngestLog`, then starts `applierSnap`.
- `ApplierMsg`: one iteration of the plain `applier`. It only calls
  CheckLogs.
- `ApplySnapMsg` and `ApplyCmdMsg`: one iteration of `applierSnap`. An
  out-of-order command or a CheckLogs error is reported with ApplyErr,
  and the command is still stored. The snapshot after index i with
  (i+1) % SnapShotInterval = 0 is part of the step.
- `EncodeSnap`/`IngestLog`/`IngestErr`: the encoding and decoding of the
  snapshot (`log[0..i]` as a 0-based slice).
- `Delivered`: the TesterProxy calls (`proxy.go`) reach the tester only
  while the daemon's connection is open. After it is closed, CheckLogs
  returns "ErrRPC", and IngestLog and ApplyErr are lost. applierSnap
  still stores the command, and may still hand Raft a snapshot.
- `CloseConns`, `CheckpointPersister` and `Kill`: ShutdownServer in three
  steps. CheckpointPersister first closes `rpcc` and `rpcs`, then copies
  the persister into `s.saved`. The server's goroutines run on between
  these steps. `dc.kill()` drops whatever was persisted after the copy,
  and the next daemon starts from `s.saved`. A snapshot made between the
  close and the copy is kept, even though the tester never saw its
  commands through CheckLogs.
  The test `err_msg != "ErrRPC"` at server.go:146 changes nothing the
  tester sees: the ApplyErr it prevents would be lost on the same closed
  connection. The model therefore carries a single boolean error.

Properties:
- `NoApplyErr`: the tester never receives ApplyErr.
- `StateIsCommittedPrefix`: `rs.log` up to `lastApplied`, the live
  persisted snapshot and the tester's checkpoint `s.saved` are the
  committed log.
- `RfSrvRefinesAbs`: RfSrv implements `RfSrvAbs` (`RfSrvAbs.tla`), the
  abstract specification of what the server promises. In it the server's
  state is a prefix of the committed log. While the server runs, the
  prefix grows by the next command (possibly persisting a snapshot in the
  same step) or jumps forward to a committed snapshot. The durable
  snapshot only moves forward, and only while the process lives. A
  restart boots empty and resumes from a snapshot no newer than the
  durable one. The mapping:
  - `alog` is `rs.log` up to `lastApplied`;
  - `durable` is the tester's checkpoint once it is taken, and the live
    persister before;
  - `alive` is `pc /= "down"`, and `running` is `pc = "run"`.

  Two mutants show what this adds. In one, the kill keeps what was
  persisted after the checkpoint; the invariants still hold, but the
  refinement fails. In the other, Raft installs a snapshot older than
  what it applied, which rolls `lastApplied` back.
- `AppliedEventually`: a command committed while the process is up is
  applied unless the process dies. With snapshots this means it reached
  `rs.log`. Without them, it means applier has taken it off `applyCh`.

## 3. Runs

| Run | Module / cfg | Expect | What it shows |
|---|---|---|---|
| demux_core | MCDemux / MCDemux.cfg | pass | Two callers, a closer and a server that may die. Every caller gets its own reply or an error, no reply is unmatched, and the connection refines `DemuxAbs`, including the condition that every call returns. |
| demux_tag_wrap | MCDemuxTagWrap / MCDemuxTagWrap.cfg | violation | With more calls than tag values, a tag that is still in flight is reused. `callMap.put` overwrites its entry, and caller c2 receives c1's reply (`ReplyMatchesRequest`). This is the uint32 wrap of `nextTag`, shown at 1 bit. |
| groupnet_core | GroupNet / GroupNet.cfg | pass | Three start/shutdown cycles race with three writes. Acknowledged writes survive restarts, no request reaches an unregistered service, and StartServer returns. |
| groupnet_ckpt_serves | GroupNet / GroupNetCkpt.cfg | violation | After the checkpoint, the daemon still serves and answers a request that is in flight. The comment says closing `ds.rpcs` prevents this. |
| groupnet_listener_race | GroupNet / GroupNetListen.cfg | violation | ShutdownServer closes `rpcs.l` before the listener goroutine has assigned it. The daemon panics and the tester exits with `log.Fatalf`. |
| groupconn_core | GroupConn / GroupConn.cfg | pass | Any sequence of fault-injection calls on three servers. Enabled ends join connected servers, Partition separates exactly, ConnectAll and StartServers heal the network, and MakePartition leaves the leader in a minority. |
| groupconn_even | GroupConn / GroupConnEven.cfg | violation | With four servers, MakePartition puts server 0 in both halves, so no side has a majority. |
| mr_core | MRCoordinator / MRCoordinator.cfg | pass | Three workers, 2 map and 2 reduce tasks, a crash, and two timeouts of slow workers, under TestCrashWorker's harness, which restarts every exited worker. No early exit. The job and the harness finish, with every worker process exited. 263,439 distinct states in about 30 s. |
| mr_stale_failure | MRCoordinator / MRCoordinatorStale.cfg | violation | One I/O error, reported late by a timed-out worker, resets a Completed reduce task. `reduceDone` counts it twice, and everyone exits with `mr-out-1` missing. |
| mr_empty_bucket | MCMRCoordinator / MRCoordinatorEmpty.cfg | violation | An empty intermediate file makes its reduce task fail on every retry, so the job never completes. |
| rfsrv_apply | RfSrv / RfSrv.cfg | pass | With and without snapshots: nine commands, two shutdowns (close, checkpoint, kill, with applying going on in between) and two snapshots installed from a leader. applierSnap never reports an error, the ErrRPC window included. Its log, the persisted snapshot and the checkpoint are the committed log. The server refines `RfSrvAbs`, and every command is applied. |
| kvlock_core | KVLock / KVLock.cfg | pass | Two clients, two rounds each, and two dropped requests or replies. The lock excludes, the test's checks hold, every Put result is truthful, and every client finishes. |

Every property of a passing run has a mutant in `PROJECT.json`. A mutant
is a plausible bug in the mapped definition (a dropped guard, a missing
increment, an ErrMaybe taken as success), and TLC finds the property
violated under the run's own cfg.

### Findings

- **Tag wrap** (`demux/dmxclnt.go`): a reply can go to the wrong caller
  once `nextTag` wraps while an old tag is still outstanding.
- **Checkpoint comment** (`daemonsrv.go:162`): `RPCSrv.Close` closes only
  the listener, so the daemon keeps serving after the checkpoint.
  Acknowledged writes stay durable only because ShutdownServer already
  removed the server from labrpc, which drops those replies.
- **Listener race** (`sockrpc/rpcsrv.go:46`): `rpcs.l` is written without
  synchronisation. A checkpoint right after start can close a nil
  listener.
- **MakePartition** (`group.go:297`): for even n, server 0 lands in both
  halves; for n = 1 the code indexes `p2[-1]`.
- **Stale failure report** (`mr/coordinator.go:165`): the failure branch
  of ReportTask resets a task whatever its status.
  - On a reduce task, `Done()` becomes true early.
  - On a map task, `mapDone` overshoots, and reduces are then never
    handed out.
- **Empty bucket** (`mr/worker.go:190`): an empty intermediate file reads
  as nil and fails the reduce forever.

### Bounds

| Bound | Value | Why it is enough |
|---|---|---|
| Demux Callers / MaxCalls | 2 / 2 | Enough for out-of-order replies and for two callers racing on `mu`. |
| Demux TagBits | 3 (1 in tag_wrap) | 8 tags for 5 frames, so no wrap in demux_core. With 1 bit the wrap happens. |
| Demux BufCap / Closers | 2 / 1 | Writes block on a full stream, and one Close races the reader's own close. |
| GroupNet Srvs / MaxStarts / MaxReqs | 1 / 3 / 3 | Servers share no state in this model, so one stands for all. Three cycles give a restart from a checkpoint that was itself restored. Three writes can be in flight at every step of both calls. |
| GroupConn N | 3 (4 in groupconn_even) | Three is the smallest group with a real majority. The even case needs 4. |
| MR Workers / NMap / NReduce | 3 / 2 / 2 | Two tasks of each kind make "first Idle" and the counters matter. The third worker lets two stale holders race with a current one. |
| MR MaxTimeouts / MaxCrashes / MaxFails | 2 / 1 / 0 | Timeouts of slow workers and a crash exercise late reports. With MaxFails 0 the run shows the protocol is right without I/O errors; mr_stale_failure uses 1. |
| KVLock Clients / MaxRounds / MaxLoss | 2 / 2 / 2 | A holder and a waiter, a second round on a key that already exists, and a lost request or reply at any Put, including two on one Put. Three clients (1.1 M states) also pass. |

| RfSrv N / SnapShotInterval / MaxCrashes / MaxInstalls | 9 / 3 / 2 / 2 | The code's interval is 10; nothing in the code depends on its value except where snapshots fall. With 3 and nine commands there are snapshots at 2, 5 and 8, so a kill can follow zero, one or two of them. A leader's snapshot can overtake a restart's own. With two shutdowns, each checkpoint can fall before, between or after these snapshots. N = 20 with the code's interval 10 also passes, with every property: 1,144,698 distinct states in 34 minutes. |

## 4. Fairness

Fairness in `Demux`:
- Every goroutine step is weakly fair: the caller steps, `Deliver`, the
  reader, the closers, the server reader and the handler goroutines.
  These are Go goroutines that the runtime keeps scheduling.
- Starting a new call (`Tag`), starting a Close (`CloseCheck`) and the
  process being killed (`SrvCrash`) are the environment's choices. They
  are not fair.

Fairness in `GroupNet`:
- The steps of a ServerGrp call already in progress (`TesterStep`),
  each daemon's goroutines, the handler (`Serve`) and the reply path
  (`ReturnReply`) are weakly fair.
- Beginning a call (`StartSpawn`, `ShutdownDelete`) and a clerk sending a
  request (`Dispatch`) are the test's choices. They are not fair.

Fairness in `GroupConn`: it has no liveness property and no fairness.

Fairness in `MRCoordinator`:
- Each worker's loop and the coordinator's exit are weakly fair.
- `CoordWaited` is weakly fair. Go serves the senders blocked on a
  channel in FIFO order, so `runMRchan`'s `c <- n` is received after
  finitely many worker exits. Restarts are not assumed fair.
- `CheckTimeouts` is weakly fair only for a task that no live worker
  holds. Ten seconds after a crashed worker's task was handed out,
  the goroutine that runs every 2 s resets it.
- Timeouts of slow workers, crashes and I/O errors are not fair, and
  they are bounded.

Fairness in `KVLock`:
- Each client's steps are weakly fair. The network drops at most
  `MaxLoss` RPCs, so a resent Put is eventually answered. This stands for
  the test network, which drops each message only with some probability.

Fairness in `RfSrv`:
- Raft's applier (`RaftApply`), newRfsrv's ingest and each iteration of
  `applierSnap` or `applier` are weakly fair. They are goroutines blocked only on
  `applyCh`.
- The leader's commits and installs are not fair, and neither are the
  three steps of a shutdown (close, checkpoint, kill). A checkpointed
  daemon may therefore run on forever; `applierSnap` keeps applying in
  it. The liveness property assumes only that a command is already
  committed.
- `applyCh` is unbuffered, and applierSnap calls `rf.Snapshot` inside its
  loop. Fairness of the applier therefore assumes that Raft does not
  hold its lock while it sends on `applyCh`. That is the library's
  contract, and the library is not in the repository (listed as a hazard
  at server.go:165).

Runs that stop legitimately have `CHECK_DEADLOCK FALSE`: every client,
worker or call is done, or the tester has exited. This applies to Demux,
GroupNet, MRCoordinator, KVLock and RfSrv (all commands applied). A stop that should not happen is
caught by the liveness properties instead. GroupConn checks deadlock.

## 5. Further work

- `rsm` and `shardgrp` cannot be modelled here. The rsm library is not
  in src, and the shardgrp handlers are empty.
- A composition of `Demux` under `GroupNet` could be built: the forward
  path over a connection whose daemon is killed mid-call. The daemon's
  outgoing path (`DaemonSrv.forward` to `TesterRPC.Forward` and into
  labrpc) could join `GroupConn`'s ends. Then a process's calls after
  CheckpointPersister would meet disabled ends. That needs two servers
  in `GroupNet`. Today the two
  are checked separately, with `Serve`'s "failed" outcome standing for
  the Demux error.
- `KVLock` models one lock. `lock_test.go` also nests two locks; their
  keys are independent.

## 6. Not modelled

- **Byte encoding of frames.** Frames are records. The length prefix and
  labgob are conversions with no effect on control flow.
- **DemuxSrv.Close.** Nothing in src calls it.
- **Socket RPC dial retry.** This is timing: 100 tries × 100 ms, then
  Fatalf.
- **testclnt, testsrv and the annotator.** They forward calls or record
  annotations for display.
- **rfsrv's Start/GetState.** They pass calls through to Raft.
  `UseRaftStateMachine` mode starts no Raft.
- **rsm and shardgrp.** The rsm server's DoOp/Snapshot/Restore act on a
  counter, driven by the rsm library, which is not in src. shardgrp is
  an empty lab skeleton.
- **Server.memSize.** It has no caller in src. It would dereference a
  nil `dc` after ShutdownServer.
- **main.** This is process bootstrap.
- **The rest of mr/util.go and mr_test.go.** `mkCorrectOutput`,
  `mergeOutput`, `findFiles`, `cleanup`, `runCmp` and `countPattern` run
  external commands on files. The tests' output comparisons are
  represented by `out` and `NoEarlyExit`. The one-second sleep in
  `runMRchan`, which gives the coordinator time to create its socket
  before the workers dial, is timing: the model starts the workers after
  `MakeCoordinator`.
