------------------------------- MODULE RfSrv -------------------------------
(***************************************************************************)
(* The Raft test server rfsrv of raft1/server.go.  With snapshots          *)
(* (MaxRaftState > 0) newRfsrv reads the persisted snapshot, starts Raft,  *)
(* ingests the snapshot and starts applierSnap, which reads the apply      *)
(* channel, checks every command with the tester (CheckLogs), ingests      *)
(* snapshots (ingestSnap, IngestLog) and hands Raft a snapshot after every *)
(* command whose index i has (i+1) % SnapShotInterval = 0.  Without       *)
(* snapshots it starts applier, which only checks commands with CheckLogs. *)
(*                                                                         *)
(* The Raft library and the tester's CheckLogs/IngestLog handlers are not  *)
(* in the repository; they are modelled by the contract rfsrv relies on:   *)
(* Raft hands committed commands to applyCh in index order, installs a     *)
(* leader's snapshot (persisting it with its state) only beyond what it    *)
(* has already applied, and restarts from its persisted snapshot.  The     *)
(* command at index j is modelled by the value Cmd(j).                     *)
(***************************************************************************)
EXTENDS Integers, Sequences, TLC

CONSTANTS
    N,                \* commands the leader commits
    SnapShotInterval, \* server.go:17
    MaxCrashes,       \* bound on kills of the server process
    MaxInstalls       \* bound on snapshots installed from a leader

VARIABLES
    snapshot,    \* newRfsrv's snapshot argument: MaxRaftState > 0
    commit,      \* the leader's commit index
    psnap,       \* the snapshot in the persister, or NoSnap
    rup,         \* Raft of the current incarnation is running
    rapplied,    \* last index Raft has handed to its apply queue
    out,         \* messages Raft is delivering on applyCh, in order
    pc,          \* "down", "ingest" (inside newRfsrv) or "run" (applierSnap)
    sn,          \* the snapshot newRfsrv read before Make
    lastApplied, \* rs.lastApplied
    slog,        \* rs.log: a function from indices to commands
    tlog,        \* the tester's record of this server's log
    applyErr,    \* the tester has received an ApplyErr
    ck,          \* shutdown progress: "live", "closed" (rpcc and rpcs
                 \* closed) or "copied" (persister checkpointed)
    saved,       \* the snapshot of the checkpointed persister (s.saved)
    crashes, installs

vars == <<snapshot, commit, psnap, rup, rapplied, out, pc, sn, lastApplied, slog, tlog,
          applyErr, ck, saved, crashes, installs>>

NoSnap == [idx |-> -1, xlog |-> <<>>]
Nil == 0
Cmd(j) == j
EmptyMap == [j \in {} |-> Nil]

\* The committed log as the map a correct server holds after index i.
Committed(i) == [j \in 1..i |-> Cmd(j)]

\* rs.log[j] of a Go map: nil when the key is absent.
At(m, j) == IF j \in DOMAIN m THEN m[j] ELSE Nil

\* Mutant: the snapshot slice starts at log[1].
EncodeSnapFromOne(i, m) == [idx |-> i, xlog |-> [j \in 0..i-1 |-> At(m, j+1)]]

\* The bytes applierSnap hands to rf.Snapshot: the index, then
\* xlog = log[0..index] (server.go:155-162).  xlog is a 0-based slice,
\* kept as a function on 0..index.
EncodeSnap(i, m) == [idx |-> i, xlog |-> [j \in 0..i |-> At(m, j)]]

\* ingestSnap's decode (server.go:185-210): the error string ("" if none)
\* and the log and lastApplied it installs.
IngestErr(d, index) == IF index /= -1 /\ index /= d.idx THEN "mismatch" ELSE ""
IngestLog(d) == [j \in DOMAIN d.xlog |-> d.xlog[j]]

\* The tester's CheckLogs: an error if the command differs from the
\* committed one, and prevok if it holds this server's previous index.
CheckErr(m) == m.cmd /= Cmd(m.idx)
Prevok(i) == i - 1 \in DOMAIN tlog

Init ==
    /\ snapshot \in BOOLEAN
    /\ commit = 0 /\ psnap = NoSnap
    /\ rup = FALSE /\ rapplied = 0 /\ out = <<>>
    /\ pc = "down" /\ sn = NoSnap /\ lastApplied = 0 /\ slog = EmptyMap
    /\ tlog = EmptyMap /\ applyErr = FALSE
    /\ ck = "live" /\ saved = NoSnap
    /\ crashes = 0 /\ installs = 0

(* ---- Raft, by the contract rfsrv relies on ---- *)

\* The leader commits one more command.
LeaderCommit ==
    /\ commit < N
    /\ commit' = commit + 1
    /\ UNCHANGED <<snapshot, psnap, rup, rapplied, out, pc, sn, lastApplied, slog, tlog,
                   applyErr, ck, saved, crashes, installs>>

\* Mutant: Raft's applier does not wait for the commit index.
RaftApplyUncommitted ==
    /\ rup
    /\ rapplied' = rapplied + 1
    /\ out' = Append(out, [type |-> "cmd", idx |-> rapplied + 1,
                           cmd |-> Cmd(rapplied + 1)])
    /\ UNCHANGED <<snapshot, commit, psnap, rup, pc, sn, lastApplied, slog, tlog,
                   applyErr, ck, saved, crashes, installs>>

\* Raft's applier queues the next committed command for applyCh.
RaftApply ==
    /\ rup /\ rapplied < commit
    /\ rapplied' = rapplied + 1
    /\ out' = Append(out, [type |-> "cmd", idx |-> rapplied + 1,
                           cmd |-> Cmd(rapplied + 1)])
    /\ UNCHANGED <<snapshot, commit, psnap, rup, pc, sn, lastApplied, slog, tlog,
                   applyErr, ck, saved, crashes, installs>>

\* Mutant: Raft installs any snapshot newer than its own persisted one.
RaftInstallStale(K) ==
    /\ snapshot /\ rup /\ installs < MaxInstalls
    /\ K > psnap.idx /\ K <= commit /\ (K + 1) % SnapShotInterval = 0
    /\ psnap' = EncodeSnap(K, Committed(K))
    /\ rapplied' = K
    /\ out' = Append(out, [type |-> "snap", idx |-> K, data |-> psnap'])
    /\ installs' = installs + 1
    /\ UNCHANGED <<snapshot, commit, rup, pc, sn, lastApplied, slog, tlog, applyErr,
                   ck, saved, crashes>>

\* InstallSnapshot from a leader: the leader's rfsrv made the snapshot at
\* an index K with (K+1) % SnapShotInterval = 0; Raft persists it with its
\* state and queues it for applyCh behind what it has already queued.  An
\* InstallSnapshot handler may still be running when rpcs is closed.
RaftInstall(K) ==
    /\ snapshot /\ rup /\ installs < MaxInstalls
    /\ K > rapplied /\ K <= commit /\ (K + 1) % SnapShotInterval = 0
    /\ psnap' = EncodeSnap(K, Committed(K))
    /\ rapplied' = K
    /\ out' = Append(out, [type |-> "snap", idx |-> K, data |-> psnap'])
    /\ installs' = installs + 1
    /\ UNCHANGED <<snapshot, commit, rup, pc, sn, lastApplied, slog, tlog, applyErr,
                   ck, saved, crashes>>

\* rf.Snapshot(index, data): Raft trims its log and persists the snapshot,
\* ignoring one that is not newer than the snapshot it has.
RaftSnapshot(i, d) == IF i > psnap.idx THEN d ELSE psnap

(* ---- rfsrv ---- *)

\* A call of the TesterProxy (proxy.go:50-85) reaches the tester only while
\* the daemon's connection to it is open; after CheckpointPersister closed
\* it, CheckLogs returns "ErrRPC" and IngestLog and ApplyErr are lost.
Delivered == ck = "live"

\* newRfsrv up to the ingest: sn := persister.ReadSnapshot(), then Make,
\* which restarts Raft from its persisted snapshot (server.go:54-65).  The
\* persister is the one the tester handed the new daemon (Init).
NewRfsrv ==
    /\ pc = "down"
    /\ sn' = psnap
    /\ rup' = TRUE
    /\ rapplied' = IF psnap = NoSnap THEN 0 ELSE psnap.idx
    /\ out' = <<>>
    /\ lastApplied' = 0 /\ slog' = EmptyMap
    /\ pc' = "ingest" /\ ck' = "live"
    /\ UNCHANGED <<snapshot, commit, psnap, tlog, applyErr, saved, crashes, installs>>

\* Mutant: the snapshot is read from the persister after Make.
IngestReadAfterMake ==
    /\ pc = "ingest"
    /\ IF snapshot /\ psnap /= NoSnap
         THEN /\ slog' = IngestLog(psnap)
              /\ lastApplied' = psnap.idx
              /\ tlog' = IF Delivered THEN slog' ELSE tlog
              /\ pc' = "run" /\ UNCHANGED applyErr
         ELSE /\ pc' = "run"
              /\ UNCHANGED <<slog, lastApplied, tlog, applyErr>>
    /\ UNCHANGED <<snapshot, commit, psnap, rup, rapplied, out, sn, ck, saved, crashes,
                   installs>>

\* Mutant: applierSnap is started only when there is a snapshot to ingest.
IngestApplierOnlyWithSnap ==
    /\ pc = "ingest" /\ snapshot /\ sn /= NoSnap
    /\ slog' = IngestLog(sn)
    /\ lastApplied' = sn.idx
    /\ tlog' = IF Delivered THEN slog' ELSE tlog
    /\ pc' = "run"
    /\ UNCHANGED <<snapshot, commit, psnap, rup, rapplied, out, sn, applyErr, ck, saved,
                   crashes, installs>>

\* newRfsrv's snapshot branch: ingest a non-empty snapshot, report it with
\* IngestLog (ApplyErr and log.Fatalf if it does not decode), and start
\* applierSnap; without snapshots start applier (server.go:66-82).
Ingest ==
    /\ pc = "ingest"
    /\ IF snapshot /\ sn /= NoSnap
         THEN /\ slog' = IngestLog(sn)
              /\ lastApplied' = sn.idx
              /\ tlog' = IF Delivered THEN slog' ELSE tlog
              /\ IF IngestErr(sn, -1) /= ""
                   THEN applyErr' = (applyErr \/ Delivered) /\ pc' = "fatal"
                   ELSE pc' = "run" /\ UNCHANGED applyErr
         ELSE /\ pc' = "run"
              /\ UNCHANGED <<slog, lastApplied, tlog, applyErr>>
    /\ UNCHANGED <<snapshot, commit, psnap, rup, rapplied, out, sn, ck, saved, crashes,
                   installs>>

\* One iteration of applierSnap on a snapshot at the head of applyCh:
\* ingestSnap, IngestLog, and ApplyErr if it failed (server.go:133-137,
\* 176-180).
ApplySnapMsg ==
    /\ snapshot /\ pc = "run" /\ out /= <<>> /\ Head(out).type = "snap"
    /\ LET m == Head(out)
           err == IngestErr(m.data, m.idx)
       IN /\ IF err = ""
               THEN /\ slog' = IngestLog(m.data)
                    /\ lastApplied' = m.data.idx
               ELSE UNCHANGED <<slog, lastApplied>>
          /\ tlog' = IF Delivered THEN slog' ELSE tlog
          /\ applyErr' = (applyErr \/ (Delivered /\ err /= ""))
    /\ out' = Tail(out)
    /\ UNCHANGED <<snapshot, commit, psnap, rup, rapplied, pc, sn, ck, saved, crashes,
                   installs>>

\* One iteration of applierSnap on a command (server.go:138-181): CheckLogs
\* for an in-order command, which on a closed connection is "ErrRPC"; the
\* command goes into rs.log whatever the outcome, and every
\* SnapShotInterval-th index is handed to rf.Snapshot.
ApplyCmdMsg ==
    /\ snapshot /\ pc = "run" /\ out /= <<>> /\ Head(out).type = "cmd"
    /\ LET m == Head(out)
           i == m.idx
           inOrder == i = lastApplied + 1
           \* CheckLogs is called only for an in-order command
           err == ~inOrder \/ ~Delivered \/ CheckErr(m) \/ (i > 1 /\ ~Prevok(i))
       IN /\ slog' = (i :> m.cmd) @@ slog
          /\ lastApplied' = i
          /\ tlog' = IF inOrder /\ Delivered THEN (i :> m.cmd) @@ tlog ELSE tlog
          /\ psnap' = IF (i + 1) % SnapShotInterval = 0
                        THEN RaftSnapshot(i, EncodeSnap(i, (i :> m.cmd) @@ slog))
                        ELSE psnap
          /\ applyErr' = (applyErr \/ (Delivered /\ err))
    /\ out' = Tail(out)
    /\ UNCHANGED <<snapshot, commit, rup, rapplied, pc, sn, ck, saved, crashes, installs>>

\* One iteration of applier (server.go:107-123): CheckLogs, and ApplyErr
\* when the tester reports an error or lacks the previous index.
ApplierMsg ==
    /\ ~snapshot /\ pc = "run" /\ out /= <<>>
    /\ LET m == Head(out)
       IN /\ tlog' = IF Delivered THEN (m.idx :> m.cmd) @@ tlog ELSE tlog
          /\ applyErr' = (applyErr \/ (Delivered /\ (CheckErr(m) \/
                                                     (m.idx > 1 /\ ~Prevok(m.idx)))))
    /\ out' = Tail(out)
    /\ UNCHANGED <<snapshot, commit, psnap, rup, rapplied, pc, sn, lastApplied,
                   slog, ck, saved, crashes, installs>>

\* ShutdownServer's CheckpointPersister RPC, first half: rpcc.Close() and
\* rpcs.Close() (daemonsrv.go:157-162).  The server's goroutines keep
\* running.
CloseConns ==
    /\ pc /= "down" /\ ck = "live" /\ crashes < MaxCrashes
    /\ ck' = "closed"
    /\ UNCHANGED <<snapshot, commit, psnap, rup, rapplied, out, pc, sn, lastApplied,
                   slog, tlog, applyErr, saved, crashes, installs>>

\* The second half: persister.Checkpoint() returned to the tester, which
\* keeps it as s.saved (daemonsrv.go:163-167, srv.go:73-74).
CheckpointPersister ==
    /\ ck = "closed"
    /\ ck' = "copied" /\ saved' = psnap
    /\ UNCHANGED <<snapshot, commit, psnap, rup, rapplied, out, pc, sn, lastApplied,
                   slog, tlog, applyErr, crashes, installs>>

\* Mutant: what the daemon persisted after the checkpoint survives the kill.
KillKeepsLive ==
    /\ ck = "copied" /\ pc /= "down"
    /\ pc' = "down" /\ rup' = FALSE /\ out' = <<>>
    /\ crashes' = crashes + 1
    /\ UNCHANGED <<snapshot, commit, psnap, rapplied, sn, lastApplied, slog, tlog,
                   applyErr, ck, saved, installs>>

\* dc.kill(): the process dies and what it persisted after the checkpoint
\* is lost; StartServer hands the next daemon s.saved (srv.go:75-76, 33-40).
Kill ==
    /\ ck = "copied" /\ pc /= "down"
    /\ pc' = "down" /\ rup' = FALSE /\ out' = <<>>
    /\ psnap' = saved
    /\ crashes' = crashes + 1
    /\ UNCHANGED <<snapshot, commit, rapplied, sn, lastApplied, slog, tlog, applyErr,
                   ck, saved, installs>>

Next ==
    \/ LeaderCommit \/ RaftApply \/ \E K \in 1..N : RaftInstall(K)
    \/ NewRfsrv \/ Ingest \/ ApplySnapMsg \/ ApplyCmdMsg \/ ApplierMsg
    \/ CloseConns \/ CheckpointPersister \/ Kill

Spec == Init /\ [][Next]_vars
         /\ WF_vars(RaftApply) /\ WF_vars(Ingest)
         /\ WF_vars(ApplySnapMsg) /\ WF_vars(ApplyCmdMsg) /\ WF_vars(ApplierMsg)

-----------------------------------------------------------------------------

TypeOK ==
    /\ commit \in 0..N /\ rapplied \in 0..N /\ lastApplied \in 0..N
    /\ pc \in {"down", "ingest", "run", "fatal"}
    /\ snapshot \in BOOLEAN /\ rup \in BOOLEAN /\ applyErr \in BOOLEAN
    /\ DOMAIN slog \subseteq 0..N /\ DOMAIN tlog \subseteq 0..N
    /\ psnap.idx \in -1..N /\ sn.idx \in -1..N /\ saved.idx \in -1..N
    /\ ck \in {"live", "closed", "copied"}

\* applierSnap never reports an error to the tester (ApplyErr, server.go:177
\* and :72): every command arrives in order, matches the committed one and
\* follows an index the tester holds for this server, across restarts from
\* the persisted snapshot and snapshots installed from a leader.
NoApplyErr == ~applyErr

\* A snapshot that holds exactly the committed commands up to its index.
SnapIsPrefix(d) ==
    d /= NoSnap =>
        /\ d.idx <= commit
        /\ DOMAIN d.xlog = 0..d.idx
        /\ \A j \in 1..d.idx : d.xlog[j] = Cmd(j)

\* What rfsrv holds and what it has persisted are the committed log: the
\* commands rs.log has up to rs.lastApplied, the snapshot in the live
\* persister, and the checkpoint the tester keeps for the next daemon,
\* which a restart ingests (server.go:151-165, 204-208, srv.go:73-74).
StateIsCommittedPrefix ==
    /\ lastApplied <= commit
    /\ \A j \in 1..lastApplied : At(slog, j) = Cmd(j)
    /\ SnapIsPrefix(psnap) /\ SnapIsPrefix(saved)

\* Every command committed while the server process is up is eventually
\* applied, unless the process dies first: by applierSnap into rs.log, or by
\* applier, which has then taken index i and every earlier one off applyCh.
Applied(i) ==
    IF snapshot THEN lastApplied >= i
    ELSE rapplied >= i /\ \A k \in DOMAIN out : out[k].idx > i

AppliedEventually ==
    \A i \in 1..N : (commit >= i /\ pc \in {"ingest", "run"})
                      ~> (Applied(i) \/ pc \in {"down", "fatal"})

\* The index of the snapshot the next daemon starts from: the tester's
\* checkpoint once it is taken, the live persister before.
DurableIdx ==
    LET d == IF ck = "copied" THEN saved ELSE psnap
    IN  IF d = NoSnap THEN 0 ELSE d.idx

\* rfsrv implements RfSrvAbs: rs.log up to rs.lastApplied grows by the
\* next committed command or jumps forward to a snapshot (ingestSnap sets
\* lastApplied without comparing it, server.go:208), the snapshot a
\* restart resumes from only moves forward, and newRfsrv resumes from a
\* snapshot no newer than it (the snapshot read before Make, the
\* checkpoint handed over by StartServer).
Abs == INSTANCE RfSrvAbs WITH
         acommit <- commit,
         alog <- [j \in 1 .. lastApplied |-> At(slog, j)],
         durable <- DurableIdx,
         alive <- pc /= "down",
         running <- pc = "run"

RfSrvRefinesAbs == Abs!ASpec

====
