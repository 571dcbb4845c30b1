----------------------------- MODULE MRCoordinator ----------------------------
(***************************************************************************)
(* The MapReduce coordinator (mr/coordinator.go) and its worker processes  *)
(* (mr/worker.go).  Every coordinator handler runs under c.mu, so each is  *)
(* one step.  A worker is a process looping request -> execute -> report;  *)
(* it can crash (the crash app exits mid-task), and a task it holds can   *)
(* be timed out by checkTimeouts while it is still running, so its report  *)
(* arrives late.  Files are the intermediate mr-m-r files and the mr-out-r *)
(* files, both written by atomic rename.  The test harness of              *)
(* TestCrashWorker (mr/util.go, mr/mr_test.go) is part of the model: the   *)
(* goroutine waiting on each worker process sends its index on the         *)
(* unbuffered channel c when the process exits, a restarter goroutine      *)
(* receives from c and starts a new worker in its place, and runMRchan     *)
(* sends n on c once the coordinator process has exited, which makes the   *)
(* restarter return.                                                       *)
(***************************************************************************)
EXTENDS Naturals, FiniteSets, FiniteSetsExt

CONSTANTS
  Workers,      \* worker processes (model values)
  NMap,         \* len(c.mapTasks): one map task per input file
  NReduce,      \* c.nReduce
  Empty,        \* the <<m, r>> whose file mr-m-r the map leaves empty
  MaxTimeouts,  \* timeouts of a task whose worker is still running
  MaxCrashes,   \* worker crashes
  MaxFails      \* I/O errors inside executeMapTask / executeReduceTask

Maps == 0 .. NMap - 1
Reds == 0 .. NReduce - 1
Tasks == ({"map"} \X Maps) \cup ({"reduce"} \X Reds)

ASSUME /\ NMap >= 1 /\ NReduce >= 1
       /\ Empty \subseteq Maps \X Reds
       /\ {MaxTimeouts, MaxCrashes, MaxFails} \subseteq Nat

VARIABLES
  mapStatus, reduceStatus,  \* c.mapStatus, c.reduceStatus
  mapDone, reduceDone,      \* c.mapDone, c.reduceDone
  files,                    \* the mr-m-r files that exist, as <<m, r>>
  out,                      \* out[r]: mr-out-r exists
  coordUp,                  \* the mrcoordinator process still runs
  wpc,                      \* where each worker is in its loop
  wtask,                    \* the task a worker holds
  wok,                      \* the success flag it will report
  nTimeouts, nCrashes, nFails,
  rst,                      \* the restarter goroutine: "loop" or "returned"
  ranMR                     \* runMRchan has returned to the test

harness == <<rst, ranMR>>
vars == <<mapStatus, reduceStatus, mapDone, reduceDone, files, out, coordUp,
          wpc, wtask, wok, nTimeouts, nCrashes, nFails, harness>>

\* A worker whose process has exited: its startWorker goroutine is blocked
\* on c <- i until the restarter receives.
Gone == {"exited", "dead", "crashed"}

Status == {"Idle", "InProgress", "Completed"}

TypeOK ==
  /\ mapStatus \in [Maps -> Status] /\ reduceStatus \in [Reds -> Status]
  /\ mapDone \in 0 .. NMap /\ reduceDone \in 0 .. NReduce
  /\ files \subseteq Maps \X Reds /\ out \in [Reds -> BOOLEAN]
  /\ coordUp \in BOOLEAN
  /\ wpc \in [Workers -> {"req", "map", "reduce", "report"} \cup Gone]
  /\ wtask \in [Workers -> Tasks] /\ wok \in [Workers -> BOOLEAN]
  /\ nTimeouts \in 0 .. MaxTimeouts /\ nCrashes \in 0 .. MaxCrashes
  /\ nFails \in 0 .. MaxFails
  /\ rst \in {"loop", "returned"} /\ ranMR \in BOOLEAN

\* MakeCoordinator: every task Idle, no file written; mrworker processes
\* start at the top of the Worker loop.
Init ==
  /\ mapStatus = [m \in Maps |-> "Idle"]
  /\ reduceStatus = [r \in Reds |-> "Idle"]
  /\ mapDone = 0 /\ reduceDone = 0
  /\ files = {} /\ out = [r \in Reds |-> FALSE]
  /\ coordUp = TRUE
  /\ wpc = [w \in Workers |-> "req"]
  /\ wtask = [w \in Workers |-> <<"map", 0>>]
  /\ wok = [w \in Workers |-> FALSE]
  /\ nTimeouts = 0 /\ nCrashes = 0 /\ nFails = 0
  /\ rst = "loop" /\ ranMR = FALSE

(***************************************************************************)
(* Worker: requestTask -> RequestTask handler.  call() Fatal-exits when    *)
(* the coordinator's socket is gone.  The handler hands out the first Idle *)
(* map task; once mapDone == len(mapTasks) the first Idle reduce task;     *)
(* else ExitTask if reduceDone == nReduce; else NoTask, after which the    *)
(* worker sleeps and asks again (a stuttering step).                      *)
(***************************************************************************)
\* Mutant of RequestTask: the worker leaves its loop on NoTask.
RequestTaskNoTaskExits(w) ==
  /\ wpc[w] = "req"
  /\ LET idleM == {m \in Maps : mapStatus[m] = "Idle"}
         idleR == {r \in Reds : reduceStatus[r] = "Idle"}
     IN
     IF ~coordUp THEN
        /\ wpc' = [wpc EXCEPT ![w] = "dead"]
        /\ UNCHANGED <<mapStatus, reduceStatus, wtask>>
     ELSE IF idleM # {} THEN
        /\ mapStatus' = [mapStatus EXCEPT ![Min(idleM)] = "InProgress"]
        /\ wpc' = [wpc EXCEPT ![w] = "map"]
        /\ wtask' = [wtask EXCEPT ![w] = <<"map", Min(idleM)>>]
        /\ UNCHANGED reduceStatus
     ELSE IF mapDone = NMap /\ idleR # {} THEN
        /\ reduceStatus' = [reduceStatus EXCEPT ![Min(idleR)] = "InProgress"]
        /\ wpc' = [wpc EXCEPT ![w] = "reduce"]
        /\ wtask' = [wtask EXCEPT ![w] = <<"reduce", Min(idleR)>>]
        /\ UNCHANGED mapStatus
     ELSE IF reduceDone = NReduce THEN
        /\ wpc' = [wpc EXCEPT ![w] = "exited"]
        /\ UNCHANGED <<mapStatus, reduceStatus, wtask>>
     ELSE /\ wpc' = [wpc EXCEPT ![w] = "exited"]
          /\ UNCHANGED <<mapStatus, reduceStatus, wtask>>
  /\ UNCHANGED <<mapDone, reduceDone, files, out, coordUp, harness, wok,
                 nTimeouts, nCrashes, nFails>>

RequestTask(w) ==
  /\ wpc[w] = "req"
  /\ LET idleM == {m \in Maps : mapStatus[m] = "Idle"}
         idleR == {r \in Reds : reduceStatus[r] = "Idle"}
     IN
     IF ~coordUp THEN
        /\ wpc' = [wpc EXCEPT ![w] = "dead"]
        /\ UNCHANGED <<mapStatus, reduceStatus, wtask>>
     ELSE IF idleM # {} THEN
        /\ mapStatus' = [mapStatus EXCEPT ![Min(idleM)] = "InProgress"]
        /\ wpc' = [wpc EXCEPT ![w] = "map"]
        /\ wtask' = [wtask EXCEPT ![w] = <<"map", Min(idleM)>>]
        /\ UNCHANGED reduceStatus
     ELSE IF mapDone = NMap /\ idleR # {} THEN
        /\ reduceStatus' = [reduceStatus EXCEPT ![Min(idleR)] = "InProgress"]
        /\ wpc' = [wpc EXCEPT ![w] = "reduce"]
        /\ wtask' = [wtask EXCEPT ![w] = <<"reduce", Min(idleR)>>]
        /\ UNCHANGED mapStatus
     ELSE IF reduceDone = NReduce THEN
        /\ wpc' = [wpc EXCEPT ![w] = "exited"]
        /\ UNCHANGED <<mapStatus, reduceStatus, wtask>>
     ELSE UNCHANGED <<mapStatus, reduceStatus, wpc, wtask>>
  /\ UNCHANGED <<mapDone, reduceDone, files, out, coordUp, harness, wok,
                 nTimeouts, nCrashes, nFails>>

\* An I/O error (CreateTemp, Encode, Close or Rename failing) is possible
\* while fewer than MaxFails have happened.
Outcomes == IF nFails < MaxFails THEN BOOLEAN ELSE {TRUE}

(***************************************************************************)
(* executeMapTask: the files mr-m-0 .. mr-m-(nReduce-1) are renamed into   *)
(* place in order, empty ones included; an I/O error on file k stops the   *)
(* loop with files 0 .. k-1 written.                                       *)
(***************************************************************************)
ExecuteMap(w) ==
  /\ wpc[w] = "map"
  /\ \E ok \in Outcomes, k \in Reds :
       LET m == wtask[w][2]
           written == IF ok THEN Reds ELSE 0 .. k - 1
       IN  /\ files' = files \cup ({m} \X written)
           /\ wok' = [wok EXCEPT ![w] = ok]
           /\ nFails' = IF ok THEN nFails ELSE nFails + 1
  /\ wpc' = [wpc EXCEPT ![w] = "report"]
  /\ UNCHANGED <<mapStatus, reduceStatus, mapDone, reduceDone, out, coordUp,
                 harness, wtask, nTimeouts, nCrashes>>

(***************************************************************************)
(* executeReduceTask: readKeyValuesFromFile returns nil for a file that    *)
(* cannot be opened and for one that decodes no pair, i.e. an empty file, *)
(* and either makes the task fail.  Otherwise mr-out-r is renamed into     *)
(* place unless an I/O error intervenes.                                   *)
(***************************************************************************)
InputsReadable(r) == \A m \in Maps : <<m, r>> \in files /\ <<m, r>> \notin Empty

ExecuteReduce(w) ==
  /\ wpc[w] = "reduce"
  /\ \E io \in Outcomes :
       LET r == wtask[w][2]
           ok == InputsReadable(r) /\ io
       IN  /\ out' = IF ok THEN [out EXCEPT ![r] = TRUE] ELSE out
           /\ wok' = [wok EXCEPT ![w] = ok]
           /\ nFails' = IF InputsReadable(r) /\ ~io THEN nFails + 1 ELSE nFails
  /\ wpc' = [wpc EXCEPT ![w] = "report"]
  /\ UNCHANGED <<mapStatus, reduceStatus, mapDone, reduceDone, files, coordUp,
                 harness, wtask, nTimeouts, nCrashes>>

(***************************************************************************)
(* reportTask -> ReportTask handler.  On success a task that is still      *)
(* InProgress becomes Completed and its counter grows; on failure the task *)
(* is reset to Idle whatever its status.                                  *)
(***************************************************************************)
\* Mutant of ReportTask: a map success is counted whatever the status.
ReportTaskNoStatusCheck(w) ==
  /\ wpc[w] = "report"
  /\ IF ~coordUp THEN
        /\ wpc' = [wpc EXCEPT ![w] = "dead"]
        /\ UNCHANGED <<mapStatus, reduceStatus, mapDone, reduceDone>>
     ELSE
        LET t == wtask[w]
            i == t[2]
        IN
        /\ wpc' = [wpc EXCEPT ![w] = "req"]
        /\ IF t[1] = "map" THEN
              /\ IF wok[w] THEN
                    /\ mapStatus' = [mapStatus EXCEPT ![i] = "Completed"]
                    /\ mapDone' = mapDone + 1
                 ELSE
                    /\ mapStatus' = [mapStatus EXCEPT ![i] = "Idle"]
                    /\ UNCHANGED mapDone
              /\ UNCHANGED <<reduceStatus, reduceDone>>
           ELSE
              /\ IF wok[w] THEN
                    /\ reduceStatus' = IF reduceStatus[i] = "InProgress"
                                       THEN [reduceStatus EXCEPT ![i] = "Completed"]
                                       ELSE reduceStatus
                    /\ reduceDone' = IF reduceStatus[i] = "InProgress"
                                     THEN reduceDone + 1 ELSE reduceDone
                 ELSE
                    /\ reduceStatus' = [reduceStatus EXCEPT ![i] = "Idle"]
                    /\ UNCHANGED reduceDone
              /\ UNCHANGED <<mapStatus, mapDone>>
  /\ UNCHANGED <<files, out, coordUp, harness, wtask, wok, nTimeouts, nCrashes,
                 nFails>>

ReportTask(w) ==
  /\ wpc[w] = "report"
  /\ IF ~coordUp THEN
        /\ wpc' = [wpc EXCEPT ![w] = "dead"]
        /\ UNCHANGED <<mapStatus, reduceStatus, mapDone, reduceDone>>
     ELSE
        LET t == wtask[w]
            i == t[2]
        IN
        /\ wpc' = [wpc EXCEPT ![w] = "req"]
        /\ IF t[1] = "map" THEN
              /\ IF wok[w] THEN
                    /\ mapStatus' = IF mapStatus[i] = "InProgress"
                                    THEN [mapStatus EXCEPT ![i] = "Completed"]
                                    ELSE mapStatus
                    /\ mapDone' = IF mapStatus[i] = "InProgress"
                                  THEN mapDone + 1 ELSE mapDone
                 ELSE
                    /\ mapStatus' = [mapStatus EXCEPT ![i] = "Idle"]
                    /\ UNCHANGED mapDone
              /\ UNCHANGED <<reduceStatus, reduceDone>>
           ELSE
              /\ IF wok[w] THEN
                    /\ reduceStatus' = IF reduceStatus[i] = "InProgress"
                                       THEN [reduceStatus EXCEPT ![i] = "Completed"]
                                       ELSE reduceStatus
                    /\ reduceDone' = IF reduceStatus[i] = "InProgress"
                                     THEN reduceDone + 1 ELSE reduceDone
                 ELSE
                    /\ reduceStatus' = [reduceStatus EXCEPT ![i] = "Idle"]
                    /\ UNCHANGED reduceDone
              /\ UNCHANGED <<mapStatus, mapDone>>
  /\ UNCHANGED <<files, out, coordUp, harness, wtask, wok, nTimeouts, nCrashes,
                 nFails>>

(***************************************************************************)
(* checkTimeouts: every 2 s a task InProgress for over 10 s goes back to   *)
(* Idle.  It fires for a task whose worker crashed, and, at most           *)
(* MaxTimeouts times, for one whose worker is only slow.                   *)
(***************************************************************************)
Held(t) == \E w \in Workers : wpc[w] \in {"map", "reduce", "report"}
                              /\ wtask[w] = t

\* Mutant of CheckTimeouts: the status == InProgress test is left out.
CheckTimeoutsAnyStatus(t) ==
  /\ coordUp
  /\ ~Held(t) \/ nTimeouts < MaxTimeouts
  /\ IF t[1] = "map"
     THEN /\ mapStatus' = [mapStatus EXCEPT ![t[2]] = "Idle"]
          /\ UNCHANGED reduceStatus
     ELSE /\ reduceStatus' = [reduceStatus EXCEPT ![t[2]] = "Idle"]
          /\ UNCHANGED mapStatus
  /\ nTimeouts' = IF Held(t) THEN nTimeouts + 1 ELSE nTimeouts
  /\ UNCHANGED <<mapDone, reduceDone, files, out, coordUp, harness, wpc,
                 wtask, wok,
                 nCrashes, nFails>>

CheckTimeouts(t) ==
  /\ coordUp
  /\ ~Held(t) \/ nTimeouts < MaxTimeouts
  /\ IF t[1] = "map"
     THEN /\ mapStatus[t[2]] = "InProgress"
          /\ mapStatus' = [mapStatus EXCEPT ![t[2]] = "Idle"]
          /\ UNCHANGED reduceStatus
     ELSE /\ reduceStatus[t[2]] = "InProgress"
          /\ reduceStatus' = [reduceStatus EXCEPT ![t[2]] = "Idle"]
          /\ UNCHANGED mapStatus
  /\ nTimeouts' = IF Held(t) THEN nTimeouts + 1 ELSE nTimeouts
  /\ UNCHANGED <<mapDone, reduceDone, files, out, coordUp, harness, wpc,
                 wtask, wok,
                 nCrashes, nFails>>

\* TestCrashWorker runs the crash app (mrapps/crash.so, not in this
\* repository), which exits inside mapf or reducef, before any file is
\* renamed into place.
Crash(w) ==
  /\ wpc[w] \in {"map", "reduce"}
  /\ nCrashes < MaxCrashes
  /\ wpc' = [wpc EXCEPT ![w] = "crashed"]
  /\ nCrashes' = nCrashes + 1
  /\ UNCHANGED <<mapStatus, reduceStatus, mapDone, reduceDone, files, out,
                 coordUp, harness, wtask, wok, nTimeouts, nFails>>

\* mrcoordinator: loop until Done(), i.e. reduceDone == nReduce, then exit.
CoordinatorExit ==
  /\ coordUp
  /\ reduceDone = NReduce
  /\ coordUp' = FALSE
  /\ UNCHANGED <<mapStatus, reduceStatus, mapDone, reduceDone, files, out,
                 wpc, wtask, wok, nTimeouts, nCrashes, nFails, harness>>

(***************************************************************************)
(* The TestCrashWorker harness.  c is unbuffered, so a send and its        *)
(* receive are one step.                                                   *)
(***************************************************************************)
\* Mutant of Restart: the restarter returns on whatever it receives.
RestartReturnsOnAny(w) ==
  /\ rst = "loop"
  /\ wpc[w] \in Gone
  /\ rst' = "returned"
  /\ UNCHANGED <<mapStatus, reduceStatus, mapDone, reduceDone, files, out,
                 coordUp, wpc, wtask, wok, nTimeouts, nCrashes, nFails, ranMR>>

\* The restarter receives w from the goroutine that waited on worker w's
\* process (w # N) and calls startWorker(app, w, c, sock): a new mrworker
\* process at the top of the Worker loop.  Any exit is restarted, a
\* normal one after ExitTask included.
Restart(w) ==
  /\ rst = "loop"
  /\ wpc[w] \in Gone
  /\ wpc' = [wpc EXCEPT ![w] = "req"]
  /\ UNCHANGED <<mapStatus, reduceStatus, mapDone, reduceDone, files, out,
                 coordUp, wtask, wok, nTimeouts, nCrashes, nFails, harness>>

\* runMRchan: coord.Wait() returns once the coordinator process exited;
\* then c <- n, which the restarter receives and returns (w == N).
\* runMRchan removes the socket and the test goes on to merge mr-out-*.
CoordWaited ==
  /\ ~coordUp
  /\ rst = "loop"
  /\ rst' = "returned" /\ ranMR' = TRUE
  /\ UNCHANGED <<mapStatus, reduceStatus, mapDone, reduceDone, files, out,
                 coordUp, wpc, wtask, wok, nTimeouts, nCrashes, nFails>>

WorkerStep(w) ==
  RequestTask(w) \/ ExecuteMap(w) \/ ExecuteReduce(w) \/ ReportTask(w)

Next ==
  \/ \E w \in Workers : WorkerStep(w) \/ Crash(w) \/ Restart(w)
  \/ \E t \in Tasks : CheckTimeouts(t)
  \/ CoordinatorExit
  \/ CoordWaited

\* Worker processes and the coordinator's goroutines keep being scheduled;
\* 10 s after a crashed worker's task was handed out checkTimeouts resets
\* it.  Crashes, I/O errors and timeouts of slow workers are not fair.
\* Senders blocked on a Go channel are served in FIFO order, so runMRchan's
\* c <- n is received after finitely many restarts: CoordWaited is weakly
\* fair.  Restarts themselves are not assumed to happen.
Fairness ==
  /\ \A w \in Workers : WF_vars(WorkerStep(w))
  /\ \A t \in Tasks : WF_vars(CheckTimeouts(t) /\ ~Held(t))
  /\ WF_vars(CoordinatorExit)
  /\ WF_vars(CoordWaited)

Spec == Init /\ [][Next]_vars /\ Fairness

(***************************************************************************)
(* Properties.                                                             *)
(***************************************************************************)
\* TestEarlyExit: once the coordinator or any worker has exited, every
\* mr-out-r file is final.  Both exits follow from reduceDone == nReduce,
\* so this holds only if that counter never runs ahead of the reduce tasks
\* that really completed, across timeouts, crashes and late reports.
NoEarlyExit ==
  (~coordUp \/ \E w \in Workers : wpc[w] = "exited") => \A r \in Reds : out[r]

\* The job and TestCrashWorker finish: the coordinator exits, runMRchan's
\* c <- n is received, so the test goes on, and every worker process,
\* whether restarted after the coordinator exited or not, exits and stays
\* exited.  Restarts of workers that exit normally race the coordinator's
\* exit, and every such restart must again end in an exit.
JobCompletes ==
  <>[](~coordUp /\ ranMR /\ \A w \in Workers : wpc[w] \in Gone)

====
