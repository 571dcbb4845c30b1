------------------------------- MODULE GroupNet -------------------------------
(***************************************************************************)
(* The lifecycle of the servers of one ServerGrp (tester1/group.go,        *)
(* srv.go): StartServer spawns a daemon process and hands it the saved     *)
(* Persister through the Init/InitWait handshake (daemonclnt.go,           *)
(* daemonsrv.go); ShutdownServer removes it from the labrpc network,       *)
(* checkpoints its Persister and kills it.  A clerk's requests travel      *)
(* through labrpc to DaemonClnt.forward and over the socket to the         *)
(* daemon's service, which persists each write before it replies.          *)
(*                                                                         *)
(* labrpc is not in this repository; Dispatch and ReturnReply model the    *)
(* network the spec assumes: a call is dispatched to a registered server,  *)
(* and its reply is dropped when that server has since been deleted.       *)
(* A Persister is abstracted to the number of writes it holds.             *)
(***************************************************************************)
EXTENDS Naturals

CONSTANTS
  Srvs,       \* server indices of the group
  MaxStarts,  \* bound: StartServer calls per server
  MaxReqs     \* bound: requests the clerk sends in all

ASSUME MaxStarts \in Nat \ {0} /\ MaxReqs \in Nat \ {0}

Ids == 1 .. MaxReqs

VARIABLES
  tpc,    \* the test goroutine: [op, at, srv] of the ServerGrp call it is in
  gen,    \* srv -> number of Servers made by startServer (process identity)
  dpc,    \* srv -> pc of the daemon's main goroutine (InitDaemon), "none": no process
  lst,    \* srv -> listener goroutine of ds.rpcs (RPCSrv.listen)
  svc,    \* srv -> the service is registered on ds.rpcs
  ckd,    \* srv -> CheckpointPersister has run in this process
  dp,     \* srv -> ds.persister of the running process
  saved,  \* srv -> Server.saved
  reg,    \* srv -> generation registered in labrpc under ServerName, 0: none
  req,    \* id -> request of the clerk
  acked   \* srv -> largest persisted write a reply has acknowledged

vars == <<tpc, gen, dpc, lst, svc, ckd, dp, saved, reg, req, acked>>

ReqStates == {"unused", "fwd", "replied", "failed", "unknown", "done"}

TypeOK ==
  /\ tpc \in [op : {"idle", "start", "shutdown", "fatal"},
              at : {"none", "init", "dial", "wait", "add", "ckpt", "kill"},
              srv : Srvs]
  /\ gen \in [Srvs -> 0 .. MaxStarts]
  /\ dpc \in [Srvs -> {"none", "recv", "newsrv", "mks", "signal", "main"}]
  /\ lst \in [Srvs -> {"none", "spawned", "listening", "set", "closed"}]
  /\ svc \in [Srvs -> BOOLEAN] /\ ckd \in [Srvs -> BOOLEAN]
  /\ dp \in [Srvs -> 0 .. MaxReqs] /\ saved \in [Srvs -> 0 .. MaxReqs]
  /\ reg \in [Srvs -> 0 .. MaxStarts]
  /\ req \in [Ids -> [srv : Srvs, g : 0 .. MaxStarts, st : ReqStates,
                      v : 0 .. MaxReqs]]
  /\ acked \in [Srvs -> 0 .. MaxReqs]

(***************************************************************************)
(* makeSrvGrp: servers made, none started; MakePersister() is empty.       *)
(***************************************************************************)
Init ==
  /\ tpc = [op |-> "idle", at |-> "none", srv |-> CHOOSE i \in Srvs : TRUE]
  /\ gen = [i \in Srvs |-> 0]
  /\ dpc = [i \in Srvs |-> "none"]
  /\ lst = [i \in Srvs |-> "none"]
  /\ svc = [i \in Srvs |-> FALSE]
  /\ ckd = [i \in Srvs |-> FALSE]
  /\ dp = [i \in Srvs |-> 0]
  /\ saved = [i \in Srvs |-> 0]
  /\ reg = [i \in Srvs |-> 0]
  /\ req = [n \in Ids |-> [srv |-> CHOOSE i \in Srvs : TRUE, g |-> 0,
                           st |-> "unused", v |-> 0]]
  /\ acked = [i \in Srvs |-> 0]

Idle == [op |-> "idle", at |-> "none", srv |-> tpc.srv]
Goto(at) == [tpc EXCEPT !.at = at]

(***************************************************************************)
(* ServerGrp.StartServer(i), one step per blocking call.                   *)
(***************************************************************************)
\* sg.srvs[i].startServer (fresh ends, saved kept) and runDaemon: a new
\* process whose main goroutine waits on ds.ch for the Init RPC.
StartSpawn(i) ==
  /\ tpc.op = "idle"
  /\ dpc[i] = "none"
  /\ gen[i] < MaxStarts
  /\ gen' = [gen EXCEPT ![i] = @ + 1]
  /\ dpc' = [dpc EXCEPT ![i] = "recv"]
  /\ lst' = [lst EXCEPT ![i] = "none"]
  /\ svc' = [svc EXCEPT ![i] = FALSE]
  /\ ckd' = [ckd EXCEPT ![i] = FALSE]
  /\ tpc' = [op |-> "start", at |-> "init", srv |-> i]
  /\ UNCHANGED <<dp, saved, reg, req, acked>>

\* dc.init(srv.saved): the Init handler sends a copy of the Persister on
\* ds.ch and main receives it: ds.persister = <-ds.ch.
StartInit ==
  LET i == tpc.srv IN
  /\ tpc.op = "start" /\ tpc.at = "init"
  /\ dpc[i] = "recv"
  /\ dp' = [dp EXCEPT ![i] = saved[i]]
  /\ dpc' = [dpc EXCEPT ![i] = "newsrv"]
  /\ tpc' = Goto("dial")
  /\ UNCHANGED <<gen, lst, svc, ckd, saved, reg, req, acked>>

\* Mutant of StartDial: the server is added to labrpc without waitInit.
StartDialNoWait ==
  LET i == tpc.srv IN
  /\ tpc.op = "start" /\ tpc.at = "dial"
  /\ lst[i] \in {"listening", "set"}
  /\ tpc' = Goto("add")
  /\ UNCHANGED <<gen, dpc, lst, svc, ckd, dp, saved, reg, req, acked>>

\* dc.rpcc = sockrpc.NewRPCClnt(..., dc.endName): dial retries until the
\* daemon's ds.rpcs listens.
StartDial ==
  LET i == tpc.srv IN
  /\ tpc.op = "start" /\ tpc.at = "dial"
  /\ lst[i] \in {"listening", "set"}
  /\ tpc' = Goto("wait")
  /\ UNCHANGED <<gen, dpc, lst, svc, ckd, dp, saved, reg, req, acked>>

\* dc.waitInit(): InitWait receives main's ds.ch <- nil.
StartWaitInit ==
  LET i == tpc.srv IN
  /\ tpc.op = "start" /\ tpc.at = "wait"
  /\ dpc[i] = "signal"
  /\ dpc' = [dpc EXCEPT ![i] = "main"]
  /\ tpc' = Goto("add")
  /\ UNCHANGED <<gen, lst, svc, ckd, dp, saved, reg, req, acked>>

\* labsrv.SetDispatch(dc.forward); sg.net.AddServer(ServerName(gid, i), labsrv)
StartAdd ==
  LET i == tpc.srv IN
  /\ tpc.op = "start" /\ tpc.at = "add"
  /\ reg' = [reg EXCEPT ![i] = gen[i]]
  /\ tpc' = Idle
  /\ UNCHANGED <<gen, dpc, lst, svc, ckd, dp, saved, req, acked>>

(***************************************************************************)
(* ServerGrp.ShutdownServer(i).                                            *)
(***************************************************************************)
\* Mutant of ShutdownDelete: net.DeleteServer is left out.
ShutdownDeleteKeepReg(i) ==
  /\ tpc.op = "idle"
  /\ tpc' = IF dpc[i] = "none" THEN [Idle EXCEPT !.srv = i]
            ELSE [op |-> "shutdown", at |-> "ckpt", srv |-> i]
  /\ UNCHANGED <<gen, dpc, lst, svc, ckd, dp, saved, reg, req, acked>>

\* sg.disconnect(i, sg.all()); sg.net.DeleteServer(ServerName(gid, i)).
\* Then s.shutdownServer(), which does nothing when s.dc == nil.
ShutdownDelete(i) ==
  /\ tpc.op = "idle"
  /\ reg' = [reg EXCEPT ![i] = 0]
  /\ tpc' = IF dpc[i] = "none" THEN [Idle EXCEPT !.srv = i]
            ELSE [op |-> "shutdown", at |-> "ckpt", srv |-> i]
  /\ UNCHANGED <<gen, dpc, lst, svc, ckd, dp, saved, req, acked>>

\* p := s.dc.checkpointPersister(); s.saved = p.  The daemon's handler
\* closes ds.rpcc and ds.rpcs (the listener only: rpcs.l.Close()) and
\* copies ds.persister.  rpcs.l is assigned by the listener goroutine
\* with no synchronisation: read as nil, Close panics, the daemon dies,
\* the RPC fails and the tester calls log.Fatalf.
ShutdownCkpt ==
  LET i == tpc.srv IN
  /\ tpc.op = "shutdown" /\ tpc.at = "ckpt"
  /\ IF lst[i] = "set"
       THEN /\ lst' = [lst EXCEPT ![i] = "closed"]
            /\ ckd' = [ckd EXCEPT ![i] = TRUE]
            /\ saved' = [saved EXCEPT ![i] = dp[i]]
            /\ tpc' = Goto("kill")
            /\ UNCHANGED <<dpc, svc>>
       ELSE /\ dpc' = [dpc EXCEPT ![i] = "none"]
            /\ lst' = [lst EXCEPT ![i] = "none"]
            /\ svc' = [svc EXCEPT ![i] = FALSE]
            /\ tpc' = [tpc EXCEPT !.op = "fatal"]
            /\ UNCHANGED <<ckd, saved>>
  /\ UNCHANGED <<gen, dp, reg, req, acked>>

\* s.dc.kill(): Process.Kill and Wait; s.dc = nil.
ShutdownKill ==
  LET i == tpc.srv IN
  /\ tpc.op = "shutdown" /\ tpc.at = "kill"
  /\ dpc' = [dpc EXCEPT ![i] = "none"]
  /\ lst' = [lst EXCEPT ![i] = "none"]
  /\ svc' = [svc EXCEPT ![i] = FALSE]
  /\ tpc' = Idle
  /\ UNCHANGED <<gen, ckd, dp, saved, reg, req, acked>>

(***************************************************************************)
(* InitDaemon after ds.persister = <-ds.ch, and RPCSrv.listen.             *)
(***************************************************************************)
\* ds.rpcs = sockrpc.NewRPCSrv(ds.endName): go rpcs.listen()
DaemonNewSrv(i) ==
  /\ dpc[i] = "newsrv"
  /\ lst' = [lst EXCEPT ![i] = "spawned"]
  /\ dpc' = [dpc EXCEPT ![i] = "mks"]
  /\ UNCHANGED <<tpc, gen, svc, ckd, dp, saved, reg, req, acked>>

\* Mutant of DaemonMks: main never signals ds.ch <- nil.
DaemonMksNoSignal(i) ==
  /\ dpc[i] = "mks"
  /\ svc' = [svc EXCEPT ![i] = TRUE]
  /\ dpc' = [dpc EXCEPT ![i] = "main"]
  /\ UNCHANGED <<tpc, gen, lst, ckd, dp, saved, reg, req, acked>>

\* svcs := mks(...); ds.rpcs.AddService(svc) for each
DaemonMks(i) ==
  /\ dpc[i] = "mks"
  /\ svc' = [svc EXCEPT ![i] = TRUE]
  /\ dpc' = [dpc EXCEPT ![i] = "signal"]
  /\ UNCHANGED <<tpc, gen, lst, ckd, dp, saved, reg, req, acked>>

\* l, err := net.Listen("unix", ...): from here a dial succeeds.
Listen(i) ==
  /\ lst[i] = "spawned"
  /\ lst' = [lst EXCEPT ![i] = "listening"]
  /\ UNCHANGED <<tpc, gen, dpc, svc, ckd, dp, saved, reg, req, acked>>

\* rpcs.l = l
ListenSet(i) ==
  /\ lst[i] = "listening"
  /\ lst' = [lst EXCEPT ![i] = "set"]
  /\ UNCHANGED <<tpc, gen, dpc, svc, ckd, dp, saved, reg, req, acked>>

(***************************************************************************)
(* A clerk's write to server i.  labrpc dispatches it to the labrpc.Server *)
(* registered under ServerName(gid, i), whose dispatch is dc.forward of    *)
(* the process that registered it; forward is dc.rpcc.RPC over the socket. *)
(***************************************************************************)
\* labrpc processReq: the server is registered; its identity is kept.
Dispatch(i) ==
  /\ reg[i] # 0
  /\ \E n \in Ids :
       /\ req[n].st = "unused"
       /\ req' = [req EXCEPT ![n] = [srv |-> i, g |-> reg[i], st |-> "fwd",
                                     v |-> 0]]
  /\ UNCHANGED <<tpc, gen, dpc, lst, svc, ckd, dp, saved, reg, acked>>

\* Mutant of Serve: the handler applies a request and keeps it pending,
\* so it is applied again.
ServeAgain(n) ==
  LET i == req[n].srv
      alive == dpc[i] # "none" /\ gen[i] = req[n].g
  IN  /\ req[n].st = "fwd"
      /\ \/ /\ alive
            /\ dp' = [dp EXCEPT ![i] = IF svc[i] THEN @ + 1 ELSE @]
            /\ UNCHANGED req
         \/ /\ ~alive
            /\ req' = [req EXCEPT ![n].st = "failed"]
            /\ UNCHANGED dp
      /\ UNCHANGED <<tpc, gen, dpc, lst, svc, ckd, saved, reg, acked>>

\* The daemon's DemuxSrv handler runs RPCSrv.ServeRequest: dispatch to the
\* registered service, which persists the write and replies; an unknown
\* service is ok == false.  The connection of a killed process fails.
Serve(n) ==
  LET i == req[n].srv
      alive == dpc[i] # "none" /\ gen[i] = req[n].g
  IN  /\ req[n].st = "fwd"
      /\ \/ /\ alive
            /\ dp' = [dp EXCEPT ![i] = IF svc[i] THEN @ + 1 ELSE @]
            /\ req' = [req EXCEPT ![n].st = IF svc[i] THEN "replied"
                                            ELSE "unknown",
                                  ![n].v = IF svc[i] THEN dp[i] + 1 ELSE 0]
         \/ /\ ~alive
            /\ req' = [req EXCEPT ![n].st = "failed"]
            /\ UNCHANGED dp
      /\ UNCHANGED <<tpc, gen, dpc, lst, svc, ckd, saved, reg, acked>>

\* labrpc processReq after dispatch returns: if the server was deleted or
\* replaced meanwhile (isServerDead) the reply is dropped, else the clerk
\* receives it.
ReturnReply(n) ==
  LET i == req[n].srv
      delivered == req[n].st = "replied" /\ reg[i] = req[n].g
  IN  /\ req[n].st \in {"replied", "failed", "unknown"}
      /\ acked' = [acked EXCEPT ![i] = IF delivered /\ req[n].v > @
                                         THEN req[n].v ELSE @]
      /\ req' = [req EXCEPT ![n].st = "done"]
      /\ UNCHANGED <<tpc, gen, dpc, lst, svc, ckd, dp, saved, reg>>

(***************************************************************************)
(* The test goroutine makes one ServerGrp call at a time; the daemons,     *)
(* their listeners and the requests run concurrently with it.              *)
(***************************************************************************)
TesterStep ==
  \/ StartInit \/ StartDial \/ StartWaitInit \/ StartAdd
  \/ ShutdownCkpt \/ ShutdownKill

DaemonStep(i) == DaemonNewSrv(i) \/ DaemonMks(i) \/ Listen(i) \/ ListenSet(i)

Next ==
  \/ \E i \in Srvs : StartSpawn(i) \/ ShutdownDelete(i) \/ Dispatch(i)
  \/ TesterStep
  \/ \E i \in Srvs : DaemonStep(i)
  \/ \E n \in Ids : Serve(n) \/ ReturnReply(n)

\* Goroutines and processes are scheduled; the test's choice of the next
\* ServerGrp call and the clerk's choice to send are not.
Fairness ==
  /\ WF_vars(TesterStep)
  /\ \A i \in Srvs : WF_vars(DaemonStep(i))
  /\ \A n \in Ids : WF_vars(Serve(n)) /\ WF_vars(ReturnReply(n))

Spec == Init /\ [][Next]_vars /\ Fairness

(***************************************************************************)
(* Properties.                                                             *)
(***************************************************************************)
\* The state of server i the tester would hand to its next process: the
\* live persister until CheckpointPersister ran, the saved one after.
Durable(i) ==
  IF dpc[i] \in {"none", "recv"} \/ ckd[i] THEN saved[i] ELSE dp[i]

\* A write whose reply reached the clerk survives ShutdownServer and
\* StartServer: it is in the state the server has or will restart from.
\* This rests on ShutdownServer deleting the server from labrpc before it
\* checkpoints, while the daemon still serves requests in flight.  (After
\* log.Fatalf there is no test left to restart anything.)
AckedDurable ==
  tpc.op # "fatal" => \A i \in Srvs : acked[i] <= Durable(i)

\* No request reaches a daemon before the service is registered: labrpc
\* can only dispatch to the server once StartServer's waitInit returned.
NoDispatchBeforeInit == \A n \in Ids : req[n].st # "unknown"

\* StartServer returns: the Init/InitWait handshake over ds.ch and the
\* dial to the daemon's listener never leave the tester blocked.
StartServerReturns == (tpc.op = "start") ~> (tpc.op = "idle")

\* The comment in CheckpointPersister: closing ds.rpcs stops the server
\* from sending replies.  No request is served after the checkpoint.
NoReplyAfterCheckpoint ==
  [][\A n \in Ids : req[n].st = "fwd" /\ req'[n].st = "replied"
                      => ~ckd[req[n].srv]]_vars

\* ShutdownServer never ends the test with log.Fatalf.
ShutdownNeverFatal == tpc.op # "fatal"

================================================================================
