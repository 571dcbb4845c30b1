------------------------------- MODULE Demux -------------------------------
(***************************************************************************)
(* One multiplexed connection of tester1/demux.                            *)
(*                                                                         *)
(* Client side (dmxclnt.go, callmap.go): goroutines in SendReceive, each   *)
(* allocating a tag under dmx.mu, registering an unbuffered reply channel  *)
(* in the callMap, writing the frame under dmx.mu and blocking on the      *)
(* channel; one reader goroutine matching reply frames to channels by tag  *)
(* and, once its ReadCall fails, closing the callMap and failing every     *)
(* outstanding tag; goroutines calling Close.                              *)
(*                                                                         *)
(* Server side (dmxsrv.go): NewDemuxSrv reads the InitMsg frame, then one  *)
(* reader goroutine starts one handler goroutine per request frame; every  *)
(* handler writes its reply under the same tag.  The server process may be *)
(* killed (DaemonClnt.kill) at any time.                                   *)
(*                                                                         *)
(* The transport (transport.go) is a pair of FIFO byte streams holding     *)
(* whole frames; a WriteCall blocks while the peer's buffer is full.       *)
(* Payloads are abstracted to <<caller, call number>>; the handler echoes  *)
(* the request payload, so a caller can tell whose reply it received.      *)
(***************************************************************************)
EXTENDS Integers, Sequences, FiniteSets, Functions, TLC

CONSTANTS
  Callers,    \* goroutines calling DemuxClnt.SendReceive
  Closers,    \* goroutines calling DemuxClnt.Close
  MaxCalls,   \* bound: SendReceive calls made by each caller
  TagBits,    \* width of Ttag (uint32 in the code)
  BufCap,     \* bound: frames one stream direction buffers
  NoOne,      \* model value: free mutex, no reply channel
  Nil,        \* model value: the nil []byte of a failure reply
  InitMsg     \* model value: payload of the InitMsg frame

ASSUME MaxCalls \in Nat \ {0} /\ TagBits \in Nat \ {0} /\ BufCap \in Nat \ {0}

TagMod == 2^TagBits
Tags == 0 .. TagMod - 1
Payloads == Callers \X (1 .. MaxCalls)

\* The reply every caller gets when the connection fails:
\* reply(t, nil, false, fmt.Errorf("reader reply fail")).
Failure == [data |-> Nil, ok |-> FALSE, err |-> TRUE]
NoResult == [data |-> Nil, ok |-> FALSE, err |-> FALSE]

VARIABLES
  nextTag,    \* DemuxClnt.nextTag
  mu,         \* holder of DemuxClnt.mu
  calls,      \* callMap.calls: tag -> reply channel (the waiting caller)
  cmClosed,   \* callMap.closed
  c2s,        \* frames written by the client, not yet read by the server
  s2c,        \* frames written by the server, not yet read by the client
  cliClosed,  \* the client closed its end of the connection (trans.Close)
  srvDead,    \* the server process was killed
  pc,         \* position of each caller in SendReceive
  tagOf,      \* local t of each caller
  ncalls,     \* calls made by each caller so far
  result,     \* what each caller's SendReceive returned last
  rdPc,       \* position of DemuxClnt.reader
  rdFrame,    \* the frame the reader last read
  rdCh,       \* the channel the reader is sending on
  rdRep,      \* the reply the reader is sending
  rdTodo,     \* outstanding tags the reader still has to fail
  clPc,       \* position of each Close caller
  srvPc,      \* position of NewDemuxSrv / DemuxSrv.reader
  srvClosed,  \* DemuxSrv.closed
  handlers    \* requests whose handler goroutine has not written its reply

cliVars == <<nextTag, mu, calls, cmClosed>>
netVars == <<c2s, s2c, cliClosed, srvDead>>
callerVars == <<pc, tagOf, ncalls, result>>
rdVars == <<rdPc, rdFrame, rdCh, rdRep, rdTodo>>
srvVars == <<srvPc, srvClosed, handlers>>
vars == <<cliVars, netVars, callerVars, rdVars, clPc, srvVars>>

ReqFrames == [tag : Tags, data : Payloads \cup {InitMsg}]
RepFrames == [tag : Tags, data : Payloads, ok : BOOLEAN]
Replies == [data : Payloads \cup {Nil}, ok : BOOLEAN, err : BOOLEAN]

TypeOK ==
  /\ nextTag \in Tags
  /\ mu \in Callers \cup {NoOne}
  /\ \E T \in SUBSET Tags : calls \in [T -> Callers]
  /\ cmClosed \in BOOLEAN
  /\ c2s \in Seq(ReqFrames) /\ Len(c2s) <= BufCap
  /\ s2c \in Seq(RepFrames) /\ Len(s2c) <= BufCap
  /\ cliClosed \in BOOLEAN /\ srvDead \in BOOLEAN
  /\ pc \in [Callers -> {"idle", "put", "lock", "write", "wait"}]
  /\ tagOf \in [Callers -> Tags]
  /\ ncalls \in [Callers -> 0 .. MaxCalls]
  /\ result \in [Callers -> Replies]
  /\ rdPc \in {"read", "reply", "send", "close", "outstanding", "drain",
               "sendFail", "fatal", "done"}
  /\ rdFrame \in RepFrames \cup {NoOne}
  /\ rdCh \in Callers \cup {NoOne}
  /\ rdRep \in Replies
  /\ rdTodo \in SUBSET Tags
  /\ clPc \in [Closers -> {"idle", "trans", "map", "done"}]
  /\ srvPc \in {"init", "read", "done"}
  /\ srvClosed \in BOOLEAN
  /\ handlers \in SUBSET ReqFrames

(***************************************************************************)
(* NewDemuxClnt has written the InitMsg frame under tag() = 0 and started  *)
(* the reader; NewDemuxSrv has not read it yet.                            *)
(***************************************************************************)
Init ==
  /\ nextTag = 1 % TagMod
  /\ mu = NoOne
  /\ calls = <<>>
  /\ cmClosed = FALSE
  /\ c2s = << [tag |-> 0, data |-> InitMsg] >>
  /\ s2c = << >>
  /\ cliClosed = FALSE /\ srvDead = FALSE
  /\ pc = [c \in Callers |-> "idle"]
  /\ tagOf = [c \in Callers |-> 0]
  /\ ncalls = [c \in Callers |-> 0]
  /\ result = [c \in Callers |-> NoResult]
  /\ rdPc = "read" /\ rdFrame = NoOne /\ rdCh = NoOne
  /\ rdRep = NoResult /\ rdTodo = {}
  /\ clPc = [k \in Closers |-> "idle"]
  /\ srvPc = "init" /\ srvClosed = FALSE /\ handlers = {}

(***************************************************************************)
(* callMap operations (callmap.go); each runs under callMap's mutex.       *)
(***************************************************************************)
\* put(tag, ch) after the closed check: cm.calls[tag] = ch overwrites.
CmPut(t, ch) == (t :> ch) @@ calls

\* remove(tag): delete the entry if there is one.
CmRemove(t) == Restrict(calls, DOMAIN calls \ {t})

(***************************************************************************)
(* SendReceive(b), run by caller c.                                        *)
(***************************************************************************)
\* Mutant of Tag: the increment of nextTag is lost.
TagNoIncrement(c) ==
  /\ pc[c] = "idle"
  /\ ncalls[c] < MaxCalls
  /\ mu = NoOne
  /\ tagOf' = [tagOf EXCEPT ![c] = nextTag]
  /\ ncalls' = [ncalls EXCEPT ![c] = @ + 1]
  /\ result' = [result EXCEPT ![c] = NoResult]
  /\ pc' = [pc EXCEPT ![c] = "put"]
  /\ UNCHANGED <<nextTag, mu, calls, cmClosed, netVars, rdVars, clPc, srvVars>>

\* t := dmx.tag(): read and increment nextTag (a uint32) under dmx.mu;
\* ch := make(chan reply).
Tag(c) ==
  /\ pc[c] = "idle"
  /\ ncalls[c] < MaxCalls
  /\ mu = NoOne
  /\ tagOf' = [tagOf EXCEPT ![c] = nextTag]
  /\ nextTag' = (nextTag + 1) % TagMod
  /\ ncalls' = [ncalls EXCEPT ![c] = @ + 1]
  /\ result' = [result EXCEPT ![c] = NoResult]
  /\ pc' = [pc EXCEPT ![c] = "put"]
  /\ UNCHANGED <<mu, calls, cmClosed, netVars, rdVars, clPc, srvVars>>

\* dmx.callmap.put(t, ch); on "conn closed" SendReceive returns the error.
Put(c) ==
  /\ pc[c] = "put"
  /\ \/ /\ cmClosed
        /\ result' = [result EXCEPT ![c] = Failure]
        /\ pc' = [pc EXCEPT ![c] = "idle"]
        /\ UNCHANGED calls
     \/ /\ ~cmClosed
        /\ calls' = CmPut(tagOf[c], c)
        /\ pc' = [pc EXCEPT ![c] = "lock"]
        /\ UNCHANGED result
  /\ UNCHANGED <<nextTag, mu, cmClosed, netVars, tagOf, ncalls, rdVars,
                 clPc, srvVars>>

\* dmx.mu.Lock() before the WriteCall.
Lock(c) ==
  /\ pc[c] = "lock"
  /\ mu = NoOne
  /\ mu' = c
  /\ pc' = [pc EXCEPT ![c] = "write"]
  /\ UNCHANGED <<nextTag, calls, cmClosed, netVars, tagOf, ncalls, result,
                 rdVars, clPc, srvVars>>

\* Mutant of Write: the write does not wait for room in the stream.
WriteNoBackpressure(c) ==
  /\ pc[c] = "write"
  /\ \/ /\ cliClosed \/ srvDead
        /\ UNCHANGED c2s
     \/ /\ ~cliClosed /\ ~srvDead
        /\ c2s' = Append(c2s, [tag |-> tagOf[c], data |-> <<c, ncalls[c]>>])
  /\ mu' = NoOne
  /\ pc' = [pc EXCEPT ![c] = "wait"]
  /\ UNCHANGED <<nextTag, calls, cmClosed, s2c, cliClosed, srvDead, tagOf,
                 ncalls, result, rdVars, clPc, srvVars>>

\* dmx.trans.WriteCall(t, b, true); dmx.mu.Unlock().  The write blocks,
\* holding dmx.mu, while the stream is full; it fails on a closed
\* connection, and SendReceive then waits on ch all the same.
Write(c) ==
  /\ pc[c] = "write"
  /\ \/ /\ cliClosed \/ srvDead
        /\ UNCHANGED c2s
     \/ /\ ~cliClosed /\ ~srvDead
        /\ Len(c2s) < BufCap
        /\ c2s' = Append(c2s, [tag |-> tagOf[c], data |-> <<c, ncalls[c]>>])
  /\ mu' = NoOne
  /\ pc' = [pc EXCEPT ![c] = "wait"]
  /\ UNCHANGED <<nextTag, calls, cmClosed, s2c, cliClosed, srvDead, tagOf,
                 ncalls, result, rdVars, clPc, srvVars>>

(***************************************************************************)
(* DemuxClnt.reader.  rep := <-ch in SendReceive is the rendezvous Deliver.*)
(***************************************************************************)
\* ReadCall returns a frame: frames the server wrote before it died are
\* still readable, a locally closed connection fails at once.
ReadOk ==
  /\ rdPc = "read"
  /\ ~cliClosed
  /\ s2c # << >>
  /\ rdFrame' = Head(s2c)
  /\ s2c' = Tail(s2c)
  /\ rdPc' = "reply"
  /\ UNCHANGED <<cliVars, c2s, cliClosed, srvDead, callerVars, rdCh, rdRep,
                 rdTodo, clPc, srvVars>>

\* ReadCall fails: the connection was closed here, or EOF after the
\* server process died.
ReadErr ==
  /\ rdPc = "read"
  /\ cliClosed \/ (srvDead /\ s2c = << >>)
  /\ rdPc' = "close"
  /\ UNCHANGED <<cliVars, netVars, callerVars, rdFrame, rdCh, rdRep, rdTodo,
                 clPc, srvVars>>

\* dmx.reply(t, b, ok, nil): remove the tag's channel; a reply with no
\* matching request is log.Fatalf.
Reply ==
  LET found == rdFrame.tag \in DOMAIN calls
  IN  /\ rdPc = "reply"
      /\ rdCh' = IF found THEN calls[rdFrame.tag] ELSE NoOne
      /\ rdRep' = [data |-> rdFrame.data, ok |-> rdFrame.ok, err |-> FALSE]
      /\ calls' = CmRemove(rdFrame.tag)
      /\ rdPc' = IF found THEN "send" ELSE "fatal"
      /\ UNCHANGED <<nextTag, mu, cmClosed, netVars, callerVars, rdFrame,
                     rdTodo, clPc, srvVars>>

\* ch <- reply{...} meets rep := <-ch of the caller owning ch.
Deliver(c) ==
  /\ rdPc \in {"send", "sendFail"}
  /\ rdCh = c
  /\ pc[c] = "wait"
  /\ result' = [result EXCEPT ![c] = rdRep]
  /\ pc' = [pc EXCEPT ![c] = "idle"]
  /\ rdPc' = IF rdPc = "send" THEN "read" ELSE "drain"
  /\ rdCh' = NoOne
  /\ UNCHANGED <<cliVars, netVars, tagOf, ncalls, rdFrame, rdRep, rdTodo,
                 clPc, srvVars>>

\* After the read error: dmx.callmap.close().
ReaderCloseMap ==
  /\ rdPc = "close"
  /\ cmClosed' = TRUE
  /\ rdPc' = "outstanding"
  /\ UNCHANGED <<nextTag, mu, calls, netVars, callerVars, rdFrame, rdCh,
                 rdRep, rdTodo, clPc, srvVars>>

\* outstanding := dmx.callmap.outstanding()
Outstanding ==
  /\ rdPc = "outstanding"
  /\ rdTodo' = DOMAIN calls
  /\ rdPc' = "drain"
  /\ UNCHANGED <<cliVars, netVars, callerVars, rdFrame, rdCh, rdRep, clPc,
                 srvVars>>

\* One iteration of the loop over outstanding (Go map order: any tag):
\* dmx.reply(t, nil, false, err).
Drain ==
  /\ rdPc = "drain"
  /\ \/ /\ rdTodo = {}
        /\ rdPc' = "done"
        /\ UNCHANGED <<calls, rdCh, rdRep, rdTodo>>
     \/ \E t \in rdTodo :
          /\ rdTodo' = rdTodo \ {t}
          /\ rdCh' = IF t \in DOMAIN calls THEN calls[t] ELSE NoOne
          /\ rdRep' = Failure
          /\ calls' = CmRemove(t)
          /\ rdPc' = IF t \in DOMAIN calls THEN "sendFail" ELSE "fatal"
  /\ UNCHANGED <<nextTag, mu, cmClosed, netVars, callerVars, rdFrame, clPc,
                 srvVars>>

(***************************************************************************)
(* DemuxClnt.Close, run by closer k.                                       *)
(***************************************************************************)
\* if dmx.callmap.isClosed() { return nil }
CloseCheck(k) ==
  /\ clPc[k] = "idle"
  /\ clPc' = [clPc EXCEPT ![k] = IF cmClosed THEN "done" ELSE "trans"]
  /\ UNCHANGED <<cliVars, netVars, callerVars, rdVars, srvVars>>

\* dmx.trans.Close(): later reads and writes on this end fail.
CloseTrans(k) ==
  /\ clPc[k] = "trans"
  /\ cliClosed' = TRUE
  /\ clPc' = [clPc EXCEPT ![k] = "map"]
  /\ UNCHANGED <<cliVars, c2s, s2c, srvDead, callerVars, rdVars, srvVars>>

\* return dmx.callmap.close()
CloseMap(k) ==
  /\ clPc[k] = "map"
  /\ cmClosed' = TRUE
  /\ clPc' = [clPc EXCEPT ![k] = "done"]
  /\ UNCHANGED <<nextTag, mu, calls, netVars, callerVars, rdVars, srvVars>>

(***************************************************************************)
(* DemuxSrv.                                                               *)
(***************************************************************************)
\* NewDemuxSrv: trans.ReadCall() of the InitMsg frame, then go dmx.reader().
\* The frame is in the stream from the start, so this read cannot fail.
SrvInit ==
  /\ srvPc = "init"
  /\ ~srvDead
  /\ c2s' = Tail(c2s)
  /\ srvPc' = "read"
  /\ UNCHANGED <<cliVars, s2c, cliClosed, srvDead, callerVars, rdVars, clPc,
                 srvClosed, handlers>>

\* reader: ReadCall returns a request; go func(t, req) {...}(t, req).
SrvRead ==
  /\ srvPc = "read"
  /\ ~srvDead
  /\ c2s # << >>
  /\ handlers' = handlers \cup {Head(c2s)}
  /\ c2s' = Tail(c2s)
  /\ UNCHANGED <<cliVars, s2c, cliClosed, srvDead, callerVars, rdVars, clPc,
                 srvPc, srvClosed>>

\* reader: ReadCall returns io.EOF once the client closed its end and the
\* stream is drained: setClosed() and leave the loop.
SrvReadEOF ==
  /\ srvPc = "read"
  /\ ~srvDead
  /\ cliClosed /\ c2s = << >>
  /\ srvClosed' = TRUE
  /\ srvPc' = "done"
  /\ UNCHANGED <<cliVars, netVars, callerVars, rdVars, clPc, handlers>>

\* Mutant of Handler: the request stays pending after its reply is written,
\* so it may be answered again.
HandlerRetry(h, ok) ==
  /\ h \in handlers
  /\ ~srvDead
  /\ \/ /\ cliClosed
        /\ UNCHANGED s2c
     \/ /\ ~cliClosed
        /\ Len(s2c) < BufCap
        /\ s2c' = Append(s2c, [tag |-> h.tag, data |-> h.data, ok |-> ok])
  /\ UNCHANGED <<cliVars, c2s, cliClosed, srvDead, callerVars, rdVars, clPc,
                 srvPc, srvClosed, handlers>>

\* Handler goroutine of request h: rep, ok := ServeRequest(...) echoes the
\* payload with the handler's ok; then WriteCall(t, rep, ok) under dmx.mu.
\* The write blocks while the stream is full and fails (error ignored)
\* once the client closed its end.
Handler(h, ok) ==
  /\ h \in handlers
  /\ ~srvDead
  /\ \/ /\ cliClosed
        /\ UNCHANGED s2c
     \/ /\ ~cliClosed
        /\ Len(s2c) < BufCap
        /\ s2c' = Append(s2c, [tag |-> h.tag, data |-> h.data, ok |-> ok])
  /\ handlers' = handlers \ {h}
  /\ UNCHANGED <<cliVars, c2s, cliClosed, srvDead, callerVars, rdVars, clPc,
                 srvPc, srvClosed>>

\* DaemonClnt.kill: the server process and all its goroutines die; its end
\* of the connection is closed by the kernel.
SrvCrash ==
  /\ ~srvDead
  /\ srvDead' = TRUE
  /\ handlers' = {}
  /\ srvPc' = "done"
  /\ UNCHANGED <<cliVars, c2s, s2c, cliClosed, callerVars, rdVars, clPc,
                 srvClosed>>

CallerStep(c) == Put(c) \/ Lock(c) \/ Write(c)
ReaderStep == ReadOk \/ ReadErr \/ Reply \/ ReaderCloseMap \/ Outstanding
              \/ Drain
CloserStep(k) == CloseTrans(k) \/ CloseMap(k)
ServerStep == SrvInit \/ SrvRead \/ SrvReadEOF

Next ==
  \/ \E c \in Callers : Tag(c) \/ CallerStep(c) \/ Deliver(c)
  \/ ReaderStep
  \/ \E k \in Closers : CloseCheck(k) \/ CloserStep(k)
  \/ ServerStep
  \/ \E h \in handlers, ok \in BOOLEAN : Handler(h, ok)
  \/ SrvCrash

(***************************************************************************)
(* Goroutines that can run are eventually scheduled (Go's scheduler).      *)
(* Starting a call, calling Close and killing the server are the           *)
(* environment's choices and carry no fairness.                            *)
(***************************************************************************)
Fairness ==
  /\ \A c \in Callers : WF_vars(CallerStep(c)) /\ WF_vars(Deliver(c))
  /\ WF_vars(ReaderStep)
  /\ \A k \in Closers : WF_vars(CloserStep(k))
  /\ WF_vars(ServerStep)
  /\ WF_vars(\E h \in handlers, ok \in BOOLEAN : Handler(h, ok))

Spec == Init /\ [][Next]_vars /\ Fairness

(***************************************************************************)
(* Properties.                                                             *)
(***************************************************************************)

\* The reader never meets a reply frame, or an outstanding tag, without a
\* matching callMap entry: the log.Fatalf in DemuxClnt.reply, which kills
\* the whole process, is unreachable.
NoUnmatchedReply == rdPc # "fatal"

\* Whatever a SendReceive returns is either a failure or the reply to the
\* request this very call wrote (the handler echoes the payload): replies
\* are matched by tag even when handlers finish out of order.
ReplyMatchesRequest ==
  \A c \in Callers :
    pc[c] = "idle" /\ result[c] # NoResult =>
      result[c].err \/ result[c].data = <<c, ncalls[c]>>

\* The connection implements the abstract call interface of DemuxAbs:
\* every SendReceive returns exactly once, with its own reply or a failure,
\* and every call eventually returns, also when Close or a killed server
\* cuts the connection while calls are outstanding.
Abs == INSTANCE DemuxAbs WITH
         apc <- [c \in Callers |-> IF pc[c] = "idle" THEN "idle" ELSE "busy"],
         acalls <- ncalls,
         aresult <- result

DemuxRefinesAbs == Abs!Spec

=============================================================================
