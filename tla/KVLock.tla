-------------------------------- MODULE KVLock --------------------------------
(***************************************************************************)
(* The lock of kvsrv1/lock/lock.go over the versioned key/value server of  *)
(* kvsrv1/server.go, reached through the Clerk of kvsrv1/client.go over an *)
(* unreliable network, driven by the clients of lock_test.go (oneClient):  *)
(* each round acquires the lock "lk", checks in key "l0" that nobody else  *)
(* is inside, writes and clears "l0", and releases "lk".                  *)
(*                                                                         *)
(* A server handler runs under kv.mu, so it is one step.  A Clerk.Get      *)
(* retries until a reply arrives and only reads, so a Get is one step at   *)
(* the moment its request is served.  A Clerk.Put is one step per RPC      *)
(* attempt: the request is lost, or served with its reply lost, or served  *)
(* and answered.  labrpc answers a Call only after the handler ran or the  *)
(* request was dropped, so no request is served after its Call returned.  *)
(***************************************************************************)
EXTENDS Naturals, FiniteSets

CONSTANTS
  Clients,    \* lock clients, each with its own Clerk and lock clientID
  MaxRounds,  \* rounds of the oneClient loop before done is closed
  MaxLoss     \* RPC attempts whose request or reply is dropped

ASSUME MaxRounds \in Nat \ {0} /\ MaxLoss \in Nat

Keys == {"lk", "l0"}
Vals == {""} \cup Clients
NoKey == [val |-> "", ver |-> 0, absent |-> TRUE]
Entry(v, n) == [val |-> v, ver |-> n, absent |-> FALSE]

\* Every round writes each key twice; "l0" is also created by a preamble Put.
VerBound == 2 * MaxRounds * Cardinality(Clients) + 1

Errs == {"OK", "ErrNoKey", "ErrVersion", "ErrMaybe"}
PutSites == {"init_put", "a_put", "cs_put1", "cs_put2", "r_put"}
PCs == {"init", "a_get", "a_check", "cs_get", "r_get", "done", "fatal"}
         \cup PutSites

VARIABLES
  data,    \* kv.data: key -> entry (absent when not in the map)
  pc,      \* where each client is
  call,    \* the Clerk.Put in progress: args, firstTry, result, and how
           \* many of its attempts the server performed
  rounds,  \* rounds of the oneClient loop finished
  losses   \* dropped RPCs so far

vars == <<data, pc, call, rounds, losses>>

TypeOK ==
  /\ data \in [Keys -> {NoKey} \cup [val : Vals, ver : 1 .. VerBound,
                                     absent : {FALSE}]]
  /\ pc \in [Clients -> PCs]
  /\ call \in [Clients -> [key : Keys, val : Vals, ver : 0 .. VerBound + 1,
                           first : BOOLEAN, err : Errs \cup {"none"},
                           execs : 0 .. MaxLoss + 1]]
  /\ rounds \in [Clients -> 0 .. MaxRounds]
  /\ losses \in 0 .. MaxLoss

(***************************************************************************)
(* KVServer.Put: a missing key is installed with version 1 if args.Version *)
(* is 0 (ErrNoKey otherwise); an existing one is updated, and its version  *)
(* incremented, only if the versions match (ErrVersion otherwise).         *)
(***************************************************************************)
\* Mutant of ServerPut: the version comparison is left out.
ServerPutNoVersionCheck(d, k, v, n) ==
  IF d[k].absent
  THEN IF n = 0 THEN [d |-> [d EXCEPT ![k] = Entry(v, 1)], err |-> "OK"]
       ELSE [d |-> d, err |-> "ErrNoKey"]
  ELSE [d |-> [d EXCEPT ![k] = Entry(v, d[k].ver + 1)], err |-> "OK"]

\* Mutant of ServerPut: entry.version++ is left out.
ServerPutNoIncrement(d, k, v, n) ==
  IF d[k].absent
  THEN IF n = 0 THEN [d |-> [d EXCEPT ![k] = Entry(v, 1)], err |-> "OK"]
       ELSE [d |-> d, err |-> "ErrNoKey"]
  ELSE IF d[k].ver # n THEN [d |-> d, err |-> "ErrVersion"]
  ELSE [d |-> [d EXCEPT ![k] = Entry(v, d[k].ver)], err |-> "OK"]

ServerPut(d, k, v, n) ==
  IF d[k].absent
  THEN IF n = 0 THEN [d |-> [d EXCEPT ![k] = Entry(v, 1)], err |-> "OK"]
       ELSE [d |-> d, err |-> "ErrNoKey"]
  ELSE IF d[k].ver # n THEN [d |-> d, err |-> "ErrVersion"]
  ELSE [d |-> [d EXCEPT ![k] = Entry(v, d[k].ver + 1)], err |-> "OK"]

\* Clerk.Get(key) after its resends: KVServer.Get's entry, or ErrNoKey
\* (absent) when the key is not in kv.data.
Get(k) == data[k]

\* Clerk.Put(key, value, version) is called and its first attempt is next.
StartPut(c, k, v, n) ==
  call' = [call EXCEPT ![c] = [key |-> k, val |-> v, ver |-> n,
                               first |-> TRUE, err |-> "none", execs |-> 0]]

Init ==
  /\ data = [k \in Keys |-> NoKey]
  /\ pc = [c \in Clients |-> "init"]
  /\ call = [c \in Clients |-> [key |-> "l0", val |-> "", ver |-> 0,
                                first |-> TRUE, err |-> "none", execs |-> 0]]
  /\ rounds = [c \in Clients |-> 0]
  /\ losses = 0

(***************************************************************************)
(* One attempt of Clerk.Put's loop.  A dropped request or reply makes the  *)
(* Call return false: firstTry becomes false and the loop resends.  A      *)
(* reply ends the loop: OK and ErrNoKey are returned as they are,          *)
(* ErrVersion is returned on the first try and turned into ErrMaybe on a  *)
(* resend.                                                                 *)
(***************************************************************************)
Outcomes == IF losses < MaxLoss THEN {"lost", "noreply", "reply"}
            ELSE {"reply"}

\* Mutant of Clerk.Put: ErrVersion is returned on a resend too.
PutAttemptNoMaybe(c) ==
  /\ pc[c] \in PutSites
  /\ call[c].err = "none"
  /\ \E o \in Outcomes :
       LET a == call[c]
           r == ServerPut(data, a.key, a.val, a.ver)
           served == o # "lost"
           performed == served /\ r.err = "OK"
           err == r.err
       IN  /\ data' = IF served THEN r.d ELSE data
           /\ call' = [call EXCEPT
                         ![c].execs = IF performed THEN @ + 1 ELSE @,
                         ![c].first = (o = "reply") /\ @,
                         ![c].err = IF o = "reply" THEN err ELSE "none"]
           /\ losses' = IF o = "reply" THEN losses ELSE losses + 1
  /\ UNCHANGED <<pc, rounds>>

PutAttempt(c) ==
  /\ pc[c] \in PutSites
  /\ call[c].err = "none"
  /\ \E o \in Outcomes :
       LET a == call[c]
           r == ServerPut(data, a.key, a.val, a.ver)
           served == o # "lost"
           performed == served /\ r.err = "OK"
           err == IF r.err = "ErrVersion" /\ ~a.first THEN "ErrMaybe"
                  ELSE r.err
       IN  /\ data' = IF served THEN r.d ELSE data
           /\ call' = [call EXCEPT
                         ![c].execs = IF performed THEN @ + 1 ELSE @,
                         ![c].first = (o = "reply") /\ @,
                         ![c].err = IF o = "reply" THEN err ELSE "none"]
           /\ losses' = IF o = "reply" THEN losses ELSE losses + 1
  /\ UNCHANGED <<pc, rounds>>

(***************************************************************************)
(* oneClient.  The preamble Put("l0", "", 0) makes sure "l0" exists (only  *)
(* the first succeeds; the result is ignored).  Each round ends with       *)
(* Release; the loop stops when done is closed, after MaxRounds rounds.   *)
(***************************************************************************)
NextRound(c) ==
  /\ rounds' = [rounds EXCEPT ![c] = @ + 1]
  /\ pc' = [pc EXCEPT ![c] = IF rounds[c] + 1 < MaxRounds THEN "a_get"
                             ELSE "done"]

Begin(c) ==
  /\ pc[c] = "init"
  /\ StartPut(c, "l0", "", 0)
  /\ pc' = [pc EXCEPT ![c] = "init_put"]
  /\ UNCHANGED <<data, rounds, losses>>

BeginDone(c) ==
  /\ pc[c] = "init_put" /\ call[c].err # "none"
  /\ pc' = [pc EXCEPT ![c] = "a_get"]
  /\ UNCHANGED <<data, call, rounds, losses>>

(***************************************************************************)
(* Lock.Acquire.  Get the lock key: if it is missing create it holding     *)
(* clientID (version 0); if it is free ("") put clientID at the version   *)
(* read; otherwise sleep and retry.  After the Put, OK means acquired;    *)
(* ErrMaybe is resolved by a Get that must show clientID; anything else   *)
(* retries from the Get.                                                  *)
(***************************************************************************)
AcquireGet(c) ==
  /\ pc[c] = "a_get"
  /\ LET e == Get("lk") IN
     IF e.absent \/ e.val = ""
     THEN /\ StartPut(c, "lk", c, e.ver)
          /\ pc' = [pc EXCEPT ![c] = "a_put"]
     ELSE UNCHANGED <<pc, call>>
  /\ UNCHANGED <<data, rounds, losses>>

\* Mutant of Acquire: ErrMaybe is taken as acquired without the Get.
AcquirePutDoneMaybeHeld(c) ==
  /\ pc[c] = "a_put" /\ call[c].err # "none"
  /\ pc' = [pc EXCEPT ![c] = IF call[c].err \in {"OK", "ErrMaybe"}
                             THEN "cs_get" ELSE "a_get"]
  /\ UNCHANGED <<data, call, rounds, losses>>

AcquirePutDone(c) ==
  /\ pc[c] = "a_put" /\ call[c].err # "none"
  /\ pc' = [pc EXCEPT ![c] = CASE call[c].err = "OK"       -> "cs_get"
                               [] call[c].err = "ErrMaybe" -> "a_check"
                               [] OTHER                    -> "a_get"]
  /\ UNCHANGED <<data, call, rounds, losses>>

\* Mutant of Acquire: the val2 == clientID test after ErrMaybe is left out.
AcquireCheckNoReturn(c) ==
  /\ pc[c] = "a_check"
  /\ pc' = [pc EXCEPT ![c] = "a_get"]
  /\ UNCHANGED <<data, call, rounds, losses>>

AcquireCheck(c) ==
  /\ pc[c] = "a_check"
  /\ pc' = [pc EXCEPT ![c] = IF ~Get("lk").absent /\ Get("lk").val = c
                             THEN "cs_get" ELSE "a_get"]
  /\ UNCHANGED <<data, call, rounds, losses>>

(***************************************************************************)
(* The critical section of oneClient: Get "l0" must show "" (else Fatalf  *)
(* "two clients acquired lock"); Put "l0" := me at that version, then      *)
(* "l0" := "" at version+1; each Put must give OK or ErrMaybe (else        *)
(* Fatalf).                                                                *)
(***************************************************************************)
CSGet(c) ==
  /\ pc[c] = "cs_get"
  /\ LET e == Get("l0") IN
     IF e.absent \/ e.val # ""
     THEN /\ pc' = [pc EXCEPT ![c] = "fatal"]
          /\ UNCHANGED call
     ELSE /\ StartPut(c, "l0", c, e.ver)
          /\ pc' = [pc EXCEPT ![c] = "cs_put1"]
  /\ UNCHANGED <<data, rounds, losses>>

PutOk(c) == call[c].err \in {"OK", "ErrMaybe"}

CSPut1Done(c) ==
  /\ pc[c] = "cs_put1" /\ call[c].err # "none"
  /\ IF PutOk(c)
     THEN /\ StartPut(c, "l0", "", call[c].ver + 1)
          /\ pc' = [pc EXCEPT ![c] = "cs_put2"]
     ELSE /\ pc' = [pc EXCEPT ![c] = "fatal"]
          /\ UNCHANGED call
  /\ UNCHANGED <<data, rounds, losses>>

CSPut2Done(c) ==
  /\ pc[c] = "cs_put2" /\ call[c].err # "none"
  /\ pc' = [pc EXCEPT ![c] = IF PutOk(c) THEN "r_get" ELSE "fatal"]
  /\ UNCHANGED <<data, call, rounds, losses>>

(***************************************************************************)
(* Lock.Release.  Get the lock key: missing, free or held by another      *)
(* client all return at once; held by clientID, put "" at the version     *)
(* read, and return on OK or ErrMaybe, else retry from the Get.           *)
(***************************************************************************)
ReleaseGet(c) ==
  /\ pc[c] = "r_get"
  /\ LET e == Get("lk") IN
     IF ~e.absent /\ e.val = c
     THEN /\ StartPut(c, "lk", "", e.ver)
          /\ pc' = [pc EXCEPT ![c] = "r_put"]
          /\ UNCHANGED rounds
     ELSE /\ NextRound(c)
          /\ UNCHANGED call
  /\ UNCHANGED <<data, losses>>

ReleasePutDone(c) ==
  /\ pc[c] = "r_put" /\ call[c].err # "none"
  /\ IF PutOk(c) THEN NextRound(c)
     ELSE /\ pc' = [pc EXCEPT ![c] = "r_get"]
          /\ UNCHANGED rounds
  /\ UNCHANGED <<data, call, losses>>

Step(c) ==
  \/ Begin(c) \/ BeginDone(c)
  \/ AcquireGet(c) \/ AcquirePutDone(c) \/ AcquireCheck(c)
  \/ CSGet(c) \/ CSPut1Done(c) \/ CSPut2Done(c)
  \/ ReleaseGet(c) \/ ReleasePutDone(c)
  \/ PutAttempt(c)

Next == \E c \in Clients : Step(c)

\* Each client is a goroutine that keeps running; the network drops at most
\* MaxLoss RPCs, so a resent Put is eventually answered.
Spec == Init /\ [][Next]_vars /\ \A c \in Clients : WF_vars(Step(c))

(***************************************************************************)
(* Properties.                                                             *)
(***************************************************************************)
\* Lock.Acquire gives mutual exclusion: two clients are never both between
\* Acquire's return and Release, although Puts are resent after lost
\* replies and ErrMaybe has to be resolved by a later Get.
InCS(c) == pc[c] \in {"cs_get", "cs_put1", "cs_put2"}

MutualExclusion == \A c, d \in Clients : c # d => ~(InCS(c) /\ InCS(d))

\* None of oneClient's Fatalf checks fires: the critical section sees "l0"
\* free, and each of its two Puts yields OK or ErrMaybe even when its
\* first reply was lost.
NoTestFailure == \A c \in Clients : pc[c] # "fatal"

\* The Clerk.Put contract (client.go): OK means the Put was performed
\* once, ErrVersion and ErrNoKey that it was not performed, ErrMaybe that
\* it may have been; no Put is ever performed twice by its resends.
PutResultTruthful ==
  \A c \in Clients :
    LET a == call[c] IN
    /\ a.execs <= 1
    /\ a.err = "OK" => a.execs = 1
    /\ a.err \in {"ErrVersion", "ErrNoKey"} => a.execs = 0

\* Every client finishes its rounds: no Acquire spins forever.
AllRoundsFinish == <>(\A c \in Clients : pc[c] = "done")

====
