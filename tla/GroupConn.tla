------------------------------- MODULE GroupConn ------------------------------
(***************************************************************************)
(* Fault injection on the simulated network of one ServerGrp (group.go,   *)
(* srv.go).  Server i owns one labrpc end to every server j of the group,  *)
(* srvs[i].endNames[j]; en[i][j] is whether that end is enabled.           *)
(* sg.connected[i] records whether i is on the net.  Every ServerGrp call  *)
(* is made by the test goroutine, one at a time, so each is one step: the  *)
(* sequence of connect and disconnect calls it makes is folded over the    *)
(* network state.                                                          *)
(***************************************************************************)
EXTENDS Naturals, FiniteSets, SequencesExt

CONSTANT N   \* len(sg.srvs)

ASSUME N \in Nat /\ N >= 2

Srvs == 0 .. N - 1

\* sg.all(): <<0, 1, ..., n-1>>
All == [k \in 1 .. N |-> k - 1]

VARIABLES
  connected,  \* sg.connected
  en,         \* en[i][j]: srvs[i].endNames[j] is enabled in labrpc
  up,         \* srvs[i].dc != nil: a daemon runs for i
  last        \* history: the last ServerGrp call and its arguments

vars == <<connected, en, up, last>>

NoCall == [op |-> "none", p1 |-> <<>>, p2 |-> <<>>, l |-> 0]

TypeOK ==
  /\ connected \in [Srvs -> BOOLEAN]
  /\ en \in [Srvs -> [Srvs -> BOOLEAN]]
  /\ up \in [Srvs -> BOOLEAN]
  /\ last.op \in {"none", "connect", "disconnect", "connectall", "partition",
                  "leader", "start", "shutdown", "startservers"}
  /\ last.p1 \in Seq(Srvs) /\ last.p2 \in Seq(Srvs) /\ last.l \in Srvs

(***************************************************************************)
(* The network state [conn, en] and the two primitive calls on it.         *)
(***************************************************************************)
\* Mutant of Connect: enables the ends whether or not the peer IsConnected.
ConnectNoCheck(s, i, to) ==
  [conn |-> [s.conn EXCEPT ![i] = TRUE],
   en |-> [a \in Srvs |-> [b \in Srvs |->
             IF (a = i /\ b \in ToSet(to)) \/ (b = i /\ a \in ToSet(to))
             THEN TRUE ELSE s.en[a][b]]]]

\* Mutant of Connect: the loop over the incoming ends is left out.
ConnectOutOnly(s, i, to) ==
  LET c == [s.conn EXCEPT ![i] = TRUE]
  IN  [conn |-> c,
       en |-> [a \in Srvs |-> [b \in Srvs |->
                 IF a = i /\ b \in ToSet(to) /\ c[b] THEN TRUE
                 ELSE s.en[a][b]]]]

\* sg.connect(i, to): connected[i] = true; enable i's ends to, and the ends
\* to i of, every server in to that IsConnected.
Connect(s, i, to) ==
  LET c == [s.conn EXCEPT ![i] = TRUE]
      on == {j \in ToSet(to) : c[j]}
  IN  [conn |-> c,
       en |-> [a \in Srvs |-> [b \in Srvs |->
                 IF (a = i /\ b \in on) \/ (b = i /\ a \in on) THEN TRUE
                 ELSE s.en[a][b]]]]

\* sg.disconnect(i, from): connected[i] = false; disable i's ends to, and
\* the ends to i of, every server in from.
Disconnect(s, i, from) ==
  [conn |-> [s.conn EXCEPT ![i] = FALSE],
   en |-> [a \in Srvs |-> [b \in Srvs |->
             IF (a = i /\ b \in ToSet(from)) \/ (b = i /\ a \in ToSet(from))
             THEN FALSE ELSE s.en[a][b]]]]

Now == [conn |-> connected, en |-> en]

\* Mutant of PartitionOf: the loop over p2 is left out.
PartitionOfP1Only(s, p1, p2) ==
  FoldLeft(LAMBDA t, i : Connect(Disconnect(t, i, p2), i, p1), s, p1)

\* sg.Partition(p1, p2): for each i of p1, disconnect(i, p2) then
\* connect(i, p1); then the same for p2.
PartitionOf(s, p1, p2) ==
  LET side(me, other, t, i) == Connect(Disconnect(t, i, other), i, me)
      s1 == FoldLeft(LAMBDA t, i : side(p1, p2, t, i), s, p1)
  IN  FoldLeft(LAMBDA t, i : side(p2, p1, t, i), s1, p2)

\* Mutant of MakePartition: p2[len(p2)-1] = l is left out.
MakePartitionNoLeader(l) ==
  LET put(t, i) ==
        IF i = l THEN t
        ELSE IF t.j < Len(t.p1)
             THEN [t EXCEPT !.p1[t.j + 1] = i, !.j = @ + 1]
             ELSE [t EXCEPT !.p2[t.j - Len(t.p1) + 1] = i, !.j = @ + 1]
      r == FoldLeft(put, [p1 |-> [k \in 1 .. N \div 2 + 1 |-> 0],
                          p2 |-> [k \in 1 .. N \div 2 |-> 0], j |-> 0], All)
  IN  <<r.p1, r.p2>>

\* sg.MakePartition(l): p1 has n/2+1 slots and p2 n/2, both zeroed; the
\* servers other than l fill p1 and then p2 in order; p2's last slot is l.
MakePartition(l) ==
  LET put(t, i) ==
        IF i = l THEN t
        ELSE IF t.j < Len(t.p1)
             THEN [t EXCEPT !.p1[t.j + 1] = i, !.j = @ + 1]
             ELSE [t EXCEPT !.p2[t.j - Len(t.p1) + 1] = i, !.j = @ + 1]
      r == FoldLeft(put, [p1 |-> [k \in 1 .. N \div 2 + 1 |-> 0],
                          p2 |-> [k \in 1 .. N \div 2 |-> 0], j |-> 0], All)
  IN  <<r.p1, [r.p2 EXCEPT ![Len(r.p2)] = l]>>

Set(s) ==
  /\ connected' = s.conn
  /\ en' = s.en

(***************************************************************************)
(* makeSrvGrp: every server made, none connected or started.              *)
(***************************************************************************)
Init ==
  /\ connected = [i \in Srvs |-> FALSE]
  /\ en = [i \in Srvs |-> [j \in Srvs |-> FALSE]]
  /\ up = [i \in Srvs |-> FALSE]
  /\ last = NoCall

\* sg.ConnectOne(i)
ConnectOne(i) ==
  /\ Set(Connect(Now, i, All))
  /\ last' = [NoCall EXCEPT !.op = "connect", !.p1 = <<i>>]
  /\ UNCHANGED up

\* sg.DisconnectAll(i)
DisconnectAll(i) ==
  /\ Set(Disconnect(Now, i, All))
  /\ last' = [NoCall EXCEPT !.op = "disconnect", !.p1 = <<i>>]
  /\ UNCHANGED up

\* sg.ConnectAll(): ConnectOne(i) for i in order.
ConnectAll ==
  /\ Set(FoldLeft(LAMBDA t, i : Connect(t, i, All), Now, All))
  /\ last' = [NoCall EXCEPT !.op = "connectall"]
  /\ UNCHANGED up

\* sg.Partition(p1, p2) for two disjoint, non-empty lists of servers.
Partition(p1, p2) ==
  /\ Set(PartitionOf(Now, p1, p2))
  /\ last' = [op |-> "partition", p1 |-> p1, p2 |-> p2, l |-> 0]
  /\ UNCHANGED up

\* p1, p2 := sg.MakePartition(l); sg.Partition(p1, p2)
PartitionLeader(l) ==
  LET pp == MakePartition(l) IN
  /\ Set(PartitionOf(Now, pp[1], pp[2]))
  /\ last' = [op |-> "leader", p1 |-> pp[1], p2 |-> pp[2], l |-> l]
  /\ UNCHANGED up

\* Mutant of StartServer: the new ends are indexed from 1.
StartServerOffByOne(i) ==
  /\ ~up[i]
  /\ en' = [en EXCEPT ![i] = [j \in 1 .. N |-> FALSE]]
  /\ up' = [up EXCEPT ![i] = TRUE]
  /\ last' = [NoCall EXCEPT !.op = "start", !.p1 = <<i>>]
  /\ UNCHANGED connected

\* sg.StartServer(i) after ShutdownServer (or the first time): the new
\* Server's ends are made by makeServer, and labrpc makes ends disabled.
StartServer(i) ==
  /\ ~up[i]
  /\ en' = [en EXCEPT ![i] = [j \in Srvs |-> FALSE]]
  /\ up' = [up EXCEPT ![i] = TRUE]
  /\ last' = [NoCall EXCEPT !.op = "start", !.p1 = <<i>>]
  /\ UNCHANGED connected

\* sg.ShutdownServer(i): disconnect(i, all()) and stop the daemon.
ShutdownServer(i) ==
  /\ Set(Disconnect(Now, i, All))
  /\ up' = [up EXCEPT ![i] = FALSE]
  /\ last' = [NoCall EXCEPT !.op = "shutdown", !.p1 = <<i>>]

\* Mutant of StartServers: ConnectAll before the servers are started.
StartServersConnectFirst ==
  /\ \A i \in Srvs : ~up[i]
  /\ LET c == FoldLeft(LAMBDA t, i : Connect(t, i, All), Now, All)
     IN  /\ connected' = c.conn
         /\ en' = [a \in Srvs |-> [b \in Srvs |-> FALSE]]
  /\ up' = [i \in Srvs |-> TRUE]
  /\ last' = [NoCall EXCEPT !.op = "startservers"]

\* The ends of a server made by StartServer: fresh ends, disabled.
Started(s, i) == [s EXCEPT !.en[i] = [j \in Srvs |-> FALSE]]

\* sg.StartSrvs(srvs): StartServer(i) for i in order; each was shut down.
StartSrvs(srvs) ==
  /\ \A k \in DOMAIN srvs : ~up[srvs[k]]
  /\ Set(FoldLeft(Started, Now, srvs))
  /\ up' = [i \in Srvs |-> up[i] \/ i \in ToSet(srvs)]
  /\ last' = [NoCall EXCEPT !.op = "start", !.p1 = srvs]

\* sg.StartServers(): StartSrvs(all()) and then ConnectAll().
StartServers ==
  /\ \A i \in Srvs : ~up[i]
  /\ Set(FoldLeft(LAMBDA t, i : Connect(t, i, All), FoldLeft(Started, Now, All), All))
  /\ up' = [i \in Srvs |-> TRUE]
  /\ last' = [NoCall EXCEPT !.op = "startservers"]

\* sg.Kill(srvs): ShutdownServer(i) for i in order.
Kill(srvs) ==
  /\ Set(FoldLeft(LAMBDA t, i : Disconnect(t, i, All), Now, srvs))
  /\ up' = [i \in Srvs |-> up[i] /\ i \notin ToSet(srvs)]
  /\ last' = [NoCall EXCEPT !.op = "shutdown", !.p1 = srvs]

\* sg.Shutdown(): Kill(all()).
Shutdown == Kill(All)

\* The lists tests pass to Partition: two disjoint non-empty sets of
\* servers, each in increasing order.
Sides == {<<SetToSortSeq(A, <), SetToSortSeq(B, <)>> :
            A \in SUBSET Srvs \ {{}}, B \in SUBSET Srvs \ {{}}}

Next ==
  \/ \E i \in Srvs : ConnectOne(i) \/ DisconnectAll(i)
  \/ ConnectAll
  \/ \E pp \in Sides : ToSet(pp[1]) \cap ToSet(pp[2]) = {}
                       /\ Partition(pp[1], pp[2])
  \/ \E l \in Srvs : PartitionLeader(l)
  \/ \E i \in Srvs : StartServer(i) \/ ShutdownServer(i)
  \/ \E pp \in Sides : StartSrvs(pp[1]) \/ Kill(pp[1])
  \/ StartServers \/ Shutdown

Spec == Init /\ [][Next]_vars

(***************************************************************************)
(* Properties.                                                             *)
(***************************************************************************)
\* Between ServerGrp calls an enabled end joins two servers that are both
\* marked connected: connect only enables ends to servers IsConnected,
\* disconnect clears the mark and both directions, and a restarted
\* server's fresh ends start disabled.
EnabledImpliesConnected ==
  \A i, j \in Srvs : en[i][j] => connected[i] /\ connected[j]

\* After Partition(p1, p2) every two servers of one side reach each other
\* and none reaches a server of the other side, whatever links existed
\* before: the order of disconnect and connect calls in Partition must
\* undo them all.
PartitionSeparates ==
  last.op = "partition" =>
    LET A == ToSet(last.p1)
        B == ToSet(last.p2)
    IN  /\ \A a \in A, b \in B : ~en[a][b] /\ ~en[b][a]
        /\ \A a, b \in A : en[a][b]
        /\ \A a, b \in B : en[a][b]

\* After ConnectAll, and after StartServers, every end is enabled,
\* although each ConnectOne only reaches the servers connected before it
\* and StartServer gives a server fresh, disabled ends.
ConnectAllHeals ==
  last.op \in {"connectall", "startservers"} => \A a, b \in Srvs : en[a][b]

\* MakePartition puts the leader in the minority: after
\* Partition(MakePartition(l)) the servers l reaches are a minority and
\* the others a majority that all reach each other.
LeaderInMinority ==
  last.op = "leader" =>
    LET R == {j \in Srvs : en[last.l][j]} \cup {last.l}
        Q == Srvs \ R
    IN  /\ 2 * Cardinality(R) < N
        /\ 2 * Cardinality(Q) > N
        /\ \A a, b \in Q : en[a][b]

================================================================================
