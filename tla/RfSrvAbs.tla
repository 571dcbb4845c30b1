------------------------------ MODULE RfSrvAbs ------------------------------
(***************************************************************************)
(* What a Raft test server promises the tester about the state it applies, *)
(* across kills and restarts.  Its state is always a prefix of the         *)
(* committed log: while it runs, the prefix grows by the next committed    *)
(* command, or jumps forward to a committed snapshot.  The durable         *)
(* snapshot, which a restart resumes from, only moves forward and never    *)
(* past the commit index.  A restarted server first boots with an empty    *)
(* state and then resumes from a snapshot no newer than the durable one.   *)
(***************************************************************************)
EXTENDS Naturals, Sequences

CONSTANT N

VARIABLES
  acommit,   \* the leader's commit index
  alog,      \* the commands the server has applied, in index order
  durable,   \* index of the snapshot a restart resumes from (0: none)
  alive,     \* the server process exists
  running    \* the server has loaded its state and applies commands

avars == <<acommit, alog, durable, alive, running>>

\* The first k committed commands.  The command at index j is j.
Prefix(k) == [j \in 1 .. k |-> j]

AInit ==
  /\ acommit = 0 /\ alog = <<>> /\ durable = 0
  /\ alive = FALSE /\ running = FALSE

Commit ==
  /\ acommit < N
  /\ acommit' = acommit + 1
  /\ UNCHANGED <<alog, durable, alive, running>>

Boot ==
  /\ ~alive
  /\ alive' = TRUE /\ alog' = <<>>
  /\ UNCHANGED <<acommit, durable, running>>

Resume(k) ==
  /\ alive /\ ~running /\ k <= durable
  /\ running' = TRUE /\ alog' = Prefix(k)
  /\ UNCHANGED <<acommit, durable, alive>>

\* Apply the next committed command, and possibly persist a snapshot of
\* the prefix it completes.
Apply ==
  /\ running /\ Len(alog) < acommit
  /\ alog' = Append(alog, Len(alog) + 1)
  /\ durable' \in {d \in {durable, Len(alog')} : d >= durable}
  /\ UNCHANGED <<acommit, alive, running>>

Jump(k) ==
  /\ running /\ Len(alog) < k /\ k <= acommit
  /\ alog' = Prefix(k)
  /\ UNCHANGED <<acommit, durable, alive, running>>

Persist(k) ==
  /\ alive /\ durable < k /\ k <= acommit
  /\ durable' = k
  /\ UNCHANGED <<acommit, alog, alive, running>>

Stop ==
  /\ alive
  /\ alive' = FALSE /\ running' = FALSE
  /\ UNCHANGED <<acommit, alog, durable>>

ANext ==
  \/ Commit \/ Boot \/ Apply \/ Stop
  \/ \E k \in 0 .. N : Resume(k) \/ Jump(k) \/ Persist(k)

ASpec == AInit /\ [][ANext]_avars

=============================================================================
