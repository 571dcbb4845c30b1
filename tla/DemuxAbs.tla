------------------------------ MODULE DemuxAbs ------------------------------
(***************************************************************************)
(* What a DemuxClnt promises its callers (spec.md 4.3, 5): SendReceive     *)
(* blocks and then returns exactly once, either a failure or the reply the *)
(* server produced for this call's own request, never another call's.      *)
(***************************************************************************)
EXTENDS Integers

CONSTANTS Callers, MaxCalls, Nil

VARIABLES
  apc,      \* "idle" or "busy" (inside SendReceive)
  acalls,   \* calls each caller has made
  aresult   \* what the last call returned

avars == <<apc, acalls, aresult>>

AFailure == [data |-> Nil, ok |-> FALSE, err |-> TRUE]
ANoResult == [data |-> Nil, ok |-> FALSE, err |-> FALSE]

\* The replies call n of caller c may return: its own payload, with the
\* server's ok bit, or a failure.
OwnReplies(c, n) ==
  {[data |-> <<c, n>>, ok |-> b, err |-> FALSE] : b \in BOOLEAN} \cup {AFailure}

AInit ==
  /\ apc = [c \in Callers |-> "idle"]
  /\ acalls = [c \in Callers |-> 0]
  /\ aresult = [c \in Callers |-> ANoResult]

Invoke(c) ==
  /\ apc[c] = "idle"
  /\ acalls[c] < MaxCalls
  /\ apc' = [apc EXCEPT ![c] = "busy"]
  /\ acalls' = [acalls EXCEPT ![c] = @ + 1]
  /\ aresult' = [aresult EXCEPT ![c] = ANoResult]

Return(c) ==
  /\ apc[c] = "busy"
  /\ \E r \in OwnReplies(c, acalls[c]) : aresult' = [aresult EXCEPT ![c] = r]
  /\ apc' = [apc EXCEPT ![c] = "idle"]
  /\ UNCHANGED acalls

ANext == \E c \in Callers : Invoke(c) \/ Return(c)

Spec == AInit /\ [][ANext]_avars /\ \A c \in Callers : WF_avars(Return(c))

=============================================================================
