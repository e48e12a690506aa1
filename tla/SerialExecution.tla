--------------------------- MODULE SerialExecution ---------------------------
(***************************************************************************)
(* What a controller promises about the tasks it accepts: they take turns  *)
(* in the order of admission, one at a time, and the execute call of a     *)
(* task is answered once, after the task has ended.  A restart of the      *)
(* service ends every task and loses every open call.                      *)
(***************************************************************************)
EXTENDS Naturals

CONSTANT MaxRuns       \* bound: task runs admitted

VARIABLES
  admitted,   \* task runs accepted so far
  stage,      \* of each run: none, waiting for its turn, having it, ended
  reply       \* of its execute call: none, open, succeeded, failed, lost

vars == <<admitted, stage, reply>>

Runs == 1..MaxRuns

Init ==
  /\ admitted = 0
  /\ stage = [r \in Runs |-> "none"]
  /\ reply = [r \in Runs |-> "none"]

Accept ==
  /\ admitted < MaxRuns
  /\ admitted' = admitted + 1
  /\ stage' = [stage EXCEPT ![admitted + 1] = "waiting"]
  /\ reply' = [reply EXCEPT ![admitted + 1] = "open"]

TakeTurn(r) ==
  /\ stage[r] = "waiting"
  /\ \A s \in Runs : s < r => stage[s] = "ended"
  /\ stage' = [stage EXCEPT ![r] = "turn"]
  /\ UNCHANGED <<admitted, reply>>

End(r) ==
  /\ stage[r] = "turn"
  /\ stage' = [stage EXCEPT ![r] = "ended"]
  /\ UNCHANGED <<admitted, reply>>

Answer(r) ==
  /\ stage[r] = "ended" /\ reply[r] = "open"
  /\ \E outcome \in {"succeeded", "failed"} : reply' = [reply EXCEPT ![r] = outcome]
  /\ UNCHANGED <<admitted, stage>>

Lose ==
  /\ stage' = [r \in Runs |-> IF stage[r] = "none" THEN "none" ELSE "ended"]
  /\ reply' = [r \in Runs |-> IF reply[r] = "open" THEN "lost" ELSE reply[r]]
  /\ UNCHANGED admitted

Next ==
  \/ Accept
  \/ \E r \in Runs : TakeTurn(r) \/ End(r) \/ Answer(r)
  \/ Lose

Spec == Init /\ [][Next]_vars
==============================================================================
