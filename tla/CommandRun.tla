----------------------------- MODULE CommandRun -----------------------------
(***************************************************************************)
(* What the execution of a workflow promises the devices it commands and   *)
(* the reader of its report, without its tasks, timeouts, aborts and       *)
(* drains. Graphs run one after the other; a node calls its device at most *)
(* once, when it is due and its graph is open; a report only grows, and    *)
(* says what happened; a graph is left when no call of it is pending.      *)
(***************************************************************************)
EXTENDS Naturals

CONSTANTS Nodes, Graphs, Plans

VARIABLES
  plan,
  graph,      \* the graph being run
  phase,      \* open: it may call devices; closed: it may not; over: nothing happens any more
  call,       \* of each node: none, pending, or how the device call ended
  report,     \* of each node: none or what the report says of it
  cancelled   \* a cancellation has arrived

vars == <<plan, graph, phase, call, report, cancelled>>

Answers == {"ok", "error", "timeout", "cancelled"}
Idle == \A n \in Nodes : call[n] # "pending"

Init ==
  /\ plan \in Plans /\ graph = 0 /\ phase = "open" /\ cancelled = FALSE
  /\ call = [n \in Nodes |-> "none"] /\ report = [n \in Nodes |-> "none"]

\* Everything n waits for is in the report, nothing it needs kept it from running, and
\* no override decided it.
Due(n) ==
  /\ \A d \in plan.soft[n] \cup plan.hard[n] : report[d] # "none"
  /\ \A d \in plan.hard[n] : report[d] = "ok" \/ plan.policy[d] = "continue"
  /\ plan.override[n] = "none"

Call(n) ==
  /\ phase = "open" /\ plan.home[n] = graph /\ call[n] = "none" /\ report[n] = "none"
  /\ Due(n)
  /\ call' = [call EXCEPT ![n] = "pending"]
  /\ UNCHANGED <<plan, graph, phase, report, cancelled>>

Answer(n) ==
  /\ call[n] = "pending"
  /\ \E how \in Answers : call' = [call EXCEPT ![n] = how]
  /\ UNCHANGED <<plan, graph, phase, report, cancelled>>

\* What a report may say of n: ok only if the device said so, the node only orders others or
\* an override says it; never failed after ok; skipped only if it called nothing, for a
\* reason the report gives.
MayReport(n, status) ==
  /\ report[n] = "none" /\ plan.home[n] = graph /\ call[n] # "pending"
  /\ \/ status = "ok" /\ (call[n] = "ok" \/ n \in plan.ordering \/ plan.override[n] = "ok")
     \/ status = "failed" /\ call[n] # "ok"
     \/ /\ status = "skipped" /\ call[n] = "none"
        /\ \/ plan.override[n] = "skipped"
           \/ \E d \in plan.hard[n] : report'[d] \notin {"none", "ok"}
                                      /\ plan.policy[d] # "continue"
     \/ status = "cancelled"

\* The report grows; the graph stays open, is closed, or is left for a later one or for good.
\* A cancellation closes the main graph at once, and what is closed stays closed.
Proceed ==
  /\ phase # "over"
  /\ \A n \in Nodes : report'[n] # report[n] => MayReport(n, report'[n])
  /\ cancelled => cancelled'
  /\ \/ graph' = graph /\ phase' \in {phase, "closed"}
     \/ Idle /\ graph' = graph /\ phase' = "over"
     \/ Idle /\ graph' \in Graphs /\ graph < graph' /\ phase' = "open"
  /\ graph' = 0 /\ cancelled' => phase' # "open"
  /\ UNCHANGED <<plan, call>>

Next ==
  \/ \E n \in Nodes : Call(n) \/ Answer(n)
  \/ Proceed

Spec == Init /\ [][Next]_vars
=============================================================================
