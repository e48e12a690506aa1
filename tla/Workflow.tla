------------------------------ MODULE Workflow ------------------------------
(***************************************************************************)
(* One execution of a compiled sensor workflow: DagRunner and RunState     *)
(* (common/dag.py), the dispatcher that owns each device call and its      *)
(* Abort (sensor/dispatch.py) and the executor that runs the main graph,   *)
(* then the cleanup graphs it has armed (sensor/execution.py).             *)
(*                                                                         *)
(* Nodes are numbered as GraphBuilder numbers them. Graph 0 is the main    *)
(* graph, 1..NCleanups the cleanup graphs in their order; home[n] is the   *)
(* graph of node n. A task step between two awaits is one action.          *)
(***************************************************************************)
EXTENDS Naturals, FiniteSets

CONSTANTS
  NNodes,        \* nodes of all graphs together
  NCleanups,     \* cleanup graphs
  Plans,         \* the compiled workflows to run: see PlanAssumption
  MaxCancels     \* bound: cancellations that reach the execution

Nodes == 1..NNodes
Graphs == 0..NCleanups
Cleanups == 1..NCleanups
Always == 0      \* member of armed[k]: cleanup k has no triggers and is always armed

Policies == {"stop", "skip", "continue"}
Overrides == {"none", "ok", "skipped"}
Selectors == {"always", "failure", "cancelled", "failure_or_cancelled"}

\* A workflow as lower() emits it: edges stay inside a graph and form no cycle (build
\* refuses one: topo_order), and triggers are main operations.
PlanType ==
  [ home : [Nodes -> Graphs], soft : [Nodes -> SUBSET Nodes], hard : [Nodes -> SUBSET Nodes],
    policy : [Nodes -> Policies], optional : SUBSET Nodes, override : [Nodes -> Overrides],
    ordering : SUBSET Nodes, timed : SUBSET Nodes, abortable : SUBSET Nodes,
    when : [Cleanups -> Selectors], armed : [Cleanups -> SUBSET (Nodes \cup {Always})] ]

ASSUME BoundsAssumption == NNodes \in Nat /\ NCleanups \in Nat /\ MaxCancels \in Nat
ASSUME PlanAssumption ==
  \A p \in Plans :
    /\ p \in PlanType
    /\ \A n \in Nodes : \A d \in p.soft[n] \cup p.hard[n] : p.home[d] = p.home[n]
    /\ \A S \in (SUBSET Nodes) \ {{}} : \E n \in S : (p.soft[n] \cup p.hard[n]) \cap S = {}
    /\ \A k \in Cleanups : \A n \in p.armed[k] \ {Always} : p.home[n] = 0

Statuses == {"none", "ok", "failed", "skipped", "cancelled"}
LiveTask == {"created", "calling", "dropping", "aborting"}
EndedTask == {"ok", "failed", "cancelled"}
CallResults == {"ok", "error", "timeout", "cancelled"}
AbortResults == {"acknowledged", "failed"}   \* timed_out counts as failed
Kinds == {"domain", "hard"}

VARIABLES
  plan,
  \* RunState of every graph: results, and whether an override excuses the result
  result, excused,
  stop,          \* RunState.stop of the current graph
  \* the asyncio task of each node, and perform's locals
  task,
  call,          \* the device call it owns ("none" until attempted)
  told,          \* a cancellation of the task it has not seen yet
  held,          \* a cancellation perform caught and holds
  lapsed,        \* the operation timeout ended the wait
  interruption,  \* ExecutionState.interruptions
  \* the executor
  cur,           \* the graph being run
  mode,          \* its runner: "idle" before its first step, "running", "draining", "over"
  aborted,       \* the main report is marked aborted
  hard,          \* a cancellation was declined: it will be raised
  nudged,        \* the cleanup runner was cancelled and has not seen it
  stopping,      \* _bounded's cancelled
  overran,       \* _bounded's expired
  cleaned,       \* cleanups with a report
  late,          \* cleanups whose report has expired set
  outcome,       \* what execute did
  cancels,       \* cancellations so far
  arrived        \* history: the kinds of the cancellations that arrived

graphVars == <<result, excused, stop>>
nodeVars == <<task, call, told, held, lapsed, interruption>>
boundVars == <<nudged, stopping, overran>>
cancelVars == <<hard, cancels, arrived>>
vars == <<plan, graphVars, nodeVars, boundVars, cur, mode, aborted, cleaned, late, outcome,
          cancelVars>>

In(g) == {n \in Nodes : plan.home[n] = g}
Deps(n) == plan.soft[n] \cup plan.hard[n]
Attempted == {n \in Nodes : call[n] # "none"}
Live == {n \in Nodes : task[n] \in LiveTask}
\* Done tasks whose end the runner has not recorded.
Unrecorded == {n \in In(cur) : task[n] \in EndedTask /\ result[n] = "none"}

-----------------------------------------------------------------------------
(* RunState. A run state is a record of results, excuses and the stop flag.
   `\E x \in {e}` below names a value that is computed once. *)

RunState == [result |-> result, excused |-> excused, stop |-> stop]

Pending(rs) == {n \in In(cur) : rs.result[n] = "none" /\ task[n] = "none"}

Ready(rs, n) == \A d \in Deps(n) : rs.result[d] # "none"

Blockers(rs, n) ==
  {d \in plan.hard[n] : rs.result[d] \notin {"none", "ok"} /\ plan.policy[d] # "continue"}

Resolve(rs, n, status, excuse) ==
  [rs EXCEPT !.result[n] = status, !.excused[n] = excuse]

SkipOne(rs, n) ==
  IF n \in Pending(rs) /\ Blockers(rs, n) # {}
  THEN Resolve(rs, n, "skipped", \A d \in Blockers(rs, n) : rs.excused[d])
  ELSE rs

OverrideOne(rs, n) ==
  IF n \in Pending(rs) /\ Ready(rs, n) /\ plan.override[n] # "none"
  THEN Resolve(rs, n, plan.override[n], TRUE)
  ELSE rs

SkipPass(rs) ==
  LET upTo[n \in 0..NNodes] == IF n = 0 THEN rs ELSE SkipOne(upTo[n - 1], n)
  IN  upTo[NNodes]

OverridePass(rs) ==
  LET upTo[n \in 0..NNodes] == IF n = 0 THEN rs ELSE OverrideOne(upTo[n - 1], n)
  IN  upTo[NNodes]

\* A pass that moves resolves a node: after NNodes passes no further one moves.
ResolveSkips(rs) ==
  LET after[k \in 0..NNodes] == IF k = 0 THEN rs ELSE SkipPass(after[k - 1])
  IN  after[NNodes]

\* Overrides are looked at when no skip is left, and never once the run is stopped.
SettlePass(rs) ==
  LET skipped == SkipPass(rs)
  IN  IF skipped # rs \/ rs.stop THEN skipped ELSE OverridePass(rs)

Settle(rs) ==
  LET after[k \in 0..NNodes] == IF k = 0 THEN rs ELSE SettlePass(after[k - 1])
  IN  after[NNodes]

TakeReady(rs) == IF rs.stop THEN {} ELSE {n \in Pending(rs) : Ready(rs, n)}

Record(rs) ==
  [ result |-> [n \in Nodes |-> IF n \in Unrecorded THEN task[n] ELSE rs.result[n]],
    excused |-> rs.excused,
    stop |-> rs.stop \/ \E n \in Unrecorded : task[n] = "failed" /\ plan.policy[n] = "stop" ]

CancelPending(rs) ==
  [rs EXCEPT !.result = [n \in Nodes |-> IF n \in Pending(rs) THEN "cancelled" ELSE @[n]]]

\* Variant: a required node that was skipped is not a failure.
FailuresRan(rs, g) ==
  {n \in In(g) : rs.result[n] = "failed" /\ n \notin plan.optional /\ ~rs.excused[n]}

\* RunReport.failures of graph g.
Failures(rs, g) ==
  {n \in In(g) : /\ rs.result[n] \in {"failed", "skipped"}
                 /\ n \notin plan.optional
                 /\ ~rs.excused[n]}

-----------------------------------------------------------------------------
(* The executor between two graphs: these steps contain no await. *)

Selected(k, failed, ab) ==
  CASE plan.when[k] = "always" -> TRUE
    [] plan.when[k] = "failure" -> failed
    [] plan.when[k] = "cancelled" -> ab
    [] OTHER -> failed \/ ab

\* Variant: only an operation that succeeded arms a cleanup.
ArmedBySuccess(k) ==
  Always \in plan.armed[k] \/ \E n \in plan.armed[k] \cap Attempted : result[n] = "ok"

Armed(k) == Always \in plan.armed[k] \/ plan.armed[k] \cap Attempted # {}

Eligible(k, rs, ab) == Selected(k, Failures(rs, 0) # {}, ab) /\ Armed(k)

CleanupFailed(k, rs, overdue) == k \in overdue \/ Failures(rs, k) # {}

\* The end of execute: raise WorkflowError, or return the report.
Conclusion(rs, ab, done, overdue) ==
  IF \/ Failures(rs, 0) # {}
     \/ ~ab /\ \E k \in done : CleanupFailed(k, rs, overdue)
  THEN "error"
  ELSE IF ab THEN "aborted" ELSE "completed"

Install(rs) ==
  /\ result' = rs.result /\ excused' = rs.excused /\ stop' = rs.stop

Stay == UNCHANGED <<cur, boundVars, cleaned, late, outcome>>

\* _cleaned_up after graph g: start the next eligible cleanup, or conclude.
GoOn(g, rs, ab, done, overdue) ==
  LET next == {k \in Cleanups : k > g /\ Eligible(k, rs, ab)}
  IN  /\ cleaned' = done /\ late' = overdue
      /\ nudged' = FALSE /\ stopping' = FALSE /\ overran' = FALSE
      /\ \/ /\ next # {}
            /\ cur' = CHOOSE k \in next : \A j \in next : k =< j
            /\ mode' = "idle" /\ outcome' = outcome
            /\ Install([rs EXCEPT !.stop = FALSE])
         \/ /\ next = {}
            /\ cur' = cur /\ mode' = "over"
            /\ outcome' = Conclusion(rs, ab, done, overdue)
            /\ Install(rs)

Raise(rs) ==
  /\ outcome' = "cancelled" /\ mode' = "over" /\ Install(rs)
  /\ UNCHANGED <<cur, boundVars, cleaned, late>>

\* The runner of the current graph returns its report: the main one to execute,
\* a cleanup one to _bounded, whose task sees it later.
Report(report, ab) ==
  \E rs \in {report} :
    \/ cur = 0 /\ aborted' = ab /\ GoOn(0, rs, ab, cleaned, late)
    \/ cur # 0 /\ mode' = "over" /\ Install(rs) /\ Stay /\ UNCHANGED aborted

-----------------------------------------------------------------------------
(* DagRunner.execute *)

\* Variant: the loop ends only when nothing is pending, although the run was stopped.
TurnUnlessPending(rs) ==
  \E settled \in {Settle(rs)} :
    LET ready == TakeReady(settled)
    IN  /\ task' = [n \in Nodes |-> IF n \in ready THEN "created" ELSE task[n]]
        /\ \/ /\ Live \cup ready \cup Pending(settled) # {}
              /\ mode' = "running" /\ Install(settled) /\ Stay /\ UNCHANGED aborted
           \/ /\ Live \cup ready \cup Pending(settled) = {}
              /\ Report(settled, aborted)

\* One turn of its loop, up to the next await: settle, dispatch what is ready, or finish.
Turn(rs) ==
  \E settled \in {Settle(rs)} :
    LET ready == TakeReady(settled)
    IN  /\ task' = [n \in Nodes |-> IF n \in ready THEN "created" ELSE task[n]]
        /\ \/ /\ Live \cup ready # {}
              /\ mode' = "running" /\ Install(settled) /\ Stay /\ UNCHANGED aborted
           \/ /\ Live \cup ready = {}
              /\ Report(CancelPending(ResolveSkips(settled)), aborted)

RunnerStarts ==
  /\ mode = "idle" /\ ~nudged /\ outcome = "none"
  /\ Turn(RunState)
  /\ UNCHANGED <<plan, call, told, held, lapsed, interruption, cancelVars>>

\* asyncio.wait returned: record every task that is done.
RunnerWakes ==
  /\ mode = "running" /\ ~nudged /\ Unrecorded # {}
  /\ Turn(Record(RunState))
  /\ UNCHANGED <<plan, call, told, held, lapsed, interruption, cancelVars>>

\* The end of drain: every node in flight has ended and is recorded, the rest is cancelled.
Drained == CancelPending(Record(RunState))

\* Variant: the drain cancels the calls and overlooks the nodes in delay_s.
TellCalls == told' = [n \in Nodes |-> told[n] \/ (n \in Live /\ task[n] # "created")]

TellAll == told' = [n \in Nodes |-> told[n] \/ n \in Live]

\* The main graph has drained: its cancellation is raised or absorbed.
EndMain(declined) ==
  IF declined THEN Raise(Drained) /\ UNCHANGED aborted ELSE Report(Drained, TRUE)

\* Variant: the drain does not wait for the nodes it cancelled.
MainDrainsAtOnce ==
  /\ cur = 0 /\ mode = "draining"
  /\ EndMain(hard)
  /\ UNCHANGED <<plan, nodeVars, cancelVars>>

MainDrains ==
  /\ cur = 0 /\ mode = "draining" /\ Live = {}
  /\ EndMain(hard)
  /\ UNCHANGED <<plan, nodeVars, cancelVars>>

\* The cleanup runner meets a cancellation of its task and absorbs it. A runner that
\* had not taken its first step never runs.
CleanupRunnerCancelled ==
  /\ nudged /\ mode \in {"idle", "running", "draining"}
  /\ nudged' = FALSE
  /\ \/ /\ mode = "idle"
        /\ mode' = "over" /\ UNCHANGED <<graphVars, told>>
     \/ /\ mode # "idle" /\ Live # {}
        /\ mode' = "draining" /\ TellAll /\ UNCHANGED graphVars
     \/ /\ mode # "idle" /\ Live = {}
        /\ mode' = "over" /\ Install(Drained) /\ UNCHANGED told
  /\ UNCHANGED <<plan, task, call, held, lapsed, interruption, cur, aborted, stopping, overran,
                 cleaned, late, outcome, cancelVars>>

CleanupDrains ==
  /\ cur # 0 /\ mode = "draining" /\ ~nudged /\ Live = {}
  /\ Report(Drained, TRUE)
  /\ UNCHANGED <<plan, nodeVars, cancelVars>>

-----------------------------------------------------------------------------
(* Cancellations of execute, and _bounded *)

\* Variant: only the first cancellation is classified.
ArriveFirst(kind) ==
  /\ outcome = "none" /\ cancels < MaxCancels
  /\ cancels' = cancels + 1
  /\ arrived' = arrived \cup {kind}
  /\ hard' = IF cancels = 0 THEN kind = "hard" ELSE hard

\* What the caller's predicate answers as a cancellation arrives; a declined one is final.
Arrive(kind) ==
  /\ outcome = "none" /\ cancels < MaxCancels
  /\ cancels' = cancels + 1
  /\ arrived' = arrived \cup {kind}
  /\ hard' = (hard \/ kind = "hard")

CancelMain(kind) ==
  /\ cur = 0 /\ mode \in {"running", "draining"}
  /\ Arrive(kind)
  /\ \/ /\ Live # {}
        /\ mode' = "draining" /\ TellAll
        /\ UNCHANGED <<graphVars, aborted>> /\ Stay
     \/ /\ Live = {}
        /\ EndMain(hard') /\ UNCHANGED told
  /\ UNCHANGED <<plan, task, call, held, lapsed, interruption>>

\* _bounded returns and _cleaned_up stores the report of the cleanup.
EndCleanup(declined, cancelled) ==
  LET done == cleaned \cup {cur}
      overdue == IF overran THEN late \cup {cur} ELSE late
  IN  /\ IF declined \/ cancelled
         THEN /\ outcome' = IF declined THEN "cancelled"
                            ELSE Conclusion(RunState, TRUE, done, overdue)
              /\ cleaned' = done /\ late' = overdue
              /\ UNCHANGED <<graphVars, cur, mode, nudged, overran>>
              /\ stopping' = cancelled
         ELSE GoOn(cur, RunState, aborted, done, overdue)
      /\ UNCHANGED <<plan, nodeVars, aborted>>

CleanupReturns ==
  /\ cur # 0 /\ mode = "over" /\ outcome = "none"
  /\ EndCleanup(hard, stopping)
  /\ UNCHANGED cancelVars

CancelCleanup(kind) ==
  /\ cur # 0
  /\ Arrive(kind)
  /\ \/ /\ mode = "over"
        /\ EndCleanup(hard', TRUE)
     \/ /\ mode # "over"
        /\ stopping' = TRUE /\ nudged' = TRUE
        /\ UNCHANGED <<plan, graphVars, nodeVars, cur, mode, aborted, overran, cleaned, late, outcome>>

\* The cleanup's total timeout passes.
CleanupExpires ==
  /\ cur # 0 /\ mode # "over" /\ outcome = "none" /\ ~overran /\ ~stopping
  /\ overran' = TRUE /\ nudged' = TRUE
  /\ UNCHANGED <<plan, graphVars, nodeVars, cur, mode, aborted, stopping, cleaned, late, outcome,
                 cancelVars>>

-----------------------------------------------------------------------------
(* The task of one node: _run_node and Dispatcher.perform *)

OutsideNodes ==
  UNCHANGED <<plan, graphVars, boundVars, cur, mode, aborted, cleaned, late, outcome, cancelVars>>

\* A task cancelled before its first step, or during delay_s, sends and attempts nothing.
EndsUnsent(n) ==
  /\ task[n] = "created" /\ told[n]
  /\ task' = [task EXCEPT ![n] = "cancelled"]
  /\ told' = [told EXCEPT ![n] = FALSE]
  /\ UNCHANGED <<call, held, lapsed, interruption>>

\* An ordering node returns at once; without a client or a header nothing is attempted.
EndsLocally(n) ==
  /\ task[n] = "created" /\ ~told[n]
  /\ task' = [task EXCEPT ![n] = IF n \in plan.ordering THEN "ok" ELSE "failed"]
  /\ UNCHANGED <<call, told, held, lapsed, interruption>>

\* The attempt is recorded and the call's task created.
Begins(n) ==
  /\ task[n] = "created" /\ ~told[n] /\ n \notin plan.ordering
  /\ task' = [task EXCEPT ![n] = "calling"]
  /\ call' = [call EXCEPT ![n] = "pending"]
  /\ UNCHANGED <<told, held, lapsed, interruption>>

\* The device call ends; it ends as cancelled only after perform dropped it.
CallEnds(n, how) ==
  /\ call[n] = "pending" /\ (how = "cancelled" => task[n] = "dropping")
  /\ call' = [call EXCEPT ![n] = how]
  /\ UNCHANGED <<task, told, held, lapsed, interruption>>

\* _until_stopped times out: the call is cancelled once and drained.
Expires(n) ==
  /\ task[n] = "calling" /\ call[n] = "pending" /\ ~told[n] /\ n \in plan.timed
  /\ task' = [task EXCEPT ![n] = "dropping"]
  /\ lapsed' = [lapsed EXCEPT ![n] = TRUE]
  /\ UNCHANGED <<call, told, held, interruption>>

\* A cancellation reaches the wait for the call, or its drain.
Interrupted(n) ==
  /\ task[n] \in {"calling", "dropping"} /\ call[n] = "pending" /\ told[n]
  /\ task' = [task EXCEPT ![n] = "dropping"]
  /\ told' = [told EXCEPT ![n] = FALSE]
  /\ held' = [held EXCEPT ![n] = TRUE]
  /\ UNCHANGED <<call, lapsed, interruption>>

\* _dropped: the local call was cancelled, or ended with a timeout.
Dropped(n) == call[n] \in {"cancelled", "timeout"}

\* Variant: the result of the call is taken for the result of the node.
ConcludedAsCalled(n, caught) == IF caught THEN "cancelled" ELSE call[n]

\* _concluded: a held cancellation takes precedence over how the call ended.
Concluded(n, caught) ==
  CASE caught -> "cancelled"
    [] ~caught /\ call[n] = "ok" -> "ok"
    [] ~caught /\ call[n] = "cancelled" /\ ~lapsed[n] -> "cancelled"
    [] OTHER -> "failed"

\* The call is done and perform resumes: it interrupts the device if the call was dropped.
CallDone(n) ==
  LET caught == held[n] \/ told[n]
  IN  /\ task[n] \in {"calling", "dropping"} /\ call[n] # "pending"
      /\ held' = [held EXCEPT ![n] = caught]
      /\ told' = [told EXCEPT ![n] = FALSE]
      /\ IF Dropped(n) /\ n \in plan.abortable
         THEN /\ task' = [task EXCEPT ![n] = "aborting"]
              /\ UNCHANGED interruption
         ELSE /\ task' = [task EXCEPT ![n] = Concluded(n, caught)]
              /\ interruption' = IF Dropped(n) THEN [interruption EXCEPT ![n] = "unsupported"]
                                 ELSE interruption
      /\ UNCHANGED <<call, lapsed>>

\* The Abort is answered, refused or unanswered after ABORT_TIMEOUT_S. A cancellation
\* of the caller does not interrupt it; it is held until the outcome is recorded.
AbortDone(n, how) ==
  LET caught == held[n] \/ told[n]
  IN  /\ task[n] = "aborting"
      /\ interruption' = [interruption EXCEPT ![n] = how]
      /\ task' = [task EXCEPT ![n] = Concluded(n, caught)]
      /\ held' = [held EXCEPT ![n] = caught]
      /\ told' = [told EXCEPT ![n] = FALSE]
      /\ UNCHANGED <<call, lapsed>>

NodeStep(n) ==
  /\ \/ EndsUnsent(n) \/ EndsLocally(n) \/ Begins(n)
     \/ Expires(n) \/ Interrupted(n) \/ CallDone(n)
     \/ \E how \in CallResults : CallEnds(n, how)
     \/ \E how \in AbortResults : AbortDone(n, how)
  /\ OutsideNodes

-----------------------------------------------------------------------------
Init ==
  /\ plan \in Plans
  /\ result = [n \in Nodes |-> "none"] /\ excused = [n \in Nodes |-> FALSE] /\ stop = FALSE
  /\ task = [n \in Nodes |-> "none"] /\ call = [n \in Nodes |-> "none"]
  /\ told = [n \in Nodes |-> FALSE] /\ held = [n \in Nodes |-> FALSE]
  /\ lapsed = [n \in Nodes |-> FALSE] /\ interruption = [n \in Nodes |-> "none"]
  /\ cur = 0 /\ mode = "idle" /\ aborted = FALSE
  /\ nudged = FALSE /\ stopping = FALSE /\ overran = FALSE
  /\ cleaned = {} /\ late = {} /\ outcome = "none"
  /\ hard = FALSE /\ cancels = 0 /\ arrived = {}

ExecutorStep ==
  \/ RunnerStarts \/ RunnerWakes \/ MainDrains
  \/ CleanupRunnerCancelled \/ CleanupDrains \/ CleanupReturns

Next ==
  \/ ExecutorStep
  \/ CleanupExpires
  \/ \E kind \in Kinds : CancelMain(kind) \/ CancelCleanup(kind)
  \/ \E n \in Nodes : NodeStep(n)

Spec == Init /\ [][Next]_vars

\* The event loop runs every task that can step, delays and timeouts pass, and a call that
\* perform dropped ends. Nothing makes a device answer a call in time.
TaskSteps(n) ==
  /\ \/ EndsUnsent(n) \/ EndsLocally(n) \/ Begins(n)
     \/ Expires(n) \/ Interrupted(n) \/ CallDone(n)
     \/ task[n] = "dropping" /\ CallEnds(n, "cancelled")
     \/ \E how \in AbortResults : AbortDone(n, how)
  /\ OutsideNodes

\* ENABLED ExecutorStep, written out: what the executor awaits has happened.
ExecutorDue ==
  /\ outcome = "none"
  /\ \/ mode = "idle" \/ nudged
     \/ mode = "running" /\ Unrecorded # {}
     \/ mode = "draining" /\ Live = {}
     \/ mode = "over"

Fairness ==
  /\ []<>~ExecutorDue \/ []<><<ExecutorStep>>_vars     \* WF_vars(ExecutorStep)
  /\ WF_vars(CleanupExpires)
  /\ \A n \in Nodes : WF_vars(TaskSteps(n))

FairSpec == Spec /\ Fairness

-----------------------------------------------------------------------------
(* Properties *)

\* The types of the variables, and what the fields of RunState and _bounded may hold.
TypeOK ==
  /\ plan \in Plans
  /\ result \in [Nodes -> Statuses] /\ excused \in [Nodes -> BOOLEAN] /\ stop \in BOOLEAN
  /\ task \in [Nodes -> {"none"} \cup LiveTask \cup EndedTask]
  /\ call \in [Nodes -> {"none", "pending"} \cup CallResults]
  /\ told \in [Nodes -> BOOLEAN] /\ held \in [Nodes -> BOOLEAN] /\ lapsed \in [Nodes -> BOOLEAN]
  /\ interruption \in [Nodes -> {"none", "unsupported"} \cup AbortResults]
  /\ cur \in Graphs /\ mode \in {"idle", "running", "draining", "over"}
  /\ aborted \in BOOLEAN /\ hard \in BOOLEAN
  /\ nudged \in BOOLEAN /\ stopping \in BOOLEAN /\ overran \in BOOLEAN
  /\ cleaned \subseteq Cleanups /\ late \subseteq cleaned
  /\ outcome \in {"none", "completed", "aborted", "error", "cancelled"}
  /\ cancels \in 0..MaxCancels /\ arrived \subseteq Kinds

\* Whoever cancelled and whatever timed out, the work of a graph never outlives its run
\* (dag.py drain, dispatch.py _owned): the nodes alive belong to the graph being run, none
\* is alive once its runner returned, and a device call is pending only under its node.
OwnedUntilEnded ==
  /\ \A n \in Live : plan.home[n] = cur /\ mode \in {"running", "draining"} /\ outcome = "none"
  /\ \A n \in Nodes : call[n] = "pending" => n \in Live

\* A declined cancellation is final wherever it arrives: execute raises it, and
\* raises nothing the caller's predicate claimed (execute, drain, _bounded).
HardIsFinal ==
  /\ outcome # "none" => (outcome = "cancelled" <=> "hard" \in arrived)
  /\ outcome = "completed" => arrived = {}

\* The cleanup a run owes is decided by the attempts it made, whatever became of them, and
\* by how its main graph ended; only a cancellation during cleanup cuts it short.
Owed ==
  {k \in Cleanups :
    /\ \/ plan.when[k] = "always"
       \/ plan.when[k] \in {"failure", "failure_or_cancelled"} /\ Failures(RunState, 0) # {}
       \/ plan.when[k] \in {"cancelled", "failure_or_cancelled"} /\ aborted
    /\ Always \in plan.armed[k] \/ \E n \in plan.armed[k] : call[n] # "none"}

CleanupOwed ==
  /\ cleaned \subseteq Owed
  /\ outcome \notin {"none", "cancelled"} /\ ~stopping => cleaned = Owed

\* A report is returned as completed only if every required node of the main graph was
\* done or excused by an override, unless an optional fail-fast node stopped the run.
RequiredDone == \A n \in In(0) \ plan.optional : result[n] = "ok" \/ excused[n]
StoppedByOptional ==
  \E n \in In(0) \cap plan.optional : result[n] = "failed" /\ plan.policy[n] = "stop"
CompletedIsWhole == outcome = "completed" => RequiredDone \/ StoppedByOptional

\* WorkflowError: "Required main work failed or did not run" (execute): a completed
\* report means all required main work was done.
RequiredWorkReported == outcome = "completed" => RequiredDone

\* An execution whose main operations all have deadlines, and any execution that is
\* cancelled, ends although no device ever answers (_owned, _bounded, drain).
EveryRunEnds ==
  (In(0) \ plan.ordering \subseteq plan.timed \/ cancels > 0) ~> outcome # "none"

-----------------------------------------------------------------------------
(* Refinement of CommandRun.                                               *)

Phase ==
  IF outcome # "none" THEN "over"
  ELSE IF mode \in {"idle", "running"} THEN "open" ELSE "closed"

Run == INSTANCE CommandRun WITH
  graph <- cur, phase <- Phase, report <- result, cancelled <- arrived # {}

\* Whatever fails, times out or is cancelled: a device is called once, only for a node that is
\* due in a graph that is open, and what the report says of a node is final and true
\* (RunState, perform, drain, execute).
ImplementsCommandRun == Run!Spec

=============================================================================
