------------------------------ MODULE Controller ------------------------------
(***************************************************************************)
(* The server side of a sensorkit controller: admission, execution,        *)
(* interruption, abort and settlement of tasks, the resolver that selects  *)
(* the settled operating state, and the event-sourced state they publish.  *)
(*                                                                         *)
(* One asyncio process runs, concurrently: one request handler per execute *)
(* or abort call, one runner per admitted task, the task handlers          *)
(* themselves, and whoever calls report_state.  A step of this module is   *)
(* the code between two points where the event loop may switch.            *)
(*                                                                         *)
(* Every publication happens under the update lock of the event-sourced    *)
(* state.  The lock is represented by "update": the update in progress, or *)
(* None when the lock is free.                                             *)
(***************************************************************************)
EXTENDS Naturals, Sequences

CONSTANTS
  None,          \* absent value
  Targets,       \* known states a lifecycle task can establish (operate, standby, ...)
  Inputs,        \* submitted task contexts
  EmptyInput,    \* the context of a controller that was never commanded
  MaxRuns,       \* bound: task runs admitted
  Bounds         \* bound: how many task runs, reports (report_state and set_enable_state
                 \* calls), failed emissions or KV writes, and restarts go together

Recover == "recover"   \* RecoverTask: lifecycle, without a target
Collect == "collect"   \* any task that leaves the operating state alone
Tasks == Targets \cup {Recover, Collect}

Latched == {"UNKNOWN", "ERROR"}
States == Targets \cup Latched \cup {"TRANSITION"}

ASSUME ControllerAssumption ==
  /\ MaxRuns \in Nat
  /\ EmptyInput \in Inputs
  /\ Targets \cap (Latched \cup {"TRANSITION", Recover, Collect}) = {}
  /\ None \notin Targets

Runs == 1..MaxRuns
NoRun == 0

VARIABLES
  \* one TaskRun per admitted task, numbered in admission order
  task,          \* [Runs -> Tasks]
  input,         \* submitted_context
  pred,          \* the run it interrupts, or NoRun
  pc,            \* where its runner is
  cancel,        \* cancel_requested, and whether the CancelledError was delivered
  started,       \* start_time is set
  finish,        \* finish_info
  result,        \* how its runner ended
  call,          \* its execute call, as the client sees it
  \* the controller
  admitted,      \* runs admitted so far
  execution,     \* _execution: the latest accepted run not yet cleared
  states,        \* ControllerStateResolver
  freshLatch,    \* a latch was recorded after the last handler return
  woken,         \* an observation changed since the confirming run last looked
  \* the event-sourced state
  update,        \* the update holding the lock, or None
  memory,        \* ControllerState in this process
  stream,        \* the latest operating-state event on the event stream
  kv,            \* the snapshot in the KV store
  up,            \* the service is running
  \* bounds
  reports, faults, crashes,
  \* history: a crash hit lifecycle work that no later success has settled
  interrupted

runVars == <<task, input, pred, pc, cancel, started, finish, result, call>>
ctlVars == <<admitted, execution, states, freshLatch, woken>>
pubVars == <<update, memory, stream, kv>>
bounds == <<reports, faults, crashes>>
vars == <<runVars, ctlVars, pubVars, up, bounds, interrupted>>

-----------------------------------------------------------------------------
(* Tasks and runs.                                                         *)

TargetOf(t) == IF t \in Targets THEN t ELSE None
Lifecycle(t) == t # Collect

\* The runner's phases FINISHED: settlement has been applied.
Settled == {"publishing", "ending", "done"}
Live(r) == r # NoRun /\ pc[r] \notin {"none", "done"}
Transition(r) == Live(r) /\ Lifecycle(task[r]) /\ pc[r] \notin Settled

\* TaskRun.cancel: once, and before the runner's first step only the flag.
Cancel(r) ==
  cancel' = [cancel EXCEPT ![r] =
    IF @ # "no" THEN @
    ELSE IF pc[r] = "received" THEN "flag"
    ELSE IF pc[r] = "done" THEN "seen" ELSE "pending"]

-----------------------------------------------------------------------------
(* ControllerStateResolver.                                                *)

SettledOf(s) ==
  CASE s.latch # None -> s.latch
    [] s.latch = None /\ s.observed # None -> s.observed
    [] OTHER -> [state |-> s.inferred, input |-> s.commanded]

NewResolver(i, latched) ==
  [observed |-> None, inferred |-> "UNKNOWN", commanded |-> i,
   latch |-> IF latched THEN [state |-> "UNKNOWN", input |-> i] ELSE None]

RecordObserved(s, state, i) ==
  IF state \in Latched
  THEN [s EXCEPT !.latch = [state |-> state, input |-> SettledOf(s).input]]
  ELSE [s EXCEPT !.observed = [state |-> state, input |-> i]]

\* Variant: recovery treated like a task with a target.
RecordSuccessAnyTarget(s, t, i) ==
  [s EXCEPT !.latch = None, !.inferred = TargetOf(t), !.commanded = i]

RecordSuccess(s, t, i) ==
  IF TargetOf(t) = None
  THEN [s EXCEPT !.latch = None, !.inferred = "UNKNOWN"]
  ELSE [s EXCEPT !.latch = None, !.inferred = t, !.commanded = i]

RecordFinish(s, t, i, outcome, began) ==
  LET context == IF TargetOf(t) = None THEN SettledOf(s).input ELSE i
  IN CASE outcome = "success" -> RecordSuccess(s, t, i)
       [] outcome = "aborted" /\ ~began -> s
       [] outcome = "aborted" /\ began ->
            [s EXCEPT !.latch = [state |-> "UNKNOWN", input |-> context]]
       [] OTHER -> [s EXCEPT !.latch = [state |-> "ERROR", input |-> context]]

Confirms(s, t, i) == s.observed \in {None, [state |-> t, input |-> i]}

-----------------------------------------------------------------------------
(* The event-sourced state: events, and updates under the lock.            *)

InTransition(s, t, i) ==
  [current |-> "TRANSITION", target |-> TargetOf(t),
   input |-> IF TargetOf(t) = None THEN SettledOf(s).input ELSE i]

AtRest(s) ==
  [current |-> SettledOf(s).state, target |-> None, input |-> SettledOf(s).input]

View(op) == [current |-> op.current, target |-> op.target, input |-> op.input]

\* Variant: a transition begins when the runner begins to execute.
DerivedWhenExecuting(s, r, p) ==
  IF r # NoRun /\ Lifecycle(task[r]) /\ p \notin Settled \cup {"received", "interrupting"}
  THEN InTransition(s, task[r], input[r]) ELSE AtRest(s)

\* _derive_operating_state for run r as the newest, in phase p.
Derived(s, r, p) ==
  IF r # NoRun /\ Lifecycle(task[r]) /\ p \notin Settled
  THEN InTransition(s, task[r], input[r]) ELSE AtRest(s)

\* ControllerOperatingState.derive: previous rotates only when current changes.
OperatingEvent(v, previous) ==
  [field |-> "operating",
   value |-> [current |-> v.current, target |-> v.target, input |-> v.input,
              previous |-> previous]]

Derive(op, v) == OperatingEvent(v, op.previous \/ v.current # op.current)

OperatingChange(v) ==
  IF v = View(memory.operating) THEN <<>> ELSE <<Derive(memory.operating, v)>>

ExecutionEvent(status, r) == [field |-> "execution", value |-> [status |-> status, run |-> r]]

EnableEvent(b) == [field |-> "enabled", value |-> b]

\* EventSourcedState._apply sets one field of the model per event.
Apply(m, e) ==
  [enabled   |-> IF e.field = "enabled" THEN e.value ELSE m.enabled,
   execution |-> IF e.field = "execution" THEN e.value ELSE m.execution,
   operating |-> IF e.field = "operating" THEN e.value ELSE m.operating]

WithinBounds(n, r, f, c) == <<n, r, f, c>> \in Bounds

Free == up /\ update = None
Holds(by) == up /\ update # None /\ update.by = by
Begin(by, r, events) ==
  update' = [by |-> by, run |-> r, events |-> events, prior |-> memory.operating]

\* Every event emitted and the snapshot stored: the update returns.
Stored ==
  /\ update.events = <<>>
  /\ kv' = memory
  /\ UNCHANGED <<memory, stream, faults>>

\* An emission or the KV write raises; the field of the event is already set.
Raises ==
  /\ WithinBounds(admitted, reports, faults + 1, crashes)
  /\ faults' = faults + 1
  /\ memory' = IF update.events = <<>> THEN memory ELSE Apply(memory, Head(update.events))
  /\ UNCHANGED <<stream, kv>>

EmitEvent ==
  /\ up /\ update # None /\ update.events # <<>>
  /\ memory' = Apply(memory, Head(update.events))
  /\ stream' = IF Head(update.events).field = "operating" THEN Head(update.events).value ELSE stream
  /\ update' = [update EXCEPT !.events = Tail(@)]
  /\ UNCHANGED <<runVars, ctlVars, kv, up, bounds, interrupted>>

-----------------------------------------------------------------------------
(* Initial state: the first start of the service has stored its snapshot.  *)

InitialOperating ==
  [current |-> "UNKNOWN", target |-> None, input |-> EmptyInput, previous |-> FALSE]
InitialMemory ==
  [enabled |-> TRUE, execution |-> [status |-> "idle", run |-> NoRun],
   operating |-> InitialOperating]

Init ==
  /\ task = [r \in Runs |-> Collect]
  /\ input = [r \in Runs |-> EmptyInput]
  /\ pred = [r \in Runs |-> NoRun]
  /\ pc = [r \in Runs |-> "none"]
  /\ cancel = [r \in Runs |-> "no"]
  /\ started = [r \in Runs |-> FALSE]
  /\ finish = [r \in Runs |-> "aborted"]
  /\ result = [r \in Runs |-> "none"]
  /\ call = [r \in Runs |-> "none"]
  /\ admitted = 0 /\ execution = NoRun
  /\ states = NewResolver(EmptyInput, FALSE)
  /\ freshLatch = FALSE /\ woken = FALSE
  /\ update = None
  /\ memory = InitialMemory /\ kv = InitialMemory /\ stream = InitialOperating
  /\ up = TRUE
  /\ reports = 0 /\ faults = 0 /\ crashes = 0
  /\ interrupted = FALSE

-----------------------------------------------------------------------------
(* Execute calls: admission under the lock (_admit, _enter_transition).    *)

Predecessor == IF Live(execution) THEN execution ELSE NoRun

\* The rejections of _admit change nothing: only their negation is modelled.
Admissible(t, interrupt) ==
  /\ memory.enabled
  /\ Predecessor # NoRun => interrupt /\ (Transition(Predecessor) => Lifecycle(t))

\* The run is installed before the lock is released and the call accepted.
Install(n) ==
  /\ pc' = [pc EXCEPT ![n] = "received"]
  /\ call' = [call EXCEPT ![n] = "accepted"]
  /\ admitted' = n
  /\ execution' = n

BeginAdmit(t, i, interrupt) ==
  LET n == admitted + 1
      change == IF Lifecycle(t) THEN OperatingChange(InTransition(states, t, i)) ELSE <<>>
  IN /\ Free /\ admitted < MaxRuns /\ WithinBounds(admitted + 1, reports, faults, crashes)
     /\ Admissible(t, interrupt)
     /\ TargetOf(t) = None => i = EmptyInput   \* else its input is never published
     /\ task' = [task EXCEPT ![n] = t]
     /\ input' = [input EXCEPT ![n] = i]
     /\ pred' = [pred EXCEPT ![n] = Predecessor]
     /\ IF change = <<>>
        THEN Install(n) /\ UNCHANGED update
        ELSE Begin("admit", n, change) /\ UNCHANGED <<pc, call, admitted, execution>>
     /\ UNCHANGED <<cancel, started, finish, result, states, freshLatch, woken,
                    memory, stream, kv, up, bounds, interrupted>>

Admit ==
  /\ Holds("admit")
  /\ Stored
  /\ Install(update.run)
  /\ update' = None
  /\ UNCHANGED <<task, input, pred, cancel, started, finish, result,
                 states, freshLatch, woken, up, reports, crashes, interrupted>>

\* The transition could not be published, or the call was canceled meanwhile:
\* the prior state is published again and the call is rejected.
AdmitFails ==
  /\ Holds("admit")
  /\ \/ Raises
     \/ /\ WithinBounds(admitted, reports, faults + 1, crashes) /\ faults' = faults + 1
        /\ update.events = <<>> /\ kv' = memory /\ UNCHANGED <<memory, stream>>
  /\ update' = [update EXCEPT !.by = "restore",
       !.events = <<OperatingEvent(View(update.prior), update.prior.previous)>>]
  /\ UNCHANGED <<runVars, ctlVars, up, reports, crashes, interrupted>>

\* Failures while restoring are suppressed; the rejected run leaves no trace.
Restore ==
  /\ Holds("restore")
  /\ Stored \/ Raises
  /\ update' = None
  /\ task' = [task EXCEPT ![update.run] = Collect]
  /\ input' = [input EXCEPT ![update.run] = EmptyInput]
  /\ pred' = [pred EXCEPT ![update.run] = NoRun]
  /\ UNCHANGED <<pc, cancel, started, finish, result, call, ctlVars,
                 up, reports, crashes, interrupted>>

\* progress_from_task fails or the call is canceled: its run is canceled.
CallBreaks(r) ==
  /\ up /\ call[r] = "accepted" /\ Live(r)
  /\ call' = [call EXCEPT ![r] = "broken"]
  /\ Cancel(r)
  /\ UNCHANGED <<task, input, pred, pc, started, finish, result, ctlVars, pubVars,
                 up, bounds, interrupted>>

\* Variant: a broken call ends without joining its runner.
CallEndsUnjoined(r) ==
  /\ up
  /\ call[r] = "broken" \/ (pc[r] = "done" /\ call[r] = "accepted")
  /\ call' = [call EXCEPT ![r] =
       IF @ = "accepted" /\ result[r] = "success" THEN "succeeded" ELSE "failed"]
  /\ execution' = IF execution = r THEN NoRun ELSE execution
  /\ UNCHANGED <<task, input, pred, pc, cancel, started, finish, result,
                 admitted, states, freshLatch, woken, pubVars, up, bounds, interrupted>>

\* The final event of the call follows the end of its runner.
CallEnds(r) ==
  /\ up /\ pc[r] = "done" /\ call[r] \in {"accepted", "broken"}
  /\ call' = [call EXCEPT ![r] =
       IF @ = "accepted" /\ result[r] = "success" THEN "succeeded" ELSE "failed"]
  /\ execution' = IF execution = r THEN NoRun ELSE execution
  /\ UNCHANGED <<task, input, pred, pc, cancel, started, finish, result,
                 admitted, states, freshLatch, woken, pubVars, up, bounds, interrupted>>

-----------------------------------------------------------------------------
(* A run's runner (_run_execution).                                        *)

Goto(r, p) == pc' = [pc EXCEPT ![r] = p]
Finish(r, outcome) == finish' = [finish EXCEPT ![r] = outcome]
Consume(r) == cancel' = [cancel EXCEPT ![r] = IF @ = "pending" THEN "seen" ELSE @]
UnchangedByRunner == UNCHANGED <<task, input, pred, call, admitted, execution, memory,
                                 stream, kv, up, bounds, interrupted>>

\* Variant: a cancellation requested before the first step is forgotten.
ExecuteRegardless(r) ==
  IF cancel[r] # "pending"
  THEN Goto(r, "starting") /\ started' = [started EXCEPT ![r] = TRUE]
  ELSE Goto(r, "settling") /\ UNCHANGED started

\* TaskRun.execute: a cancellation requested so far prevents the start.
Execute(r) ==
  IF cancel[r] = "no"
  THEN Goto(r, "starting") /\ started' = [started EXCEPT ![r] = TRUE]
  ELSE Goto(r, "settling") /\ UNCHANGED started

FirstStep(r) ==
  /\ up /\ pc[r] = "received"
  /\ IF pred[r] = NoRun
     THEN Execute(r) /\ UNCHANGED cancel
     ELSE Goto(r, "interrupting") /\ Cancel(pred[r]) /\ UNCHANGED started
  /\ UNCHANGED <<finish, result, states, freshLatch, woken, update>>
  /\ UnchangedByRunner

\* A predecessor that raised fails this run, which never starts.
JoinPredecessor(r) ==
  /\ up /\ pc[r] = "interrupting" /\ pc[pred[r]] = "done"
  /\ IF result[pred[r]] = "failed"
     THEN Goto(r, "settling") /\ Finish(r, "failed") /\ UNCHANGED started
     ELSE Execute(r) /\ UNCHANGED finish
  /\ Consume(r)
  /\ UNCHANGED <<result, states, freshLatch, woken, update>>
  /\ UnchangedByRunner

\* _publish_start, once the lock is granted.
BeginStart(r) ==
  /\ Free /\ pc[r] = "starting" /\ cancel[r] # "pending"
  /\ Begin("start", r, <<ExecutionEvent("executing", r)>>)
  /\ UNCHANGED <<pc, cancel, started, finish, result, states, freshLatch, woken>>
  /\ UnchangedByRunner

CanceledBeforeStart(r) ==
  /\ up /\ pc[r] = "starting" /\ cancel[r] = "pending"
  /\ ~(Holds("start") /\ update.run = r)
  /\ Goto(r, "settling") /\ Consume(r)
  /\ UNCHANGED <<started, finish, result, states, freshLatch, woken, update>>
  /\ UnchangedByRunner

Start ==
  LET r == update.run IN
  /\ Holds("start")
  /\ \/ Stored /\ Goto(r, IF cancel[r] = "pending" THEN "settling" ELSE "handler")
        /\ UNCHANGED finish
     \/ Raises /\ Goto(r, "settling") /\ Finish(r, "failed")
  /\ Consume(r)
  /\ update' = None
  /\ UNCHANGED <<task, input, pred, started, result, call, ctlVars,
                 up, reports, crashes, interrupted>>

\* The task handler, supplied by a driver, returns, raises or ends canceled.
InHandler(r) == up /\ pc[r] = "handler" /\ ~(Holds("context") /\ update.run = r)

\* With _confirm_observed_state up to its first wait.
HandlerReturns(r) ==
  /\ InHandler(r)
  /\ IF TargetOf(task[r]) = None \/ Confirms(states, task[r], input[r])
     THEN Goto(r, "settling") /\ Finish(r, "success")
     ELSE Goto(r, "confirming") /\ UNCHANGED finish
  /\ Consume(r)
  /\ freshLatch' = FALSE /\ woken' = FALSE
  /\ UNCHANGED <<started, result, states, update>>
  /\ UnchangedByRunner

HandlerFails(r) ==
  /\ InHandler(r)
  /\ Goto(r, "settling") /\ Finish(r, "failed") /\ Consume(r)
  /\ UNCHANGED <<started, result, states, freshLatch, woken, update>>
  /\ UnchangedByRunner

\* The cancellation ends the handler, at once or after its own cleanup.
HandlerCanceled(r) ==
  /\ InHandler(r) /\ cancel[r] \in {"pending", "seen"}
  /\ Goto(r, "settling") /\ Consume(r)
  /\ UNCHANGED <<started, finish, result, states, freshLatch, woken, update>>
  /\ UnchangedByRunner

\* A handler that catches its cancellation goes on.
HandlerSwallows(r) ==
  /\ InHandler(r) /\ cancel[r] = "pending"
  /\ Consume(r)
  /\ UNCHANGED <<pc, started, finish, result, states, freshLatch, woken, update>>
  /\ UnchangedByRunner

\* Variant: the update always publishes an executing, unaborted execution.
BeginUpdateContextExecuting(r) ==
  /\ Free /\ InHandler(r) /\ cancel[r] # "pending"
  /\ memory.execution.status \in {"executing", "aborting"}
  /\ Begin("context", r, <<ExecutionEvent("executing", memory.execution.run)>>)
  /\ UNCHANGED <<pc, cancel, started, finish, result, states, freshLatch, woken>>
  /\ UnchangedByRunner

\* update_context, called by the handler: the published flags are kept.
BeginUpdateContext(r) ==
  /\ Free /\ InHandler(r) /\ cancel[r] # "pending"
  /\ memory.execution.status \in {"executing", "aborting"}
  /\ Begin("context", r, <<ExecutionEvent(memory.execution.status, memory.execution.run)>>)
  /\ UNCHANGED <<pc, cancel, started, finish, result, states, freshLatch, woken>>
  /\ UnchangedByRunner

\* Cancellation of the handler abandons the update where it is.
UpdateContext ==
  /\ Holds("context")
  /\ \/ Stored \/ Raises
     \/ cancel[update.run] = "pending" /\ UNCHANGED <<memory, stream, kv, faults>>
  /\ update' = None
  /\ UNCHANGED <<runVars, ctlVars, up, reports, crashes, interrupted>>

\* wait_until_observed, woken by a report: a new latch fails the task even when
\* the target is observed as well.
ConfirmWakes(r) ==
  /\ up /\ pc[r] = "confirming" /\ woken /\ cancel[r] # "pending"
  /\ \/ freshLatch /\ Goto(r, "settling") /\ Finish(r, "failed")
     \/ /\ ~freshLatch /\ Confirms(states, task[r], input[r])
        /\ Goto(r, "settling") /\ Finish(r, "success")
     \/ /\ ~freshLatch /\ ~Confirms(states, task[r], input[r])
        /\ UNCHANGED <<pc, finish>>
  /\ woken' = FALSE
  /\ UNCHANGED <<cancel, started, result, states, freshLatch, update>>
  /\ UnchangedByRunner

ConfirmTimesOut(r) ==
  /\ up /\ pc[r] = "confirming" /\ cancel[r] # "pending"
  /\ Goto(r, "settling") /\ Finish(r, "failed")
  /\ UNCHANGED <<cancel, started, result, states, freshLatch, woken, update>>
  /\ UnchangedByRunner

ConfirmCanceled(r) ==
  /\ up /\ pc[r] = "confirming" /\ cancel[r] = "pending"
  /\ Goto(r, "settling") /\ Consume(r)
  /\ UNCHANGED <<started, finish, result, states, freshLatch, woken, update>>
  /\ UnchangedByRunner

\* Variant: only the observed state is compared when settling.
MismatchObserved(r) ==
  /\ Lifecycle(task[r]) /\ finish[r] = "success"
  /\ TargetOf(task[r]) # None /\ ~Confirms(states, task[r], input[r])

\* _settle: reports may have arrived while waiting for the lock.
Mismatch(r) ==
  /\ Lifecycle(task[r]) /\ finish[r] = "success"
  /\ \/ states.latch # None /\ freshLatch
     \/ TargetOf(task[r]) # None /\ ~Confirms(states, task[r], input[r])

SettledOutcome(r) == IF Mismatch(r) THEN "failed" ELSE finish[r]

SettledStates(r) ==
  IF Lifecycle(task[r])
  THEN RecordFinish(states, task[r], input[r], SettledOutcome(r), started[r])
  ELSE states

\* The phase of the newest run when run r publishes its finish.
NewestPhase(r) == IF execution = r THEN "publishing" ELSE
                  IF execution = NoRun THEN "none" ELSE pc[execution]

\* Variant: the finishing run is taken for the newest.
FinishEventsOwn(r) ==
  (IF started[r] THEN <<ExecutionEvent("finished", r)>> ELSE <<>>)
    \o OperatingChange(Derived(SettledStates(r), r, "publishing"))

\* Variant: only a completed task is published as finished.
FinishEventsCompleted(r) ==
  (IF started[r] /\ finish[r] = "success" THEN <<ExecutionEvent("finished", r)>> ELSE <<>>)
    \o OperatingChange(Derived(SettledStates(r), execution, NewestPhase(r)))

\* Variant: the operating state follows a published finish only.
FinishEventsStarted(r) ==
  IF started[r]
  THEN <<ExecutionEvent("finished", r)>>
         \o OperatingChange(Derived(SettledStates(r), execution, NewestPhase(r)))
  ELSE <<>>

FinishEvents(r) ==
  (IF started[r] THEN <<ExecutionEvent("finished", r)>> ELSE <<>>)
    \o OperatingChange(Derived(SettledStates(r), execution, NewestPhase(r)))

\* _publish_finish, once the lock is granted; cancellation is deferred.
BeginFinish(r) ==
  /\ Free /\ pc[r] = "settling"
  /\ Finish(r, SettledOutcome(r))
  /\ states' = SettledStates(r)
  /\ freshLatch' = FALSE /\ woken' = FALSE
  /\ IF FinishEvents(r) = <<>>
     THEN Goto(r, "ending") /\ UNCHANGED update
     ELSE Goto(r, "publishing") /\ Begin("finish", r, FinishEvents(r))
  /\ interrupted' = (interrupted /\ ~(Lifecycle(task[r]) /\ SettledOutcome(r) = "success"))
  /\ UNCHANGED <<task, input, pred, cancel, started, result, call, admitted, execution,
                 memory, stream, kv, up, bounds>>

\* A publication that raises makes the runner raise.
PublishFinish ==
  LET r == update.run IN
  /\ Holds("finish")
  /\ Goto(r, "ending")
  /\ \/ Stored /\ UNCHANGED result
     \/ Raises /\ result' = [result EXCEPT ![r] = "failed"]
  /\ update' = None
  /\ UNCHANGED <<task, input, pred, cancel, started, finish, call, ctlVars,
                 up, reports, crashes, interrupted>>

\* The runner ends after the lock was released: a cancellation requested until
\* now still cancels it, whatever was published.
RunEnds(r) ==
  /\ up /\ pc[r] = "ending"
  /\ Goto(r, "done")
  /\ result' = [result EXCEPT ![r] =
       IF @ = "failed" \/ finish[r] = "failed" THEN "failed"
       ELSE IF cancel[r] = "pending" \/ finish[r] = "aborted" THEN "canceled" ELSE "success"]
  /\ Consume(r)
  /\ UNCHANGED <<started, finish, states, freshLatch, woken, update>>
  /\ UnchangedByRunner

-----------------------------------------------------------------------------
(* Abort calls (_abort_request).                                           *)

\* Names the latest accepted execution, or any; a mismatch is rejected and
\* changes nothing.
BeginAbort ==
  LET r == execution
      published == /\ memory.execution.status \in {"executing", "aborting"}
                   /\ memory.execution.run = r
  IN /\ Free /\ Live(r)
     /\ IF published
        THEN Begin("abort", r, <<ExecutionEvent("aborting", r)>>) /\ UNCHANGED cancel
        ELSE Cancel(r) /\ UNCHANGED update
     /\ UNCHANGED <<task, input, pred, pc, started, finish, result, call, ctlVars,
                    memory, stream, kv, up, bounds, interrupted>>

\* A failed publication raises before the target is canceled.
Abort ==
  /\ Holds("abort")
  /\ \/ Stored /\ Cancel(update.run)
     \/ Raises /\ UNCHANGED cancel
  /\ update' = None
  /\ UNCHANGED <<task, input, pred, pc, started, finish, result, call, ctlVars,
                 up, reports, crashes, interrupted>>

-----------------------------------------------------------------------------
(* Reports of the hardware state (report_state) and the enable state.      *)

\* Only a run whose handler returned compares latches or waits to be woken.
Returned(r) == pc[r] \in {"confirming", "settling"}

Report(state, i) ==
  LET next == RecordObserved(states, state, i)
      change == OperatingChange(
                  Derived(next, execution, IF execution = NoRun THEN "none" ELSE pc[execution]))
  IN /\ Free /\ WithinBounds(admitted, reports + 1, faults, crashes)
     /\ reports' = reports + 1
     /\ states' = next
     /\ freshLatch' = (freshLatch \/ (state \in Latched /\ \E r \in Runs : Returned(r)))
     /\ woken' = (woken \/ ((state \in Latched \/ next # states)
                             /\ \E r \in Runs : pc[r] = "confirming"))
     /\ IF change = <<>> THEN UNCHANGED update ELSE Begin("report", NoRun, change)
     /\ UNCHANGED <<runVars, admitted, execution, memory, stream, kv, up, faults,
                    crashes, interrupted>>

\* The request was compared with the enable state before the lock was granted,
\* so it may publish the value it finds.
BeginSetEnable(b) ==
  /\ Free /\ WithinBounds(admitted, reports + 1, faults, crashes)
  /\ reports' = reports + 1
  /\ Begin("enable", NoRun, <<EnableEvent(b)>>)
  /\ UNCHANGED <<runVars, ctlVars, memory, stream, kv, up, faults, crashes, interrupted>>

\* Publications after which their caller has nothing left to do to the state.
Published ==
  /\ Holds("report") \/ Holds("enable")
  /\ Stored \/ Raises
  /\ update' = None
  /\ UNCHANGED <<runVars, ctlVars, up, reports, crashes, interrupted>>

-----------------------------------------------------------------------------
(* The service stops between any two steps and starts again.               *)

\* Lifecycle work may have reached the hardware and has not settled.
Unsettled(r) == Lifecycle(task[r]) /\ started[r] /\ pc[r] \notin Settled

Crash ==
  /\ up /\ WithinBounds(admitted, reports, faults, crashes + 1)
  /\ crashes' = crashes + 1
  /\ up' = FALSE
  /\ interrupted' = (interrupted \/ \E r \in Runs : Live(r) /\ Unsettled(r))
  /\ pc' = [r \in Runs |-> IF pc[r] = "none" THEN "none" ELSE "done"]
  /\ result' = [r \in Runs |-> IF pc[r] = "none" THEN "none" ELSE "lost"]
  /\ call' = [r \in Runs |-> IF call[r] \in {"accepted", "broken"} THEN "lost" ELSE call[r]]
  /\ task' = [r \in Runs |-> Collect] /\ input' = [r \in Runs |-> EmptyInput]
  /\ pred' = [r \in Runs |-> NoRun] /\ cancel' = [r \in Runs |-> "no"]
  /\ started' = [r \in Runs |-> FALSE] /\ finish' = [r \in Runs |-> "aborted"]
  /\ execution' = NoRun
  /\ states' = NewResolver(EmptyInput, FALSE)
  /\ freshLatch' = FALSE /\ woken' = FALSE
  /\ update' = None /\ memory' = InitialMemory
  /\ UNCHANGED <<admitted, stream, kv, reports, faults>>

\* Variant: an interrupted transition is recognized by its target.
RecoverLatchedByTarget(op) ==
  IF op.current \in Targets \cup {"TRANSITION"} THEN op.target # None
  ELSE ~(op.current = "UNKNOWN" /\ ~op.previous /\ op.target = None)

\* init_impl: which recovered states stay latched.
RecoverLatched(op) ==
  IF op.current \in Targets THEN op.target # None
  ELSE ~(op.current = "UNKNOWN" /\ ~op.previous /\ op.target = None)

StartupEvents(m) ==
  IF m.operating.current = "UNKNOWN" /\ m.operating.target = None /\
     m.execution.status \notin {"executing", "aborting"}
  THEN <<>>
  ELSE (IF m.execution.status \in {"executing", "aborting"}
        THEN <<ExecutionEvent("finished", m.execution.run)>> ELSE <<>>)
         \o <<Derive(m.operating, [current |-> "UNKNOWN", target |-> None,
                                    input |-> m.operating.input])>>

\* ControllerState.recover reads the snapshot; _normalize_startup_state begins.
Restart ==
  /\ ~up
  /\ up' = TRUE
  /\ memory' = kv
  /\ states' = NewResolver(kv.operating.input, RecoverLatched(kv.operating))
  /\ IF StartupEvents(kv) = <<>>
     THEN UNCHANGED update
     ELSE update' = [by |-> "startup", run |-> NoRun, events |-> StartupEvents(kv),
                     prior |-> kv.operating]
  /\ UNCHANGED <<runVars, admitted, execution, freshLatch, woken, stream, kv, bounds,
                 interrupted>>

\* The service attaches, and takes requests, once its state is normalized.
Normalized ==
  /\ Holds("startup")
  /\ \/ Stored /\ UNCHANGED up
     \/ Raises /\ up' = FALSE
  /\ update' = None
  /\ UNCHANGED <<runVars, ctlVars, reports, crashes, interrupted>>

-----------------------------------------------------------------------------
RunStep(r) ==
  \/ FirstStep(r) \/ JoinPredecessor(r)
  \/ BeginStart(r) \/ CanceledBeforeStart(r)
  \/ HandlerReturns(r) \/ HandlerFails(r) \/ HandlerCanceled(r)
  \/ HandlerSwallows(r) \/ BeginUpdateContext(r)
  \/ ConfirmWakes(r) \/ ConfirmTimesOut(r) \/ ConfirmCanceled(r)
  \/ BeginFinish(r) \/ RunEnds(r)

CallStep(r) == CallBreaks(r) \/ CallEnds(r)

UpdateStep ==
  \/ EmitEvent
  \/ Admit \/ AdmitFails \/ Restore
  \/ Start \/ UpdateContext \/ PublishFinish
  \/ Abort \/ Published \/ Normalized

Next ==
  \/ \E t \in Tasks, i \in Inputs, interrupt \in BOOLEAN : BeginAdmit(t, i, interrupt)
  \/ \E r \in Runs : RunStep(r) \/ CallStep(r)
  \/ UpdateStep
  \/ BeginAbort
  \/ \E state \in Targets \cup Latched, i \in Inputs : Report(state, i)
  \/ \E b \in BOOLEAN : BeginSetEnable(b)
  \/ Crash \/ Restart

Spec == Init /\ [][Next]_vars

\* What the event loop runs as soon as it can: the holder of the state lock, a
\* restart, and the runners and calls that wait for nothing.
Serve ==
  \/ EmitEvent \/ Admit \/ Restore \/ Start \/ UpdateContext \/ PublishFinish
  \/ Abort \/ Published \/ Normalized \/ Restart

Advance(r) ==
  \/ FirstStep(r) \/ JoinPredecessor(r) \/ CanceledBeforeStart(r)
  \/ ConfirmTimesOut(r) \/ ConfirmCanceled(r) \/ RunEnds(r) \/ CallEnds(r)

\* asyncio.Lock is granted in FIFO order, so a runner gets it although others
\* take it meanwhile; a handler is only assumed to end once its cancellation is
\* delivered.
Fairness ==
  /\ WF_vars(Serve)
  /\ \A r \in Runs : /\ WF_vars(Advance(r))
                     /\ SF_vars(BeginStart(r) \/ HandlerCanceled(r) \/ BeginFinish(r))

FairSpec == Spec /\ Fairness

-----------------------------------------------------------------------------
(* Properties.                                                             *)

RunStages == {"none", "received", "interrupting", "starting", "handler", "confirming",
              "settling", "publishing", "ending", "done"}
StateInput == [state : States \ {"TRANSITION"}, input : Inputs]
Resolvers == [observed : StateInput \cup {None}, inferred : States \ {"TRANSITION"},
              commanded : Inputs, latch : StateInput \cup {None}]
Operating == [current : States, target : Targets \cup {None}, input : Inputs,
              previous : BOOLEAN]
Execution == [status : {"idle", "executing", "aborting", "finished"}, run : Runs \cup {NoRun}]
Memories == [enabled : BOOLEAN, execution : Execution, operating : Operating]
Events == [field : {"enabled"}, value : BOOLEAN] \cup
          [field : {"execution"}, value : Execution] \cup
          [field : {"operating"}, value : Operating]
Holders == {"admit", "restore", "start", "context", "finish", "abort", "report", "enable",
            "startup"}
Updates == [by : Holders, run : Runs \cup {NoRun}, events : Seq(Events), prior : Operating]

\* None is no record.
ASSUME NoneAssumption == None \notin StateInput /\ None \notin Updates

\* The types of the state (TaskRun, ControllerStateResolver, ControllerState).
TypeOK ==
  /\ task \in [Runs -> Tasks] /\ input \in [Runs -> Inputs]
  /\ pred \in [Runs -> Runs \cup {NoRun}]
  /\ pc \in [Runs -> RunStages]
  /\ cancel \in [Runs -> {"no", "flag", "pending", "seen"}]
  /\ started \in [Runs -> BOOLEAN]
  /\ finish \in [Runs -> {"aborted", "success", "failed"}]
  /\ result \in [Runs -> {"none", "success", "canceled", "failed", "lost"}]
  /\ call \in [Runs -> {"none", "accepted", "broken", "succeeded", "failed", "lost"}]
  /\ admitted \in 0..MaxRuns /\ execution \in Runs \cup {NoRun}
  /\ states \in Resolvers
  /\ freshLatch \in BOOLEAN /\ woken \in BOOLEAN
  /\ update \in Updates \cup {None}
  /\ memory \in Memories /\ kv \in Memories /\ stream \in Operating
  /\ up \in BOOLEAN
  /\ reports \in Nat /\ faults \in Nat /\ crashes \in Nat
  /\ interrupted \in BOOLEAN

Waiting == {"received", "interrupting"}
Working == {"starting", "handler", "confirming", "settling", "publishing"}
Handling(r) == pc[r] \in {"handler", "confirming"}

\* A run past joining its predecessor is alone: every run admitted before it has
\* ended, settlement included, and every later one still waits for it, however
\* interruptions, aborts and broken calls follow each other (_run_execution).
SerialHandlers ==
  \A r, s \in Runs : r < s /\ Live(r) => pc[s] \in Waiting \cup {"none"}

\* With the lock free, the operating state in memory is the one derived from the
\* newest run and the settled state (_publish_operating_state).  A publication
\* that raised may leave an old transition in place, never an achieved state.
PublishedState ==
  Free => \/ View(memory.operating) =
                Derived(states, execution, IF execution = NoRun THEN "none" ELSE pc[execution])
          \/ faults > 0 /\ memory.operating.current = "TRANSITION"

\* While the handler of a lifecycle task runs or awaits confirmation, no client
\* has been shown a known state as the latest one (_enter_transition).
NoKnownStateInTransition ==
  \A r \in Runs : Handling(r) /\ Lifecycle(task[r]) => stream.current \notin Targets

\* The published execution is the run whose handler runs, and no run that ended,
\* in whatever way, stays published as executing (_publish_start,
\* _publish_finish, update_context, _abort_request).
ExecutionOwned ==
  up /\ ~Holds("startup") =>
    /\ \A r \in Runs : Handling(r) => /\ memory.execution.run = r
                                       /\ memory.execution.status \in {"executing", "aborting"}
    /\ memory.execution.status \in {"executing", "aborting"} =>
         pc[memory.execution.run] \in Working

\* What the controller shows of itself is what it does.
PublicationHonest == PublishedState /\ NoKnownStateInTransition /\ ExecutionOwned

\* A crash in the middle of lifecycle work leaves the controller latched after
\* any number of restarts, until a lifecycle task succeeds: no report of a known
\* state makes the interrupted hardware pass for settled (init_impl).
InterruptionLatched == up /\ interrupted => states.latch # None

\* A lifecycle task finishes successfully only when the controller is settled at
\* its target and input, whatever was reported since its handler returned, and
\* no latch recorded since is cleared by it (_settle).
SettlementHonest ==
  [][\A r \in Runs :
       pc[r] = "settling" /\ pc'[r] \in {"publishing", "ending"} /\ Lifecycle(task[r]) =>
         /\ freshLatch => states'.latch # None
         /\ finish'[r] = "success" /\ TargetOf(task[r]) # None =>
              SettledOf(states') = [state |-> task[r], input |-> input[r]]]_vars

\* A published abort stays published until the execution is finished, and a
\* finished execution is never published again (update_context, _abort_request).
AbortingHeld ==
  [][up /\ up' /\ memory'.execution.run = memory.execution.run =>
       /\ memory.execution.status = "aborting" =>
            memory'.execution.status \in {"aborting", "finished"}
       /\ memory.execution.status = "finished" => memory'.execution.status = "finished"]_vars

\* A canceled run ends, whether canceled by an abort, by an interruption or by
\* its broken call, and wherever it is when that happens (TaskRun.cancel).
CancelTakesEffect ==
  \A r \in Runs : (call[r] # "none" /\ cancel[r] # "no") ~> (pc[r] = "done")

\* A published transition ends, unless a handler keeps running uncanceled.
TransitionEnds ==
  (up /\ stream.current = "TRANSITION") ~>
    (stream.current # "TRANSITION" \/ \E r \in Runs : pc[r] = "handler" /\ cancel[r] = "no")

-----------------------------------------------------------------------------
(* Refinement of SerialExecution.                                          *)

StageOf(p) ==
  CASE p = "none" -> "none"
    [] p \in Waiting -> "waiting"
    [] p = "done" -> "ended"
    [] OTHER -> "turn"

ReplyOf(c) == IF c \in {"accepted", "broken"} THEN "open" ELSE c

Serial == INSTANCE SerialExecution WITH
  stage <- [r \in Runs |-> StageOf(pc[r])],
  reply <- [r \in Runs |-> ReplyOf(call[r])]

\* Tasks take turns in admission order, one at a time, settlement included, and a
\* call is answered once, after its task ended, whatever the interleaving of
\* admissions, interruptions, aborts and restarts (_admit, _run_execution,
\* _execute_request).
ImplementsSerialExecution == Serial!Spec


\* The state recovered at a restart is the latest published one, as the comment
\* in EventSourcedState.recover has it (state.py).
RecoveredIsLatest ==
  [][~up /\ up' => memory'.operating = stream]_vars
=============================================================================
