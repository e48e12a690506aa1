# A TLA+ development of sensorkit

sensorkit runs telescopes and other sensors: hardware drivers expose *controllers*,
programs produce *tasks* for them, and an *agent* decides which controllers should
operate. Everything is Python asyncio around a message backend (NATS). This directory
models its control plane, checks it with TLC and proves part of it with TLAPS.

Paths below are relative to `core/src/sensorkit/`.

## 1. The system

| Component | State it keeps | Operations | What is hard |
|---|---|---|---|
| Controller server (`core/impl/controller.py`) | the latest accepted `TaskRun`, one runner per run, the state resolver (observed, inferred, latch), the published `ControllerState` | execute, abort, enable, `report_state`, `update_context`, startup | interruption chains, cancellation at any await, reports during settlement, failed publications, restarts |
| Event-sourced state (`core/state.py`) | model in memory, event stream, KV snapshot, update lock | `update`, `updating`, `recover`, `event_stream` | the three copies differ between steps and after a crash |
| Long calls (`backend/request.py`) | a call's reply, its progress and end events | invoke, accept, reject, progress, succeed, fail | first-event timeout, lost replies, late end events |
| Event subscriptions (`backend/event.py`) | bounded queues per subscriber | subscribe, consume, drain | overflow, snapshot followed by stream |
| Leases (`backend/lease.py`) | key with TTL and revision, refresh schedule | acquire, refresh, expire | refresh answered after expiry, group release that fails partly |
| Task calls and tasking loop (`core/executor.py`) | call outcome, loop stage, fault, execution report | send, abort, follow; produce, dispatch, stop, finalize | unknown outcomes, stop during dispatch, publication order |
| Program server and client (`core/impl/program.py`, `core/program.py`) | enable, active and tasking state, current loop and its finalizer | enable, start, stop, abort, monitor a session | stop of an old session, finalizer against start, stale reads before the state lock |
| Lifecycle session (`auto/lifecycle.py`, `reactor.py`, `procedures.py`) | demand, current procedure, unresolved work | demand, interrupt, operate, standby, shutdown, recover | one procedure at a time, escalation, work that may still run |
| Supervision (`auto/supervisor.py`) | newest processed state, expectation, grace deadline | expect, confirm, invalidate, refresh | events out of order, deadline races |
| Failure state (`auto/failure.py`) | failures, attempts, retry time, stable time | record, expire, clear | boundaries, escalation to emergency shutdown |
| Agent (`auto/agent.py`) | `AgentState`, configuration lock | configure, publish loop, startup | events derived before the lock is granted |
| Virtual operator and election (`auto/operator.py`, `common/graph.py`) | votes, demand per controller, programs wanted | evaluate, drive programs, retry | dependency order, stale retries |
| Constraints (`auto/constraint.py`) | constrained, hold, timeout | constrain, clear, restart | holds across restarts |
| Workflows (`sensor/dispatch.py`, `execution.py`, `common/dag.py`) | node results, running commands | dispatch, abort, clean up | dropped commands, bounded cleanup |
| Async utilities (`common/aio.py`) | subscriber queues, deferred cancellation | notify, subscribe, close | overflow policies |

How they interact: the virtual operator turns votes into a demand for each controller's
lifecycle session. The session's reactor runs one procedure at a time; a procedure sends
lifecycle tasks as task calls and starts or stops program tasking. A task call is a long
call to the controller server: a request, a reply, then events on the entity's stream.
The controller publishes its state as events and a KV snapshot; the session's monitor
and supervisor watch them and report failures to the failure state, which decides on
retry, recovery or emergency shutdown. A program's tasking loop produces the tasks for a
controller in OPERATE.

`PROJECT.json` lists every component, the ones not modelled too, and every hazard of the
code at its line.

What makes each component correct, in one sentence:

- controller: one handler at a time, and what is published is what is happening;
- event-sourced state: memory, stream and snapshot agree whenever the lock is free and nothing failed;
- long calls and task calls: an outcome reported as final is final, and an unknown one is reported as unknown;
- programs: one session at a time, and a stop affects only the session it names;
- lifecycle sessions: no two procedures command a controller at once, and no work is forgotten;
- supervision and failures: each incident counts once, and enough of them lead to recovery, then to emergency shutdown;
- agent: a configuration that was answered stays in force;
- leases: at most one holder, and a holder that lost its lease learns of it.

## 2. Plan

Done, most important first:

1. `Controller`, `SerialExecution` (abstract), `ControllerProofs`, `ControllerPublicationProofs`.
2. `Agent`, `AgentProofs`: configure requests, publish loop and restart over the
   event-sourced state.
3. `LongCall`, `LongCallProofs`: request, reply, events and deadlines over a lossy backend.
4. `Workflow`, `CommandRun` (abstract), `WorkflowProofs`: a command graph, the calls it makes, their
   aborts, and the cleanup it owes.
5. `Program`, `ProgramProofs`: enablement, sessions and their finalizer, composed with the tasking loop and
   its task calls.
6. `Session`, `SessionProofs`: lifecycle, reactor, procedures, supervision and failure state
   of one controller, composed with a controller (the stages of `SerialExecution`, and its
   published state) and with a program as its client sees it.
7. `Service`, `ServiceProofs`: leases, the service that holds them and its start and stop.

Next:

8. `Observer` (the bounded queues of `aio.py`), `Election` (independent of the order of
   subjects), then `Constraint` and the virtual operator on top of `Session`.

## 3. The controller

### Module and code

`Controller.tla` models the service process of one controller. A step is the code
between two points where the event loop may switch to another coroutine.

- **Runs.** `task`, `input`, `pred`, `pc`, `cancel`, `started`, `finish`, `result` are
  the fields of a `TaskRun` and the state of its runner; `call` is the execute call as
  its client sees it. `pc` refines `TaskRunPhase`: *received*, *interrupting*, then
  EXECUTING split into *starting*, *handler*, *confirming* and *settling* (waiting for
  the lock to publish the finish), and FINISHED split into *publishing* and *ending*
  (published, the runner's task not done yet).
- **Resolver.** `states` is `ControllerStateResolver`. `freshLatch` says that
  the latch is another object than `handler_latched_state`; `woken` is the event that
  wakes `wait_until_observed`.
- **Publication.** `update` is the update that holds the lock of the event-sourced state,
  with the events it has still to emit; `EmitEvent` emits one. The action that ends the
  update (`Admit`, `Start`, `PublishFinish`, `Abort`, ...) is the code after the KV write,
  or after the failure (`Raises`). `memory`, `stream` and `kv` are the three copies.
  With nothing to publish, the whole locked section is one step.
- **Cancellation.** `cancel[r]` is *flag* when only `cancel_requested` was set (before the
  runner's first step), *pending* while the `CancelledError` has still to be delivered,
  *seen* afterwards. Sections under `defer_cancellation` do not consume it.
- **Handlers** belong to drivers. They may return, raise, hang, call `update_context`,
  and swallow a cancellation.
- **Faults.** An emission or a KV write may fail after the field was set in memory
  (`MaxFaults`); the service may stop at any step (`MaxCrashes`) and restarts from
  the snapshot through `init_impl` and `_normalize_startup_state`.

Abstracted: a task is its target state (or *recover*, or *collect* for a task without
effect on the state), a context is a model value, `previous` is whether it was ever set,
rejections of an admission are only the negation of its guard, and finish metadata is an
outcome. Times are left out: `ConfirmTimesOut` may happen whenever confirmation is pending.
Left out: enable hooks, device subscriptions, the handler registry, legacy migration, and
the client classes in `core/controller.py`.

`SerialExecution.tla` is the abstract specification: accepted tasks take turns in order of
admission, and a call is answered once, after its task ended.

### Runs

| Run | Instance | Shows |
|---|---|---|
| `controller` | 2 runs, 2 inputs, 1 target, `Disturbances` | `TypeOK`, `PublicationHonest`, `InterruptionLatched`, `SettlementHonest` |
| `live` | 2 runs, or one with 2 reports; 2 inputs, fairness | `AbortingHeld`, `ImplementsSerialExecution`, `CancelTakesEffect`, `TransitionEnds` |
| `recover` | 1 run, 1 restart | `RecoveredIsLatest` is violated (see Findings) |

Two runs give every pair of running task and interruption, with an abort or a broken call
at any point of both; three runs, where a chain of interruptions exists, are covered by the
proofs (`SerialHandlers` is proved there and not checked again). One fault is enough to
separate the three copies of the state and to make any one publication fail. A report with
another input makes a run wait for confirmation, and a second one wakes it, contradicts it
again or latches an error before settlement. `Disturbances` keeps the run small: two runs with a restart and
either a report or a failed publication, or one run with all three and a second report. `PublicationHonest`
is the conjunction of `PublishedState`, `NoKnownStateInTransition` and `ExecutionOwned`. The runs really stop once the bounds are used up, so deadlock is not checked.

In the `live` run a single run may be reported on, so that the wait for confirmation, which
`ConfirmTimesOut` bounds, is one of the things that must end.

### Fairness

The event loop runs every callback that is ready: weak fairness of `Serve` (the holder of the
state lock, a restart) and, for each run, of `Advance` (its runner and its call, where they wait for
nothing). Each of them is finite work. `asyncio.Lock` grants its waiters in FIFO order, while another
update may hold the lock each time a scheduler looks: strong fairness for the two steps that
start under the lock (`BeginStart`, `BeginFinish`). A canceled handler is assumed to end,
even if it first catches its cancellation and updates its context (strong fairness of
`HandlerCanceled`, in a disjunction with these two: a run is never at two of them); nothing else is assumed of handlers, of clients, or of the hardware.
`TransitionEnds` excuses a handler that keeps running uncanceled. With restarts it does not
hold, for the reason under Findings.

## 4. The agent

### Module and code

`Agent.tla` models the process of `auto/agent.py`: its startup, the handler of the configure
request, the publish loop, and the effect of a state on the virtual operator.

- **State.** `memory` and `kv` hold an `AgentState`: the scheduler part (gate and
  exclusions) and the operating part (global switch, and control switch and override for
  each controller). Election results, schedules and runtime samples are left out:
  `derive_for_status` replaces them and keeps every switch. The event stream is left out
  because recovery does not read it.
- **The update lock.** `update` is the update that holds it: whose it is, the event being
  emitted (`at`), and the operating event it sets next. An event is set in memory in the
  step that begins its emission. `configureWaits` and `publishWaits` are the events a
  handler or the loop has derived and waits with. There is at most one of each:
  `_configure_lock` admits one handler (`configuring`), and there is one loop.
- **Order of waiters.** `asyncio.Lock` grants in order of arrival and lets no newcomer
  pass a waiter that was woken. After its own update the loop sleeps for a second,
  so the handler it woke runs first. Hence whenever both wait the loop is ahead
  (`GrantConfigure` needs `publishWaits = None`), and the loop derives nothing while a
  handler waits. Requests behind `_configure_lock` have derived nothing yet; they are
  those that begin later.
- **Operator.** `operator` is what `apply_to_operator` leaves behind: the scheduling gate,
  the enabled programs, and gate and override vote of each configured controller. Nothing in
  it suspends, so it is part of the step that stores the snapshot.
- **Restarts and faults.** `Start` reads a configuration with any set of controllers,
  recovers or initializes the state and reconciles it. An emission, a publication or a KV
  write may raise: the request is answered with an error, the publish task ends, or the
  starting service ends. A KV write that raises or is cut off may have been stored.
- **History.** `asked` is what the requests add up to, each change added when its event
  is set; `doubt` is true from the moment a request holds the lock until it is answered with
  success; `overlapped` records that the loop derived its events while a request had set only
  its scheduler event.

### Runs

`agent` has three requests out of ten kinds (the command-line switches and one that sets
several), two controllers that share a program, two failures and two starts. Three requests
allow one before, one during and one behind a waiting loop; two starts with every
pair of configurations show reconciliation and recovery. `overlap` needs one request
against the loop, without faults. The process may stop at the bounds, so deadlock is not
checked. Fairness: emissions and writes end, woken waiters run, the loop's sleep ends;
clients, faults and restarts owe nothing. `RequestsAnswered` is checked with faults and
crashes.

## 5. Long calls

### Module and code

`LongCall.tla` models one long-running request of `backend/request.py`, from
`LongCall.invoke` to its outcome, and the stream of events it shares with other calls.

- **Time.** `now` is the caller's clock, in ticks, starting with the call; the server's is
  ahead of it by `skew`, at most the reply margin either way ("Peer clocks must agree
  within the reply margin"). `Tick` waits while something is due (`Due`): live event loops are
  prompt, a progress event is published at its cadence, an event arrives within `Latency`.
  Requests and replies take any time or are lost.
- **Caller.** The event queue opens before the request is sent, so events may come before
  the reply. `Skip`, `Continue` and `Resolve` are one turn of `_await_response_events`;
  `timeout` is the local of that name, `deadline` the `asyncio.timeout` of the current turn.
  An event in the queue is taken without suspending, before the timer can strike.
- **Server.** `ArriveTooLate` and `StartHandler` are the age check of `CallHandler`. The
  handler replies (`Accept`, `Reject`) or ends, and `SendReply` is `run_long_call` waking up
  afterwards, perhaps to find both. From then on it watches the handler: `Exit` sets
  `failing` when `_fail_abandoned_call` creates its task.
- **End events.** The handler, a task it spawned and the abandoned-call failure each check
  `finalized`, publish, and set it (`BeginEnd`, then `EndPublished` or `EndFails`).
  Two may be between check and publication at once. A publication that raises may have
  been delivered.
- **Faults.** A publication raises, or the handler is canceled. A slow publication is
  not modelled: it counts as one that raises.
- **History.** `startedAt`, `doneAt` and `followedAt` are times, `firstEnd` the first end event
  that entered the stream.

`LongCallAssumption` relates the constants: a progress event reaches the caller before the
one before it is stale (`Cadence + Latency + ReplyMargin < Ttl`). The controller uses a
cadence of 5 s and a ttl of 10 s, or 6 s and 10 s.

### Runs

Ticks are scaled down: reply timeout 2, margin 1, first event 2, cadence 1, ttl 4, latency 1,
which keeps their order and the assumption; both signs of the skew occur. The clock stops at
9, beyond the latest moment `DeadHandlerNoticed` speaks of (a handler that ends at 4, and
5 more). `calls` has every loss and delay of request and reply and one trouble (`MaxTrouble`):
an event of another call, of any kind, a publication that raises, or a canceled handler.
`noise` has two, so that both a dead handler and the other call's event occur. Model values
need no symmetry: there is one call. The call may end before the bounds, so deadlock is
not checked. Fairness: the server's event loop runs `run_long_call` when it is woken and the
failure task once created, and publications end. Handlers and callers owe nothing.

## 6. Workflows

### Module and code

`Workflow.tla` models one `WorkflowExecutor.execute` of a compiled workflow
(`sensor/execution.py`): its `DagRunner` and `RunState` (`common/dag.py`), and the dispatcher
that owns each device call and the Abort it may owe (`sensor/dispatch.py`). A step is the code
between two awaits.

- **Plan.** `plan` is what compilation leaves: for each node its graph, its soft and hard
  dependencies, its failure policy, whether it is optional, overridden, ordering only, bounded by a
  timeout or abortable; for each cleanup its selector and the attempts that arm it. Its edges stay in a
  graph and form no cycle (`PlanAssumption`), which `GraphBuilder.build` checks and
  refuses otherwise (`topo_order`).
- **Graph state.** `result`, `excused` and `stop` are `RunState`. `Turn` is one turn of the
  runner's loop: `Settle` (skips and overrides to their fixed point, in node order), what is
  then ready, or the report. The loops of `settle` and `resolve_skips` run until nothing moves; the
  model iterates their passes once per node, which `SettleIsComplete` proves to be the same. `Record` is `asyncio.wait` waking up.
- **Nodes.** `task` is the asyncio task of a node; `call` the device call it owns; `told` a
  cancellation it has not seen, `held` one that `perform` caught and keeps until the Abort's outcome
  is recorded, `lapsed` that its own timeout ended the wait.
- **Executor.** `cur` is the graph being run and `mode` its runner. A cancellation is classified by
  the caller's predicate when it arrives: claimed (*domain*) or declined (*hard*). `EndMain`,
  `EndCleanup` and `GoOn` are the code between two graphs; `stopping`, `overran` and `nudged` are
  the locals of `_bounded` and the cancellation it sends to the cleanup runner.
- **History.** `arrived` is the set of kinds that arrived.

Abstracted: what a call asks and answers; clients that are absent and headers that cannot be built
are an end without an attempt; delays are the time before `Begins`; an Abort that times out counts
as failed. Left out: the validation of graphs and the reports' texts.

`CommandRun.tla` is the abstract specification: what an execution promises its devices and the
reader of its report. `graph` runs from the main graph to later ones and is *open*, *closed* or
*over*. `Call` sends a device call, at most one for a node, when what the node waits for is in the
report, nothing it needs kept it from running and the graph is open; `Answer` ends a call; `Proceed`
adds to the report, each result under the condition `MayReport`, and may close or leave the graph,
which it leaves only when no call is pending. A cancellation closes the main graph in the same step.
`ImplementsCommandRun` maps `cur`, `result` and `arrived` to it, and `Phase` from `mode` and
`outcome`; tasks, timeouts, drains and aborts are hidden. A cleanup graph may stay open for a while after a
cancellation, because its runner, a task of its own, is yet to see it.

### Runs

`workflow` runs four plans of four nodes, two cleanups and two cancellations: settings in parallel
with a barrier (`Collect`), an optional fail-fast step before a required one (`Optional`),
overrides with forward references and a policy that continues, without a deadline (`Overridden`),
and an optional step before a required one with a cleanup for each (`Teardown`). Two
cancellations give a claimed one followed by a declined one, in either order and during cleanup
as well. Between them the plans use every policy, override and selector. `optional` is the
second plan alone, without cancellations. An execution ends, so deadlock is not checked.

Fairness: the event loop runs every task that can step; delays and timeouts pass; a call that was
canceled ends; an Abort ends or times out. A device need never answer a call. The executor's own
fairness is written out with `ExecutorDue` because its `ENABLED` is too large for TLC to evaluate
on every state. `EveryRunEnds` speaks of executions whose main operations all have deadlines, or
that are cancelled: the others may wait for a device for ever, as the code does.

## 7. Programs

### Module and code

`Program.tla` models `core/impl/program.py` with `TaskingLoop` and `TaskCall` of
`core/executor.py`.

- **State.** `enable`, `active` and `tasking` are the three keys of `ProgramState`, `seen` what
  the events published of the last two say. `updates` is the queue of `_update_state`
  calls; the head holds the state lock while `writing`. An update is a record of who makes it and,
  for the conditional ones, of the session it is conditional on (`Skipped`). `After` is what its
  caller does once the lock is released.
- **Locks.** `holder` and `waiting` are the control lock of enable and start requests. Both
  locks are FIFO.
- **Requests.** `pc`, `target` and `request` are the handlers in order of arrival. A start is
  refused while the control lock is held; a stop picks its session when it arrives and stops it in a
  task of its own.
- **Sessions.** `loop[k]` is the k-th `TaskingLoop`: its producer, the task call it follows
  (`work`), and its finalizer, from waiting for the producer to the last publication.
  `taskLoop` is the current one.

Abstracted: the controller is its answers (accepted, rejected, lost; ended, failed, end unknown)
and that it may leave OPERATE. Left out: enable hooks, `NoTaskAvailable` waits, stage reports, task
lifetimes other than expiry, and restarts other than by the initial state. A finalizer whose
publication fails ends the service, which is not modelled: `UpdateFails` excludes it.

### Runs

`program` has three requests (a start and a stop against anything, or a change of controller
between two starts), a task call, one failed publication and two controllers. One context is
enough: a start with another one is refused before it changes anything. The program may be
idle for good at the bounds, so deadlock is not checked. Fairness: weak fairness of `Internal`, the union of all steps
of the event loop and the answers of the controller to what was sent. This is less than the
event loop and its FIFO locks give; requests, faults and further tasks owe nothing.

## 8. The lifecycle session

### Module and code

`Session.tla` models the virtual operator's side of one controller (`auto/`): the
lifecycle and its session (`lifecycle.py`), the reactor (`reactor.py`), procedures
(`procedures.py`), the supervisor (`supervisor.py`) and the failure state (`failure.py`),
against a controller and a program that answer, fail or lose replies.

- **Failure state.** `failure` and the operators on it are `FailureState`. Its times are flags:
  `waiting` while a retry is delayed (`RetryElapses` ends it), `aged` once the stable period has
  passed since the last count (`StablePasses`).
- **Supervisor.** `sup` has the expectation, the grace deadline and the observed state. Updates queue
  in `queue`; a fresh read overtakes them, and `sup.old` says how many of them are
  no newer than what was read. `Judged` is `_evaluate`.
- **Procedures.** `proc.phase` is where a procedure is, in its logic or its graceful or abort cleanup;
  `call` is its lifecycle task and `act` its activation of the program. The check of
  connection, reconciliation, the task, its confirmation, the activation, the wait for tasking
  to end and each step of cleanup are an action each.
- **Reactor.** `Evaluate` is `_evaluate`: what the last procedure left (`AfterProcedure`), whether and
  how to interrupt the running one (`InterruptKind`), and which to start (`Successor`).
- **Controller and program.** `ctl` and `work` are the published operating state and the
  execution; a task that is accepted publishes its transition and interrupts what ran. `tasking` is
  the program's session, `ending` what it was seen to end by. *mine* is a session
  the procedure started or adopted, *adrift* work or tasking that runs although the reply was lost,
  *stray* that of another client.
- **Faults** (`MaxFaults`) are what is not bound to happen: an error, a lost reply or end, a timeout,
  a change on the controller nobody asked for, the end of monitoring. What is bound to happen
  is no fault.

Abstracted: an aborted task may leave any settled or unsettled state; a fresh read sees the current
state; the legacy *error* ending of tasking counts as a fault of the controller; one context for each
demand. Left out: stopping or cancelling the whole lifecycle, the values of its restart delay, the
monitor's execution state, failing subscriptions other than the end of monitoring.
`StablePasses` is limited to phases that can last: the stable period is longer than the time limits
of all others added up.

### Run

`session` begins with a controller in OPERATE or ERROR and a demand to operate with a program or to
shut down; the demand or the enablement changes once, anywhere, and two faults happen, anywhere.
With recovery after two failures and one attempt at it, two faults reach recovery and, with a
controller in ERROR at first, the emergency shutdown. The queue holds two updates, so that a read
overtakes one and another follows; further publications wait, which delays the controller
and forbids nothing. Fairness: weak fairness of the union of the steps that go on by
themselves: tasks and requests end or time out, queued updates are delivered, delays elapse. Faults
and requests owe nothing, and since both are bounded `DemandIsMet` asks what happens after the last
of them.

## 9. Services and their leases

### Module and code

`Service.tla` models a process that runs a declarative `Service` (`api/declarative.py`), its
`ServiceContext` (`core/client.py`) and its `LeaseGroup` (`backend/lease.py`).

- **Store.** `entry[k]` is who holds the lease of an entity or service. A holder refreshes and deletes
  by revision, and revisions are only compared: `behind` is the set of leases whose
  last write was executed though its answer was lost, and a delete under way (`deleting`) knows the
  last revision (`known`) or not. TTLs are not counted: an entry that nobody refreshes may go at
  any time (`Expires`), one that is refreshed may go `MaxLosses` times (`Lost`).
- **Group.** `lease[s][k]` is the `_expired` event of a lease, `called` its `expire_called`,
  `expiring` the calls of `LeaseGroup.expire`, by `shutdown` and by the refresh loop, with the
  leases each of them took; `cut` says that the waiters were cancelled, `refreshing`
  what the loop awaits.
- **Context.** `reg` is where the registration of an entity is (the service is one), `task` the
  service task, `outcome` its future, `detached` what `_run_detach` reached.
- **Service.** `main` is `start`, `run` and `stop`. Entities register concurrently.
- **Faults.** A call of the backend raises, executed or not; an entity's `attach` raises; a task of
  the service's group fails. A process may die at any step, and is not started again.

Left out: leases that are not enforced (`SENSORKIT_NO_ENFORCE_LEASES`), delegated entities that
need no lease, a lease as a context manager, and a task of the group that fails while the group
expires or detaches.

### Run

`service` has one service with one declared entity, another holder that takes and gives up leases,
one loss, two faults and one crash: the leases of service and entity are refreshed, deleted and lost
in every order. The other holder stands for a second copy. A service may be up for good, so deadlock
is not checked. Fairness: weak fairness of `Work`, the union of what a process does of itself but
for the turns of its refresh loop. There is only so much of it, so it all gets done. A refresh is
answered or fails, a lease that is due is taken (strong fairness of `BeginRefresh`: the queue is
ordered by time), and the loop looks at its waiters after each (strong fairness of `BreakLoop`).

`HoldersServe` speaks of services that were not asked to stop. `shutdown` releases the leases
first and detaches the entities afterwards, so for a moment a second copy may attach an entity that
the first one still has attached.

## 10. Proofs

`ControllerProofs.tla` proves, for every value of the constants allowed by
`ControllerAssumption` (bounds are naturals, the empty input is an input, targets are not
latched states, task names or the absent value):

- `TypeCorrect`: `Spec => []TypeOK`. One lemma for each action.
- `TurnInvariant`: the inductive invariant `TurnInv`. `SerialHandlers` is not inductive: that a
  newcomer waits says nothing of *whom* it waits for. The invariant adds that runs are
  numbered by admission; that `execution` is the newest run while it lives, so a newcomer
  finds it as predecessor; that an admission in progress keeps the lock
  (`UpdateStage`); and that a run admitted behind a live one still waits, for a live
  predecessor that is not older than that one (`Chain`).
- `HandlersAreSerial`: `Spec => []SerialHandlers`, from the two above.
- `Refinement`: `Spec => ImplementsSerialExecution`: initial states map to initial states, and each
  step to a step of `SerialExecution` or a stutter.

`ControllerPublicationProofs.tla` proves every other safety property that the passing runs check of the controller. It also assumes
that the absent value is neither a settled state nor an update (`NoneAssumption`):

- `PublicationInvariant`: the inductive invariant `PublicationInv`. Memory, stream and snapshot
  differ while an update is in progress, and stay different when it fails halfway. What is
  right at every step is `Coming`, the memory once the update is through. `Fitting` says that
  its operating state is the one derived from the newest run and that memory has it, or a
  transition, or gets it from a report or a start-up; while an admission is in progress, the
  prior state fits, which is what a failed admission restores. `Transitions`: a transition in memory is
  on the stream and in the snapshot, so no restart takes interrupted work for settled.
  `NewestTransition`: while any run is in transition the newest is, as only lifecycle tasks may
  interrupt one. `Latches`: interrupted work has a latch here and a mark in the snapshot, an
  unknown state with a previous one, which `Rotations` says that every transition leaves.
  `Executes`: the execution coming is that of the run at work, and the one published is that or
  the one before it. `Resting`: nothing runs before the state is normalized.
- `PublicationIsHonest`, `InterruptionStaysLatched`: the invariants of the run, from
  `PublicationInv`; `SettlementIsHonest`, `AbortingIsHeld`: its action properties. The actions fall
  into a few kinds (`Kinds`): most leave the settled state and every transition alone
  (`Keeps`) and open an update, emit, close or do nothing; there is one lemma for each part of the
  invariant and each other action.

`AgentProofs.tla` proves every safety property of the agent, for every set of controllers,
programs and requests, every assignment of programs and every bound (`AgentAssumption`:
requests have their type and the absent value is not one of the values it stands beside):

- `TypeCorrect`: `Spec => []TypeOK`, from `Shape`, which adds who may hold or wait for the
  lock and that events in flight name the configured controllers. The lemmas about
  derivation (`SchedulerForType`, `OperatingForType`, `ReconciledType`, `AppliedType`) say
  what requests and reconciliation preserve.
- `KeptInvariant`: the inductive invariant `Kept`. That memory holds what was asked for
  is not inductive: the next holder of the lock sets what it derived earlier. `Kept`
  says of every waiter that its events are still right when it is granted the
  lock: the loop's equal what was asked, a handler's equal the request applied to it.
- `SchedulerNeverLost` and `OperatingLostOnlyByOverlap`, together `ConfigurationsKept`;
  `AnsweredSurvives`, `OperatorFollows`: the safety properties of the run, from `Kept`.

`LongCallProofs.tla` proves, for all timeouts, margins and bounds that `LongCallAssumption` allows:

- `TypeCorrect`: `Spec => []TypeOK`, one lemma for each part of the state. The
  types are inductive only together with `EndingPublishes`: a handler that ends its call
  has an end event in publication.
- `CallInvariant`: the inductive invariant `CallInv`. To the types it adds `OneWay` (a request
  arrives once, and nothing runs before it does), `Refusal` (once refused, no action that
  could accept is left) and `Stream`: while the caller listens, the first end event of the stream
  is the first in its queue, or its queue has none and it is the first under way. The
  lemmas about `NoEnd` and `FirstEndIs` say what appending to a sequence and taking its head
  off do to its first end event.
- `NeverStartsLate`, and `RefusedIsFinal` and `FirstEndWins`, together `AnswersTrue`: properties of the
  runs, from `CallInv`.

`LongCallProofs.tla` also proves what the deadlines of a call are worth, under the same
assumption, of which that uses that a progress event arrives before the one before it is stale:

- `TimingInvariant`: the inductive invariant `TimingInv`. `NoFalseAlarm` speaks of a caller that has
  given up; the invariant says why it does not. `InTime` and `Punctual`: events are sorted
  by their dates and none is late, because the clock does not pass what is due. `Alive`: while
  nothing failed, every progress event to come is followed (`Followed`) by an event of the call
  dated at most a cadence later, or the call is `Going`: its handler makes progress by
  then, or an end event is in publication or about to be; and the caller waits beyond that
  (`Before`). The two meet in `Continue`, where the lifetime of the progress event taken becomes
  the deadline of the next (`NextEventInTime`). `Marked` and `Bounded` date the events and the
  deadline by the life of the handler.
- `NeverGivesUp` and `DeadIsNoticed`: the two properties of deadlines, from `TimingInv`. The
  lemmas about `Coming`, the queue and what is under way as one sequence, say that a step leaves
  it, appends to it or takes its head (`FlowStep`, `ComingStep`); `GoingStep` that a call
  that goes on goes on or publishes.

`ProgramProofs.tla` proves every safety property of the program's server, for all sets of
controllers and contexts and all bounds (`ProgramAssumption`: bounds are naturals, the absent
controller and contexts are not values):

- `TypeCorrect`: `Spec => []TypeOK`, a part of the invariant below.
- `ProgramInvariant`: the inductive invariant `ProgramInv`. `Queued` says that whoever has an update
  in the queue of the state lock is where that update returns to, makes none twice, and
  that what is being written is stored. `Controlled` says who holds the control lock at which
  point, and that it is granted in order of arrival, so that there are never more sessions
  than requests. `Sequenced`: a session is to come, is the current one, or ended and at
  rest. `Published`: what is stored and published is of the current session, which runs for the
  enabled controller (`Sound`). `Confirmed`: what a stop names is its target or has ended.
  None of these is inductive without the others: a stop republishes an active state it read
  before it had the lock, and only `Queued` and `Sequenced` together say that its session is still the
  current one when that is stored.
- `SessionsAreSerial`, `WorkNeedsEnablement`, `StopsAreConfirmed`: the safety properties of the
  run, from `ProgramInv`. There is one lemma for each action, and three that carry most of
  them: `SessionQueues` (the current session moves on and queues an update), `SessionMoves` (an
  update of it ends) and `MovesKeep` (only a handler moves).

`ServiceProofs.tla` proves every safety property of services, for any number of them, any names and
entities and all bounds (`ServiceAssumption`: names, entities and the absent value are apart):

- `TypeCorrect`: `Spec => []TypeOK`, a part of the invariant below.
- `ServiceInvariant`: the inductive invariant `ServiceInv`, for each service. `Registers` says that the
  service itself is registered first and no key twice; `Calls` and `Ends` that shutdown and
  the loop each expire the group once, and that nothing else cancels a waiter. `Serves`
  gives `HoldersServe`: before a shutdown, what is past its lease holds it, and its entry is
  maintained. `Releases` gives `ReleasedAtEnd`, which is not inductive: a delete of the shutdown's
  that a refresh outdated is refused and the lease stays. The invariant says that only the
  shutdown's deletes are outdated, and that the loop's expire call has that lease on its list.
- `RunningHolds` and `EndedReleases`: the safety properties of the run. One lemma for each action;
  `Elsewhere` says that services meet only in the entries.
- `CopiesAreKeptOut`: `docs/api.md:41` says that the lease of an entity is exclusive, so that a second copy
  of a device service does not drive the hardware too. Two services at work have different names and no
  attached entity in common, because each holds the entries of its own; the run, which has a
  single service and a foreign holder, does not check it.

`SessionProofs.tla` proves every safety property of the lifecycle session, for all demands,
contexts, thresholds, attempts and bounds that `SessionAssumption` allows:

- `TypeCorrect`: `Spec => []TypeOK`, with the limit on recovery attempts. That limit is
  inductive only with `Owned`: a recovery runs only with attempts left, recovery is what a recovered
  procedure was, and no procedure outlives its session. One lemma for each part of the
  state; the `...Frame` lemmas say which steps change which part.
- `TransitionsCommanded` and `DeparturesWereReported`, from `Expected`: the supervisor expects a
  settled state only while it observes that state, a transition only while a procedure
  commands one, and nothing once it found a failure. So a failure found now is news: the
  controller itself, or the next update no read overtook, shows another state.
- `NothingIsLeftBehind`, from `Accounted`: `Tracked` says where the task and the tasking of a procedure
  run, by what the procedure knows of them; `Activated` how far the activation is in each phase of
  the logic, and that a procedure with a session to end knows it; `LeftBehind` what is left
  when it is done. `NothingLeftBehind` is not inductive: a cleanup that finds nothing to end
  is only right because everything started before is still known.

`WorkflowProofs.tla` proves every safety property of workflows, for any number of nodes, cleanup graphs
and cancellations and any plans that `PlanAssumption` allows:

- `SettleIsComplete`: what `Settle` leaves is the fixed point `settle` loops for: no pending node is
  blocked, and unless the run is stopped none that is ready has an override.
- `DeadlockIsUnreachable`: the `RuntimeError` of `DagRunner.execute`, commented "unreachable:
  builder checks cycles", is unreachable. Once settled and with nothing in flight, the pending nodes
  would have one that depends on no other of them, because the graph has no cycle (`NothingWaits`); what
  it depends on is resolved, so it is ready.
- `WorkflowInvariant`: the inductive invariant `WorkflowInv`. `Alive`, `Fresh` and `CallsHaveTasks` say that only
  nodes of the graph being run have a task under way, and a call only with it, which gives
  `OwnedUntilEnded`. `Untouched`, `Acknowledged`, `Notified` and `DrainTold` say what a
  cancellation that arrived has left behind at each point: nothing before the main runner sees it, a
  mark in the report or in `_bounded` after, and a cancellation in flight to whoever still
  dispatches. They give `HardIsFinal`, which is not inductive, and with `ReportInv` below
  that calls are sent in an open graph only. `InOrder` says which cleanups are done while one runs, which gives `CleanupOwed`: what
  a run owes cannot change once its main graph has ended, because no call of it is made any more.
  `StopHasCause`, `ExcusesAreOverrides` and `MainWhole` give `CompletedIsWhole`: a node of the
  main graph that did not run was skipped or cancelled, the one counts as a failure, and the other
  takes a stop, whose cause is a failed node that only an optional one can be.
- `WorkflowTypes`, `WorkIsOwned`, `DeclinedIsFinal`, `CleanupIsOwed`, `CompletedRunsAreWhole`: the
  invariants of the run, from `WorkflowInv`. `StepKinds` sorts the
  steps of the executor by what they do (dispatch, end a graph, drain, ...); there is one
  lemma for each kind and `NodeStepKeeps` for the steps of a node.
- `ReportInvariant`: the inductive invariant `ReportInv` of the results, on top of `WorkflowInv`. `Begun` says that
  a node with a task was due and still is, because results stay; `Agreed` and `Honest` that a
  result is how the task ended and the task ends as its call did; `Reached`, `Unhurt` and `Quiet` that a
  runner that dispatches has nothing cancelled in its graph, so that a node is kept from running by a
  failure, never by a cancelled one. `Justified` says of each result what in the report or in the
  plan explains it. `Adds` is what settling, recording and cancelling do to a run state, shown pass by
  pass (`OneAdds`, `SettleAdds`, `RecordAdds`, `CancelAdds`); `Passes` is what every step of
  the executor but a dispatch does.
- `Refinement`: `Spec => ImplementsCommandRun`. `Begins` is a `Call`, `CallEnds` an `Answer`, a dispatch
  or a step that `Passes` is a `Proceed`, and the other steps of a node change nothing that `CommandRun` sees.
- `CallsSentWhenDue`: calls are due, and which cancellations stop them, told in the state of
  the executor: in the main graph every one, in a cleanup graph a declined one or one of the
  cleanup itself as soon as its runner has seen it.
- `ResultsStand`, `ReportsAreTrue`, `RootsAreFailures`: results are final; what the report says of a
  node did happen; and the claim of `RunReport.causes` that the roots of a skip are failures
  (`dag.py:284`). It is stated for sets of nodes closed under their causes, so that no path
  has to be constructed: a set without a failure would be a set of skipped nodes each with a cause
  in the set, and edges form no cycle. An override is the exception, and the theorem says so.
  These four properties are stated in `WorkflowProofs` and are not checked by a run.

What the passes over a graph compute takes induction over its nodes and over the passes. The induction
theorems of the library take an operator as parameter and cannot be used; `UpToInduction`, which
speaks of a set of numbers up to a bound, is derived from the well-founded order of the subsets of
a finite set instead, and `Iteration` says with it that a bounded recursive function exists and
satisfies its equations. That passes come to rest (`PassesEnd`) is a count: a pass
that moves resolves a node, and there are only `NNodes` of them.

Only model-checked, because liveness under fairness is beyond the prover: of the controller
`CancelTakesEffect` and `TransitionEnds`, of long calls `AbandonedIsReported`, of the agent
and of programs `RequestsAnswered`, of services `ServiceEnds`, of sessions `DemandIsMet`, of workflows
`EveryRunEnds`. Every other property of a passing run is stated by a theorem above.

## 11. Findings

**A restart does not recover the latest event** (run `recover`). `recover` in
`core/state.py` reads the KV snapshot and, its comment says, retrieves the latest event when
the snapshot is older. `_get_latest_event_if_newer` is still to be implemented and returns its
argument. A crash between an emission and the KV write therefore starts the
controller from an older state: in the run a transition was published, the snapshot does not know
of it, nothing is normalized, and the stream keeps showing TRANSITION until the next change.

**The publish loop can undo a configuration** (run `overlap`). The handler of the
configure request sets and emits the scheduler event first, then the operating event. If
the publish loop comes round while the first is being emitted, it derives its operating
event from the state before the request, waits for the lock, and then sets, emits and stores it
over the request's. The global switch, the control switches and the overrides just configured
are gone from the state and the KV store; the operator runs with them until the next request
or restart. The comment in the handler speaks of configuring without racing the
publish loop, and `docs/agent.md` of switches that persist across restarts. The scheduler part
is not affected, and there is no other way to lose a switch (both are proved). Deriving
inside `state.updating` would close it.

**An optional failure hides required work that never ran** (run `optional`). When an optional
node whose policy is *stop* fails, the run stops and the nodes that had not started are recorded as
*cancelled*. `RunReport.failures`, documented as the non-optional nodes that failed or never ran,
counts only *failed* and *skipped* ones, so `execute`, which documents a `WorkflowError` when
required main work did not run, returns a report with the outcome *completed*. Every other way for
required work to be missing is reported (`CompletedIsWhole`).

**Events of other calls restart the wait** (run `noise`). `_await_response_events` skips an
event of another call with `continue`, which leaves the timeout block and enters it again
with the full `timeout`. `FIRST_EVENT_TIMEOUT` is documented as the seconds a caller waits for
the first event; on an entity whose stream carries other calls' progress more often
than that, the caller of a dead handler waits as long as they go on. The same holds for the
ttl of the last progress event. Without other calls the bound holds (`DeadHandlerNoticed`).

## 12. Not modelled

- Constraints, the virtual operator with its election, scheduler and modes, and the async
  utilities: in the plan or, for schedules, computations over wall-clock time.
- Workflow compilers (their result is the plan of `Workflow`), audit, data products, astronomy,
  web API, CLI and configuration: sequential functions of their inputs or pure I/O.
- Backends: NATS is external; loss, delay and failure of what goes through it are modelled.
- Hardware drivers and site programs: represented by the behaviours a task handler, a device
  call or a task factory may have.
