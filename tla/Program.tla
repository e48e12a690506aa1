------------------------------- MODULE Program -------------------------------
(***************************************************************************)
(* A program's server (core/impl/program.py): requests that enable the     *)
(* program for a controller and start, stop or abort its tasking, and the  *)
(* tasking sessions they create (TaskingLoop and TaskCall of               *)
(* core/executor.py).                                                      *)
(*                                                                         *)
(* Requests are handled concurrently. Enablement and starts hold the       *)
(* control lock; every state change goes through _update_state, which      *)
(* holds the state lock while it emits and saves. Both locks are fair.     *)
(***************************************************************************)
EXTENDS Naturals, Sequences

CONSTANTS
  Controllers, Contexts,   \* targets of enablement, and task contexts of a session
  NoController, NoContexts,
  MaxRequests,             \* bound: requests that arrive, so also tasking sessions
  MaxTasks,                \* bound: task calls, over all sessions
  MaxFaults                \* bound: emissions or KV writes that raise

ASSUME ProgramAssumption ==
  /\ MaxRequests \in Nat /\ MaxTasks \in Nat /\ MaxFaults \in Nat
  /\ NoController \notin Controllers /\ NoContexts \notin Contexts

Handlers == 1..MaxRequests
Sessions == 1..MaxRequests
None == 0          \* a stop that names no session; no session; no handler

Requests ==
  [kind : {"start"}, ctx : Contexts]
    \cup [kind : {"stop", "abort"}, session : {None} \cup Sessions]
    \cup [kind : {"enable"}, enabled : {TRUE}, controller : Controllers]
    \cup [kind : {"enable"}, enabled : {FALSE}, controller : {NoController}]

EnableStates ==
  [enabled : {TRUE}, controller : Controllers] \cup [enabled : {FALSE}, controller : {NoController}]
ActiveStates == [active : BOOLEAN, origin : {"init", "request", "error"}, stopping : BOOLEAN,
                 ctx : {NoContexts} \cup Contexts]
Inactive(origin) == [active |-> FALSE, origin |-> origin, stopping |-> FALSE, ctx |-> NoContexts]

VARIABLES
  \* ProgramState, and what the events published of it say
  enable, active, tasking,   \* tasking is the session of tasking_state.loop_state
  seen,                      \* [active, tasking] of the last events emitted
  updates,     \* _update_state calls that hold (the head, once `writing`) or await the state lock
  writing,
  \* the control lock
  holder, waiting,
  \* requests, in order of arrival
  request, pc,
  target,      \* the handler's local `loop`: the session it stops, starts or waits for
  arrived,
  \* tasking sessions, in order of creation
  loop, taskLoop, sessions,
  tasks, faults

stateVars == <<enable, active, tasking, seen, updates, writing>>
lockVars == <<holder, waiting>>
handlerVars == <<request, pc, target, arrived>>
loopVars == <<loop, taskLoop, sessions>>
vars == <<stateVars, lockVars, handlerVars, loopVars, tasks, faults>>

\* A session that was not created, and a new one.
NoLoop ==
  [ ctx |-> NoContexts, controller |-> NoController, producer |-> "none", cancelled |-> FALSE,
    stopping |-> FALSE, work |-> "none", aborting |-> FALSE, fault |-> FALSE, reported |-> FALSE,
    unresolved |-> FALSE, finalized |-> FALSE, finalizer |-> "none" ]
NewLoop(ctx, controller) ==
  [NoLoop EXCEPT !.ctx = ctx, !.controller = controller, !.finalizer = "waiting"]

ProducerDone(k) == loop[k].producer \in {"none", "done"}      \* _producer_done
Running(k) == ~ProducerDone(k) /\ ~loop[k].stopping           \* TaskingLoop.running
Ending == taskLoop # None /\ ~Running(taskLoop)
Working(k) == loop[k].producer \notin {"none", "done"} \/ loop[k].work \in {"sending", "running"}

-----------------------------------------------------------------------------
(* _update_state *)

\* An update: who makes it, for which key, and the session it is conditional on.
Update(by, id, key, value, only) ==
  [by |-> by, id |-> id, key |-> key, value |-> value, only |-> only]

\* Variant: the record of the active state is kept with the enable state.
StoreTogether(u) ==
  /\ enable' = IF u.key = "tasking" THEN enable ELSE u.value
  /\ active' = IF u.key = "active" THEN u.value ELSE active
  /\ tasking' = IF u.key = "tasking" THEN u.value ELSE tasking

\* The value is stored as soon as the lock is held.
Store(u) ==
  /\ enable' = IF u.key = "enable" THEN u.value ELSE enable
  /\ active' = IF u.key = "active" THEN u.value ELSE active
  /\ tasking' = IF u.key = "tasking" THEN u.value ELSE tasking

\* The call up to its first await: a free lock is taken at once.
Enqueue(u) ==
  /\ updates' = Append(updates, u)
  /\ IF updates = <<>> THEN writing' = TRUE /\ Store(u)
                       ELSE UNCHANGED <<writing, enable, active, tasking>>
  /\ UNCHANGED seen

Emitted(u) ==
  seen' = [active |-> IF u.key = "active" THEN active.active ELSE seen.active,
           tasking |-> IF u.key = "tasking" THEN tasking ELSE seen.tasking]

Release == updates' = Tail(updates) /\ writing' = FALSE /\ UNCHANGED <<enable, active, tasking>>

FreeControl == holder' = None

-----------------------------------------------------------------------------
(* TaskingLoop.request_stop *)

\* _end_work: cancel the producer, and abort the call once it is accepted.
EndWork(l) ==
  [l EXCEPT !.cancelled = l.producer \notin {"none", "done"},
            !.aborting = l.aborting \/ l.work # "none"]

Stopped(l, abort) ==
  IF abort THEN EndWork([l EXCEPT !.stopping = TRUE]) ELSE [l EXCEPT !.stopping = TRUE]

\* _stop_loop up to the state lock. The active state it republishes is read before the
\* lock is held.
BeginStop(h, k, abort) ==
  /\ loop' = [loop EXCEPT ![k] = Stopped(@, abort)]
  /\ Enqueue(Update("stop", h, "active",
                    [active |-> TRUE, origin |-> active.origin, stopping |-> TRUE,
                     ctx |-> active.ctx], k))

-----------------------------------------------------------------------------
(* What follows an _update_state: the step of its caller after the lock is released *)

Answer(h, how) == pc' = [pc EXCEPT ![h] = how]

\* Variant: a session whose activation was not published never starts its producer.
AfterStartIfActive(h, ok) ==
  LET k == target[h]
  IN  /\ loop' = [loop EXCEPT ![k] =
                    IF ok THEN [@ EXCEPT !.producer = "created"]
                          ELSE EndWork([@ EXCEPT !.stopping = TRUE])]
      /\ Answer(h, IF ok THEN "starting" ELSE "failed")
      /\ IF ok THEN UNCHANGED holder ELSE FreeControl
      /\ UNCHANGED taskLoop

\* _start_loop: the producer starts in any case; a failed publication aborts it.
AfterStart(h, ok) ==
  LET k == target[h]
  IN  /\ loop' = [loop EXCEPT ![k] =
                    [(IF ok THEN @ ELSE EndWork([@ EXCEPT !.stopping = TRUE]))
                       EXCEPT !.producer = "created"]]
      /\ Answer(h, IF ok THEN "starting" ELSE "failed")
      /\ IF ok THEN UNCHANGED holder ELSE FreeControl
      /\ UNCHANGED taskLoop

\* _publish_tasking_state: a failure is logged, and the producer goes on.
AfterReport(k, ok) ==
  /\ loop' = [loop EXCEPT ![k].producer = IF @ = "reporting" THEN "idle" ELSE "factory",
                          ![k].reported = @ \/ ok]
  /\ UNCHANGED <<pc, holder, taskLoop>>

\* _stop_loop goes on to wait for the finalizer, or raises.
AfterStop(h, ok) ==
  /\ Answer(h, IF ok THEN "awaiting" ELSE "failed")
  /\ IF ~ok /\ holder = h THEN FreeControl ELSE UNCHANGED holder
  /\ UNCHANGED <<loop, taskLoop>>

AfterEnable(h, ok) ==
  /\ Answer(h, IF ok THEN "succeeded" ELSE "failed") /\ FreeControl
  /\ UNCHANGED <<loop, taskLoop>>

\* Steps of the finalizer. After the last one the session is forgotten without an await:
\* the handlers that still refer to it only ask how it ended.
AfterFinal(k, stage, published) ==
  /\ loop' = [loop EXCEPT ![k] =
                IF stage = "done"
                THEN [NoLoop EXCEPT !.producer = "done", !.reported = loop[k].reported,
                                    !.unresolved = loop[k].unresolved, !.finalized = TRUE,
                                    !.finalizer = "done"]
                ELSE [@ EXCEPT !.finalizer = stage, !.reported = @ \/ published,
                               !.finalized = TRUE]]
  /\ taskLoop' = IF stage = "done" THEN None ELSE taskLoop
  /\ UNCHANGED <<pc, holder>>

After(u, ok) ==
  CASE u.by = "start" -> AfterStart(u.id, ok)
    [] u.by = "report" -> AfterReport(u.id, ok)
    [] u.by = "stop" -> AfterStop(u.id, ok)
    [] u.by = "enable" -> AfterEnable(u.id, ok)
    [] u.by = "retry" -> AfterFinal(u.id, "settled", ok)
    [] u.by = "clear" -> AfterFinal(u.id, "cleared", FALSE)
    [] u.by = "inactive" -> AfterFinal(u.id, "done", FALSE)

\* Variant: an update of a session that ended is stored all the same.
NeverSkipped(u) == FALSE

Skipped(u) == u.only # None /\ taskLoop # u.only

Cancelled(u) == u.by = "report" /\ loop[u.id].cancelled      \* ReportCancelled is its next step

\* The next caller gets the lock; it drops the update of a session that was replaced.
UpdateLocks ==
  /\ updates # <<>> /\ ~writing /\ ~Cancelled(Head(updates))
  /\ LET u == Head(updates)
     IN  \/ /\ Skipped(u)
            /\ Release /\ After(u, TRUE)
         \/ /\ ~Skipped(u)
            /\ writing' = TRUE /\ Store(u)
            /\ UNCHANGED <<updates, pc, holder, loop, taskLoop>>
  /\ UNCHANGED <<seen, waiting, request, target, arrived, sessions, tasks, faults>>

UpdateEnds ==
  /\ writing /\ ~Cancelled(Head(updates))
  /\ Emitted(Head(updates)) /\ Release /\ After(Head(updates), TRUE)
  /\ UNCHANGED <<waiting, request, target, arrived, sessions, tasks, faults>>

\* The emission or the KV write raises; the state keeps the value. A finalizer that
\* fails ends the service with its task group.
UpdateFails ==
  /\ writing /\ faults < MaxFaults /\ faults' = faults + 1
  /\ Head(updates).by \in {"start", "report", "retry", "stop", "enable"}
  /\ ~Cancelled(Head(updates))
  /\ Emitted(Head(updates)) \/ UNCHANGED seen
  /\ Release /\ After(Head(updates), FALSE)
  /\ UNCHANGED <<waiting, request, target, arrived, sessions, tasks>>

-----------------------------------------------------------------------------
(* _set_active_state and _set_enable_state *)

\* Variant: a stop reaches the current session whichever it names.
TargetedCurrent(session) == taskLoop

\* _targeted_loop
Targeted(session) == IF session \in {None, taskLoop} THEN taskLoop ELSE None

\* A request arrives. A start is refused while the control lock is held; a stop picks its
\* session now and stops it in a task of its own.
Arrive(r) ==
  LET h == arrived + 1
      refused == r.kind = "start" /\ holder # None
  IN  /\ arrived < MaxRequests
      /\ r.kind \in {"stop", "abort"} => r.session <= sessions    \* an id that was given out
      /\ arrived' = h
      /\ request' = [request EXCEPT ![h] = r]
      /\ target' = [target EXCEPT ![h] =
                      IF r.kind \in {"stop", "abort"} THEN Targeted(r.session) ELSE None]
      /\ Answer(h, CASE refused -> "rejected"
                     [] r.kind \in {"stop", "abort"} -> "accepted"
                     [] OTHER -> "locking")
      /\ waiting' = IF refused \/ r.kind \in {"stop", "abort"} THEN waiting
                    ELSE Append(waiting, h)
      /\ UNCHANGED <<stateVars, holder, loopVars, tasks, faults>>

ControlLocks ==
  /\ waiting # <<>> /\ holder = None
  /\ holder' = Head(waiting) /\ waiting' = Tail(waiting)
  /\ Answer(Head(waiting), "locked")
  /\ UNCHANGED <<stateVars, request, target, arrived, loopVars, tasks, faults>>

Leave(h, how) ==
  /\ Answer(h, how) /\ FreeControl
  /\ UNCHANGED <<stateVars, target, loopVars>>

\* _start_tasking from the checks of enablement on.
Activate(h) ==
  \/ /\ \/ ~enable.enabled
        \/ active.active /\ active.ctx # request[h].ctx
     /\ Leave(h, "rejected")
  \/ /\ enable.enabled
     /\ active.active /\ active.ctx = request[h].ctx
     /\ taskLoop # None          \* its session is read here
     /\ Leave(h, "succeeded")
  \/ /\ enable.enabled /\ ~active.active
     /\ sessions' = sessions + 1
     /\ taskLoop' = sessions + 1
     /\ target' = [target EXCEPT ![h] = sessions + 1]
     /\ loop' = [loop EXCEPT ![sessions + 1] = NewLoop(request[h].ctx, enable.controller)]
     /\ Enqueue(Update("start", h, "active",
                       [active |-> TRUE, origin |-> "request", stopping |-> FALSE,
                        ctx |-> request[h].ctx], None))
     /\ Answer(h, "activating")
     /\ UNCHANGED holder

\* A start that finds its predecessor ending waits for it, once that is finalized.
StartChecks(h) ==
  /\ pc[h] = "locked" /\ request[h].kind = "start"
  /\ \/ /\ Ending /\ ~loop[taskLoop].finalized
        /\ Leave(h, "rejected")
     \/ /\ Ending /\ loop[taskLoop].finalized
        /\ Answer(h, "finalizing") /\ target' = [target EXCEPT ![h] = taskLoop]
        /\ UNCHANGED <<stateVars, holder, loopVars>>
     \/ /\ ~Ending
        /\ Activate(h)
  /\ UNCHANGED <<waiting, request, arrived, tasks, faults>>

StartFinalized(h) ==
  /\ pc[h] = "finalizing" /\ loop[target[h]].finalizer = "done"
  /\ Activate(h)
  /\ UNCHANGED <<waiting, request, arrived, tasks, faults>>

\* The end of _start_loop: the session was reported, or its producer ended without.
StartReported(h) ==
  /\ pc[h] = "starting"
  /\ loop[target[h]].reported \/ loop[target[h]].producer = "done"
  /\ Leave(h, IF loop[target[h]].reported THEN "succeeded" ELSE "failed")
  /\ UNCHANGED <<waiting, request, arrived, tasks, faults>>

\* The task of a stop takes its first step: its session may be gone.
StopBegins(h) ==
  /\ pc[h] = "accepted"
  /\ \/ /\ target[h] # None /\ target[h] = taskLoop
        /\ BeginStop(h, taskLoop, request[h].kind = "abort")
        /\ Answer(h, "publishing")
     \/ /\ target[h] = None \/ target[h] # taskLoop
        /\ Answer(h, "awaiting") /\ UNCHANGED <<stateVars, loop>>
  /\ UNCHANGED <<lockVars, request, target, arrived, taskLoop, sessions, tasks, faults>>

\* Variant: only the end of the producer is awaited.
ProducerEnded(h) == target[h] # None => loop[target[h]].producer = "done"

\* The finalizer of the handler's session has ended: _require_ended.
Finalized(h) == target[h] # None => loop[target[h]].finalizer = "done"

Unresolved(h) == target[h] # None /\ loop[target[h]].unresolved

StopEnds(h) ==
  /\ pc[h] = "awaiting" /\ request[h].kind \in {"stop", "abort"} /\ Finalized(h)
  /\ Answer(h, IF Unresolved(h) THEN "failed" ELSE "succeeded")
  /\ UNCHANGED <<stateVars, lockVars, request, target, arrived, loopVars, tasks, faults>>

WriteEnable(h) ==
  /\ Enqueue(Update("enable", h, "enable",
                    [enabled |-> request[h].enabled, controller |-> request[h].controller], None))
  /\ Answer(h, "enabling")

\* Nothing changes, or the session in progress ends first.
EnableChecks(h) ==
  LET r == request[h]
      same == r.controller = enable.controller
      idle == ~r.enabled /\ ~enable.enabled
  IN  /\ pc[h] = "locked" /\ r.kind = "enable"
      /\ \/ /\ idle \/ (r.enabled = enable.enabled /\ same)
            /\ Leave(h, "succeeded")
         \/ /\ ~idle /\ (r.enabled # enable.enabled \/ ~same)
            /\ ~r.enabled \/ ~same
            /\ taskLoop # None
            /\ target' = [target EXCEPT ![h] = taskLoop]
            /\ BeginStop(h, taskLoop, TRUE)
            /\ Answer(h, "publishing")
            /\ UNCHANGED <<holder, taskLoop, sessions>>
         \/ /\ ~idle /\ (r.enabled # enable.enabled \/ ~same)
            /\ (r.enabled /\ same) \/ taskLoop = None
            /\ WriteEnable(h)
            /\ UNCHANGED <<holder, target, loopVars>>
      /\ UNCHANGED <<waiting, request, arrived, tasks, faults>>

EnableStopped(h) ==
  /\ pc[h] = "awaiting" /\ request[h].kind = "enable" /\ Finalized(h)
  /\ \/ Unresolved(h) /\ Leave(h, "failed")
     \/ ~Unresolved(h) /\ WriteEnable(h) /\ UNCHANGED <<holder, target, loopVars>>
  /\ UNCHANGED <<waiting, request, arrived, tasks, faults>>

-----------------------------------------------------------------------------
(* TaskingLoop: the producer and its task calls *)

Set(k, l) == loop' = [loop EXCEPT ![k] = l]
OnlyLoop == UNCHANGED <<stateVars, lockVars, handlerVars, taskLoop, sessions, faults>>

\* The producer reports its session first, and again before each factory attempt.
Reports(k) ==
  /\ ~loop[k].cancelled
  /\ \/ loop[k].producer = "created" /\ loop' = [loop EXCEPT ![k].producer = "reporting"]
     \/ /\ loop[k].producer = "idle" /\ ~loop[k].stopping
        /\ loop' = [loop EXCEPT ![k].producer = "announcing"]
  /\ Enqueue(Update("report", k, "tasking", k, k))
  /\ UNCHANGED <<lockVars, handlerVars, taskLoop, sessions, tasks, faults>>

Without(s, i) == [j \in 1..(Len(s) - 1) |-> IF j < i THEN s[j] ELSE s[j + 1]]

\* Cancellation while the report is queued or being emitted: the lock is given up.
ReportCancelled(k) ==
  LET mine(u) == u.by = "report" /\ u.id = k
  IN  /\ loop[k].producer \in {"reporting", "announcing"} /\ loop[k].cancelled
      /\ Set(k, [loop[k] EXCEPT !.producer = "done"])
      /\ IF writing /\ mine(Head(updates))
         THEN /\ Release
              /\ Emitted(Head(updates)) \/ UNCHANGED seen
         ELSE /\ \E i \in DOMAIN updates :
                   mine(updates[i]) /\ updates' = Without(updates, i)
              /\ UNCHANGED <<enable, active, tasking, seen, writing>>
      /\ UNCHANGED <<lockVars, handlerVars, taskLoop, sessions, tasks, faults>>

Fault(k) == [loop[k] EXCEPT !.producer = "done", !.fault = TRUE]

\* The producer was cancelled or stopped, and ends at its next await or check.
ProducerStops(k) ==
  /\ \/ loop[k].producer \in {"created", "idle", "factory"} /\ loop[k].cancelled
     \/ loop[k].producer \in {"idle", "factory"} /\ loop[k].stopping
  /\ Set(k, [loop[k] EXCEPT !.producer = "done"])
  /\ OnlyLoop /\ UNCHANGED tasks

\* The controller cannot be observed or is not operating, or the factory raises.
ProducerFails(k) ==
  /\ loop[k].producer \in {"idle", "factory"} /\ ~loop[k].cancelled
  /\ Set(k, Fault(k))
  /\ OnlyLoop /\ UNCHANGED tasks

\* _supervise: the controller left OPERATE while no stop was requested.
LeavesOperate(k) ==
  /\ loop[k].producer \in {"announcing", "factory", "sending", "following"}
  /\ ~loop[k].stopping /\ ~loop[k].fault
  /\ Set(k, EndWork([loop[k] EXCEPT !.fault = TRUE]))
  /\ OnlyLoop /\ UNCHANGED tasks

\* _dispatch sends the task the factory offered.
Sends(k) ==
  /\ loop[k].producer = "factory" /\ ~loop[k].cancelled /\ ~loop[k].stopping
  /\ tasks < MaxTasks /\ tasks' = tasks + 1
  /\ Set(k, [loop[k] EXCEPT !.producer = "sending", !.work = "sending", !.aborting = FALSE])
  /\ OnlyLoop

\* The reply: defer_cancellation keeps a cancelled producer waiting for it, so the
\* execution that started is aborted.
Replied(k, reply) ==
  /\ loop[k].producer = "sending"
  /\ Set(k,
       CASE reply = "accepted" /\ ~loop[k].cancelled ->
              [loop[k] EXCEPT !.work = "running", !.producer = "following"]
         [] reply = "accepted" /\ loop[k].cancelled ->
              [loop[k] EXCEPT !.work = "running", !.producer = "done", !.aborting = TRUE]
         [] reply = "rejected" ->
              [loop[k] EXCEPT !.work = "ended", !.producer = "done", !.fault = TRUE]
         [] reply = "lost" ->
              [loop[k] EXCEPT !.work = "unknown", !.producer = "done", !.fault = TRUE])
  /\ OnlyLoop /\ UNCHANGED tasks

\* TaskCall._follow: the execution ends, or its end event is lost. A failure is the
\* session's fault unless the call asked for the abort.
WorkEnds(k, how) ==
  /\ loop[k].work = "running"
  /\ Set(k, [loop[k] EXCEPT !.work = how,
                            !.fault = @ \/ how = "unknown" \/ (how = "failed" /\ ~loop[k].aborting)])
  /\ OnlyLoop /\ UNCHANGED tasks

\* The producer sees the end of its task, or is cancelled.
Follows(k) ==
  /\ loop[k].producer = "following"
  /\ \/ /\ loop[k].work = "ended" /\ ~loop[k].fault /\ ~loop[k].cancelled
        /\ Set(k, [loop[k] EXCEPT !.producer = "idle", !.work = "none"])
     \/ /\ loop[k].work \in {"failed", "unknown"} \/ loop[k].cancelled
        /\ Set(k, [loop[k] EXCEPT !.producer = "done", !.aborting = TRUE])
  /\ OnlyLoop /\ UNCHANGED tasks

\* The task expires, or the resumed factory raises, while the execution goes on.
TaskExpires(k) ==
  /\ loop[k].producer = "following" /\ loop[k].work = "running" /\ ~loop[k].cancelled
  /\ Set(k, [Fault(k) EXCEPT !.aborting = TRUE])
  /\ OnlyLoop /\ UNCHANGED tasks

-----------------------------------------------------------------------------
(* TaskingLoop.finalize and _finalize_loop *)

OnlyUpdate == UNCHANGED <<lockVars, handlerVars, taskLoop, sessions, tasks, faults>>

\* The producer and its last call ended; an interrupted report is retried.
FinalizerWakes(k) ==
  /\ loop[k].finalizer = "waiting" /\ loop[k].producer = "done" /\ ~Working(k)
  /\ \/ /\ loop[k].reported
        /\ Set(k, [loop[k] EXCEPT !.finalizer = "settled", !.finalized = TRUE,
                                  !.unresolved = loop[k].work = "unknown"])
        /\ UNCHANGED stateVars
     \/ /\ ~loop[k].reported
        /\ Set(k, [loop[k] EXCEPT !.finalizer = "retrying",
                                  !.unresolved = loop[k].work = "unknown"])
        /\ Enqueue(Update("retry", k, "tasking", k, k))
  /\ OnlyUpdate

FinalizerClears(k) ==
  /\ loop[k].finalizer = "settled"
  /\ Set(k, [loop[k] EXCEPT !.finalizer = "clearing"])
  /\ Enqueue(Update("clear", k, "tasking", None, None))
  /\ OnlyUpdate

FinalizerDeactivates(k) ==
  /\ loop[k].finalizer = "cleared"
  /\ Set(k, [loop[k] EXCEPT !.finalizer = "ending"])
  /\ Enqueue(Update("inactive", k, "active",
                    Inactive(IF loop[k].stopping /\ ~loop[k].fault THEN "request" ELSE "error"),
                    None))
  /\ OnlyUpdate

-----------------------------------------------------------------------------
\* After init_impl: a stored enablement is restored, tasking is not.
Init ==
  /\ enable \in EnableStates
  /\ active = Inactive("init") /\ tasking = None
  /\ seen = [active |-> FALSE, tasking |-> None]
  /\ updates = <<>> /\ writing = FALSE /\ holder = None /\ waiting = <<>>
  /\ request = [h \in Handlers |-> [kind |-> "none"]] /\ pc = [h \in Handlers |-> "none"]
  /\ target = [h \in Handlers |-> None] /\ arrived = 0
  /\ loop = [k \in Sessions |-> NoLoop] /\ taskLoop = None /\ sessions = 0
  /\ tasks = 0 /\ faults = 0

HandlerStep(h) ==
  \/ StartChecks(h) \/ StartFinalized(h) \/ StartReported(h)
  \/ StopBegins(h) \/ StopEnds(h)
  \/ EnableChecks(h) \/ EnableStopped(h)

FinalizerStep(k) == FinalizerWakes(k) \/ FinalizerClears(k) \/ FinalizerDeactivates(k)

ProducerStep(k) == Reports(k) \/ ReportCancelled(k) \/ ProducerStops(k) \/ Follows(k)

\* The controller's answer to a dispatch, and the end of an execution.
ControllerStep(k) ==
  \/ \E reply \in {"accepted", "rejected", "lost"} : Replied(k, reply)
  \/ \E how \in {"ended", "failed", "unknown"} : WorkEnds(k, how)

\* A step of the event loop that nothing outside the program has to choose.
Internal ==
  \/ ControlLocks \/ UpdateLocks \/ UpdateEnds
  \/ \E h \in Handlers : HandlerStep(h)
  \/ \E k \in Sessions : ProducerStep(k) \/ ControllerStep(k) \/ FinalizerStep(k)

Next ==
  \/ \E r \in Requests : Arrive(r)
  \/ Internal \/ UpdateFails
  \/ \E k \in Sessions : ProducerFails(k) \/ LeavesOperate(k) \/ Sends(k) \/ TaskExpires(k)

Spec == Init /\ [][Next]_vars

\* The event loop goes on with some task that can: emissions and KV writes return, and the
\* controller answers a dispatch and ends what it accepted. Requests, faults and further
\* tasks need not come. (The event loop is fair to each task; this much suffices.)
FairSpec == Spec /\ WF_vars(Internal)

-----------------------------------------------------------------------------
(* Properties *)

Loops ==
  [ ctx : {NoContexts} \cup Contexts, controller : {NoController} \cup Controllers,
    producer : {"none", "created", "reporting", "idle", "announcing", "factory", "sending",
                "following", "done"},
    cancelled : BOOLEAN, stopping : BOOLEAN,
    work : {"none", "sending", "running", "ended", "failed", "unknown"},
    aborting : BOOLEAN, fault : BOOLEAN, reported : BOOLEAN, unresolved : BOOLEAN,
    finalized : BOOLEAN,
    finalizer : {"none", "waiting", "retrying", "settled", "clearing", "cleared", "ending",
                 "done"} ]

\* An update of a key, and the state it gives it.
Updates ==
  LET Of(keys, values) == [by : {"start", "report", "stop", "enable", "retry", "clear", "inactive"},
                           id : Handlers, key : keys, value : values, only : {None} \cup Sessions]
  IN  Of({"enable"}, EnableStates) \cup Of({"active"}, ActiveStates)
        \cup Of({"tasking"}, {None} \cup Sessions)

\* The value of every variable: ProgramState, the two locks' queues, the handlers and the
\* sessions of core/impl/program.py.
TypeOK ==
  /\ enable \in EnableStates /\ active \in ActiveStates /\ tasking \in {None} \cup Sessions
  /\ seen \in [active : BOOLEAN, tasking : {None} \cup Sessions]
  /\ updates \in Seq(Updates) /\ writing \in BOOLEAN
  /\ holder \in {None} \cup Handlers /\ waiting \in Seq(Handlers)
  /\ request \in [Handlers -> Requests \cup {[kind |-> "none"]}]
  /\ pc \in [Handlers -> {"none", "locking", "locked", "accepted", "activating", "starting",
                          "finalizing", "enabling", "publishing", "awaiting", "succeeded",
                          "failed", "rejected"}]
  /\ arrived \in 0..MaxRequests /\ target \in [Handlers -> {None} \cup Sessions]
  /\ loop \in [Sessions -> Loops] /\ taskLoop \in {None} \cup Sessions
  /\ sessions \in 0..MaxRequests /\ tasks \in 0..MaxTasks /\ faults \in 0..MaxFaults

\* Only the current session produces or runs work: a start never overlaps a session whose
\* finalizer has not ended (_start_tasking waits for it), and without a session the program
\* is stored and published as inactive. A published session is the current one, and active
\* (unless its activation failed to publish, which aborts it).
OneSession ==
  /\ \A k \in Sessions : Working(k) => k = taskLoop
  /\ taskLoop = None => ~active.active /\ tasking = None /\ ~seen.active
  /\ seen.tasking # None =>
       seen.tasking = taskLoop /\ (seen.active \/ loop[taskLoop].stopping)

\* Whatever requests are in progress, work is only produced or run for the controller the
\* program is enabled for: a disable or a change of controller is stored after the session
\* it ends, and no start slips in between (_set_enable_state, _start_tasking).
WorkIsEnabled ==
  \A k \in Sessions :
    Working(k) => enable.enabled /\ enable.controller = loop[k].controller

\* A stop that succeeds has ended the session it names, with its work; it reaches no
\* session it does not name (_targeted_loop, _stop_loop: "An ended target succeeds without
\* affecting a later session").
StopIsConfirmed ==
  \A h \in Handlers :
    request[h].kind \in {"stop", "abort"} /\ request[h].session # None =>
      /\ pc[h] = "succeeded" => loop[request[h].session].finalizer = "done"
      /\ target[h] \in {None, request[h].session}

\* Every request is answered: no order of the two locks, the producer and the finalizer
\* leaves a handler waiting. (Requests are bounded, so they stay answered.)
RequestsAnswered ==
  []<>(\A h \in 1..arrived : pc[h] \in {"succeeded", "failed", "rejected"})
=============================================================================
