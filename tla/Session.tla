------------------------------- MODULE Session -------------------------------
(***************************************************************************)
(* The lifecycle of one controller in the virtual operator (auto/):        *)
(*   lifecycle.py   sessions: a monitor, a supervisor and a reactor, with  *)
(*                  a restart after a failure                              *)
(*   reactor.py     one procedure at a time, started, interrupted and      *)
(*                  concluded from the demand and the observed state       *)
(*   procedures.py  what a procedure sends, and how it cleans up           *)
(*   supervisor.py  the expected state against the observed one            *)
(*   failure.py     retries, recovery and the emergency shutdown           *)
(* against a controller and a program that answer, fail or lose replies.   *)
(*                                                                         *)
(* Timers are flags: that one is running, and an action that ends it. What *)
(* is not bound to happen (an error, a lost reply, a timeout, a change on  *)
(* the controller nobody asked for) counts as a fault.                     *)
(***************************************************************************)
EXTENDS Naturals, Sequences

CONSTANTS
  Demands,            \* the demands that may be set
  Contexts,           \* lifecycle contexts
  InitialStates,      \* what the controller reports at first
  RecoverAfter,       \* FailureState.recover_after_failures
  RecoveryAttempts,   \* FailureState.recovery_attempts
  MaxRequests,        \* bound: changes of demand and of enablement
  MaxFaults,          \* bound: faults
  MaxQueue            \* bound: state updates the supervisor has not taken yet

Settled == {"OPERATE", "STANDBY", "SHUTDOWN"}              \* SETTLED_STATES
Unsettled == {"ERROR", "UNKNOWN"}

DemandStates ==
  [state : Settled, ctx : Contexts, program : BOOLEAN, interrupt : BOOLEAN, preempt : BOOLEAN]

ASSUME SessionAssumption ==
  /\ Demands \subseteq DemandStates
  /\ InitialStates \subseteq Settled \cup Unsettled
  /\ \A d \in Demands : d.program => d.state = "OPERATE"
  /\ RecoverAfter \in Nat \ {0} /\ RecoveryAttempts \in Nat /\ MaxRequests \in Nat
  /\ MaxFaults \in Nat /\ MaxQueue \in Nat \ {0}

NoDemand == [state |-> "none"]

\* What a controller reports: ControllerOperatingState.
OperatingStates ==
  [current : Settled \cup Unsettled \cup {"TRANSITION"}, target : Settled \cup {"none"},
   ctx : Contexts]

VARIABLES
  enabled, demand,   \* ControllerLifecycle: the demand set, and whether it may be acted on
  session,           \* off, running, releasing (the procedure is aborted first), delay
  woken,             \* the reactor has something to evaluate
  failure,           \* FailureState
  sup, queue,        \* ControllerStateSupervisor, and the updates it has not taken
  impatient,         \* the settle timeout of a running lifecycle task has passed
  proc, call, act,   \* the procedure, its lifecycle task and its activation of the program
  ctl, work,         \* the controller: operating state, and the execution it runs
  tasking, ending,   \* the program: the session it runs, and what `mine` was seen to end by
  requests, faults

lifeVars == <<enabled, demand>>
supVars == <<sup, queue>>
procVars == <<proc, call, act>>
worldVars == <<ctl, work, tasking, ending>>
vars == <<lifeVars, session, woken, failure, supVars, impatient, procVars, worldVars,
          requests, faults>>

Fault == faults < MaxFaults /\ faults' = faults + 1
Perhaps(fails) == IF fails THEN Fault ELSE UNCHANGED faults

-----------------------------------------------------------------------------
(* FailureState: `aged` once the stable period passed since the last count,
   `waiting` while a retry is delayed. *)

NoFailure == [failures |-> 0, attempts |-> 0, error |-> FALSE, waiting |-> FALSE, aged |-> FALSE]

RecoveryDue(f) == f.failures >= RecoverAfter
EmergencyDue(f) == RecoveryDue(f) /\ f.attempts >= RecoveryAttempts

Expire(f) == IF f.aged THEN [f EXCEPT !.failures = 0, !.attempts = 0] ELSE f

\* Only the first failure of a procedure counts; at the threshold recovery is not delayed.
RecordFailure(f) ==
  LET counted == [Expire(f) EXCEPT !.failures = @ + 1, !.error = TRUE, !.aged = FALSE]
  IN  IF f.error THEN f ELSE [counted EXCEPT !.waiting = @ \/ ~RecoveryDue(counted)]

RecordInitialError(f) ==
  [Expire(f) EXCEPT !.failures = IF @ = 0 THEN 1 ELSE @, !.aged = FALSE]

DelayRetry(f) == [f EXCEPT !.waiting = TRUE]

RecordRecovery(f) ==
  [f EXCEPT !.failures = 1, !.attempts = @ + 1, !.aged = FALSE, !.waiting = TRUE]

RecordFailedAttempt(f) ==
  LET counted == [f EXCEPT !.attempts = @ + 1, !.aged = FALSE]
  IN  [counted EXCEPT !.waiting = @ \/ ~EmergencyDue(counted)]

Cleared(f) == [NoFailure EXCEPT !.error = f.error]

RecordFailedEmergency(f) == [f EXCEPT !.attempts = 0, !.aged = FALSE, !.waiting = TRUE]

-----------------------------------------------------------------------------
(* ControllerStateSupervisor *)

NoSup ==
  [ alive |-> FALSE, expected |-> "unset", grace |-> "off", failed |-> FALSE,
    observed |-> [current |-> "UNKNOWN", target |-> "none", ctx |-> "none"],
    old |-> 0 ]     \* how many of the queued updates are no newer than `observed`

Matches(c, state, ctx) == c.current = state /\ c.target = "none" /\ c.ctx = ctx

Expect(s, state) ==
  [s EXCEPT !.expected = state, !.grace = "off", !.failed = @ /\ ~s.alive]

\* _evaluate: whether the observed state is a controller failure, and what follows else.
Fails(s) ==
  \/ s.expected \in Settled /\ s.observed.current # s.expected
  \/ s.expected = "TRANSITION" /\ s.observed.current # "TRANSITION" /\ s.grace = "over"

Judged(s) ==
  IF Fails(s) THEN [s EXCEPT !.expected = "UNKNOWN", !.grace = "off", !.failed = TRUE]
  ELSE IF s.expected = "unset"
       THEN IF s.observed.current \in Settled /\ s.observed.target = "none"
            THEN [s EXCEPT !.expected = s.observed.current] ELSE s
  ELSE IF s.expected = "TRANSITION" /\ s.observed.current # "TRANSITION"
       THEN [s EXCEPT !.grace = "running"]
  ELSE IF s.expected \in Settled \/ s.observed.current = "TRANSITION"
       THEN [s EXCEPT !.grace = "off"]
  ELSE s

ProcessedAnyway(s, c, newer) == [s EXCEPT !.observed = c]

\* _process_state of an update; `s` is the supervisor with the update's place in the queue.
Processed(s, c, newer) == IF newer THEN [s EXCEPT !.observed = c] ELSE s

Process(s) ==
  /\ sup' = Judged(s)
  /\ failure' = IF Fails(s) THEN RecordFailure(failure) ELSE failure
  /\ woken' = (woken \/ Fails(s) \/ s.observed # sup.observed)

\* refresh: a fresh read overtakes whatever is queued.
Read(s) == [Processed(s, ctl, Len(queue) > s.old) EXCEPT !.old = Len(queue)]
Settles(state, ctx) == sup.expected \in {"unset", state} /\ Matches(sup.observed, state, ctx)

\* The next queued update, which a fresh read may have overtaken.
Deliver ==
  /\ sup.alive /\ queue # <<>>
  /\ queue' = Tail(queue)
  /\ Process([Processed(sup, Head(queue), sup.old = 0) EXCEPT !.old = IF @ > 0 THEN @ - 1 ELSE 0])
  /\ UNCHANGED <<lifeVars, session, impatient, procVars, worldVars, requests, faults>>

\* A mismatch lasts for the grace period. The supervisor looks once nothing is queued.
GraceElapses ==
  /\ sup.alive /\ sup.grace = "running" /\ Fault
  /\ sup' = [sup EXCEPT !.grace = "over"]
  /\ UNCHANGED <<lifeVars, session, woken, failure, queue, impatient, procVars, worldVars,
                 requests>>

GraceChecked ==
  /\ sup.alive /\ sup.grace = "over" /\ queue = <<>>
  /\ Process(sup)
  /\ UNCHANGED <<lifeVars, session, queue, impatient, procVars, worldVars, requests, faults>>

\* The expectation a procedure sets is compared with the state already observed.
Expectation ==
  /\ sup.alive /\ queue = <<>> /\ sup.grace = "off" /\ Judged(sup) # sup
  /\ Process(sup)
  /\ UNCHANGED <<lifeVars, session, queue, impatient, procVars, worldVars, requests, faults>>

\* Monitoring fails: the lease is lost, or the queue overflows.
MonitorFails ==
  /\ sup.alive /\ Fault
  /\ sup' = [sup EXCEPT !.alive = FALSE, !.failed = TRUE, !.old = 0] /\ queue' = <<>>
  /\ woken' = TRUE
  /\ UNCHANGED <<lifeVars, session, failure, impatient, procVars, worldVars, requests>>

-----------------------------------------------------------------------------
(* The controller and the program *)

Publish(c) ==
  /\ ctl' = c
  /\ queue' = IF sup.alive /\ c # ctl THEN Append(queue, c) ELSE queue

Room == Len(queue) < MaxQueue

\* The lifecycle task a procedure sends, and the state it is to reach.
Goal(kind) == CASE kind = "RECOVER" -> "none" [] kind = "EMERGENCY" -> "SHUTDOWN" [] OTHER -> kind
Commanded(kind) == kind \in Settled               \* expects_target

NoCall == [status |-> "none", aborting |-> FALSE]
Sent(c) == c.status \in {"sending", "running"}    \* its future is not done
Foreign == work \in {"stray", "adrift"}             \* adrift: ours, but the reply was lost

\* The time a task was waited for is its own.
OnlyWorld ==
  /\ impatient' = (impatient /\ work' = work)
  /\ UNCHANGED <<lifeVars, session, failure, sup, proc, requests>>

\* The controller accepts the task: it publishes the transition and interrupts what it ran.
Accepts ==
  /\ call.status = "sending" /\ Room
  /\ call' = [call EXCEPT !.status = "running"] /\ work' = "ours"
  /\ Publish([current |-> "TRANSITION", target |-> Goal(proc.kind),
              ctx |-> IF proc.kind = "RECOVER" THEN ctl.ctx ELSE proc.demand.ctx])
  /\ OnlyWorld /\ UNCHANGED <<woken, act, tasking, ending, faults>>

\* It refuses the task; or the reply is lost, whether or not the task runs.
NotAccepted ==
  /\ call.status = "sending" /\ Fault
  /\ \/ /\ call' = [call EXCEPT !.status = "rejected"] /\ UNCHANGED <<ctl, work, queue>>
     \/ /\ call' = [call EXCEPT !.status = "unknown"]
        /\ \/ UNCHANGED <<ctl, work, queue>>
           \/ /\ Room /\ work' = "adrift"
              /\ Publish([current |-> "TRANSITION", target |-> Goal(proc.kind),
                          ctx |-> IF proc.kind = "RECOVER" THEN ctl.ctx ELSE proc.demand.ctx])
  /\ OnlyWorld /\ UNCHANGED <<woken, act, tasking, ending>>

\* The state a finished execution leaves.
Finish(how) ==
  \E s \in CASE how = "succeeded" -> IF ctl.target # "none" THEN {ctl.target}
                                    ELSE Settled \cup {"UNKNOWN"}  \* recovery
             [] how = "failed" -> {"ERROR"}
             [] OTHER -> Settled \cup Unsettled :                  \* aborted, begun or not
    Publish([ctl EXCEPT !.current = s, !.target = "none"])

\* Our task ends: its state is published, then its end, which may get lost.
Finishes(how) ==
  /\ call.status = "running" /\ work = "ours" /\ Room
  /\ how = "aborted" => call.aborting
  /\ Perhaps(how = "failed")
  /\ Finish(how) /\ work' = how
  /\ OnlyWorld /\ UNCHANGED <<woken, call, act, tasking, ending>>

Reported(lost) ==
  /\ call.status = "running" /\ work \in {"succeeded", "failed", "aborted"}
  /\ Perhaps(lost)
  /\ work' = "none"
  /\ call' = [call EXCEPT !.status =
                IF lost THEN "unknown" ELSE IF call.aborting /\ work = "failed" THEN "aborted" ELSE work]
  /\ OnlyWorld /\ UNCHANGED <<woken, act, ctl, queue, tasking, ending>>

\* Another client starts a task; a task of another client, or one that was given up, ends.
StrayBegins ==
  /\ work = "none" /\ call.status # "running" /\ Room /\ Fault
  /\ work' = "stray"
  /\ \/ UNCHANGED <<ctl, queue>>
     \/ \E s \in Settled : \E x \in Contexts :
          Publish([current |-> "TRANSITION", target |-> s, ctx |-> x])
  /\ OnlyWorld /\ UNCHANGED <<woken, call, act, tasking, ending>>

StrayEnds ==
  /\ Foreign /\ Room
  /\ work' = "none"
  /\ IF ctl.current = "TRANSITION" THEN Finish("succeeded") ELSE UNCHANGED <<ctl, queue>>
  /\ OnlyWorld /\ UNCHANGED <<woken, call, act, tasking, ending, faults>>

\* The controller reports another state by itself.
Reports ==
  /\ work = "none" /\ ctl.current # "TRANSITION" /\ Room /\ Fault
  /\ \E s \in Settled \cup Unsettled : \E x \in Contexts :
       Publish([current |-> s, target |-> "none", ctx |-> x])
  /\ UNCHANGED <<woken, work, call, act, tasking, ending>> /\ OnlyWorld

\* act: the start request and what is known of it; ends: the procedure has a session to end.
NoAct == [status |-> "none", ends |-> FALSE]
Pending(a) == a.status \in {"sent", "accepted"}
OnlyProgram ==
  UNCHANGED <<lifeVars, session, woken, failure, supVars, impatient, proc, call, ctl, work, requests>>

\* The program starts a session, or answers with the matching one it has.
StartAccepted ==
  /\ act.status = "sent" /\ act' = [act EXCEPT !.status = "accepted"]
  /\ tasking' = "mine" /\ ending' = "none"
  /\ OnlyProgram /\ UNCHANGED faults

StartConfirmed ==
  /\ act.status = "accepted" /\ act' = [act EXCEPT !.status = "started"]
  /\ OnlyProgram /\ UNCHANGED <<tasking, ending, faults>>

\* A rejection; a lost reply, whether or not the session starts; an accepted start that
\* fails, or whose confirmation is lost.
StartFails ==
  /\ Pending(act) /\ Fault
  /\ \E how \in {"rejected", "lost", "failed", "unconfirmed"} :
       /\ how \in {"rejected", "lost"} <=> act.status = "sent"
       /\ act' = [act EXCEPT !.status = how]
       /\ IF how = "lost" THEN tasking' \in {tasking, "adrift"} ELSE UNCHANGED tasking
  /\ OnlyProgram /\ UNCHANGED ending

\* A session reports a fault and goes on ending, is stopped by another client, or its
\* program restarts.
SessionFails ==
  /\ tasking = "mine" /\ ending = "none" /\ Fault
  /\ \/ ending' \in {"controller", "program"} /\ UNCHANGED tasking
     \/ ending' \in {"init", "request"} /\ tasking' = "none"
  /\ OnlyProgram /\ UNCHANGED act

SessionEnds ==
  /\ tasking = "mine" /\ ending # "none" /\ tasking' = "none"
  /\ OnlyProgram /\ UNCHANGED <<act, ending, faults>>

-----------------------------------------------------------------------------
(* LifecycleProcedure: logic phases, then graceful or abort cleanup *)

Phases ==
  {"none", "online", "reconcile", "clearing", "apply", "preparing", "task", "expiring", "confirm",
   "claim", "activating", "starting", "tasking", "pause", "hold"}       \* state_logic
  \cup {"graceful", "stopLogic", "aborting", "abortLogic", "done"}      \* _stop, _abort

NoProc ==
  [ kind |-> "none", demand |-> NoDemand, phase |-> "none", interrupt |-> "none",
    achieved |-> FALSE, adopted |-> FALSE, unresolved |-> FALSE, recovered |-> FALSE,
    error |-> "none", unclean |-> FALSE ]

Running == proc.phase \notin {"none", "done"}
MayDispatch == proc.interrupt = "none" /\ sup.alive        \* may_dispatch

\* The logic ends: with an error it escalates to a graceful stop.
Raised(p, e) == [p EXCEPT !.error = e, !.interrupt = "stop", !.phase = "graceful"]

InvalidatesTask(p) == p.phase \in {"task", "expiring"}

\* Interrupting run_task, or a failed one, leaves the expected state unknown.
Invalidates(p) == p.phase \in {"task", "expiring", "confirm"}

Invalidated(s) == Expect(s, "UNKNOWN")

RequestAbort(p) ==
  IF p.interrupt = "abort" THEN p
  ELSE [p EXCEPT !.interrupt = "abort", !.phase = IF @ = "online" THEN @ ELSE "aborting"]

RequestStop(p) ==
  IF p.interrupt # "none" THEN p
  ELSE [p EXCEPT !.interrupt = "stop", !.phase = IF @ = "online" THEN @ ELSE "graceful"]

\* A step of the procedure that leaves the reactor, the supervisor and the world alone.
OnlyProc == UNCHANGED <<lifeVars, session, woken, failure, supVars, impatient, call, act,
                        worldVars, requests>>
Goto(phase) == proc' = [proc EXCEPT !.phase = phase]
First == IF proc.kind \in {"RECOVER", "EMERGENCY"} THEN "preparing"
         ELSE IF proc.kind = "OPERATE" /\ proc.demand.program THEN "reconcile" ELSE "apply"

\* The lease is checked before anything else; an offline controller restarts the session.
Online ==
  /\ proc.phase = "online"
  /\ \/ /\ Goto(CASE proc.interrupt = "stop" -> "graceful"
                    [] proc.interrupt = "abort" -> "aborting"
                    [] OTHER -> First)
        /\ UNCHANGED <<woken, faults>>
     \/ /\ Fault /\ proc' = [proc EXCEPT !.phase = "done", !.error = "offline"]
        /\ woken' = TRUE
  /\ UNCHANGED <<lifeVars, session, failure, supVars, impatient, call, act, worldVars, requests>>

\* _reconcile_existing_tasking: adopt the program's session if it matches, or abort it.
Reconcile ==
  /\ proc.phase = "reconcile"
  /\ \/ tasking = "none" /\ Goto("apply") /\ UNCHANGED faults
     \/ /\ tasking # "none" /\ sup.alive /\ Settles(proc.demand.state, proc.demand.ctx)
        /\ proc' = [proc EXCEPT !.phase = "activating", !.adopted = TRUE]
        /\ UNCHANGED faults
     \/ tasking # "none" /\ Goto("clearing") /\ UNCHANGED faults      \* another session, or state
     \/ Perhaps(sup.alive) /\ proc' = Raised(proc, "other")           \* nothing could be read
  /\ OnlyProc

ClearsTasking ==
  /\ proc.phase = "clearing"
  /\ \/ /\ MayDispatch /\ tasking' = "none" /\ Goto("apply") /\ UNCHANGED faults
     \/ /\ Fault /\ tasking' \in {tasking, "none"} /\ proc' = Raised(proc, "other")
  /\ UNCHANGED <<lifeVars, session, woken, failure, supVars, impatient, call, act, ctl, work,
                 ending, requests>>

\* run_unless_achieved
Apply ==
  /\ proc.phase = "apply" /\ MayDispatch
  /\ Goto(IF Settles(proc.demand.state, proc.demand.ctx) THEN "confirm" ELSE "preparing")
  /\ OnlyProc /\ UNCHANGED faults

\* run_task: the request goes out right after the last check.
SendTask ==
  /\ proc.phase = "preparing"
  /\ \/ /\ MayDispatch
        /\ Goto("task") /\ call' = [NoCall EXCEPT !.status = "sending"]
        /\ sup' = IF Commanded(proc.kind) THEN Expect(sup, "TRANSITION") ELSE sup
        /\ UNCHANGED faults
     \/ /\ Fault /\ proc' = Raised(proc, "other") /\ UNCHANGED <<call, sup>>
  /\ UNCHANGED <<lifeVars, session, woken, failure, queue, impatient, act, worldVars, requests>>

\* Recovery and emergency shutdown abort their task after a while, and give up on it later.
TaskExpires ==
  /\ ~Commanded(proc.kind) /\ call.status = "running"
  /\ \/ /\ proc.phase = "task" /\ Goto("expiring") /\ Fault
        /\ call' = [call EXCEPT !.aborting = TRUE] /\ UNCHANGED sup
     \/ /\ proc.phase = "expiring" /\ proc' = Raised(proc, "other") /\ UNCHANGED faults
        /\ sup' = Invalidated(sup) /\ UNCHANGED call
  /\ UNCHANGED <<lifeVars, session, woken, failure, queue, impatient, act, worldVars, requests>>

\* The task's outcome. A call whose outcome is unknown stays with the procedure.
TaskEnds ==
  /\ proc.phase \in {"task", "expiring"} /\ call.status # "none" /\ ~Sent(call)
  /\ call' = IF call.status = "unknown" THEN call ELSE NoCall
  /\ IF call.status = "succeeded"
     THEN Goto("confirm") /\ UNCHANGED sup
     ELSE /\ proc' = Raised(proc, IF call.status \in {"failed", "aborted"} THEN "controller"
                                  ELSE "other")
          /\ sup' = Invalidated(sup)
  /\ UNCHANGED <<lifeVars, session, woken, failure, queue, impatient, act, worldVars, requests,
                 faults>>

\* confirm_state, verify or refresh: a fresh read, and what it must show.
Confirm ==
  LET s == Read(sup)
      c == Judged(s).observed
      reached == proc.kind = "RECOVER" \/ Matches(c, Goal(proc.kind), proc.demand.ctx)
  IN  /\ proc.phase = "confirm" /\ sup.alive
      /\ IF reached
         THEN /\ sup' = IF Commanded(proc.kind) THEN Expect(Judged(s), Goal(proc.kind))
                                                ELSE Judged(s)
              /\ proc' = CASE proc.kind = "RECOVER" ->
                                [proc EXCEPT !.phase = "done", !.recovered = TRUE]
                          [] proc.kind = "EMERGENCY" -> Raised(proc, "unrecoverable")
                          [] OTHER ->
                                [proc EXCEPT !.achieved = TRUE,
                                   !.phase = IF ~proc.demand.program THEN "hold"
                                             ELSE IF proc.adopted THEN "tasking" ELSE "claim"]
         ELSE /\ sup' = Invalidated(Judged(s)) /\ proc' = Raised(proc, "controller")
      /\ failure' = IF Fails(s) THEN RecordFailure(failure) ELSE failure
      /\ woken' = TRUE
      /\ UNCHANGED <<lifeVars, session, queue, impatient, call, act, worldVars, requests, faults>>

\* The state cannot be read, or is not supervised any more.
ConfirmFails ==
  /\ proc.phase = "confirm"
  /\ Perhaps(sup.alive)
  /\ sup' = Invalidated(sup)
  /\ proc' = Raised(proc, IF sup.alive THEN "controller" ELSE "other")
  /\ UNCHANGED <<lifeVars, session, woken, failure, queue, impatient, call, act, worldVars,
                 requests>>

\* activate_tasking: running work is aborted before the program is started.
Claim ==
  /\ proc.phase = "claim"
  /\ \/ ~Foreign /\ Goto("activating") /\ UNCHANGED <<ctl, work, queue, faults>>
     \/ /\ Foreign /\ Room /\ MayDispatch /\ Goto("activating")
        /\ work' = "none"
        /\ IF ctl.current = "TRANSITION" THEN Finish("aborted") ELSE UNCHANGED <<ctl, queue>>
        /\ UNCHANGED faults
     \/ /\ Foreign /\ Fault /\ proc' = Raised(proc, "controller")
        /\ UNCHANGED <<ctl, work, queue>>
     \/ /\ ~sup.alive /\ proc' = Raised(proc, "other")
        /\ UNCHANGED <<ctl, work, queue, faults>>
  /\ UNCHANGED <<lifeVars, session, woken, failure, sup, impatient, call, act, tasking, ending,
                 requests>>

SendStart ==
  /\ proc.phase = "activating"
  /\ \/ /\ MayDispatch
        /\ Goto("starting") /\ act' = [status |-> "sent", ends |-> TRUE] /\ UNCHANGED faults
     \/ /\ Fault /\ proc' = Raised(proc, "other") /\ UNCHANGED act
  /\ UNCHANGED <<lifeVars, session, woken, failure, supVars, impatient, call, worldVars, requests>>

\* _classify_activation_failure
Classified(p) == [p EXCEPT !.unresolved = @ \/ act.status \in {"lost", "unconfirmed"}]
Owed(a) == [a EXCEPT !.ends = @ /\ a.status # "rejected"]

Started ==
  /\ proc.phase = "starting" /\ ~Pending(act)
  /\ act' = Owed(act)
  /\ proc' = IF act.status = "started"
             THEN [proc EXCEPT !.phase = IF proc.adopted THEN "apply" ELSE "tasking"]
             ELSE Raised(Classified(proc), "other")
  /\ UNCHANGED <<lifeVars, session, woken, failure, supVars, impatient, call, worldVars,
                 requests, faults>>

StartExpires ==
  /\ proc.phase = "starting" /\ Pending(act) /\ Fault
  /\ proc' = Raised(proc, "other")
  /\ OnlyProc

\* _failure: a session's fault, else the logic's error, else what became of the task.
Reason(p, seen) ==
  IF act.status \in {"accepted", "started", "failed", "unconfirmed"}
     /\ seen \in {"controller", "program"}
  THEN IF seen = "program" THEN "other" ELSE seen
  ELSE IF p.error # "none" THEN p.error
  ELSE IF call.status = "failed" THEN "controller"
  ELSE IF call.status = "rejected" \/ p.unclean THEN "other"
  ELSE "none"

ConcludedIfAnswered(p) ==
  [p EXCEPT !.phase = "done", !.error = Reason(p, ending), !.unresolved = @ \/ Sent(call)]

Concluded(p) ==
  [p EXCEPT !.phase = "done", !.error = Reason(p, ending),
            !.unresolved = @ \/ Sent(call) \/ call.status = "unknown"]

\* _tasking_ended, and what state_logic makes of it.
TaskingEnded ==
  /\ proc.phase = "tasking" /\ ending # "none"
  /\ proc' = CASE ending = "init" -> [proc EXCEPT !.phase = "pause"]
              [] ending = "controller" -> Raised(proc, "controller")
              [] OTHER -> Raised(proc, "other")
  /\ OnlyProc /\ UNCHANGED faults

\* The logic returns after a pause; nothing is cleaned up.
PauseEnds ==
  /\ proc.phase = "pause" /\ proc' = Concluded(proc) /\ woken' = TRUE
  /\ UNCHANGED <<lifeVars, session, failure, supVars, impatient, call, act, worldVars, requests,
                 faults>>

\* _check_dispatch: without supervision the logic ends where it would send, uncleaned.
NoDispatch ==
  /\ \/ proc.phase \in {"clearing", "apply", "preparing", "activating"}
     \/ proc.phase = "claim" /\ Foreign
  /\ ~sup.alive
  /\ proc' = Concluded(proc) /\ woken' = TRUE
  /\ UNCHANGED <<lifeVars, session, failure, supVars, impatient, call, act, worldVars, requests,
                 faults>>

\* _read_ended: a task that ended may have changed the state unseen.
ReadEnded ==
  IF sup.alive /\ call.status \in {"succeeded", "failed", "aborted"}
  THEN \/ Process(Read(sup)) /\ UNCHANGED faults
       \/ Fault /\ UNCHANGED <<sup, failure, woken>>
  ELSE UNCHANGED <<sup, failure, woken, faults>>

\* Graceful cleanup waits for the task; abort cleanup aborts it first. Then the program.
TaskCleaned ==
  /\ proc.phase \in {"graceful", "aborting"} /\ ~Sent(call)
  /\ Goto(IF proc.phase = "graceful" THEN "stopLogic" ELSE "abortLogic")
  /\ ReadEnded
  /\ UNCHANGED <<lifeVars, session, queue, impatient, call, act, worldVars, requests>>

Escalated(p) == [p EXCEPT !.interrupt = "abort", !.phase = "aborting"]
AbortCall == call' = [call EXCEPT !.aborting = @ \/ Sent(call)]

CleanupExpires ==
  /\ Fault
  /\ \/ /\ (proc.phase = "graceful" /\ Sent(call)) \/ (proc.phase = "stopLogic" /\ Pending(act))
        /\ proc' = [Escalated(proc) EXCEPT !.unclean = @ \/ proc.phase = "stopLogic"]
        /\ AbortCall
     \/ /\ proc.phase = "aborting" /\ Sent(call)
        /\ Goto("abortLogic") /\ UNCHANGED call
  /\ UNCHANGED <<lifeVars, session, woken, failure, supVars, impatient, act, worldVars, requests>>

\* _end_tasking: nothing to end, or nothing known to end it by.
NothingToEnd ==
  /\ proc.phase \in {"stopLogic", "abortLogic"}
  /\ act.status = "none" \/ (~Pending(act) /\ (~Owed(act).ends \/ act.status = "lost"))
  /\ proc' = Concluded(Classified(proc)) /\ woken' = TRUE
  /\ UNCHANGED <<lifeVars, session, failure, supVars, impatient, call, act, worldVars, requests,
                 faults>>

\* The session is stopped or aborted by its id.
TaskingCleaned ==
  /\ proc.phase \in {"stopLogic", "abortLogic"}
  /\ act.status \in {"started", "failed", "unconfirmed"} /\ act.ends
  /\ tasking' = IF tasking = "mine" THEN "none" ELSE tasking
  /\ act' = [act EXCEPT !.ends = FALSE]
  /\ proc' = Concluded(Classified(proc)) /\ woken' = TRUE
  /\ UNCHANGED <<lifeVars, session, failure, supVars, impatient, call, ctl, work, ending, requests,
                 faults>>

\* It cannot be: a stop escalates, after an abort the session stays unresolved.
CleaningFails ==
  /\ Fault
  /\ \/ /\ proc.phase = "stopLogic" /\ ~Pending(act) /\ act.ends /\ act.status # "lost"
        /\ proc' = [Escalated(Classified(proc)) EXCEPT !.unclean = TRUE]
        /\ AbortCall /\ UNCHANGED woken
     \/ /\ proc.phase = "abortLogic" /\ act.ends
        /\ proc' = Concluded([Classified(proc) EXCEPT !.unclean = TRUE, !.unresolved = TRUE])
        /\ woken' = TRUE /\ UNCHANGED call
  /\ tasking' \in {tasking} \cup IF tasking = "mine" THEN {"none"} ELSE {}
  /\ UNCHANGED <<lifeVars, session, failure, supVars, impatient, act, ctl, work, ending, requests>>

-----------------------------------------------------------------------------
(* ControllerReactor *)

Same(d, e) ==
  /\ d.state = e.state
  /\ d.state # "none" => d.ctx = e.ctx /\ d.program = e.program

\* _interrupt_kind
InterruptKind ==
  LET replaced == ~Same(proc.demand, demand)
      interruptible == ~Sent(call) /\ sup.observed.current = "OPERATE" /\ sup.observed.target = "none"
      departed == proc.achieved /\ ~Sent(call) /\ ~Matches(sup.observed, demand.state, demand.ctx)
  IN  IF ~enabled \/ demand.state = "none" \/ failure.error THEN "abort"
      ELSE IF proc.kind \in {"RECOVER", "EMERGENCY"} THEN "none"
      ELSE IF replaced
           THEN IF demand.interrupt \/ (demand.preempt /\ interruptible) THEN "abort" ELSE "stop"
      ELSE IF departed THEN "stop" ELSE "none"

\* request_stop and request_abort, with what the interrupted logic leaves.
Interrupt(kind) ==
  LET p == CASE kind = "abort" -> RequestAbort(proc)
             [] kind = "stop" -> RequestStop(proc)
             [] OTHER -> proc
  IN  /\ proc' = p
      /\ sup' = IF p # proc /\ Invalidates(proc) THEN Invalidated(sup) ELSE sup
      /\ IF p.phase = "aborting" THEN AbortCall ELSE UNCHANGED call

\* _conclude: a failure that was counted already is not counted again.
AfterProcedure(f) ==
  LET recovery == proc.kind \in {"RECOVER", "EMERGENCY"}
  IN  IF proc.unresolved \/ proc.error = "offline" THEN f
      ELSE IF proc.error = "unrecoverable" THEN Cleared(f)
      ELSE IF recovery /\ proc.recovered THEN RecordRecovery(f)
      ELSE IF proc.error = "none" THEN f
      ELSE IF proc.kind = "EMERGENCY" THEN RecordFailedEmergency(f)
      ELSE IF proc.kind = "RECOVER" THEN RecordFailedAttempt(f)
      ELSE IF f.error THEN f
      ELSE IF proc.error = "controller" THEN RecordFailure(f)
      ELSE DelayRetry(f)

Raises == proc.phase = "done" /\ (proc.unresolved \/ proc.error \in {"offline", "unrecoverable"})

\* What is left of a procedure once nobody follows it.
Forget ==
  /\ call' = NoCall /\ act' = NoAct /\ ending' = "none"
  /\ tasking' = IF tasking = "none" THEN "none" ELSE "stray"
  /\ work' = IF Foreign \/ work = "ours" THEN "stray" ELSE "none"

\* The reactor, its supervisor and its monitor are gone.
EndSession(next) ==
  /\ session' = next /\ sup' = NoSup /\ queue' = <<>> /\ proc' = NoProc
  /\ impatient' = FALSE /\ woken' = FALSE
  /\ Forget

\* _settling: a lifecycle task that leads to the demand is waited for.
Settling ==
  /\ Foreign /\ ~impatient
  /\ sup.observed = [current |-> "TRANSITION", target |-> demand.state, ctx |-> demand.ctx]

\* _dispatch
Due(f) ==
  IF RecoveryDue(f) THEN ~f.waiting
  ELSE (demand.state = "SHUTDOWN" \/ ~f.waiting) /\ ~Settling

SuccessorTriesAgain(f) == IF RecoveryDue(f) THEN "RECOVER" ELSE demand.state

Successor(f) ==
  IF EmergencyDue(f) THEN "EMERGENCY" ELSE IF RecoveryDue(f) THEN "RECOVER" ELSE demand.state

\* begin_procedure, and start
Start(kind, f) ==
  /\ proc' = [NoProc EXCEPT !.kind = kind, !.demand = demand, !.phase = "online"]
  /\ failure' = [f EXCEPT !.error = FALSE, !.waiting = FALSE]
  /\ sup' = IF Commanded(kind) THEN sup ELSE Invalidated(sup)

Idle(f) == proc' = NoProc /\ failure' = f /\ UNCHANGED sup

Demanded == enabled /\ demand.state # "none"

\* The procedure's result ends the session: ControllerIndeterminate, ControllerOffline, or
\* ControllerUnrecoverable, which disables the lifecycle.
EvaluateRaises ==
  /\ Raises
  /\ failure' = AfterProcedure(failure)
  /\ LET over == proc.error = "unrecoverable" /\ ~proc.unresolved
     IN  /\ enabled' = (enabled /\ ~over)
         /\ demand' = IF over THEN NoDemand ELSE demand
         /\ EndSession(IF over THEN "off" ELSE "delay")
  /\ UNCHANGED <<ctl, requests, faults>>

\* Supervision ended: the procedure is aborted, and the session ends after it.
EvaluateUnsupervised ==
  /\ ~Raises /\ ~sup.alive
  /\ session' = "releasing" /\ woken' = FALSE
  /\ IF Running THEN Interrupt("abort") /\ UNCHANGED failure
     ELSE /\ failure' = IF proc.phase = "done" THEN AfterProcedure(failure) ELSE failure
          /\ UNCHANGED <<proc, sup, call>>
  /\ UNCHANGED <<lifeVars, queue, impatient, act, worldVars, requests, faults>>

EvaluateRunning ==
  /\ Running /\ sup.alive
  /\ Interrupt(InterruptKind) /\ woken' = FALSE
  /\ UNCHANGED <<lifeVars, session, failure, queue, impatient, act, worldVars, requests, faults>>

\* No procedure runs, or the last one is concluded: the next one starts in the same step.
EvaluateIdle ==
  LET f == IF proc.phase = "done" THEN AfterProcedure(failure) ELSE failure
      g == IF Demanded THEN Expire(f) ELSE f
  IN  /\ ~Raises /\ ~Running /\ sup.alive
      /\ IF ~enabled
         THEN failure' = f /\ EndSession("off")
         ELSE /\ IF Demanded /\ Due(g) THEN Start(Successor(g), g) ELSE Idle(g)
              /\ woken' = FALSE /\ Forget
              /\ UNCHANGED impatient
              /\ UNCHANGED <<session, queue>>
      /\ UNCHANGED <<lifeVars, ctl, requests, faults>>

Evaluate ==
  /\ session = "running" /\ woken
  /\ EvaluateRaises \/ EvaluateUnsupervised \/ EvaluateRunning \/ EvaluateIdle

RetryForgotten ==
  /\ failure.waiting /\ failure' = [failure EXCEPT !.waiting = FALSE]
  /\ UNCHANGED <<lifeVars, session, woken, supVars, impatient, procVars, worldVars, requests, faults>>

RetryElapses ==
  /\ failure.waiting /\ failure' = [failure EXCEPT !.waiting = FALSE]
  /\ woken' = (session = "running")
  /\ UNCHANGED <<lifeVars, session, supVars, impatient, procVars, worldVars, requests, faults>>

\* The stable period passes without a failure or an attempt. Nothing else takes that long: the
\* other phases, and recovery, have time limits that add up to less.
StablePasses ==
  /\ failure.failures + failure.attempts > 0 /\ ~failure.aged /\ ~failure.waiting
  /\ proc.kind \notin {"RECOVER", "EMERGENCY"} /\ queue = <<>>
  /\ proc.phase \in {"none", "task", "tasking", "hold"}
  /\ failure' = [failure EXCEPT !.aged = TRUE]
  /\ UNCHANGED <<lifeVars, session, woken, supVars, impatient, procVars, worldVars, requests, faults>>

SettleElapses ==
  /\ session = "running" /\ proc = NoProc /\ Demanded /\ Settling /\ Fault
  /\ impatient' = TRUE /\ woken' = TRUE
  /\ UNCHANGED <<lifeVars, session, failure, supVars, procVars, worldVars, requests>>

-----------------------------------------------------------------------------
(* ControllerLifecycle *)

\* _session: the monitor and the supervisor start, and see the controller's state.
Begin ==
  /\ session = "off" /\ enabled
  /\ \/ /\ session' = "running" /\ woken' = TRUE
        /\ sup' = Judged([NoSup EXCEPT !.alive = TRUE, !.observed = ctl])
        /\ failure' = IF ctl.current = "ERROR" THEN RecordInitialError(failure) ELSE failure
        /\ UNCHANGED faults
     \/ Fault /\ session' = "delay" /\ UNCHANGED <<woken, sup, failure>>
  /\ UNCHANGED <<lifeVars, queue, impatient, procVars, worldVars, requests>>

Released ==
  /\ session = "releasing" /\ ~Running
  /\ EndSession("delay")
  /\ UNCHANGED <<lifeVars, failure, ctl, requests, faults>>

DelayElapses ==
  /\ session = "delay" /\ session' = "off"
  /\ UNCHANGED <<lifeVars, woken, failure, supVars, impatient, procVars, worldVars, requests, faults>>

Request == requests < MaxRequests /\ requests' = requests + 1
OnlyRequest == UNCHANGED <<session, failure, supVars, impatient, procVars, worldVars, faults>>

SetDemand(d) ==
  /\ d # demand /\ Request /\ demand' = d /\ woken' = (session = "running")
  /\ OnlyRequest /\ UNCHANGED enabled

Disable ==
  /\ enabled /\ Request
  /\ enabled' = FALSE /\ demand' = NoDemand /\ woken' = (session = "running")
  /\ OnlyRequest

Enable ==
  /\ ~enabled /\ Request /\ enabled' = TRUE
  /\ OnlyRequest /\ UNCHANGED <<demand, woken>>

-----------------------------------------------------------------------------
\* The operator enabled the lifecycle with a first demand; nothing is in transition.
Init ==
  /\ enabled = TRUE /\ demand \in Demands
  /\ session = "off" /\ woken = FALSE /\ failure = NoFailure
  /\ sup = NoSup /\ queue = <<>> /\ impatient = FALSE
  /\ proc = NoProc /\ call = NoCall /\ act = NoAct
  /\ ctl \in [current : InitialStates, target : {"none"}, ctx : Contexts]
  /\ work = "none" /\ tasking \in {"none", "stray"} /\ ending = "none"
  /\ requests = 0 /\ faults = 0

ProcedureStep ==
  \/ Online \/ Reconcile \/ ClearsTasking \/ Apply \/ SendTask \/ TaskEnds
  \/ Confirm \/ ConfirmFails \/ Claim \/ SendStart \/ Started \/ TaskingEnded \/ PauseEnds
  \/ NoDispatch \/ TaskCleaned \/ NothingToEnd \/ TaskingCleaned

WorldStep ==
  \/ Accepts \/ StrayEnds
  \/ (\E how \in {"succeeded", "failed", "aborted"} : Finishes(how))
  \/ (\E lost \in BOOLEAN : Reported(lost))
  \/ StartAccepted \/ StartConfirmed \/ SessionEnds

SessionStep ==
  \/ Deliver \/ GraceChecked \/ Expectation \/ Evaluate \/ RetryElapses
  \/ Begin \/ Released \/ DelayElapses

FaultStep ==
  \/ GraceElapses \/ MonitorFails \/ NotAccepted \/ StrayBegins \/ Reports
  \/ StartFails \/ SessionFails \/ TaskExpires \/ StartExpires \/ CleanupExpires
  \/ CleaningFails \/ SettleElapses

Next ==
  \/ ProcedureStep \/ WorldStep \/ SessionStep \/ FaultStep \/ StablePasses
  \/ (\E d \in Demands : SetDemand(d))
  \/ Disable \/ Enable

Spec == Init /\ [][Next]_vars

\* Tasks and requests end, and the event loop runs what is due: while anything can go on by
\* itself, something does. It is one condition, since what goes on by itself comes to rest.
FairSpec == Spec /\ WF_vars(ProcedureStep \/ WorldStep \/ SessionStep)

-----------------------------------------------------------------------------
LifeType ==
  /\ enabled \in BOOLEAN /\ demand \in Demands \cup {NoDemand} /\ woken \in BOOLEAN
  /\ session \in {"off", "running", "releasing", "delay"} /\ impatient \in BOOLEAN
  /\ requests \in 0..MaxRequests /\ faults \in 0..MaxFaults

FailureStates ==
  [failures : Nat, attempts : Nat, error : BOOLEAN, waiting : BOOLEAN, aged : BOOLEAN]

Supervisors ==
  [alive : BOOLEAN, expected : Settled \cup {"unset", "TRANSITION", "UNKNOWN"},
   grace : {"off", "running", "over"}, failed : BOOLEAN,
   observed : OperatingStates \cup {NoSup.observed}, old : Nat]

SupType ==
  /\ sup \in Supervisors
  /\ queue \in Seq(OperatingStates) /\ sup.old <= Len(queue) /\ Len(queue) <= MaxQueue

Procedures ==
  [ kind : Settled \cup {"none", "RECOVER", "EMERGENCY"}, demand : Demands \cup {NoDemand},
    phase : Phases, interrupt : {"none", "stop", "abort"}, achieved : BOOLEAN, adopted : BOOLEAN,
    unresolved : BOOLEAN, recovered : BOOLEAN, unclean : BOOLEAN,
    error : {"none", "offline", "unrecoverable", "controller", "other"} ]

ProcType ==
  /\ proc \in Procedures
  /\ call \in [status : {"none", "sending", "running", "rejected", "unknown", "succeeded",
                         "failed", "aborted"}, aborting : BOOLEAN]
  /\ act \in [status : {"none", "sent", "accepted", "started", "rejected", "lost", "failed",
                        "unconfirmed"}, ends : BOOLEAN]

WorldType ==
  /\ ctl \in OperatingStates
  /\ work \in {"none", "ours", "stray", "adrift", "succeeded", "failed", "aborted"}
  /\ tasking \in {"none", "mine", "stray", "adrift"}
  /\ ending \in {"none", "controller", "program", "init", "request"}

\* Types, with the limit FailureState keeps: no recovery is attempted once the emergency
\* shutdown is due.
FailureType == failure \in FailureStates /\ failure.attempts <= RecoveryAttempts
TypeOK == LifeType /\ FailureType /\ SupType /\ ProcType /\ WorldType

\* A procedure that ends without saying that something may still be running leaves nothing
\* running: no execution of its task, and no tasking it started or adopted, while supervision
\* lasts.
NothingLeftBehind ==
  session = "running" /\ proc.phase = "done" /\ ~proc.unresolved /\ sup.alive =>
    work \notin {"ours", "adrift"} /\ tasking \notin {"mine", "adrift"}

\* The supervisor expects a transition only while a procedure commands one: whatever ends the
\* task, or interrupts it, leaves another expectation.
TransitionIsCommanded ==
  sup.alive /\ sup.expected = "TRANSITION" =>
    Commanded(proc.kind) /\ proc.phase \in {"task", "confirm"}

\* A departure from a settled state is counted because of a state the controller reported after
\* that state was confirmed, never because of an update the confirmation overtook.
Departed == sup.expected \in Settled /\ sup'.alive /\ sup'.failed
DeparturesAreNews ==
  [][Departed =>
       \/ ctl.current # sup.expected
       \/ \E i \in sup.old + 1 .. Len(queue) : queue[i].current # sup.expected]_vars

\* In the end the demand is met and stays met: the controller reports its state and context,
\* and the program works for it; unless control was given up.
Met ==
  /\ proc.achieved /\ Running /\ Same(proc.demand, demand)
  /\ Matches(ctl, demand.state, demand.ctx)
  /\ demand.program => tasking = "mine"
DemandIsMet == <>[](~Demanded \/ Met)
=============================================================================
