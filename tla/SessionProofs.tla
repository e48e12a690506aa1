----------------------------- MODULE SessionProofs -----------------------------
(***************************************************************************)
(* Proofs about Session: types, what the supervisor expects, and what a    *)
(* procedure leaves behind.                                                *)
(*                                                                         *)
(* TypeInv is inductive by itself; Expected and Accounted are inductive    *)
(* with it. The theorems are TypeCorrect, TransitionsCommanded,            *)
(* DeparturesWereReported and NothingIsLeftBehind.                         *)
(***************************************************************************)
EXTENDS Session, SequenceTheorems, TLAPS

\* Judging keeps what was observed, and never expects a transition that was not expected.
LEMMA JudgedKeeps ==
  ASSUME NEW s \in Supervisors
  PROVE  /\ Judged(s) \in Supervisors
         /\ Judged(s).alive = s.alive /\ Judged(s).old = s.old
         /\ Judged(s).observed = s.observed
         /\ Judged(s).expected = "TRANSITION" => s.expected = "TRANSITION"
         /\ Judged(s).expected \in Settled => Judged(s).observed.current = Judged(s).expected
         /\ s.expected = "UNKNOWN" \/ Fails(s) => Judged(s).expected = "UNKNOWN"
         /\ Judged(s).failed => s.failed \/ Fails(s)
<1>1. CASE Fails(s)
  BY <1>1 DEF Judged, Supervisors, Settled
<1>2. CASE ~Fails(s) /\ s.expected = "unset"
  BY <1>2 DEF Judged, Supervisors, Settled
<1>3. CASE ~Fails(s) /\ s.expected = "TRANSITION" /\ s.observed.current # "TRANSITION"
  BY <1>3 DEF Judged, Supervisors, Settled
<1>4. CASE ~Fails(s) /\ s.expected # "unset"
            /\ ~(s.expected = "TRANSITION" /\ s.observed.current # "TRANSITION")
  BY <1>4 DEF Judged, Fails, Supervisors, Settled
<1> QED
  BY <1>1, <1>2, <1>3, <1>4

\* An expectation replaces only what was expected; a supervisor that is alive forgets its failure.
LEMMA ExpectKeeps ==
  ASSUME NEW s \in Supervisors, NEW e \in Settled \cup {"TRANSITION", "UNKNOWN"}
  PROVE  /\ Expect(s, e) \in Supervisors
         /\ Expect(s, e).alive = s.alive /\ Expect(s, e).old = s.old
         /\ Expect(s, e).observed = s.observed /\ Expect(s, e).expected = e
         /\ s.alive => Expect(s, e).failed = FALSE
BY DEF Expect, Supervisors, Settled

\* The constants have the types, and the inclusions, the assumption gives them.
LEMMA Bounds ==
  /\ RecoverAfter \in Nat \ {0} /\ RecoveryAttempts \in Nat
  /\ MaxRequests \in Nat /\ MaxFaults \in Nat /\ MaxQueue \in Nat \ {0}
  /\ InitialStates \subseteq Settled \cup Unsettled /\ Demands \subseteq DemandStates
BY Zenon, SessionAssumption

\* Updates of a failure state yield failure states, with the attempts they say.
LEMMA UpdateKeeps ==
  ASSUME NEW f \in FailureStates, NEW n \in Nat, NEW b \in BOOLEAN
  PROVE  /\ [f EXCEPT !.waiting = b] \in FailureStates
         /\ [f EXCEPT !.waiting = b].attempts = f.attempts
         /\ [f EXCEPT !.failures = n, !.error = TRUE, !.aged = FALSE] \in FailureStates
         /\ [f EXCEPT !.failures = n, !.error = TRUE, !.aged = FALSE].attempts = f.attempts
         /\ [f EXCEPT !.failures = n, !.aged = FALSE] \in FailureStates
         /\ [f EXCEPT !.failures = n, !.aged = FALSE].attempts = f.attempts
         /\ [f EXCEPT !.attempts = n, !.aged = FALSE] \in FailureStates
         /\ [f EXCEPT !.attempts = n, !.aged = FALSE].attempts = n
         /\ [f EXCEPT !.failures = 1, !.attempts = n, !.aged = FALSE, !.waiting = TRUE]
              \in FailureStates
<1>1. /\ [f EXCEPT !.waiting = b] \in FailureStates
      /\ [f EXCEPT !.waiting = b].attempts = f.attempts
  BY DEF FailureStates
<1>2. [f EXCEPT !.failures = n, !.error = TRUE, !.aged = FALSE] \in FailureStates
  BY DEF FailureStates
<1>3. [f EXCEPT !.failures = n, !.error = TRUE, !.aged = FALSE].attempts = f.attempts
  BY DEF FailureStates
<1>4. [f EXCEPT !.failures = n, !.aged = FALSE] \in FailureStates
  BY DEF FailureStates
<1>5. [f EXCEPT !.failures = n, !.aged = FALSE].attempts = f.attempts
  BY DEF FailureStates
<1>6. [f EXCEPT !.attempts = n, !.aged = FALSE] \in FailureStates
  BY DEF FailureStates
<1>7. [f EXCEPT !.attempts = n, !.aged = FALSE].attempts = n
  BY DEF FailureStates
<1>8. [f EXCEPT !.failures = 1, !.attempts = n, !.aged = FALSE, !.waiting = TRUE]
        \in FailureStates
  BY DEF FailureStates
<1> QED
  BY <1>1, <1>2, <1>3, <1>4, <1>5, <1>6, <1>7, <1>8

\* FailureState's operations yield failure states, and none but an attempt adds an attempt.
LEMMA FailureKeeps ==
  ASSUME NEW f \in FailureStates
  PROVE  /\ Expire(f) \in FailureStates /\ Expire(f).attempts <= f.attempts
         /\ RecordFailure(f) \in FailureStates /\ RecordFailure(f).attempts <= f.attempts
         /\ RecordInitialError(f) \in FailureStates
         /\ RecordInitialError(f).attempts <= f.attempts
         /\ DelayRetry(f) \in FailureStates /\ DelayRetry(f).attempts = f.attempts
         /\ Cleared(f) \in FailureStates /\ Cleared(f).attempts = 0
         /\ RecordFailedEmergency(f) \in FailureStates /\ RecordFailedEmergency(f).attempts = 0
<1> DEFINE e == Expire(f)
<1>0. e \in FailureStates
  BY DEF Expire, FailureStates
<1>1. e.attempts <= f.attempts
  BY DEF Expire, FailureStates
<1>2. RecordFailure(f) \in FailureStates /\ RecordFailure(f).attempts <= f.attempts
  <2> DEFINE c == [e EXCEPT !.failures = @ + 1, !.error = TRUE, !.aged = FALSE]
             b == c.waiting \/ ~RecoveryDue(c)
  <2>1. e.failures + 1 \in Nat /\ b \in BOOLEAN
    BY <1>0 DEF FailureStates
  <2>2. c \in FailureStates /\ c.attempts = e.attempts
    BY <1>0, <2>1, UpdateKeeps
  <2>3. [c EXCEPT !.waiting = b] \in FailureStates /\ [c EXCEPT !.waiting = b].attempts = c.attempts
    BY <2>1, <2>2, UpdateKeeps, Zenon
  <2>4. RecordFailure(f) = IF f.error THEN f ELSE [c EXCEPT !.waiting = b]
    BY Zenon DEF RecordFailure
  <2>5. f.attempts <= f.attempts
    BY DEF FailureStates
  <2> HIDE DEF e, c, b
  <2> QED
    BY <1>1, <2>2, <2>3, <2>4, <2>5
<1>3. RecordInitialError(f) \in FailureStates /\ RecordInitialError(f).attempts <= f.attempts
  <2> DEFINE n == IF e.failures = 0 THEN 1 ELSE e.failures
  <2>1. n \in Nat
    BY <1>0 DEF FailureStates
  <2>2. RecordInitialError(f) = [e EXCEPT !.failures = n, !.aged = FALSE]
    BY Zenon DEF RecordInitialError
  <2> HIDE DEF e, n
  <2>3. /\ [e EXCEPT !.failures = n, !.aged = FALSE] \in FailureStates
        /\ [e EXCEPT !.failures = n, !.aged = FALSE].attempts = e.attempts
    BY <1>0, <2>1, UpdateKeeps, Zenon
  <2> QED
    BY <1>1, <2>2, <2>3
<1>4. DelayRetry(f) \in FailureStates /\ DelayRetry(f).attempts = f.attempts
  BY DEF DelayRetry, FailureStates
<1>5. Cleared(f) \in FailureStates /\ Cleared(f).attempts = 0
  BY DEF Cleared, NoFailure, FailureStates
<1>6. RecordFailedEmergency(f) \in FailureStates /\ RecordFailedEmergency(f).attempts = 0
  BY DEF RecordFailedEmergency, FailureStates
<1> QED
  BY <1>0, <1>1, <1>2, <1>3, <1>4, <1>5, <1>6

\* A recovery, and a failed attempt, count one attempt.
LEMMA AttemptKeeps ==
  ASSUME NEW f \in FailureStates
  PROVE  /\ RecordRecovery(f) \in FailureStates
         /\ RecordRecovery(f).attempts = f.attempts + 1
         /\ RecordFailedAttempt(f) \in FailureStates
         /\ RecordFailedAttempt(f).attempts = f.attempts + 1
<1> DEFINE c == [f EXCEPT !.attempts = @ + 1, !.aged = FALSE]
           b == c.waiting \/ ~EmergencyDue(c)
<1>0. f.attempts + 1 \in Nat /\ b \in BOOLEAN
  BY DEF FailureStates
<1>1. RecordRecovery(f) \in FailureStates
  BY <1>0, UpdateKeeps DEF RecordRecovery
<1>2. RecordRecovery(f).attempts = f.attempts + 1
  BY DEF RecordRecovery, FailureStates
<1>3. c \in FailureStates /\ c.attempts = f.attempts + 1
  BY <1>0, UpdateKeeps
<1>4. [c EXCEPT !.waiting = b] \in FailureStates /\ [c EXCEPT !.waiting = b].attempts = c.attempts
  BY <1>0, <1>3, UpdateKeeps, Zenon
<1>5. RecordFailedAttempt(f) = [c EXCEPT !.waiting = b]
  BY Zenon DEF RecordFailedAttempt
<1> HIDE DEF c, b
<1> QED
  BY <1>1, <1>2, <1>3, <1>4, <1>5

\* A procedure has a kind and a demand; nothing is sent before there is one. A recovery is only
\* attempted while attempts are left, and adopts no tasking.
Owned ==
  /\ proc.phase # "none" => proc.kind # "none"
  /\ proc.kind # "none" => proc.demand \in Demands
  /\ proc.phase = "none" => call.status = "none" /\ act.status = "none"
  /\ proc.kind = "RECOVER" /\ session = "running" => failure.attempts < RecoveryAttempts
  /\ proc.recovered => proc.kind = "RECOVER"
  /\ session \in {"off", "delay"} => proc.kind = "none"

\* What the supervisor expects: a settled state it observes, or a transition a procedure commands;
\* nothing, once a failure was found.
Expected ==
  /\ sup.expected \in Settled => sup.observed.current = sup.expected
  /\ sup.expected = "TRANSITION" => Commanded(proc.kind) /\ proc.phase \in {"task", "confirm"}
  /\ sup.alive /\ sup.failed => sup.expected = "UNKNOWN"

\* The phases in which no task was sent yet, or the last one is done with.
Quiet == {"none", "online", "reconcile", "clearing", "apply", "preparing", "confirm", "claim",
          "activating", "starting", "tasking", "pause", "hold"}

\* What a procedure knows of its task and of its tasking, and where these run.
Tracked ==
  /\ proc.phase \in Quiet => call.status = "none"
  /\ work = "ours" => call.status = "running"
  /\ work = "adrift" => call.status = "unknown"
  /\ tasking = "mine" => act.status \in {"accepted", "started", "failed", "unconfirmed"}
  /\ tasking = "adrift" => act.status = "lost"
  /\ ending \in {"init", "request"} => tasking # "mine"

\* How far the activation is in each phase of the logic.
Activated ==
  /\ proc.kind = "RECOVER" => ~proc.adopted /\ proc.phase # "reconcile"
  /\ proc.phase \in {"none", "online", "reconcile", "clearing"} => ~proc.adopted
  /\ proc.phase \in {"none", "online", "reconcile", "clearing", "claim", "activating"} =>
       act.status = "none"
  /\ proc.phase \in {"apply", "preparing", "task", "expiring", "confirm"} =>
       act.status = IF proc.adopted THEN "started" ELSE "none"
  /\ proc.phase = "starting" => act.status # "none"
  /\ proc.phase \in {"tasking", "pause"} => act.status = "started"
  /\ proc.phase = "pause" => ending = "init"
  /\ act.status \notin {"none", "rejected"} /\ proc.phase # "done" => act.ends

\* What is left when a procedure is done, if it does not say that something may be.
LeftBehind ==
  /\ session \in {"off", "delay"} => proc.phase = "none"
  /\ proc.phase = "done" /\ ~proc.unresolved =>
       /\ ~Sent(call) /\ call.status # "unknown"
       /\ sup.alive => ~Pending(act) /\ tasking \notin {"mine", "adrift"}

\* The types, and who owns what.
TypeInv == TypeOK /\ Owned

-----------------------------------------------------------------------------
(* Procedures. *)

\* What a procedure may end with.
Errors == {"none", "offline", "unrecoverable", "controller", "other"}

\* `q` is the same procedure as `p`, on its way to its end.
SameProc(q, p) ==
  /\ q \in Procedures /\ q.kind = p.kind /\ q.demand = p.demand /\ q.adopted = p.adopted
  /\ q.recovered = p.recovered

\* Moving on keeps a procedure the same.
LEMMA GotoKeeps ==
  ASSUME NEW p \in Procedures, NEW x \in Phases
  PROVE  SameProc([p EXCEPT !.phase = x], p)
         /\ [p EXCEPT !.phase = x].phase = x /\ [p EXCEPT !.phase = x].unresolved = p.unresolved
BY DEF SameProc, Procedures

\* A raised error starts the graceful stop.
LEMMA RaisedKeeps ==
  ASSUME NEW p \in Procedures, NEW e \in Errors
  PROVE  SameProc(Raised(p, e), p) /\ Raised(p, e).phase = "graceful"
BY DEF SameProc, Raised, Procedures, Phases, Errors

\* Classifying an activation failure leaves the phase; a lost or unconfirmed start is unresolved.
LEMMA ClassifiedKeeps ==
  ASSUME NEW p \in Procedures
  PROVE  /\ SameProc(Classified(p), p) /\ Classified(p).phase = p.phase
         /\ act.status \in {"lost", "unconfirmed"} => Classified(p).unresolved
<1> DEFINE b == p.unresolved \/ act.status \in {"lost", "unconfirmed"}
<1>1. b \in BOOLEAN
  OBVIOUS
<1>2. \A c \in BOOLEAN : LET q == [p EXCEPT !.unresolved = c]
                         IN  SameProc(q, p) /\ q.phase = p.phase /\ q.unresolved = c
  BY DEF SameProc, Procedures
<1>3. Classified(p) = [p EXCEPT !.unresolved = b]
  BY Zenon DEF Classified
<1>4. act.status \in {"lost", "unconfirmed"} => b = TRUE
  BY Zenon
<1> HIDE DEF b
<1> QED
  BY <1>1, <1>2, <1>3, <1>4

\* An escalated stop is an abort.
LEMMA EscalatedKeeps ==
  ASSUME NEW p \in Procedures, NEW b \in BOOLEAN
  PROVE  /\ SameProc(Escalated(p), p) /\ Escalated(p).phase = "aborting"
         /\ SameProc([Escalated(p) EXCEPT !.unclean = b], p)
         /\ [Escalated(p) EXCEPT !.unclean = b].phase = "aborting"
<1> DEFINE q == [Escalated(p) EXCEPT !.unclean = b]
<1>1. Escalated(p) \in Procedures
  BY DEF Escalated, Procedures, Phases
<1>2. SameProc(Escalated(p), p) /\ Escalated(p).phase = "aborting"
  BY <1>1 DEF SameProc, Escalated, Procedures
<1>3. q \in Procedures
  BY <1>1 DEF Procedures
<1>4. q.kind = Escalated(p).kind /\ q.demand = Escalated(p).demand /\ q.phase = Escalated(p).phase
      /\ q.adopted = Escalated(p).adopted /\ q.recovered = Escalated(p).recovered
  BY <1>1 DEF Procedures
<1> QED
  BY <1>2, <1>3, <1>4 DEF SameProc

\* A procedure that concludes says that something may be running, if its task may be.
LEMMA ConcludedKeeps ==
  ASSUME NEW p \in Procedures
  PROVE  /\ SameProc(Concluded(p), p) /\ Concluded(p).phase = "done"
         /\ ~Concluded(p).unresolved =>
              ~p.unresolved /\ ~Sent(call) /\ call.status # "unknown"
<1> DEFINE b == p.unresolved \/ Sent(call) \/ call.status = "unknown"
<1>1. b \in BOOLEAN
  OBVIOUS
<1>2. Reason(p, ending) \in Errors
  BY DEF Reason, Procedures, Errors
<1>3. ASSUME NEW e \in Errors, NEW c \in BOOLEAN
      PROVE  \A q : q = [p EXCEPT !.phase = "done", !.error = e, !.unresolved = c] =>
                       SameProc(q, p) /\ q.phase = "done" /\ q.unresolved = c
  <2> DEFINE q == [p EXCEPT !.phase = "done", !.error = e, !.unresolved = c]
  <2>1. q \in Procedures
    <3>1. "done" \in Phases
      BY DEF Phases
    <3> QED
      BY <3>1 DEF Procedures, Errors
  <2>2. /\ q.kind = p.kind /\ q.demand = p.demand /\ q.adopted = p.adopted
        /\ q.recovered = p.recovered /\ q.phase = "done" /\ q.unresolved = c
    BY DEF Procedures
  <2> QED
    BY <2>1, <2>2, Zenon DEF SameProc
<1>4. Concluded(p) = [p EXCEPT !.phase = "done", !.error = Reason(p, ending), !.unresolved = b]
  BY Zenon DEF Concluded
<1>5. b = FALSE => ~p.unresolved /\ ~Sent(call) /\ call.status # "unknown"
  BY Zenon
<1> HIDE DEF b
<1>6. /\ SameProc(Concluded(p), p) /\ Concluded(p).phase = "done" /\ Concluded(p).unresolved = b
  <2> DEFINE e == Reason(p, ending)
  <2>1. e \in Errors /\ Concluded(p) = [p EXCEPT !.phase = "done", !.error = e, !.unresolved = b]
    BY <1>2, <1>4
  <2> HIDE DEF e
  <2> QED
    BY <1>1, <1>3, <2>1, Zenon
<1> QED
  BY <1>1, <1>5, <1>6

\* A request to stop or to abort starts cleanup, except before the controller was found online.
LEMMA RequestKeeps ==
  ASSUME NEW p \in Procedures
  PROVE  /\ SameProc(RequestAbort(p), p) /\ SameProc(RequestStop(p), p)
         /\ RequestAbort(p) = p \/ RequestAbort(p).phase \in {"online", "aborting"}
         /\ RequestStop(p) = p \/ RequestStop(p).phase \in {"online", "graceful"}
         /\ p.phase # "online" => /\ RequestAbort(p).phase # "online"
                                  /\ RequestStop(p).phase # "online"
<1> DEFINE x == IF p.phase = "online" THEN "online" ELSE "aborting"
           y == IF p.phase = "online" THEN "online" ELSE "graceful"
           q == [p EXCEPT !.interrupt = "abort", !.phase = x]
           r == [p EXCEPT !.interrupt = "stop", !.phase = y]
<1>1. RequestAbort(p) = IF p.interrupt = "abort" THEN p ELSE q
  BY Zenon DEF RequestAbort
<1>2. RequestStop(p) = IF p.interrupt # "none" THEN p ELSE r
  BY Zenon DEF RequestStop
<1>3. x \in Phases /\ y \in Phases
  BY DEF Phases
<1>4. x \in {"online", "aborting"} /\ y \in {"online", "graceful"}
      /\ (p.phase # "online" => x # "online" /\ y # "online")
  OBVIOUS
<1> HIDE DEF x, y
<1>5. q \in Procedures /\ r \in Procedures
  BY <1>3 DEF Procedures
<1>6. SameProc(p, p) /\ SameProc(q, p) /\ q.phase = x
  BY <1>5 DEF SameProc, Procedures
<1>7. SameProc(r, p) /\ r.phase = y
  BY <1>5 DEF SameProc, Procedures
<1> HIDE DEF q, r
<1> QED
  BY <1>1, <1>2, <1>4, <1>6, <1>7

\* A controller that accepts a task publishes an operating state.
LEMMA SentTyped ==
  ASSUME TypeInv, call.status = "sending"
  PROVE  [current |-> "TRANSITION", target |-> Goal(proc.kind),
          ctx |-> IF proc.kind = "RECOVER" THEN ctl.ctx ELSE proc.demand.ctx] \in OperatingStates
<1>1. proc.kind # "none" /\ proc.demand \in DemandStates
  BY Bounds DEF TypeInv, Owned
<1>2. proc.demand.ctx \in Contexts
  BY <1>1 DEF DemandStates
<1> QED
  BY <1>1, <1>2 DEF TypeInv, TypeOK, ProcType, WorldType, Procedures, Goal, OperatingStates, Settled

\* A finished execution leaves an operating state.
LEMMA FinishTyped ==
  ASSUME WorldType, NEW how \in {"succeeded", "failed", "aborted"}, Finish(how)
  PROVE  ctl' \in OperatingStates
<1>1. PICK s \in Settled \cup Unsettled : Publish([ctl EXCEPT !.current = s, !.target = "none"])
  BY DEF Finish, WorldType, OperatingStates, Settled, Unsettled
<1> QED
  BY <1>1 DEF Publish, WorldType, OperatingStates

-----------------------------------------------------------------------------
(* What each step changes. *)

\* The steps that change the controller or the program.
WorldChanges ==
  \/ Accepts \/ NotAccepted \/ StrayBegins \/ StrayEnds \/ Reports
  \/ (\E how \in {"succeeded", "failed", "aborted"} : Finishes(how))
  \/ (\E lost \in BOOLEAN : Reported(lost))
  \/ StartAccepted \/ StartFails \/ SessionFails \/ SessionEnds
  \/ ClearsTasking \/ Claim \/ TaskingCleaned \/ CleaningFails
  \/ EvaluateRaises \/ EvaluateIdle \/ Released

\* No other step does.
LEMMA WorldFrame ==
  ASSUME Next
  PROVE  WorldChanges \/ UNCHANGED worldVars
<1> USE DEF worldVars, OnlyProc, OnlyRequest, WorldChanges
<1>1. CASE ProcedureStep
  BY <1>1 DEF ProcedureStep, Online, Reconcile, Apply, SendTask, TaskEnds, Confirm,
     ConfirmFails, SendStart, Started, TaskingEnded, PauseEnds, NoDispatch, TaskCleaned,
     NothingToEnd
<1>2. CASE WorldStep
  BY <1>2 DEF WorldStep, StartConfirmed, OnlyProgram
<1>3. CASE SessionStep
  BY <1>3 DEF SessionStep, Deliver, GraceChecked, Expectation, Evaluate, EvaluateUnsupervised,
     EvaluateRunning, RetryElapses, Begin, DelayElapses
<1>4. CASE FaultStep
  BY <1>4 DEF FaultStep, GraceElapses, MonitorFails, TaskExpires, StartExpires, CleanupExpires,
     SettleElapses
<1>5. CASE StablePasses \/ (\E d \in Demands : SetDemand(d)) \/ Disable \/ Enable
  BY <1>5 DEF StablePasses, SetDemand, Disable, Enable
<1> QED
  BY <1>1, <1>2, <1>3, <1>4, <1>5 DEF Next

\* The steps that change the supervisor or its queue.
SupChanges ==
  \/ Accepts \/ NotAccepted \/ StrayBegins \/ StrayEnds \/ Reports \/ Claim
  \/ (\E how \in {"succeeded", "failed", "aborted"} : Finishes(how))
  \/ Deliver \/ GraceElapses \/ GraceChecked \/ Expectation \/ MonitorFails
  \/ SendTask \/ TaskExpires \/ TaskEnds \/ Confirm \/ ConfirmFails \/ TaskCleaned
  \/ EvaluateRaises \/ EvaluateUnsupervised \/ EvaluateRunning \/ EvaluateIdle
  \/ Begin \/ Released

\* No other step does.
LEMMA SupFrame ==
  ASSUME Next
  PROVE  SupChanges \/ UNCHANGED supVars
<1> USE DEF supVars, OnlyProc, OnlyRequest, SupChanges
<1>1. CASE ProcedureStep
  BY <1>1 DEF ProcedureStep, Online, Reconcile, ClearsTasking, Apply, SendStart, Started,
     TaskingEnded, PauseEnds, NoDispatch, NothingToEnd, TaskingCleaned
<1>2. CASE WorldStep
  BY <1>2 DEF WorldStep, OnlyWorld, Reported, StartAccepted, SessionEnds, StartConfirmed,
     OnlyProgram
<1>3. CASE SessionStep
  BY <1>3 DEF SessionStep, Evaluate, RetryElapses, DelayElapses
<1>4. CASE FaultStep
  BY <1>4 DEF FaultStep, StartFails, SessionFails, OnlyProgram, StartExpires, CleanupExpires,
     CleaningFails, SettleElapses
<1>5. CASE StablePasses \/ (\E d \in Demands : SetDemand(d)) \/ Disable \/ Enable
  BY <1>5 DEF StablePasses, SetDemand, Disable, Enable
<1> QED
  BY <1>1, <1>2, <1>3, <1>4, <1>5 DEF Next

\* The steps that change the procedure, its task or its activation.
ProcChanges ==
  \/ Accepts \/ NotAccepted \/ (\E lost \in BOOLEAN : Reported(lost))
  \/ StartAccepted \/ StartConfirmed \/ StartFails
  \/ ProcedureStep
  \/ session = "running" /\ (EvaluateRaises \/ EvaluateUnsupervised \/ EvaluateRunning \/ EvaluateIdle)
  \/ Released
  \/ TaskExpires \/ StartExpires \/ CleanupExpires \/ CleaningFails

\* No other step does.
LEMMA ProcFrame ==
  ASSUME Next
  PROVE  ProcChanges \/ UNCHANGED procVars
<1> USE DEF procVars, OnlyRequest, ProcChanges
<1>2. CASE WorldStep
  BY <1>2 DEF WorldStep, OnlyWorld, Finishes, StrayEnds, SessionEnds, OnlyProgram
<1>3. CASE SessionStep
  BY <1>3 DEF SessionStep, Deliver, GraceChecked, Expectation, Evaluate, RetryElapses,
     DelayElapses, Begin
<1>4. CASE FaultStep
  BY <1>4 DEF FaultStep, GraceElapses, MonitorFails, StrayBegins, Reports, OnlyWorld,
     SessionFails, OnlyProgram, SettleElapses
<1>5. CASE StablePasses \/ (\E d \in Demands : SetDemand(d)) \/ Disable \/ Enable
  BY <1>5 DEF StablePasses, SetDemand, Disable, Enable
<1> QED
  BY <1>2, <1>3, <1>4, <1>5 DEF Next

\* The steps that change FailureState.
FailureChanges ==
  \/ Deliver \/ GraceChecked \/ Expectation \/ Confirm \/ TaskCleaned
  \/ session = "running" /\ EvaluateRaises
  \/ session = "running" /\ EvaluateUnsupervised
  \/ session = "running" /\ EvaluateIdle
  \/ RetryElapses \/ StablePasses \/ Begin

\* No other step does.
LEMMA FailureFrame ==
  ASSUME Next
  PROVE  FailureChanges \/ UNCHANGED failure
<1> USE DEF OnlyProc, OnlyRequest, FailureChanges
<1>1. CASE ProcedureStep
  BY <1>1 DEF ProcedureStep, Online, Reconcile, ClearsTasking, Claim, Apply, SendTask, TaskEnds,
     ConfirmFails, SendStart, Started, TaskingEnded, PauseEnds, NoDispatch, NothingToEnd,
     TaskingCleaned
<1>2. CASE WorldStep
  BY <1>2 DEF WorldStep, OnlyWorld, Accepts, Finishes, StrayEnds, Reported, StartAccepted,
     SessionEnds, StartConfirmed, OnlyProgram
<1>3. CASE SessionStep
  BY <1>3 DEF SessionStep, Evaluate, EvaluateRunning, DelayElapses, Released
<1>4. CASE FaultStep
  BY <1>4 DEF FaultStep, GraceElapses, MonitorFails, NotAccepted, StrayBegins, Reports,
     OnlyWorld, StartFails, SessionFails, OnlyProgram, TaskExpires, StartExpires,
     CleanupExpires, CleaningFails, SettleElapses
<1>5. CASE (\E d \in Demands : SetDemand(d)) \/ Disable \/ Enable
  BY <1>5 DEF SetDemand, Disable, Enable
<1> QED
  BY <1>1, <1>2, <1>3, <1>4, <1>5 DEF Next

-----------------------------------------------------------------------------
(* Types. *)

\* The controller and the program keep their types.
LEMMA WorldTyped ==
  ASSUME TypeInv, Next
  PROVE  WorldType'
<1> USE DEF WorldType
<1>0. WorldType /\ ctl \in OperatingStates
  BY DEF TypeInv, TypeOK
<1>1. CASE Accepts
  BY <1>0, <1>1, SentTyped DEF Accepts, Publish
<1>2. CASE NotAccepted
  BY <1>0, <1>2, SentTyped DEF NotAccepted, Publish
<1>3. CASE StrayBegins
  <2>1. \A s \in Settled : \A x \in Contexts :
          [current |-> "TRANSITION", target |-> s, ctx |-> x] \in OperatingStates
    BY DEF OperatingStates
  <2>2. ctl' \in OperatingStates
    BY <1>0, <1>3, <2>1 DEF StrayBegins, Publish
  <2> QED
    BY <1>0, <1>3, <2>2 DEF StrayBegins
<1>4. CASE StrayEnds
  BY <1>0, <1>4, FinishTyped DEF StrayEnds
<1>5. CASE Reports
  <2>1. \A s \in Settled \cup Unsettled : \A x \in Contexts :
          [current |-> s, target |-> "none", ctx |-> x] \in OperatingStates
    BY DEF OperatingStates
  <2>2. ctl' \in OperatingStates
    BY <1>0, <1>5, <2>1 DEF Reports, Publish
  <2> QED
    BY <1>0, <1>5, <2>2 DEF Reports
<1>6. ASSUME NEW how \in {"succeeded", "failed", "aborted"}, Finishes(how)
      PROVE  WorldType'
  BY <1>0, <1>6, FinishTyped DEF Finishes
<1>7. ASSUME NEW lost \in BOOLEAN, Reported(lost)
      PROVE  WorldType'
  BY <1>0, <1>7 DEF Reported
<1>8. CASE StartAccepted \/ StartFails \/ SessionFails \/ SessionEnds
  BY <1>0, <1>8 DEF StartAccepted, StartFails, SessionFails, SessionEnds, OnlyProgram
<1>9. CASE ClearsTasking \/ TaskingCleaned \/ CleaningFails
  BY <1>0, <1>9 DEF ClearsTasking, TaskingCleaned, CleaningFails
<1>10. CASE Claim
  BY <1>0, <1>10, FinishTyped DEF Claim
<1>11. CASE EvaluateRaises
  BY <1>0, <1>11 DEF EvaluateRaises, EndSession, Forget
<1>12. CASE EvaluateIdle
  BY <1>0, <1>12 DEF EvaluateIdle, EndSession, Forget
<1>13. CASE Released
  BY <1>0, <1>13 DEF Released, EndSession, Forget
<1>14. CASE UNCHANGED worldVars
  BY <1>0, <1>14 DEF worldVars
<1> QED
  BY <1>1, <1>2, <1>3, <1>4, <1>5, <1>6, <1>7, <1>8, <1>9, <1>10, <1>11, <1>12, <1>13, <1>14,
     WorldFrame DEF WorldChanges

\* The bounds on requests and faults are kept.
LEMMA CountsTyped ==
  ASSUME LifeType, Next
  PROVE  requests' \in 0..MaxRequests /\ faults' \in 0..MaxFaults
<1>0. /\ requests \in 0..MaxRequests /\ faults \in 0..MaxFaults
      /\ MaxRequests \in Nat /\ MaxFaults \in Nat
  BY Bounds DEF LifeType
<1> USE <1>0 DEF Fault, Perhaps, OnlyProc, OnlyWorld, OnlyProgram, Request, OnlyRequest
<1>1. CASE ProcedureStep
  BY <1>1 DEF ProcedureStep, Online, Reconcile, ClearsTasking, Apply, SendTask, TaskEnds, Confirm,
     ConfirmFails, Claim, SendStart, Started, TaskingEnded, PauseEnds, NoDispatch, TaskCleaned,
     ReadEnded, NothingToEnd, TaskingCleaned
<1>2. CASE WorldStep
  BY <1>2 DEF WorldStep, Accepts, StrayEnds, Finishes, Reported, StartAccepted, StartConfirmed,
     SessionEnds
<1>3. CASE SessionStep
  BY <1>3 DEF SessionStep, Deliver, GraceChecked, Expectation, Evaluate, EvaluateRaises,
     EvaluateUnsupervised, EvaluateRunning, EvaluateIdle, RetryElapses, Begin, Released, DelayElapses
<1>4. CASE FaultStep
  BY <1>4 DEF FaultStep, GraceElapses, MonitorFails, NotAccepted, StrayBegins, Reports, StartFails,
     SessionFails, TaskExpires, StartExpires, CleanupExpires, CleaningFails, SettleElapses
<1>5. CASE StablePasses \/ (\E d \in Demands : SetDemand(d)) \/ Disable \/ Enable
  BY <1>5 DEF StablePasses, SetDemand, Disable, Enable
<1> QED
  BY <1>1, <1>2, <1>3, <1>4, <1>5 DEF Next

\* The lifecycle's own state keeps its types.
LEMMA LifeTyped ==
  ASSUME LifeType, Next
  PROVE  LifeType'
<1> DEFINE Rest == /\ enabled' \in BOOLEAN /\ demand' \in Demands \cup {NoDemand}
                   /\ woken' \in BOOLEAN /\ impatient' \in BOOLEAN
                   /\ session' \in {"off", "running", "releasing", "delay"}
<1>0. /\ enabled \in BOOLEAN /\ demand \in Demands \cup {NoDemand}
      /\ woken \in BOOLEAN /\ impatient \in BOOLEAN
      /\ session \in {"off", "running", "releasing", "delay"}
  BY DEF LifeType
<1>s. SUFFICES Rest
  BY CountsTyped DEF LifeType
<1> USE <1>0 DEF lifeVars, OnlyProc, OnlyWorld, OnlyProgram, OnlyRequest, Process, EndSession
<1>1. CASE ProcedureStep
  BY <1>1 DEF ProcedureStep, Online, Reconcile, ClearsTasking, Apply, SendTask, TaskEnds, Confirm,
     ConfirmFails, Claim, SendStart, Started, TaskingEnded, PauseEnds, NoDispatch, TaskCleaned,
     ReadEnded, NothingToEnd, TaskingCleaned
<1>2. CASE WorldStep
  BY <1>2 DEF WorldStep, Accepts, StrayEnds, Finishes, Reported, StartAccepted, StartConfirmed,
     SessionEnds
<1>3. CASE SessionStep
  BY <1>3 DEF SessionStep, Deliver, GraceChecked, Expectation, Evaluate, EvaluateRaises,
     EvaluateUnsupervised, EvaluateRunning, EvaluateIdle, RetryElapses, Begin, Released, DelayElapses
<1>4. CASE FaultStep
  BY <1>4 DEF FaultStep, GraceElapses, MonitorFails, NotAccepted, StrayBegins, Reports, StartFails,
     SessionFails, TaskExpires, StartExpires, CleanupExpires, CleaningFails, SettleElapses
<1>5. CASE StablePasses \/ (\E d \in Demands : SetDemand(d)) \/ Disable \/ Enable
  BY <1>5 DEF StablePasses, SetDemand, Disable, Enable
<1> QED
  BY <1>1, <1>2, <1>3, <1>4, <1>5 DEF Next

\* While there is room, a published state leaves the queue within its bound.
LEMMA PublishTyped ==
  ASSUME SupType, Room, NEW c, Publish(c), ctl' \in OperatingStates
  PROVE  queue' \in Seq(OperatingStates) /\ Len(queue) <= Len(queue') /\ Len(queue') <= MaxQueue
<1>1. c \in OperatingStates /\ queue \in Seq(OperatingStates) /\ Len(queue) < MaxQueue
  BY Bounds DEF Publish, SupType, Room
<1>2. queue' \in {queue, Append(queue, c)}
  BY <1>1 DEF Publish
<1>3. Append(queue, c) \in Seq(OperatingStates) /\ Len(Append(queue, c)) = Len(queue) + 1
  BY <1>1, AppendProperties
<1>4. Len(queue) \in Nat /\ MaxQueue \in Nat
  BY <1>1, LenProperties, Bounds
<1> QED
  BY <1>1, <1>2, <1>3, <1>4

\* A fresh read observes what the controller says, or what was observed, and marks the queue as old.
LEMMA ReadKeeps ==
  ASSUME SupType, ctl \in OperatingStates
  PROVE  /\ Read(sup) \in Supervisors /\ Read(sup).old = Len(queue)
         /\ Read(sup).alive = sup.alive /\ Read(sup).expected = sup.expected
         /\ Read(sup).failed = sup.failed
         /\ Read(sup).observed \in {ctl, sup.observed}
<1>1. sup \in Supervisors /\ Len(queue) \in Nat
  BY LenProperties DEF SupType
<1>2. \A n \in Nat : LET p == [sup EXCEPT !.observed = ctl]
                     IN  /\ p \in Supervisors /\ [p EXCEPT !.old = n] \in Supervisors
                         /\ [p EXCEPT !.old = n].old = n
                         /\ [p EXCEPT !.old = n].alive = sup.alive
                         /\ [p EXCEPT !.old = n].expected = sup.expected
                         /\ [p EXCEPT !.old = n].failed = sup.failed
                         /\ [p EXCEPT !.old = n].observed = ctl
  BY <1>1 DEF Supervisors
<1>3. \A n \in Nat : LET q == [sup EXCEPT !.old = n]
                     IN  q \in Supervisors /\ q.old = n /\ q.alive = sup.alive
                         /\ q.expected = sup.expected /\ q.observed = sup.observed
                         /\ q.failed = sup.failed
  BY <1>1 DEF Supervisors
<1>4. \/ Read(sup) = [[sup EXCEPT !.observed = ctl] EXCEPT !.old = Len(queue)]
      \/ Read(sup) = [sup EXCEPT !.old = Len(queue)]
  BY Zenon DEF Read, Processed
<1>5. CASE Read(sup) = [[sup EXCEPT !.observed = ctl] EXCEPT !.old = Len(queue)]
  <2> DEFINE r == [[sup EXCEPT !.observed = ctl] EXCEPT !.old = Len(queue)]
  <2>1. /\ r \in Supervisors /\ r.old = Len(queue) /\ r.alive = sup.alive
        /\ r.expected = sup.expected /\ r.failed = sup.failed /\ r.observed = ctl
    BY <1>1, <1>2, Zenon
  <2>2. Read(sup) = r
    BY <1>5
  <2> HIDE DEF r
  <2> QED
    BY <2>1, <2>2
<1>6. CASE Read(sup) = [sup EXCEPT !.old = Len(queue)]
  <2> DEFINE r == [sup EXCEPT !.old = Len(queue)]
  <2>1. /\ r \in Supervisors /\ r.old = Len(queue) /\ r.alive = sup.alive
        /\ r.expected = sup.expected /\ r.failed = sup.failed /\ r.observed = sup.observed
    BY <1>1, <1>3, Zenon
  <2>2. Read(sup) = r
    BY <1>6
  <2> HIDE DEF r
  <2> QED
    BY <2>1, <2>2
<1> QED
  BY <1>4, <1>5, <1>6

\* Taking the next update shortens what is old; only a new update changes what is observed.
LEMMA TakeKeeps ==
  ASSUME SupType, queue # <<>>
  PROVE  LET s == [Processed(sup, Head(queue), sup.old = 0) EXCEPT !.old = IF @ > 0 THEN @ - 1 ELSE 0]
         IN  /\ s \in Supervisors /\ s.old <= Len(Tail(queue))
             /\ s.alive = sup.alive /\ s.expected = sup.expected
             /\ s.failed = sup.failed
             /\ s.observed = IF sup.old = 0 THEN Head(queue) ELSE sup.observed
<1> DEFINE t == Processed(sup, Head(queue), sup.old = 0)
           n == IF t.old > 0 THEN t.old - 1 ELSE 0
<1>1. /\ sup \in Supervisors /\ queue \in Seq(OperatingStates)
      /\ Head(queue) \in OperatingStates /\ Len(queue) \in Nat
      /\ Tail(queue) \in Seq(OperatingStates) /\ Len(Tail(queue)) = Len(queue) - 1
      /\ sup.old <= Len(queue) /\ sup.old \in Nat
  BY HeadTailProperties, LenProperties DEF SupType, Supervisors
<1>2. /\ t \in Supervisors /\ t.old = sup.old /\ t.alive = sup.alive /\ t.expected = sup.expected
      /\ t.failed = sup.failed
      /\ t.observed = IF sup.old = 0 THEN Head(queue) ELSE sup.observed
  BY <1>1 DEF Processed, Supervisors
<1>3. n \in Nat /\ n <= Len(Tail(queue))
  BY <1>1, <1>2
<1>4. \A m \in Nat : LET q == [t EXCEPT !.old = m]
                     IN  q \in Supervisors /\ q.old = m /\ q.alive = t.alive
                         /\ q.expected = t.expected /\ q.observed = t.observed
                         /\ q.failed = t.failed
  BY <1>2 DEF Supervisors
<1>5. [Processed(sup, Head(queue), sup.old = 0) EXCEPT !.old = IF @ > 0 THEN @ - 1 ELSE 0]
        = [t EXCEPT !.old = n]
  OBVIOUS
<1> HIDE DEF t, n
<1> QED
  BY <1>2, <1>3, <1>4, <1>5

\* No supervisor, and an empty queue, are well typed.
LEMMA NoSupTyped ==
  /\ NoSup \in Supervisors /\ NoSup.old = 0 /\ NoSup.alive = FALSE /\ NoSup.expected = "unset"
  /\ <<>> \in Seq(OperatingStates) /\ Len(<<>>) = 0
BY EmptySeq DEF NoSup, Supervisors

\* A new supervisor expects nothing yet.
LEMMA BegunTyped ==
  ASSUME NEW c \in OperatingStates
  PROVE  LET s == [NoSup EXCEPT !.alive = TRUE, !.observed = c]
         IN  s \in Supervisors /\ s.old = 0 /\ s.expected = "unset" /\ s.observed = c /\ s.alive
BY DEF NoSup, Supervisors

\* The supervisor keeps its types, and never takes more of the queue for old than there is.
LEMMA SupTyped ==
  ASSUME TypeInv, Next
  PROVE  SupType'
<1>0. /\ SupType /\ WorldType /\ ctl \in OperatingStates /\ ctl' \in OperatingStates
      /\ sup \in Supervisors /\ queue \in Seq(OperatingStates) /\ Len(queue) \in Nat
      /\ sup.old <= Len(queue) /\ sup.old \in Nat /\ Len(queue) <= MaxQueue /\ MaxQueue \in Nat
  BY WorldTyped, LenProperties, Bounds DEF TypeInv, TypeOK, SupType, WorldType, Supervisors
<1>q. SUFFICES /\ sup' \in Supervisors /\ queue' \in Seq(OperatingStates)
               /\ sup'.old <= Len(queue') /\ Len(queue') <= MaxQueue
  BY DEF SupType
<1>s. \A s \in Supervisors : s.old = sup.old /\ sup' = s /\ queue' = queue =>
        /\ sup' \in Supervisors /\ queue' \in Seq(OperatingStates)
        /\ sup'.old <= Len(queue') /\ Len(queue') <= MaxQueue
  BY <1>0
<1>p. ASSUME NEW c, Publish(c), Room, UNCHANGED sup
      PROVE  /\ sup' \in Supervisors /\ queue' \in Seq(OperatingStates)
             /\ sup'.old <= Len(queue') /\ Len(queue') <= MaxQueue
  <2>1. /\ queue' \in Seq(OperatingStates) /\ Len(queue) <= Len(queue')
        /\ Len(queue') <= MaxQueue
    BY <1>0, <1>p, PublishTyped
  <2> QED
    BY <2>1, <1>0, <1>p, LenProperties
<1>i. /\ Invalidated(sup) \in Supervisors /\ Invalidated(sup).old = sup.old
      /\ Judged(sup) \in Supervisors /\ Judged(sup).old = sup.old
  <2>1. Invalidated(sup) \in Supervisors /\ Invalidated(sup).old = sup.old
    BY <1>0, ExpectKeeps DEF Invalidated
  <2>2. Judged(sup) \in Supervisors /\ Judged(sup).old = sup.old
    BY <1>0, JudgedKeeps
  <2> QED
    BY <2>1, <2>2
<1>1. CASE Accepts
  BY <1>p, <1>1 DEF Accepts, OnlyWorld
<1>2. CASE NotAccepted
  BY <1>s, <1>p, <1>0, <1>2 DEF NotAccepted, OnlyWorld
<1>3. CASE StrayBegins \/ Reports
  BY <1>s, <1>p, <1>0, <1>3 DEF StrayBegins, Reports, OnlyWorld
<1>4. CASE StrayEnds
  BY <1>s, <1>p, <1>0, <1>4 DEF StrayEnds, Finish, OnlyWorld
<1>5. CASE Claim
  BY <1>s, <1>p, <1>0, <1>5 DEF Claim, Finish
<1>6. ASSUME NEW how \in {"succeeded", "failed", "aborted"}, Finishes(how)
      PROVE  /\ sup' \in Supervisors /\ queue' \in Seq(OperatingStates)
             /\ sup'.old <= Len(queue') /\ Len(queue') <= MaxQueue
  BY <1>p, <1>6 DEF Finishes, Finish, OnlyWorld
<1>7. CASE Deliver
  <2> DEFINE s == [Processed(sup, Head(queue), sup.old = 0) EXCEPT !.old = IF @ > 0 THEN @ - 1 ELSE 0]
  <2>0. queue # <<>> /\ queue' = Tail(queue) /\ Process(s)
    BY <1>7 DEF Deliver
  <2>2. s \in Supervisors /\ s.old <= Len(Tail(queue))
    BY <1>0, <2>0, TakeKeeps
  <2> HIDE DEF s
  <2>1. /\ queue # <<>> /\ queue' = Tail(queue) /\ sup' = Judged(s)
    BY <2>0 DEF Process
  <2>3. Judged(s) \in Supervisors /\ Judged(s).old = s.old
    BY <2>2, JudgedKeeps
  <2>4. Tail(queue) \in Seq(OperatingStates) /\ Len(Tail(queue)) = Len(queue) - 1
    BY <1>0, <2>1, HeadTailProperties
  <2> QED
    BY <1>0, <2>1, <2>2, <2>3, <2>4
<1>8. CASE GraceElapses
  <2>1. [sup EXCEPT !.grace = "over"] \in Supervisors /\ [sup EXCEPT !.grace = "over"].old = sup.old
    BY <1>0 DEF Supervisors
  <2> QED
    BY <1>s, <1>8, <2>1 DEF GraceElapses
<1>9. CASE GraceChecked \/ Expectation
  BY <1>s, <1>i, <1>9 DEF GraceChecked, Expectation, Process, supVars
<1>10. CASE MonitorFails
  <2>1. LET s == [sup EXCEPT !.alive = FALSE, !.failed = TRUE, !.old = 0]
        IN  s \in Supervisors /\ s.old = 0
    BY <1>0 DEF Supervisors
  <2> QED
    BY <1>0, <1>10, <2>1, NoSupTyped DEF MonitorFails
<1>11. CASE SendTask
  <2>1. Expect(sup, "TRANSITION") \in Supervisors /\ Expect(sup, "TRANSITION").old = sup.old
    BY <1>0, ExpectKeeps
  <2> QED
    BY <1>s, <1>0, <1>11, <2>1 DEF SendTask
<1>12. CASE TaskExpires \/ TaskEnds \/ ConfirmFails
  BY <1>s, <1>i, <1>0, <1>12 DEF TaskExpires, TaskEnds, ConfirmFails
<1>13. CASE Confirm \/ TaskCleaned
  <2>1. /\ Judged(Read(sup)) \in Supervisors /\ Judged(Read(sup)).old = Len(queue)
    BY <1>0, ReadKeeps, JudgedKeeps
  <2>2. /\ Invalidated(Judged(Read(sup))) \in Supervisors
        /\ Invalidated(Judged(Read(sup))).old = Len(queue)
    BY <2>1, ExpectKeeps DEF Invalidated
  <2>3. Confirm /\ Commanded(proc.kind) =>
          /\ Expect(Judged(Read(sup)), Goal(proc.kind)) \in Supervisors
          /\ Expect(Judged(Read(sup)), Goal(proc.kind)).old = Len(queue)
    <3>1. Commanded(proc.kind) => Goal(proc.kind) \in Settled
      BY DEF Commanded, Goal, Settled
    <3> QED
      BY <2>1, <3>1, ExpectKeeps
  <2>4. queue' = queue
    BY <1>13 DEF Confirm, TaskCleaned
  <2>5. \/ sup' = sup \/ sup' = Judged(Read(sup)) \/ sup' = Invalidated(Judged(Read(sup)))
        \/ Confirm /\ Commanded(proc.kind) /\ sup' = Expect(Judged(Read(sup)), Goal(proc.kind))
    BY <1>13, Zenon DEF Confirm, TaskCleaned, ReadEnded, Process
  <2> QED
    BY <1>0, <2>1, <2>2, <2>3, <2>4, <2>5
<1>14. CASE EvaluateRaises \/ Released
  <2>1. sup' = NoSup /\ queue' = <<>>
    BY <1>14 DEF EvaluateRaises, Released, EndSession
  <2> QED
    BY <1>0, <2>1, NoSupTyped
<1>15. CASE EvaluateUnsupervised \/ EvaluateRunning
  BY <1>s, <1>i, <1>0, <1>15 DEF EvaluateUnsupervised, EvaluateRunning, Interrupt
<1>16. CASE EvaluateIdle
  <2>1. \/ sup' = NoSup /\ queue' = <<>>
        \/ sup' \in {sup, Invalidated(sup)} /\ queue' = queue
    <3>1. CASE ~enabled
      BY <1>16, <3>1 DEF EvaluateIdle, EndSession
    <3>2. CASE enabled
      <4> DEFINE f == IF proc.phase = "done" THEN AfterProcedure(failure) ELSE failure
                 g == IF Demanded THEN Expire(f) ELSE f
      <4>1. queue' = queue /\ (Start(Successor(g), g) \/ Idle(g))
        BY <1>16, <3>2, Zenon DEF EvaluateIdle
      <4> HIDE DEF f, g
      <4> QED
        BY <4>1 DEF Start, Idle
    <3> QED
      BY <3>1, <3>2
  <2>2. CASE sup' = NoSup /\ queue' = <<>>
    BY <1>0, <2>2, NoSupTyped
  <2>3. CASE sup' \in {sup, Invalidated(sup)} /\ queue' = queue
    BY <1>s, <1>i, <1>0, <2>3
  <2> QED
    BY <2>1, <2>2, <2>3
<1>17. CASE Begin
  <2> DEFINE b == [NoSup EXCEPT !.alive = TRUE, !.observed = ctl]
  <2>1. b \in Supervisors /\ b.old = 0
    BY <1>0, BegunTyped
  <2>2. queue' = queue /\ (sup' = sup \/ sup' = Judged(b))
    BY <1>17, Zenon DEF Begin
  <2> HIDE DEF b
  <2>3. Judged(b) \in Supervisors /\ Judged(b).old = 0
    BY <2>1, JudgedKeeps
  <2> QED
    BY <1>0, <2>2, <2>3
<1>18. CASE UNCHANGED supVars
  BY <1>0, <1>18 DEF supVars
<1> QED
  BY <1>1, <1>2, <1>3, <1>4, <1>5, <1>6, <1>7, <1>8, <1>9, <1>10, <1>11, <1>12, <1>13, <1>14,
     <1>15, <1>16, <1>17, <1>18, SupFrame DEF SupChanges

-----------------------------------------------------------------------------
(* How procedures move. *)

\* `q` is the procedure `p` one step further: neither starts nor is forgotten.
Moved(q, p) ==
  /\ q \in Procedures /\ q.kind = p.kind /\ q.demand = p.demand
  /\ p.phase # "none" /\ q.phase # "none"
  /\ q.recovered => p.recovered \/ p.kind = "RECOVER"

\* Each way a procedure goes on.
LEMMA MovesKeep ==
  ASSUME NEW p \in Procedures, p.phase # "none"
  PROVE  /\ \A x \in Phases \ {"none"} : Moved([p EXCEPT !.phase = x], p)
         /\ \A e \in Errors : Moved(Raised(p, e), p)
         /\ Moved(Classified(p), p) /\ Moved(Escalated(p), p) /\ Moved(Concluded(p), p)
         /\ \A b \in BOOLEAN : Moved([Escalated(p) EXCEPT !.unclean = b], p)
         /\ Moved(RequestAbort(p), p) /\ Moved(RequestStop(p), p)
<1>1. \A x \in Phases \ {"none"} : Moved([p EXCEPT !.phase = x], p)
  BY GotoKeeps DEF Moved, SameProc
<1>2. \A e \in Errors : Moved(Raised(p, e), p)
  BY RaisedKeeps DEF Moved, SameProc
<1>3. Moved(Classified(p), p) /\ Moved(Concluded(p), p)
  BY ClassifiedKeeps, ConcludedKeeps DEF Moved, SameProc
<1>4. Moved(Escalated(p), p) /\ \A b \in BOOLEAN : Moved([Escalated(p) EXCEPT !.unclean = b], p)
  BY EscalatedKeeps DEF Moved, SameProc
<1>5. Moved(RequestAbort(p), p) /\ Moved(RequestStop(p), p)
  BY RequestKeeps DEF Moved, SameProc
<1> QED
  BY <1>1, <1>2, <1>3, <1>4, <1>5

\* A procedure's own steps, and the timeouts on it, move it.
LEMMA ProcedureMoves ==
  ASSUME TypeInv, ProcedureStep \/ TaskExpires \/ StartExpires \/ CleanupExpires \/ CleaningFails
  PROVE  Moved(proc', proc)
<1>0. proc \in Procedures
  BY DEF TypeInv, TypeOK, ProcType
<1>e. {"other", "controller", "unrecoverable", "offline"} \subseteq Errors
  BY DEF Errors
<1>g. \A x \in Phases \ {"none"} : proc.phase # "none" /\ Goto(x) => Moved(proc', proc)
  BY <1>0, MovesKeep DEF Goto
<1>r. \A e \in Errors : proc.phase # "none" /\ proc' = Raised(proc, e) => Moved(proc', proc)
  BY <1>0, MovesKeep
<1>c. proc.phase # "none" /\ proc' = Concluded(Classified(proc)) => Moved(proc', proc)
  BY <1>0, MovesKeep DEF Moved
<1>1. CASE Online
  <2>0. proc.phase = "online"
    BY <1>1 DEF Online
  <2>1. CASE proc' = [proc EXCEPT !.phase = "done", !.error = "offline"]
    BY <1>0, <2>0, <2>1 DEF Moved, Procedures, Phases
  <2>2. ASSUME proc' # [proc EXCEPT !.phase = "done", !.error = "offline"]
        PROVE  \E x \in Phases \ {"none"} : Goto(x)
    BY <1>1, <2>2 DEF Online, First, Phases
  <2> QED
    BY <1>g, <2>0, <2>1, <2>2
<1>2. CASE Reconcile
  <2>0. proc.phase = "reconcile"
    BY <1>2 DEF Reconcile
  <2>1. CASE proc' = [proc EXCEPT !.phase = "activating", !.adopted = TRUE]
    BY <1>0, <2>0, <2>1 DEF Moved, Procedures, Phases
  <2>2. Goto("apply") \/ Goto("clearing") \/ proc' = Raised(proc, "other")
        \/ proc' = [proc EXCEPT !.phase = "activating", !.adopted = TRUE]
    BY <1>2 DEF Reconcile
  <2>3. {"apply", "clearing"} \subseteq Phases \ {"none"}
    BY DEF Phases
  <2> QED
    BY <1>e, <1>g, <1>r, <2>0, <2>1, <2>2, <2>3
<1>3. CASE ClearsTasking \/ Apply \/ SendTask \/ Claim \/ SendStart
  <2>0. proc.phase # "none"
    BY <1>3 DEF ClearsTasking, Apply, SendTask, Claim, SendStart
  <2>1. \/ Goto("apply") \/ Goto("confirm") \/ Goto("preparing") \/ Goto("task")
        \/ Goto("activating") \/ Goto("starting")
        \/ proc' = Raised(proc, "other") \/ proc' = Raised(proc, "controller")
    BY <1>3 DEF ClearsTasking, Apply, SendTask, Claim, SendStart
  <2>2. {"apply", "confirm", "preparing", "task", "activating", "starting"} \subseteq Phases \ {"none"}
    BY DEF Phases
  <2> QED
    BY <1>e, <1>g, <1>r, <2>0, <2>1, <2>2
<1>4. CASE TaskEnds \/ TaskExpires \/ ConfirmFails \/ StartExpires \/ TaskCleaned
  <2>0. proc.phase # "none"
    BY <1>4 DEF TaskEnds, TaskExpires, ConfirmFails, StartExpires, TaskCleaned
  <2>1. \/ Goto("confirm") \/ Goto("expiring") \/ Goto("stopLogic") \/ Goto("abortLogic")
        \/ proc' = Raised(proc, "other") \/ proc' = Raised(proc, "controller")
    BY <1>4 DEF TaskEnds, TaskExpires, ConfirmFails, StartExpires, TaskCleaned
  <2>2. {"confirm", "expiring", "stopLogic", "abortLogic"} \subseteq Phases \ {"none"}
    BY DEF Phases
  <2> QED
    BY <1>e, <1>g, <1>r, <2>0, <2>1, <2>2
<1>5. CASE Confirm
  <2>0. proc.phase = "confirm"
    BY <1>5, Zenon DEF Confirm
  <2>1. \/ proc' = Raised(proc, "controller") \/ proc' = Raised(proc, "unrecoverable")
        \/ proc.kind = "RECOVER" /\ proc' = [proc EXCEPT !.phase = "done", !.recovered = TRUE]
        \/ proc' = [proc EXCEPT !.achieved = TRUE,
                      !.phase = IF ~proc.demand.program THEN "hold"
                                ELSE IF proc.adopted THEN "tasking" ELSE "claim"]
    BY <1>5 DEF Confirm
  <2>2. \A x \in Phases \ {"none"} : Moved([proc EXCEPT !.achieved = TRUE, !.phase = x], proc)
    <3> SUFFICES ASSUME NEW x \in Phases \ {"none"}
                 PROVE  Moved([proc EXCEPT !.achieved = TRUE, !.phase = x], proc)
      OBVIOUS
    <3>1. [proc EXCEPT !.achieved = TRUE, !.phase = x] \in Procedures
      BY <1>0 DEF Procedures
    <3> QED
      BY <1>0, <2>0, <3>1 DEF Moved, Procedures
  <2>3. proc.kind = "RECOVER" => Moved([proc EXCEPT !.phase = "done", !.recovered = TRUE], proc)
    BY <1>0, <2>0 DEF Moved, Procedures, Phases
  <2>4. {"hold", "tasking", "claim"} \subseteq Phases \ {"none"}
    BY DEF Phases
  <2>5. CASE proc' = [proc EXCEPT !.achieved = TRUE,
                        !.phase = IF ~proc.demand.program THEN "hold"
                                  ELSE IF proc.adopted THEN "tasking" ELSE "claim"]
    <3> DEFINE x == IF ~proc.demand.program THEN "hold"
                    ELSE IF proc.adopted THEN "tasking" ELSE "claim"
    <3>1. x \in Phases \ {"none"}
      BY <2>4
    <3>2. proc' = [proc EXCEPT !.achieved = TRUE, !.phase = x]
      BY <2>5
    <3> HIDE DEF x
    <3> QED
      BY <2>2, <3>1, <3>2
  <2>6. CASE proc' = Raised(proc, "controller") \/ proc' = Raised(proc, "unrecoverable")
    BY <1>e, <1>r, <2>0, <2>6
  <2> QED
    BY <2>1, <2>3, <2>5, <2>6
<1>6. CASE Started
  <2>0. proc.phase = "starting"
    BY <1>6 DEF Started
  <2>1. Goto("apply") \/ Goto("tasking") \/ proc' = Raised(Classified(proc), "other")
    BY <1>6 DEF Started, Goto
  <2>2. {"apply", "tasking"} \subseteq Phases \ {"none"}
    BY DEF Phases
  <2>3. Moved(Classified(proc), proc) /\ Moved(Raised(Classified(proc), "other"), Classified(proc))
    <3>1. Moved(Classified(proc), proc)
      BY <1>0, <2>0, MovesKeep
    <3>2. Classified(proc) \in Procedures /\ Classified(proc).phase # "none"
      BY <3>1 DEF Moved
    <3>3. "other" \in Errors
      BY <1>e
    <3> QED
      BY <3>1, <3>2, <3>3, MovesKeep
  <2> QED
    BY <1>g, <2>0, <2>1, <2>2, <2>3 DEF Moved
<1>7. CASE TaskingEnded
  <2>1. proc.phase # "none"
        /\ (Goto("pause") \/ proc' = Raised(proc, "controller") \/ proc' = Raised(proc, "other"))
    BY <1>7 DEF TaskingEnded, Goto
  <2>2. "pause" \in Phases \ {"none"}
    BY DEF Phases
  <2> QED
    BY <1>e, <1>g, <1>r, <2>1, <2>2
<1>8. CASE PauseEnds \/ NoDispatch
  <2>1. proc.phase # "none" /\ proc' = Concluded(proc)
    BY <1>8 DEF PauseEnds, NoDispatch
  <2> QED
    BY <1>0, <2>1, MovesKeep
<1>9. CASE NothingToEnd \/ TaskingCleaned
  <2>1. proc.phase # "none" /\ proc' = Concluded(Classified(proc))
    BY <1>9 DEF NothingToEnd, TaskingCleaned
  <2> QED
    BY <1>c, <2>1
<1>10. CASE CleanupExpires
  <2> DEFINE b == proc.unclean \/ proc.phase = "stopLogic"
  <2>0. proc.phase # "none" /\ b \in BOOLEAN
    BY <1>10 DEF CleanupExpires
  <2>1. Goto("abortLogic") \/ \E c \in BOOLEAN : proc' = [Escalated(proc) EXCEPT !.unclean = c]
    <3>1. Escalated(proc).unclean = proc.unclean /\ proc.unclean \in BOOLEAN
      BY <1>0 DEF Escalated, Procedures
    <3>2. \/ Goto("abortLogic")
          \/ proc' = [Escalated(proc) EXCEPT !.unclean = @ \/ proc.phase = "stopLogic"]
      BY <1>10, Zenon DEF CleanupExpires
    <3> QED
      BY <3>1, <3>2, <2>0, Zenon
  <2>2. "abortLogic" \in Phases \ {"none"}
    BY DEF Phases
  <2> QED
    BY <1>0, <1>g, <2>0, <2>1, <2>2, MovesKeep
<1>11. CASE CleaningFails
  <2> DEFINE k == Classified(proc)
             q == [k EXCEPT !.unclean = TRUE, !.unresolved = TRUE]
  <2>0. proc.phase # "none"
    BY <1>11 DEF CleaningFails
  <2>1. proc' = [Escalated(k) EXCEPT !.unclean = TRUE] \/ proc' = Concluded(q)
    BY <1>11, Zenon DEF CleaningFails
  <2>2. Moved(k, proc)
    BY <1>0, <2>0, MovesKeep
  <2> HIDE DEF k
  <2>3. Moved(q, proc)
    BY <2>2 DEF Moved, Procedures
  <2>4. Moved([Escalated(k) EXCEPT !.unclean = TRUE], k)
    BY <2>2, MovesKeep DEF Moved
  <2>5. Moved(Concluded(q), q)
    <3> HIDE DEF q
    <3> QED
      BY <2>3, MovesKeep DEF Moved
  <2> HIDE DEF q
  <2> QED
    BY <2>1, <2>2, <2>3, <2>4, <2>5 DEF Moved
<1> QED
  BY <1>1, <1>2, <1>3, <1>4, <1>5, <1>6, <1>7, <1>8, <1>9, <1>10, <1>11 DEF ProcedureStep

\* The procedure the reactor starts, and what a start leaves of FailureState.
Begun(kind) == [NoProc EXCEPT !.kind = kind, !.demand = demand, !.phase = "online"]
Fresh(f) == [f EXCEPT !.error = FALSE, !.waiting = FALSE]

\* What FailureState may be when the reactor picks the next procedure.
FailuresNext == {failure, AfterProcedure(failure), Expire(failure), Expire(AfterProcedure(failure))}

\* An idle reactor starts the successor, or none; nothing of the last procedure stays.
LEMMA IdleMoves ==
  ASSUME TypeInv, EvaluateIdle
  PROVE  /\ call' = NoCall /\ act' = NoAct
         /\ \E g \in FailuresNext :
              \/ proc' = NoProc /\ failure' = g /\ sup' \in {sup, NoSup}
              \/ /\ proc' = Begun(Successor(g)) /\ failure' = Fresh(g) /\ demand.state # "none"
                 /\ sup' = IF Commanded(Successor(g)) THEN sup ELSE Invalidated(sup)
<1> DEFINE f == IF proc.phase = "done" THEN AfterProcedure(failure) ELSE failure
           g == IF Demanded THEN Expire(f) ELSE f
<1>1. CASE ~enabled
  <2>1. /\ failure' = f /\ call' = NoCall /\ act' = NoAct /\ proc' = NoProc /\ sup' = NoSup
        /\ f \in FailuresNext
    BY <1>1, Zenon DEF EvaluateIdle, EndSession, Forget, FailuresNext
  <2> HIDE DEF f, g
  <2> QED
    BY <2>1
<1>2. CASE enabled
  <2>1. /\ IF Demanded /\ Due(g) THEN Start(Successor(g), g) ELSE Idle(g)
        /\ Forget
    BY <1>2, Zenon DEF EvaluateIdle
  <2>2. g \in FailuresNext
    BY Zenon DEF FailuresNext
  <2> HIDE DEF f, g
  <2>3. CASE Demanded /\ Due(g)
    BY <2>1, <2>2, <2>3 DEF Start, Demanded, Forget, Begun, Fresh
  <2>4. CASE ~(Demanded /\ Due(g))
    BY <2>1, <2>2, <2>4 DEF Idle, Forget
  <2> QED
    BY <2>3, <2>4
<1> QED
  BY <1>1, <1>2

\* The procedure, its task and its activation keep their types.
LEMMA ProcTyped ==
  ASSUME TypeInv, Next
  PROVE  ProcType'
<1>0. /\ ProcType /\ proc \in Procedures /\ LifeType
  BY DEF TypeInv, TypeOK, ProcType
<1> DEFINE Statuses == {"none", "sending", "running", "rejected", "unknown", "succeeded",
                        "failed", "aborted"}
           Starts == {"none", "sent", "accepted", "started", "rejected", "lost", "failed",
                      "unconfirmed"}
           Calls == [status : Statuses, aborting : BOOLEAN]
           Acts == [status : Starts, ends : BOOLEAN]
<1>t. call \in Calls /\ act \in Acts
  BY <1>0 DEF ProcType
<1>s. SUFFICES proc' \in Procedures /\ call' \in Calls /\ act' \in Acts
  BY DEF ProcType
<1>n. NoCall \in Calls /\ NoAct \in Acts /\ NoProc \in Procedures
  BY DEF NoCall, NoAct, NoProc, Procedures, Phases
<1>a. AbortCall => call' \in Calls
  <2>1. \A b \in BOOLEAN : [call EXCEPT !.aborting = b] \in Calls
    BY <1>t
  <2>2. (call.aborting \/ Sent(call)) \in BOOLEAN
    BY <1>t DEF Sent
  <2>3. AbortCall => call' = [call EXCEPT !.aborting = call.aborting \/ Sent(call)]
    BY Zenon DEF AbortCall
  <2> QED
    BY <2>1, <2>2, <2>3, Zenon
<1>o. Owed(act) \in Acts
  <2>1. \A b \in BOOLEAN : [act EXCEPT !.ends = b] \in Acts
    BY <1>t
  <2>2. (act.ends /\ act.status # "rejected") \in BOOLEAN
    BY <1>t
  <2>3. Owed(act) = [act EXCEPT !.ends = act.ends /\ act.status # "rejected"]
    BY Zenon DEF Owed
  <2> QED
    BY <2>1, <2>2, <2>3, Zenon
<1>1. CASE Accepts
  BY <1>0, <1>1, <1>t DEF Accepts, OnlyWorld
<1>2. CASE NotAccepted
  BY <1>0, <1>2, <1>t DEF NotAccepted, OnlyWorld
<1>3. ASSUME NEW lost \in BOOLEAN, Reported(lost)
      PROVE  proc' \in Procedures /\ call' \in Calls /\ act' \in Acts
  BY <1>0, <1>3, <1>t DEF Reported, OnlyWorld
<1>4. CASE StartAccepted \/ StartConfirmed \/ StartFails
  BY <1>0, <1>4, <1>t DEF StartAccepted, StartConfirmed, StartFails, OnlyProgram
<1>5. CASE ProcedureStep \/ TaskExpires \/ StartExpires \/ CleanupExpires \/ CleaningFails
  <2>1. proc' \in Procedures
    BY <1>5, ProcedureMoves DEF Moved
  <2>2. CASE ProcedureStep
    <3> USE DEF OnlyProc
    <3>1. CASE SendTask \/ TaskEnds
      <4>1. [NoCall EXCEPT !.status = "sending"] \in Calls
        BY DEF NoCall
      <4> QED
        BY <1>t, <1>n, <2>1, <3>1, <4>1 DEF SendTask, TaskEnds
    <3>2. CASE SendStart \/ Started \/ TaskingCleaned
      <4>1. [status |-> "sent", ends |-> TRUE] \in Acts /\ [act EXCEPT !.ends = FALSE] \in Acts
        BY <1>t
      <4>2. /\ call' = call
            /\ act' \in {act, Owed(act), [status |-> "sent", ends |-> TRUE],
                         [act EXCEPT !.ends = FALSE]}
        BY <3>2 DEF SendStart, Started, TaskingCleaned
      <4> HIDE DEF Acts, Calls
      <4> QED
        BY <1>t, <1>o, <2>1, <4>1, <4>2
    <3>3. CASE UNCHANGED <<call, act>>
      BY <1>t, <2>1, <3>3
    <3> QED
      BY <2>2, <3>1, <3>2, <3>3 DEF ProcedureStep, Online, Reconcile, ClearsTasking, Apply, Confirm,
         ConfirmFails, Claim, TaskingEnded, PauseEnds, NoDispatch, TaskCleaned, NothingToEnd
  <2>3. CASE TaskExpires
    <3>1. [call EXCEPT !.aborting = TRUE] \in Calls
      BY <1>t
    <3> QED
      BY <1>t, <2>1, <2>3, <3>1 DEF TaskExpires
  <2>4. CASE StartExpires \/ CleanupExpires \/ CleaningFails
    <3>1. (call' = call \/ AbortCall) /\ act' = act
      BY <2>4 DEF StartExpires, CleanupExpires, CleaningFails, OnlyProc
    <3> QED
      BY <1>t, <1>a, <2>1, <3>1
  <2> QED
    BY <1>5, <2>2, <2>3, <2>4
<1>6. CASE EvaluateRaises \/ Released
  BY <1>n, <1>6 DEF EvaluateRaises, Released, EndSession, Forget
<1>7. CASE EvaluateUnsupervised \/ EvaluateRunning
  <2>1. proc' \in {proc, RequestAbort(proc), RequestStop(proc)}
    BY <1>7 DEF EvaluateUnsupervised, EvaluateRunning, Interrupt
  <2>2. proc' \in Procedures
    BY <1>0, <2>1, RequestKeeps DEF SameProc
  <2>3. (call' = call \/ AbortCall) /\ act' = act
    BY <1>7 DEF EvaluateUnsupervised, EvaluateRunning, Interrupt
  <2> QED
    BY <1>t, <1>a, <2>2, <2>3
<1>8. CASE EvaluateIdle
  <2>1. \A k \in Settled \cup {"RECOVER", "EMERGENCY"} : demand.state # "none" =>
          Begun(k) \in Procedures
    <3>1. NoProc \in Procedures /\ "online" \in Phases
      BY DEF NoProc, Procedures, Phases
    <3>2. demand \in Demands \cup {NoDemand}
      BY <1>0 DEF LifeType
    <3> QED
      BY <3>1, <3>2 DEF Begun, Procedures
  <2>2. demand.state # "none" => demand.state \in Settled
    BY <1>0, Bounds DEF LifeType, NoDemand, DemandStates
  <2>3. \A g : demand.state # "none" => Successor(g) \in Settled \cup {"RECOVER", "EMERGENCY"}
    BY <2>2 DEF Successor
  <2> HIDE DEF Calls, Acts
  <2> QED
    BY <1>8, <1>n, <2>1, <2>3, IdleMoves
<1>9. CASE UNCHANGED procVars
  BY <1>0, <1>t, <1>9 DEF procVars
<1> QED
  BY <1>1, <1>2, <1>3, <1>4, <1>5, <1>6, <1>7, <1>8, <1>9, ProcFrame DEF ProcChanges

-----------------------------------------------------------------------------
(* The limit on attempts, and ownership. *)

\* A failure state within the limit on recovery attempts.
Limited(f) == f \in FailureStates /\ f.attempts <= RecoveryAttempts

\* FailureState's operations keep the limit; an attempt does while attempts are left.
LEMMA LimitKept ==
  ASSUME NEW f \in FailureStates, f.attempts <= RecoveryAttempts
  PROVE  /\ Limited(f) /\ Limited(Expire(f)) /\ Limited(RecordFailure(f))
         /\ Limited(RecordInitialError(f)) /\ Limited(DelayRetry(f)) /\ Limited(Cleared(f))
         /\ Limited(RecordFailedEmergency(f)) /\ Limited(Fresh(f)) /\ Fresh(f).attempts = f.attempts
         /\ Expire(f).attempts <= f.attempts /\ RecordFailure(f).attempts <= f.attempts
         /\ f.attempts < RecoveryAttempts =>
              Limited(RecordRecovery(f)) /\ Limited(RecordFailedAttempt(f))
<1>1. RecoveryAttempts \in Nat /\ f.attempts \in Nat
  BY Bounds DEF FailureStates
<1>2. /\ Expire(f).attempts \in Nat /\ RecordFailure(f).attempts \in Nat
      /\ RecordInitialError(f).attempts \in Nat
  BY FailureKeeps DEF FailureStates
<1>3. Fresh(f) \in FailureStates /\ Fresh(f).attempts = f.attempts
  BY DEF Fresh, FailureStates
<1> QED
  BY <1>1, <1>2, <1>3, FailureKeeps, AttemptKeeps DEF Limited

\* What a procedure's result leaves is within the limit: a recovery only ran with attempts left.
LEMMA AfterLimited ==
  ASSUME TypeInv, session = "running"
  PROVE  Limited(AfterProcedure(failure))
<1>0. failure \in FailureStates /\ failure.attempts <= RecoveryAttempts
  BY DEF TypeInv, TypeOK, FailureType
<1>1. proc.kind = "RECOVER" => failure.attempts < RecoveryAttempts
  BY DEF TypeInv, Owned
<1>2. proc.recovered => proc.kind = "RECOVER"
  BY DEF TypeInv, Owned
<1> QED
  BY <1>0, <1>1, <1>2, LimitKept DEF AfterProcedure

\* FailureState keeps its types and its limit.
LEMMA FailureTyped ==
  ASSUME TypeInv, Next
  PROVE  FailureType'
<1>0. failure \in FailureStates /\ failure.attempts <= RecoveryAttempts
  BY DEF TypeInv, TypeOK, FailureType
<1>s. SUFFICES Limited(failure')
  BY DEF Limited, FailureType
<1>1. ASSUME NEW s, Process(s)
      PROVE  Limited(failure')
  BY <1>0, <1>1, LimitKept DEF Process
<1>2. CASE Deliver \/ GraceChecked \/ Expectation
  BY <1>1, <1>2 DEF Deliver, GraceChecked, Expectation
<1>3. CASE Confirm \/ TaskCleaned
  <2>1. failure' \in {failure, RecordFailure(failure)}
    BY <1>3, Zenon DEF Confirm, TaskCleaned, ReadEnded, Process
  <2> QED
    BY <1>0, <2>1, LimitKept
<1>4. CASE session = "running" /\ (EvaluateRaises \/ EvaluateUnsupervised)
  BY <1>0, <1>4, AfterLimited, LimitKept DEF EvaluateRaises, EvaluateUnsupervised
<1>5. CASE session = "running" /\ EvaluateIdle
  <2>1. \E g \in FailuresNext : failure' = g \/ failure' = Fresh(g)
    BY <1>5, IdleMoves
  <2>2. \A g \in FailuresNext : Limited(g)
    BY <1>0, <1>5, AfterLimited, LimitKept DEF FailuresNext, Limited
  <2> QED
    BY <2>1, <2>2, LimitKept DEF Limited
<1>6. CASE RetryElapses \/ StablePasses
  <2>1. failure' = [failure EXCEPT !.waiting = FALSE] \/ failure' = [failure EXCEPT !.aged = TRUE]
    BY <1>6 DEF RetryElapses, StablePasses
  <2> QED
    BY <1>0, <2>1 DEF FailureStates, Limited
<1>7. CASE Begin
  BY <1>0, <1>7, LimitKept DEF Begin
<1>8. CASE UNCHANGED failure
  BY <1>0, <1>8 DEF Limited
<1> QED
  BY <1>2, <1>3, <1>4, <1>5, <1>6, <1>7, <1>8, FailureFrame DEF FailureChanges

\* The steps that change the session's phase.
LEMMA SessionFrame ==
  ASSUME Next
  PROVE  \/ UNCHANGED session \/ Begin \/ DelayElapses
         \/ session = "running" /\ (EvaluateRaises \/ EvaluateUnsupervised \/ EvaluateIdle)
         \/ Released
<1> USE DEF OnlyProc, OnlyRequest
<1>1. CASE ProcedureStep
  BY <1>1 DEF ProcedureStep, Online, Reconcile, ClearsTasking, Apply, SendTask, TaskEnds, Confirm,
     ConfirmFails, Claim, SendStart, Started, TaskingEnded, PauseEnds, NoDispatch, TaskCleaned,
     NothingToEnd, TaskingCleaned
<1>2. CASE WorldStep
  BY <1>2 DEF WorldStep, OnlyWorld, Accepts, StrayEnds, Finishes, Reported, StartAccepted,
     StartConfirmed, SessionEnds, OnlyProgram
<1>3. CASE SessionStep
  BY <1>3 DEF SessionStep, Deliver, GraceChecked, Expectation, Evaluate, EvaluateRunning,
     RetryElapses
<1>4. CASE FaultStep
  BY <1>4 DEF FaultStep, GraceElapses, MonitorFails, NotAccepted, StrayBegins, Reports, OnlyWorld,
     StartFails, SessionFails, OnlyProgram, TaskExpires, StartExpires, CleanupExpires,
     CleaningFails, SettleElapses
<1>5. CASE StablePasses \/ (\E d \in Demands : SetDemand(d)) \/ Disable \/ Enable
  BY <1>5 DEF StablePasses, SetDemand, Disable, Enable
<1> QED
  BY <1>1, <1>2, <1>3, <1>4, <1>5 DEF Next

\* No step but an evaluation adds an attempt.
LEMMA AttemptsKept ==
  ASSUME TypeInv, Next, ~Begin,
         ~(session = "running" /\ (EvaluateIdle \/ EvaluateRaises \/ EvaluateUnsupervised))
  PROVE  failure'.attempts <= failure.attempts
<1>0. failure \in FailureStates /\ failure.attempts <= RecoveryAttempts /\ failure.attempts \in Nat
  BY DEF TypeInv, TypeOK, FailureType, FailureStates
<1>1. ASSUME NEW s, Process(s)
      PROVE  failure'.attempts <= failure.attempts
  BY <1>0, <1>1, LimitKept DEF Process
<1>2. CASE Deliver \/ GraceChecked \/ Expectation
  BY <1>1, <1>2 DEF Deliver, GraceChecked, Expectation
<1>3. CASE Confirm \/ TaskCleaned
  <2>1. failure' \in {failure, RecordFailure(failure)}
    BY <1>3, Zenon DEF Confirm, TaskCleaned, ReadEnded, Process
  <2> QED
    BY <1>0, <2>1, LimitKept
<1>4. CASE RetryElapses \/ StablePasses
  <2>1. failure' = [failure EXCEPT !.waiting = FALSE] \/ failure' = [failure EXCEPT !.aged = TRUE]
    BY <1>4 DEF RetryElapses, StablePasses
  <2> QED
    BY <1>0, <2>1 DEF FailureStates
<1>5. CASE UNCHANGED failure
  BY <1>0, <1>5
<1> QED
  BY <1>2, <1>3, <1>4, <1>5, FailureFrame DEF FailureChanges

\* Without an idle evaluation, or the end of a session, a procedure stays the same procedure.
LEMMA ProcStays ==
  ASSUME TypeInv, Next, ~Released, ~(session = "running" /\ (EvaluateIdle \/ EvaluateRaises))
  PROVE  /\ UNCHANGED proc \/ Moved(proc', proc)
         /\ proc.phase = "none" => call'.status = "none" /\ act'.status = "none"
<1>0. proc \in Procedures
  BY DEF TypeInv, TypeOK, ProcType
<1>o. proc.phase = "none" => call.status = "none" /\ act.status = "none"
  BY DEF TypeInv, Owned
<1>1. CASE Accepts \/ NotAccepted \/ (\E lost \in BOOLEAN : Reported(lost))
  BY <1>o, <1>1 DEF Accepts, NotAccepted, Reported, OnlyWorld
<1>2. CASE StartAccepted \/ StartConfirmed \/ StartFails
  BY <1>o, <1>2 DEF StartAccepted, StartConfirmed, StartFails, OnlyProgram, Pending
<1>3. CASE ProcedureStep \/ TaskExpires \/ StartExpires \/ CleanupExpires \/ CleaningFails
  BY <1>3, ProcedureMoves DEF Moved
<1>4. CASE EvaluateUnsupervised \/ EvaluateRunning
  <2>1. CASE Running
    <3>1. proc' \in {proc, RequestAbort(proc), RequestStop(proc)}
      BY <1>4, <2>1 DEF EvaluateUnsupervised, EvaluateRunning, Interrupt
    <3> QED
      BY <1>0, <2>1, <3>1, MovesKeep DEF Running
  <2>2. CASE ~Running
    BY <1>4, <1>o, <2>2 DEF EvaluateUnsupervised, EvaluateRunning
  <2> QED
    BY <2>1, <2>2
<1>5. CASE UNCHANGED procVars
  BY <1>o, <1>5 DEF procVars
<1> QED
  BY <1>1, <1>2, <1>3, <1>4, <1>5, ProcFrame DEF ProcChanges

\* Every step keeps what ownership says.
LEMMA OwnedKept ==
  ASSUME TypeInv, Next
  PROVE  Owned'
<1>0. /\ proc \in Procedures /\ LifeType /\ LifeType' /\ failure \in FailureStates
      /\ FailureType' /\ FailureType /\ RecoveryAttempts \in Nat /\ ProcType'
  BY LifeTyped, FailureTyped, ProcTyped, Bounds DEF TypeInv, TypeOK, ProcType, FailureType
<1>a. /\ failure.attempts \in Nat /\ failure'.attempts \in Nat
  BY <1>0 DEF FailureType, FailureStates
<1>o. /\ proc.phase # "none" => proc.kind # "none"
      /\ proc.kind # "none" => proc.demand \in Demands
      /\ proc.phase = "none" => call.status = "none" /\ act.status = "none"
      /\ proc.kind = "RECOVER" /\ session = "running" => failure.attempts < RecoveryAttempts
      /\ proc.recovered => proc.kind = "RECOVER"
      /\ session \in {"off", "delay"} => proc.kind = "none"
  BY DEF TypeInv, Owned
<1>1. CASE (session = "running" /\ EvaluateRaises) \/ Released
  BY <1>1 DEF EvaluateRaises, Released, EndSession, Forget, NoProc, NoCall, NoAct, Owned
<1>2. CASE session = "running" /\ EvaluateIdle
  <2>1. call'.status = "none" /\ act'.status = "none"
    BY <1>2, IdleMoves DEF NoCall, NoAct
  <2>2. CASE proc' = NoProc
    BY <2>1, <2>2 DEF Owned, NoProc
  <2>3. CASE proc' # NoProc
    <3>1. PICK g \in FailuresNext :
            proc' = Begun(Successor(g)) /\ failure' = Fresh(g) /\ demand.state # "none"
      BY <1>2, <2>3, IdleMoves
    <3>2. session' \notin {"off", "delay"}
      <4>1. CASE ~enabled
        BY <1>2, <2>3, <4>1, Zenon DEF EvaluateIdle, EndSession
      <4>2. CASE enabled
        <5>1. UNCHANGED session
          BY <1>2, <4>2, Zenon DEF EvaluateIdle
        <5> QED
          BY <1>2, <5>1
      <4> QED
        BY <4>1, <4>2
    <3>3. /\ proc'.phase = "online" /\ proc'.kind = Successor(g) /\ proc'.demand = demand
          /\ ~proc'.recovered
      BY <3>1 DEF Begun, NoProc
    <3>4. demand \in Demands /\ demand.state \in Settled
      BY <1>0, <3>1, Bounds DEF LifeType, NoDemand, DemandStates
    <3>5. Limited(g)
      BY <1>0, <1>2, AfterLimited, LimitKept DEF FailuresNext, FailureType, Limited
    <3>6. Successor(g) = "RECOVER" => g.attempts < RecoveryAttempts
      <4>1. Successor(g) = "RECOVER" => ~EmergencyDue(g) /\ RecoveryDue(g)
        <5>1. demand.state # "RECOVER"
          BY <3>4 DEF Settled
        <5>2. EmergencyDue(g) => Successor(g) = "EMERGENCY"
          BY Zenon DEF Successor
        <5>3. ~EmergencyDue(g) /\ ~RecoveryDue(g) => Successor(g) = demand.state
          BY Zenon DEF Successor
        <5> QED
          BY <5>1, <5>2, <5>3
      <4>2. ~EmergencyDue(g) /\ RecoveryDue(g) => ~(g.attempts >= RecoveryAttempts)
        BY Zenon DEF EmergencyDue
      <4>3. g.attempts \in Nat
        BY <3>5 DEF Limited, FailureStates
      <4> QED
        BY <1>0, <4>1, <4>2, <4>3
    <3>7. Successor(g) # "none"
      BY <3>4 DEF Successor, Settled
    <3>8. failure'.attempts = g.attempts
      BY <3>1, <3>5, LimitKept DEF Limited
    <3> QED
      BY <3>2, <3>3, <3>4, <3>6, <3>7, <3>8 DEF Owned
  <2> QED
    BY <2>2, <2>3
<1>3. CASE Begin \/ DelayElapses
  <2>1. UNCHANGED procVars /\ proc.kind = "none"
    BY <1>o, <1>3 DEF Begin, DelayElapses
  <2> QED
    BY <1>o, <2>1 DEF procVars, Owned
<1>4. CASE /\ ~Released /\ ~Begin /\ ~DelayElapses
           /\ ~(session = "running" /\ (EvaluateIdle \/ EvaluateRaises))
  <2>1. /\ UNCHANGED proc \/ Moved(proc', proc)
        /\ proc.phase = "none" => call'.status = "none" /\ act'.status = "none"
    BY <1>4, ProcStays
  <2>2. \/ session' = "releasing"
        \/ UNCHANGED session /\ failure'.attempts <= failure.attempts
    <3>1. CASE session = "running" /\ EvaluateUnsupervised
      BY <3>1 DEF EvaluateUnsupervised
    <3>2. CASE ~(session = "running" /\ EvaluateUnsupervised)
      BY <1>4, <3>2, AttemptsKept, SessionFrame
    <3> QED
      BY <3>1, <3>2
  <2>3. /\ proc'.kind = proc.kind /\ proc'.demand = proc.demand
        /\ proc'.phase = "none" => proc.phase = "none"
        /\ proc'.phase # "none" => proc.phase # "none"
        /\ proc'.recovered => proc.recovered \/ proc.kind = "RECOVER"
    BY <2>1 DEF Moved
  <2>4. session' = "running" /\ proc.kind = "RECOVER" => failure'.attempts < RecoveryAttempts
    BY <1>0, <1>a, <1>o, <2>2
  <2>5. session' \in {"off", "delay"} => proc.kind = "none"
    BY <1>o, <2>2
  <2> QED
    BY <1>o, <2>1, <2>3, <2>4, <2>5 DEF Owned
<1> QED
  BY <1>1, <1>2, <1>3, <1>4, SessionFrame

-----------------------------------------------------------------------------
(* Type correctness. *)

\* The initial states are well typed.
LEMMA TypeInitially ==
  ASSUME Init
  PROVE  TypeInv
<1>1. LifeType
  <2>1. enabled \in BOOLEAN /\ woken \in BOOLEAN /\ impatient \in BOOLEAN
    BY DEF Init
  <2>2. demand \in Demands \cup {NoDemand} /\ session \in {"off", "running", "releasing", "delay"}
    BY DEF Init
  <2>3. requests \in 0..MaxRequests /\ faults \in 0..MaxFaults
    BY Bounds DEF Init
  <2> QED
    BY <2>1, <2>2, <2>3 DEF LifeType
<1>2. FailureType
  BY Bounds DEF Init, FailureType, NoFailure, FailureStates
<1>3. SupType
  BY NoSupTyped, Bounds DEF Init, SupType
<1>4. ProcType
  BY DEF Init, ProcType, NoProc, NoCall, NoAct, Procedures, Phases
<1>5. WorldType
  BY Bounds DEF Init, WorldType, OperatingStates
<1>6. Owned
  BY DEF Init, Owned, NoProc, NoCall, NoAct
<1> QED
  BY <1>1, <1>2, <1>3, <1>4, <1>5, <1>6 DEF TypeInv, TypeOK

\* Every step keeps the types.
LEMMA TypeKept ==
  ASSUME TypeInv, [Next]_vars
  PROVE  TypeInv'
<1>1. CASE Next
  BY <1>1, LifeTyped, FailureTyped, SupTyped, ProcTyped, WorldTyped, OwnedKept DEF TypeInv, TypeOK
<1>2. CASE UNCHANGED vars
  BY <1>2 DEF vars, lifeVars, supVars, procVars, worldVars, TypeInv, TypeOK, LifeType, FailureType,
     SupType, ProcType, WorldType, Owned
<1> QED
  BY <1>1, <1>2

\* Types, for every value of the constants, with FailureState's limit: recovery is attempted at most
\* recovery_attempts times before the emergency shutdown (failure.py, reactor.py).
THEOREM TypeCorrect == Spec => []TypeOK
<1>1. Spec => []TypeInv
  BY TypeInitially, TypeKept, PTL DEF Spec
<1>2. TypeInv => TypeOK
  BY DEF TypeInv
<1> QED
  BY <1>1, <1>2, PTL

-----------------------------------------------------------------------------
(* Expectations. *)

\* The steps that change what the supervisor expects, or the phase it is expected in.
ExpectationChanges ==
  \/ Deliver \/ GraceElapses \/ GraceChecked \/ Expectation \/ MonitorFails
  \/ SendTask \/ TaskExpires \/ TaskEnds \/ Confirm \/ ConfirmFails \/ TaskCleaned
  \/ EvaluateRaises \/ EvaluateUnsupervised \/ EvaluateRunning \/ EvaluateIdle
  \/ Begin \/ Released

\* No other step does.
LEMMA ExpectationFrame ==
  ASSUME Next
  PROVE  \/ UNCHANGED <<sup, proc>>
         \/ UNCHANGED sup /\ proc.phase \notin {"task", "confirm"}
         \/ ExpectationChanges
<1> USE DEF supVars, OnlyProc, OnlyRequest, ExpectationChanges
<1>1. CASE ProcedureStep
  BY <1>1 DEF ProcedureStep, Online, Reconcile, ClearsTasking, Apply, Claim, SendStart, Started,
     TaskingEnded, PauseEnds, NoDispatch, NothingToEnd, TaskingCleaned
<1>2. CASE WorldStep
  BY <1>2 DEF WorldStep, OnlyWorld, Accepts, StrayEnds, Finishes, Reported, StartAccepted,
     StartConfirmed, SessionEnds, OnlyProgram
<1>3. CASE SessionStep
  BY <1>3 DEF SessionStep, Evaluate, RetryElapses, DelayElapses, procVars
<1>4. CASE FaultStep
  BY <1>4 DEF FaultStep, NotAccepted, StrayBegins, Reports, OnlyWorld, StartFails, SessionFails,
     OnlyProgram, StartExpires, CleanupExpires, CleaningFails, SettleElapses, procVars
<1>5. CASE StablePasses \/ (\E d \in Demands : SetDemand(d)) \/ Disable \/ Enable
  BY <1>5 DEF StablePasses, SetDemand, Disable, Enable, procVars
<1> QED
  BY <1>1, <1>2, <1>3, <1>4, <1>5 DEF Next

\* Expected, of a supervisor and a procedure.
Consistent(s, q) ==
  /\ s.expected \in Settled => s.observed.current = s.expected
  /\ s.expected = "TRANSITION" => Commanded(q.kind) /\ q.phase \in {"task", "confirm"}
  /\ s.alive /\ s.failed => s.expected = "UNKNOWN"

\* Judging makes an expectation consistent with what is observed.
LEMMA ConsistentJudged ==
  ASSUME NEW s \in Supervisors, NEW q,
         s.expected = "TRANSITION" => Commanded(q.kind) /\ q.phase \in {"task", "confirm"},
         s.alive /\ s.failed => s.expected = "UNKNOWN"
  PROVE  Consistent(Judged(s), q)
<1> DEFINE j == Judged(s)
<1>1. /\ j.alive = s.alive
      /\ j.expected = "TRANSITION" => s.expected = "TRANSITION"
      /\ j.expected \in Settled => j.observed.current = j.expected
  BY JudgedKeeps
<1>2. /\ s.expected = "UNKNOWN" \/ Fails(s) => j.expected = "UNKNOWN"
      /\ j.failed => s.failed \/ Fails(s)
  BY JudgedKeeps
<1> HIDE DEF j
<1>3. j.alive /\ j.failed => j.expected = "UNKNOWN"
  BY <1>1, <1>2
<1>4. Consistent(j, q)
  BY <1>1, <1>3 DEF Consistent
<1> QED
  BY <1>4 DEF j

\* An unknown expectation is consistent with anything.
LEMMA ConsistentInvalidated ==
  ASSUME NEW s \in Supervisors, NEW q
  PROVE  Consistent(Invalidated(s), q)
<1>1. Invalidated(s).expected = "UNKNOWN"
  BY ExpectKeeps DEF Invalidated
<1> QED
  BY <1>1 DEF Consistent, Settled

\* Every step keeps what is expected consistent with what is observed and commanded.
LEMMA ExpectedKept ==
  ASSUME TypeInv, Expected, Next
  PROVE  Expected'
<1>0. /\ SupType /\ ctl \in OperatingStates /\ sup \in Supervisors /\ proc \in Procedures
  BY DEF TypeInv, TypeOK, SupType, ProcType, WorldType
<1>e. Consistent(sup, proc)
  BY DEF Expected, Consistent
<1>s. SUFFICES Consistent(sup', proc')
  BY DEF Expected, Consistent
<1>i. \A q : Consistent(Invalidated(sup), q)
  BY <1>0, ConsistentInvalidated
<1>n. \A q : sup.expected # "TRANSITION" => Consistent(sup, q)
  BY <1>e DEF Consistent
<1>m. \A q : Consistent(NoSup, q)
  BY NoSupTyped DEF Consistent, Settled
<1>1. CASE UNCHANGED <<sup, proc>>
  BY <1>e, <1>1
<1>2. CASE UNCHANGED sup /\ proc.phase \notin {"task", "confirm"}
  BY <1>e, <1>2 DEF Consistent
<1>3. CASE Deliver
  <2> DEFINE s == [Processed(sup, Head(queue), sup.old = 0) EXCEPT !.old = IF @ > 0 THEN @ - 1 ELSE 0]
  <2>1. queue # <<>> /\ Process(s) /\ proc' = proc
    BY <1>3 DEF Deliver, procVars
  <2>2. s \in Supervisors /\ s.alive = sup.alive /\ s.expected = sup.expected /\ s.failed = sup.failed
    BY <1>0, <2>1, TakeKeeps
  <2> HIDE DEF s
  <2>3. Consistent(Judged(s), proc)
    BY <1>e, <2>2, ConsistentJudged DEF Consistent
  <2> QED
    BY <2>1, <2>3 DEF Process
<1>4. CASE GraceElapses \/ MonitorFails
  <2>1. /\ proc' = proc /\ sup'.expected = sup.expected /\ sup'.observed = sup.observed
        /\ sup'.alive /\ sup'.failed => sup.alive /\ sup.failed
    BY <1>0, <1>4 DEF GraceElapses, MonitorFails, procVars, Supervisors
  <2> QED
    BY <1>e, <2>1 DEF Consistent
<1>5. CASE GraceChecked \/ Expectation
  <2>1. sup' = Judged(sup) /\ proc' = proc
    BY <1>5 DEF GraceChecked, Expectation, Process, procVars
  <2> QED
    BY <1>0, <1>e, <2>1, ConsistentJudged DEF Consistent
<1>6. CASE SendTask
  <2>1. proc.phase = "preparing"
    BY <1>6 DEF SendTask
  <2>2. sup.expected # "TRANSITION"
    BY <1>e, <2>1 DEF Consistent
  <2>3. CASE sup' = sup
    BY <1>n, <2>2, <2>3
  <2>4. CASE sup' # sup
    <3>1. sup' = Expect(sup, "TRANSITION") /\ Commanded(proc.kind) /\ Goto("task")
      BY <1>6, <2>4 DEF SendTask
    <3>2. /\ Expect(sup, "TRANSITION").expected = "TRANSITION"
          /\ Expect(sup, "TRANSITION").alive => ~Expect(sup, "TRANSITION").failed
      BY <1>0, ExpectKeeps
    <3>3. proc'.kind = proc.kind /\ proc'.phase = "task"
      BY <1>0, <3>1 DEF Goto, Procedures
    <3> QED
      BY <3>1, <3>2, <3>3 DEF Consistent, Settled
  <2> QED
    BY <2>3, <2>4
<1>7. CASE TaskExpires
  <2>1. ~Commanded(proc.kind) /\ sup' \in {sup, Invalidated(sup)}
    BY <1>7 DEF TaskExpires
  <2>2. sup.expected # "TRANSITION"
    BY <1>e, <2>1 DEF Consistent
  <2> QED
    BY <1>i, <1>n, <2>1, <2>2
<1>8. CASE TaskEnds
  <2>1. sup' = Invalidated(sup) \/ (sup' = sup /\ Goto("confirm"))
    BY <1>8 DEF TaskEnds
  <2>2. Goto("confirm") => proc'.kind = proc.kind /\ proc'.phase = "confirm"
    BY <1>0 DEF Goto, Procedures
  <2> QED
    BY <1>e, <1>i, <2>1, <2>2 DEF Consistent
<1>9. CASE Confirm
  <2> DEFINE s == Read(sup)
             j == Judged(s)
  <2>1. s \in Supervisors /\ s.expected = sup.expected /\ s.alive = sup.alive /\ s.failed = sup.failed
    BY <1>0, ReadKeeps
  <2>2. j \in Supervisors /\ Consistent(j, proc)
    BY <1>e, <2>1, ConsistentJudged, JudgedKeeps DEF Consistent
  <2>3. \/ sup' = Invalidated(j)
        \/ sup' = j /\ ~Commanded(proc.kind)
        \/ sup' = Expect(j, Goal(proc.kind)) /\ Commanded(proc.kind)
           /\ (proc.kind = "RECOVER" \/ Matches(j.observed, Goal(proc.kind), proc.demand.ctx))
    BY <1>9, Zenon DEF Confirm
  <2> HIDE DEF s, j
  <2>4. CASE sup' = Invalidated(j)
    BY <2>2, <2>4, ConsistentInvalidated
  <2>5. CASE sup' = j /\ ~Commanded(proc.kind)
    BY <2>2, <2>5 DEF Consistent
  <2>6. CASE sup' # Invalidated(j) /\ ~(sup' = j /\ ~Commanded(proc.kind))
    <3>1. Goal(proc.kind) \in Settled /\ proc.kind # "RECOVER"
      BY <2>3, <2>6 DEF Commanded, Goal, Settled
    <3>2. /\ Expect(j, Goal(proc.kind)).expected = Goal(proc.kind)
          /\ Expect(j, Goal(proc.kind)).observed = j.observed
          /\ Expect(j, Goal(proc.kind)).alive => ~Expect(j, Goal(proc.kind)).failed
      BY <2>2, <3>1, ExpectKeeps
    <3> QED
      BY <2>3, <2>6, <3>1, <3>2 DEF Consistent, Matches, Settled
  <2> QED
    BY <2>4, <2>5, <2>6
<1>10. CASE ConfirmFails
  BY <1>i, <1>10 DEF ConfirmFails
<1>11. CASE TaskCleaned
  <2>1. proc.phase \in {"graceful", "aborting"} /\ (sup' = sup \/ sup' = Judged(Read(sup)))
    BY <1>11, Zenon DEF TaskCleaned, ReadEnded, Process
  <2>2. sup.expected # "TRANSITION"
    BY <1>e, <2>1 DEF Consistent
  <2>3. /\ Read(sup) \in Supervisors /\ Read(sup).expected = sup.expected
        /\ Read(sup).alive = sup.alive /\ Read(sup).failed = sup.failed
    BY <1>0, ReadKeeps
  <2>4. Consistent(Judged(Read(sup)), proc')
    BY <1>e, <2>2, <2>3, ConsistentJudged DEF Consistent
  <2> QED
    BY <1>n, <2>1, <2>2, <2>4
<1>12. CASE EvaluateRaises \/ Released
  BY <1>m, <1>12 DEF EvaluateRaises, Released, EndSession
<1>13. CASE EvaluateUnsupervised \/ EvaluateRunning
  <2>1. \/ UNCHANGED <<sup, proc>> \/ sup' = Invalidated(sup)
        \/ sup' = sup /\ proc.phase \notin {"task", "confirm"}
    BY <1>13 DEF EvaluateUnsupervised, EvaluateRunning, Interrupt, Invalidates
  <2> QED
    BY <1>e, <1>i, <2>1 DEF Consistent
<1>14. CASE EvaluateIdle
  <2>1. ~Running
    BY <1>14, Zenon DEF EvaluateIdle
  <2>2. sup.expected # "TRANSITION"
    BY <1>e, <2>1 DEF Consistent, Running
  <2>3. sup' \in {sup, NoSup, Invalidated(sup)}
    BY <1>14, IdleMoves
  <2> QED
    BY <1>i, <1>m, <1>n, <2>2, <2>3
<1>15. CASE Begin
  <2> DEFINE b == [NoSup EXCEPT !.alive = TRUE, !.observed = ctl]
  <2>1. b \in Supervisors /\ b.expected = "unset" /\ ~b.failed
    BY <1>0, BegunTyped DEF NoSup
  <2>2. proc' = proc /\ (sup' = sup \/ sup' = Judged(b))
    BY <1>15, Zenon DEF Begin, procVars
  <2> HIDE DEF b
  <2>3. Consistent(Judged(b), proc)
    BY <2>1, ConsistentJudged
  <2> QED
    BY <1>e, <2>2, <2>3
<1> QED
  BY <1>1, <1>2, <1>3, <1>4, <1>5, <1>6, <1>7, <1>8, <1>9, <1>10, <1>11, <1>12, <1>13, <1>14,
     <1>15, ExpectationFrame DEF ExpectationChanges

\* The types and the expectations hold in every reachable state.
LEMMA ExpectedAlways ==
  Spec => [](TypeInv /\ Expected)
<1>1. Init => TypeInv /\ Expected
  <2>1. Init => Expected
    BY NoSupTyped DEF Init, Expected, Settled
  <2> QED
    BY <2>1, TypeInitially
<1>2. TypeInv /\ Expected /\ [Next]_vars => (TypeInv /\ Expected)'
  <2>1. CASE Next
    BY <2>1, TypeKept, ExpectedKept
  <2>2. CASE UNCHANGED vars
    <3>1. UNCHANGED <<sup, proc>>
      BY <2>2 DEF vars, supVars, procVars
    <3>2. Expected => Expected'
      BY <3>1 DEF Expected
    <3> QED
      BY <2>2, <3>2, TypeKept
  <2> QED
    BY <2>1, <2>2
<1> QED
  BY <1>1, <1>2, PTL DEF Spec

\* The supervisor expects a transition only while a procedure commands one: run_task, its failures
\* and its interruptions each leave another expectation (procedures.py, supervisor.py).
THEOREM TransitionsCommanded == Spec => []TransitionIsCommanded
<1>1. Expected => TransitionIsCommanded
  BY DEF Expected, TransitionIsCommanded
<1> QED
  BY <1>1, ExpectedAlways, PTL

\* The controller, or an update that nothing overtook, shows another state than the expected one.
News ==
  \/ ctl.current # sup.expected
  \/ \E i \in sup.old + 1 .. Len(queue) : queue[i].current # sup.expected

\* A departure that is found now was reported after the expected state was confirmed.
LEMMA DepartureIsNews ==
  ASSUME TypeInv, Expected, Next, Departed
  PROVE  News
<1>0. /\ SupType /\ ctl \in OperatingStates /\ sup \in Supervisors /\ proc \in Procedures
  BY DEF TypeInv, TypeOK, SupType, ProcType, WorldType
<1>e. /\ sup.expected \in Settled /\ sup.observed.current = sup.expected
      /\ sup'.alive /\ sup'.failed
      /\ sup.expected # "UNKNOWN" /\ sup.expected # "TRANSITION" /\ sup.expected # "unset"
      /\ ~(sup.alive /\ sup.failed)
  BY DEF Departed, Expected, Settled
<1>f. ASSUME NEW s \in Supervisors, s.expected = sup.expected, s.alive = sup.alive,
             s.failed = sup.failed, Judged(s).alive, Judged(s).failed
      PROVE  s.observed.current # sup.expected
  <2>1. s.alive /\ (s.failed \/ Fails(s))
    BY <1>f, JudgedKeeps
  <2>2. Fails(s)
    BY <1>e, <1>f, <2>1
  <2> QED
    BY <1>e, <1>f, <2>2 DEF Fails
<1>i. Invalidated(sup).alive /\ Invalidated(sup).failed => FALSE
  BY <1>0, ExpectKeeps DEF Invalidated
<1>m. ~NoSup.alive
  BY NoSupTyped
<1>1. CASE UNCHANGED sup
  BY <1>e, <1>1
<1>3. CASE Deliver
  <2> DEFINE s == [Processed(sup, Head(queue), sup.old = 0) EXCEPT !.old = IF @ > 0 THEN @ - 1 ELSE 0]
  <2>1. queue # <<>> /\ Process(s)
    BY <1>3 DEF Deliver
  <2>2. /\ s \in Supervisors /\ s.alive = sup.alive /\ s.expected = sup.expected
        /\ s.failed = sup.failed
        /\ s.observed = IF sup.old = 0 THEN Head(queue) ELSE sup.observed
    BY <1>0, <2>1, TakeKeeps
  <2> HIDE DEF s
  <2>3. sup' = Judged(s)
    BY <2>1 DEF Process
  <2>4. s.observed.current # sup.expected
    BY <1>e, <1>f, <2>2, <2>3
  <2>5. sup.old = 0 /\ Head(queue).current # sup.expected
    BY <1>e, <2>2, <2>4
  <2>6. 1 \in sup.old + 1 .. Len(queue) /\ queue[1] = Head(queue)
    <3>1. queue \in Seq(OperatingStates) /\ Len(queue) \in Nat /\ Len(queue) # 0
      BY <1>0, <2>1, LenProperties, EmptySeq DEF SupType
    <3> QED
      BY <2>5, <3>1, HeadTailProperties
  <2> QED
    BY <2>5, <2>6 DEF News
<1>4. CASE GraceElapses \/ MonitorFails
  <2>1. sup'.alive /\ sup'.failed => sup.alive /\ sup.failed
    BY <1>0, <1>4 DEF GraceElapses, MonitorFails, Supervisors
  <2> QED
    BY <1>e, <2>1
<1>5. CASE GraceChecked \/ Expectation
  <2>1. sup' = Judged(sup)
    BY <1>5 DEF GraceChecked, Expectation, Process
  <2> QED
    BY <1>0, <1>e, <1>f, <2>1
<1>6. CASE SendTask
  <2>1. sup' = sup \/ sup' = Expect(sup, "TRANSITION")
    BY <1>6 DEF SendTask
  <2>2. Expect(sup, "TRANSITION").alive => ~Expect(sup, "TRANSITION").failed
    BY <1>0, ExpectKeeps
  <2> QED
    BY <1>e, <2>1, <2>2
<1>7. CASE TaskExpires \/ TaskEnds \/ ConfirmFails \/ EvaluateUnsupervised \/ EvaluateRunning
  <2>1. sup' = sup \/ sup' = Invalidated(sup)
    BY <1>7 DEF TaskExpires, TaskEnds, ConfirmFails, EvaluateUnsupervised, EvaluateRunning,
       Interrupt
  <2> QED
    BY <1>e, <1>i, <2>1
<1>8. CASE Confirm \/ TaskCleaned
  <2> DEFINE s == Read(sup)
             j == Judged(s)
  <2>1. /\ s \in Supervisors /\ s.expected = sup.expected /\ s.alive = sup.alive
        /\ s.failed = sup.failed /\ s.observed \in {ctl, sup.observed}
    BY <1>0, ReadKeeps
  <2>2. j \in Supervisors
    BY <2>1, JudgedKeeps
  <2>3. \/ sup' = sup \/ sup' = j \/ sup' = Invalidated(j)
        \/ Commanded(proc.kind) /\ sup' = Expect(j, Goal(proc.kind))
    BY <1>8, Zenon DEF Confirm, TaskCleaned, ReadEnded, Process
  <2> HIDE DEF s
  <2>4. sup' = j => s.observed.current # sup.expected
    BY <1>e, <1>f, <2>1
  <2> HIDE DEF j
  <2>5. /\ Invalidated(j).alive => ~Invalidated(j).failed
        /\ Commanded(proc.kind) =>
             (Expect(j, Goal(proc.kind)).alive => ~Expect(j, Goal(proc.kind)).failed)
    <3>1. Commanded(proc.kind) => Goal(proc.kind) \in Settled
      BY DEF Commanded, Goal, Settled
    <3> QED
      BY <2>2, <3>1, ExpectKeeps DEF Invalidated
  <2>6. sup' = j
    BY <1>e, <2>3, <2>5
  <2> QED
    BY <1>e, <2>1, <2>4, <2>6 DEF News
<1>9. CASE EvaluateRaises \/ Released
  BY <1>e, <1>m, <1>9 DEF EvaluateRaises, Released, EndSession
<1>10. CASE EvaluateIdle
  <2>1. sup' \in {sup, NoSup, Invalidated(sup)}
    BY <1>10, IdleMoves
  <2> QED
    BY <1>e, <1>i, <1>m, <2>1
<1>11. CASE Begin
  <2> DEFINE b == [NoSup EXCEPT !.alive = TRUE, !.observed = ctl]
  <2>1. b \in Supervisors /\ b.expected = "unset" /\ ~b.failed
    BY <1>0, BegunTyped DEF NoSup
  <2>2. sup' = sup \/ sup' = Judged(b)
    BY <1>11, Zenon DEF Begin
  <2> HIDE DEF b
  <2>3. ~Fails(b)
    BY <2>1 DEF Fails, Settled
  <2>4. ~Judged(b).failed
    BY <2>1, <2>3, JudgedKeeps
  <2> QED
    BY <1>e, <2>2, <2>4
<1> QED
  BY <1>1, <1>3, <1>4, <1>5, <1>6, <1>7, <1>8, <1>9, <1>10, <1>11, ExpectationFrame
     DEF ExpectationChanges

\* A departure is counted because of news, never because of an update that a fresh read overtook
\* (ControllerStateSupervisor.refresh and _process_state).
THEOREM DeparturesWereReported == Spec => DeparturesAreNews
<1>1. TypeInv /\ Expected /\ [Next]_vars => [Departed => News]_vars
  BY DepartureIsNews
<1>2. Spec => [][Departed => News]_vars
  BY <1>1, ExpectedAlways, PTL DEF Spec
<1> QED
  BY <1>2 DEF DeparturesAreNews, News

-----------------------------------------------------------------------------
(* What a procedure leaves behind. *)

\* Whatever runs for a procedure is accounted for by what the procedure knows.
Accounted == Tracked /\ Activated /\ LeftBehind

\* Supervision that ended does not resume within its session.
LEMMA AliveKept ==
  ASSUME TypeInv, Next, ~Begin, sup'.alive
  PROVE  sup.alive
<1>0. /\ SupType /\ ctl \in OperatingStates /\ sup \in Supervisors /\ proc \in Procedures
  BY DEF TypeInv, TypeOK, SupType, ProcType, WorldType
<1>i. Invalidated(sup).alive = sup.alive /\ Expect(sup, "TRANSITION").alive = sup.alive
  BY <1>0, ExpectKeeps DEF Invalidated
<1>1. CASE UNCHANGED sup
  BY <1>1
<1>2. CASE Deliver
  <2> DEFINE s == [Processed(sup, Head(queue), sup.old = 0) EXCEPT !.old = IF @ > 0 THEN @ - 1 ELSE 0]
  <2>1. queue # <<>> /\ Process(s)
    BY <1>2 DEF Deliver
  <2>2. s \in Supervisors /\ s.alive = sup.alive
    BY <1>0, <2>1, TakeKeeps
  <2> HIDE DEF s
  <2> QED
    BY <2>1, <2>2, JudgedKeeps DEF Process
<1>3. CASE GraceElapses \/ MonitorFails \/ GraceChecked \/ Expectation
  BY <1>0, <1>3, JudgedKeeps DEF GraceElapses, MonitorFails, GraceChecked, Expectation, Process
<1>4. CASE SendTask \/ TaskExpires \/ TaskEnds \/ ConfirmFails
  <2>1. sup' \in {sup, Invalidated(sup), Expect(sup, "TRANSITION")}
    BY <1>4 DEF SendTask, TaskExpires, TaskEnds, ConfirmFails
  <2> QED
    BY <1>i, <2>1
<1>5. CASE Confirm
  BY <1>5, Zenon DEF Confirm
<1>6. CASE TaskCleaned
  BY <1>6 DEF TaskCleaned, ReadEnded
<1>7. CASE EvaluateUnsupervised \/ EvaluateRunning
  <2>1. sup' \in {sup, Invalidated(sup)}
    BY <1>7 DEF EvaluateUnsupervised, EvaluateRunning, Interrupt
  <2> QED
    BY <1>i, <2>1
<1>8. CASE EvaluateRaises \/ Released
  BY <1>8, NoSupTyped DEF EvaluateRaises, Released, EndSession
<1>9. CASE EvaluateIdle
  BY <1>9, Zenon DEF EvaluateIdle
<1> QED
  BY <1>1, <1>2, <1>3, <1>4, <1>5, <1>6, <1>7, <1>8, <1>9, ExpectationFrame DEF ExpectationChanges

\* Steps of the controller and the program keep the account.
LEMMA WorldAccounted ==
  ASSUME TypeInv, Accounted, Next, sup'.alive => sup.alive, WorldStep
         \/ NotAccepted \/ StrayBegins \/ Reports \/ StartFails \/ SessionFails
  PROVE  Accounted'
<1> USE DEF Accounted, Tracked, Activated, LeftBehind, OnlyWorld, OnlyProgram, Sent, Pending
<1>t. /\ call \in [status : {"none", "sending", "running", "rejected", "unknown", "succeeded",
                         "failed", "aborted"}, aborting : BOOLEAN]
      /\ act \in [status : {"none", "sent", "accepted", "started", "rejected", "lost", "failed",
                        "unconfirmed"}, ends : BOOLEAN]
  BY DEF TypeInv, TypeOK, ProcType
<1>q. call.status # "none" => proc.phase \notin Quiet
  OBVIOUS
<1> HIDE DEF Quiet
<1>1. CASE Accepts
  BY <1>t, <1>q, <1>1 DEF Accepts
<1>2. CASE NotAccepted
  BY <1>t, <1>q, <1>2 DEF NotAccepted
<1>3. CASE StrayBegins \/ StrayEnds \/ Reports
  BY <1>t, <1>q, <1>3 DEF StrayBegins, StrayEnds, Reports, Foreign
<1>4. CASE \E how \in {"succeeded", "failed", "aborted"} : Finishes(how)
  BY <1>t, <1>q, <1>4 DEF Finishes
<1>5. CASE \E lost \in BOOLEAN : Reported(lost)
  BY <1>t, <1>q, <1>5 DEF Reported
<1>6. CASE StartAccepted \/ StartConfirmed
  BY <1>t, <1>6 DEF StartAccepted, StartConfirmed
<1>7. CASE StartFails
  BY <1>t, <1>7 DEF StartFails
<1>8. CASE SessionFails \/ SessionEnds
  BY <1>t, <1>8 DEF SessionFails, SessionEnds
<1> QED
  BY <1>1, <1>2, <1>3, <1>4, <1>5, <1>6, <1>7, <1>8 DEF WorldStep

\* A procedure's own steps, and the timeouts on it, keep the account.
LEMMA ProcedureAccounted ==
  ASSUME TypeInv, Accounted, sup'.alive => sup.alive,
         ProcedureStep \/ TaskExpires \/ StartExpires \/ CleanupExpires \/ CleaningFails
  PROVE  Accounted'
<1> USE DEF Accounted, Tracked, Activated, LeftBehind, OnlyProc, Sent, Pending, worldVars
<1>t. /\ call \in [status : {"none", "sending", "running", "rejected", "unknown", "succeeded",
                         "failed", "aborted"}, aborting : BOOLEAN]
      /\ act \in [status : {"none", "sent", "accepted", "started", "rejected", "lost", "failed",
                        "unconfirmed"}, ends : BOOLEAN]
      /\ proc \in Procedures
  BY DEF TypeInv, TypeOK, ProcType
<1>g. \A x \in Phases : Goto(x) => /\ proc'.phase = x /\ proc'.kind = proc.kind
                                   /\ proc'.adopted = proc.adopted
                                   /\ proc'.unresolved = proc.unresolved
  BY <1>t DEF Goto, Procedures
<1>r. \A e \in Errors : proc' = Raised(proc, e) =>
        proc'.phase = "graceful" /\ proc'.kind = proc.kind /\ proc'.adopted = proc.adopted
  BY <1>t, RaisedKeeps DEF SameProc
<1>e. {"other", "controller", "unrecoverable", "offline"} \subseteq Errors
  BY DEF Errors
<1>c. /\ Classified(proc) \in Procedures /\ Classified(proc).kind = proc.kind
      /\ Classified(proc).adopted = proc.adopted
      /\ act.status \in {"lost", "unconfirmed"} => Classified(proc).unresolved
  BY <1>t, ClassifiedKeeps DEF SameProc
<1>o. ASSUME NEW p \in Procedures, p.kind = proc.kind, p.adopted = proc.adopted, proc' = Concluded(p)
      PROVE  /\ proc'.phase = "done" /\ proc'.kind = proc.kind /\ proc'.adopted = proc.adopted
             /\ ~proc'.unresolved => ~p.unresolved /\ ~Sent(call) /\ call.status # "unknown"
  BY <1>o, ConcludedKeeps DEF SameProc
<1>s. proc.phase # "none" => session \notin {"off", "delay"}
  OBVIOUS
<1>p. {"online", "reconcile", "clearing", "apply", "preparing", "task", "expiring", "confirm",
       "claim", "activating", "starting", "tasking", "pause", "hold", "graceful", "stopLogic",
       "aborting", "abortLogic", "done"} \subseteq Phases
  BY DEF Phases
<1>u. {"task", "expiring", "graceful", "stopLogic", "aborting", "abortLogic", "done"} \cap Quiet = {}
  BY DEF Quiet
<1>v. {"online", "reconcile", "clearing", "apply", "preparing", "confirm", "claim", "activating",
       "starting", "tasking", "pause", "hold"} \subseteq Quiet
  BY DEF Quiet
<1> HIDE DEF Quiet
<1>1. CASE Online
  <2>0. /\ proc.phase = "online" /\ session' = session
        /\ UNCHANGED <<call, act, work, tasking, ending>>
    BY <1>1 DEF Online
  <2>1. CASE proc' = [proc EXCEPT !.phase = "done", !.error = "offline"]
    <3>1. proc'.phase = "done" /\ proc'.kind = proc.kind /\ proc'.adopted = proc.adopted
      BY <1>t, <2>1 DEF Procedures
    <3> QED
      BY <1>s, <1>u, <1>v, <2>0, <3>1
  <2>2. CASE proc' # [proc EXCEPT !.phase = "done", !.error = "offline"]
    <3>1. \/ Goto("graceful") \/ Goto("aborting")
          \/ (proc.kind \in {"RECOVER", "EMERGENCY"} /\ Goto("preparing"))
          \/ (proc.kind # "RECOVER" /\ Goto("reconcile")) \/ Goto("apply")
      BY <1>1, <2>2 DEF Online, First
    <3> QED
      BY <1>g, <1>p, <1>s, <1>u, <1>v, <2>0, <3>1
  <2> QED
    BY <2>1, <2>2
<1>2. CASE Reconcile
  <2>0. /\ proc.phase = "reconcile" /\ session' = session
        /\ UNCHANGED <<call, act, work, tasking, ending>>
    BY <1>2 DEF Reconcile
  <2>1. CASE proc' = [proc EXCEPT !.phase = "activating", !.adopted = TRUE]
    <3>1. proc'.phase = "activating" /\ proc'.kind = proc.kind
      BY <1>t, <2>1 DEF Procedures
    <3> QED
      BY <1>s, <1>u, <1>v, <2>0, <3>1
  <2>2. CASE Goto("apply") \/ Goto("clearing") \/ proc' = Raised(proc, "other")
    BY <1>e, <1>g, <1>p, <1>r, <1>s, <1>u, <1>v, <2>0, <2>2
  <2> QED
    BY <1>2, <2>1, <2>2 DEF Reconcile
<1>3. CASE ClearsTasking
  <2>0. /\ proc.phase = "clearing" /\ session' = session /\ tasking' \in {tasking, "none"}
        /\ UNCHANGED <<call, act, work, ending>>
        /\ Goto("apply") \/ proc' = Raised(proc, "other")
    BY <1>3 DEF ClearsTasking
  <2> QED
    BY <1>e, <1>g, <1>p, <1>r, <1>s, <1>u, <1>v, <2>0
<1>4. CASE Apply
  <2>0. /\ proc.phase = "apply" /\ session' = session
        /\ UNCHANGED <<call, act, work, tasking, ending>>
        /\ Goto("confirm") \/ Goto("preparing")
    BY <1>4 DEF Apply
  <2> QED
    BY <1>g, <1>p, <1>s, <1>u, <1>v, <2>0
<1>5. CASE SendTask
  <2>0. /\ proc.phase = "preparing" /\ session' = session
        /\ UNCHANGED <<act, work, tasking, ending>>
        /\ \/ Goto("task") /\ call' = [NoCall EXCEPT !.status = "sending"]
           \/ proc' = Raised(proc, "other") /\ call' = call
    BY <1>5 DEF SendTask
  <2>1. [NoCall EXCEPT !.status = "sending"].status = "sending"
    BY DEF NoCall
  <2> QED
    BY <1>e, <1>g, <1>p, <1>r, <1>s, <1>u, <1>v, <2>0, <2>1
<1>6. CASE TaskExpires
  <2>0. /\ call.status = "running" /\ session' = session
        /\ UNCHANGED <<act, work, tasking, ending>> /\ call'.status = call.status
        /\ \/ proc.phase = "task" /\ Goto("expiring")
           \/ proc.phase = "expiring" /\ proc' = Raised(proc, "other")
    BY <1>t, <1>6 DEF TaskExpires
  <2> QED
    BY <1>e, <1>g, <1>p, <1>r, <1>s, <1>u, <1>v, <2>0
<1>7. CASE TaskEnds
  <2>0. /\ proc.phase \in {"task", "expiring"} /\ session' = session /\ ~Sent(call)
        /\ UNCHANGED <<act, work, tasking, ending>>
        /\ call' = IF call.status = "unknown" THEN call ELSE NoCall
        /\ \/ call.status = "succeeded" /\ Goto("confirm")
           \/ \E e \in Errors : proc' = Raised(proc, e)
    BY <1>e, <1>7 DEF TaskEnds
  <2>1. call'.status = IF call.status = "unknown" THEN "unknown" ELSE "none"
    BY <2>0 DEF NoCall
  <2> QED
    BY <1>e, <1>g, <1>p, <1>r, <1>s, <1>u, <1>v, <2>0, <2>1
<1>8. CASE Confirm
  <2>0. /\ proc.phase = "confirm" /\ session' = session
        /\ UNCHANGED <<call, act, work, tasking, ending>>
    BY <1>8, Zenon DEF Confirm, worldVars
  <2>1. \/ \E e \in Errors : proc' = Raised(proc, e)
        \/ proc.kind = "RECOVER" /\ proc' = [proc EXCEPT !.phase = "done", !.recovered = TRUE]
        \/ proc' = [proc EXCEPT !.achieved = TRUE,
                      !.phase = IF ~proc.demand.program THEN "hold"
                                ELSE IF proc.adopted THEN "tasking" ELSE "claim"]
    BY <1>e, <1>8 DEF Confirm
  <2>2. \A x \in Phases : LET q == [proc EXCEPT !.achieved = TRUE, !.phase = x]
                         IN  q.phase = x /\ q.kind = proc.kind /\ q.adopted = proc.adopted
    BY <1>t DEF Procedures
  <2>3. LET q == [proc EXCEPT !.phase = "done", !.recovered = TRUE]
        IN  q.phase = "done" /\ q.kind = proc.kind /\ q.adopted = proc.adopted
    BY <1>t DEF Procedures
  <2>4. CASE \E e \in Errors : proc' = Raised(proc, e)
    BY <1>r, <1>s, <1>u, <1>v, <2>0, <2>4
  <2>5. CASE proc.kind = "RECOVER" /\ proc' = [proc EXCEPT !.phase = "done", !.recovered = TRUE]
    BY <1>s, <1>u, <1>v, <2>0, <2>3, <2>5
  <2>6. CASE proc' = [proc EXCEPT !.achieved = TRUE,
                      !.phase = IF ~proc.demand.program THEN "hold"
                                ELSE IF proc.adopted THEN "tasking" ELSE "claim"]
    <3>1. proc'.phase \in {"hold", "claim"} \/ (proc'.phase = "tasking" /\ proc.adopted)
      BY <1>p, <2>2, <2>6
    <3>2. proc'.kind = proc.kind /\ proc'.adopted = proc.adopted
      BY <1>p, <2>2, <2>6
    <3>3. proc'.phase = "claim" => ~proc.adopted
      BY <1>p, <2>2, <2>6
    <3> QED
      BY <1>s, <1>u, <1>v, <2>0, <3>1, <3>2, <3>3
  <2> QED
    BY <2>1, <2>4, <2>5, <2>6
<1>9. CASE ConfirmFails \/ StartExpires
  <2>0. /\ proc.phase \in {"confirm", "starting"} /\ session' = session
        /\ UNCHANGED <<call, act, work, tasking, ending>>
        /\ \E e \in Errors : proc' = Raised(proc, e)
    BY <1>e, <1>9 DEF ConfirmFails, StartExpires
  <2> QED
    BY <1>r, <1>s, <1>u, <1>v, <2>0
<1>10. CASE Claim
  <2>0. /\ proc.phase = "claim" /\ session' = session
        /\ UNCHANGED <<call, act, tasking, ending>> /\ work' \in {work, "none"}
        /\ Goto("activating") \/ \E e \in Errors : proc' = Raised(proc, e)
    BY <1>e, <1>10 DEF Claim
  <2> QED
    BY <1>g, <1>p, <1>r, <1>s, <1>u, <1>v, <2>0
<1>11. CASE SendStart
  <2>0. /\ proc.phase = "activating" /\ session' = session
        /\ UNCHANGED <<call, work, tasking, ending>>
        /\ \/ Goto("starting") /\ act' = [status |-> "sent", ends |-> TRUE]
           \/ proc' = Raised(proc, "other") /\ act' = act
    BY <1>11 DEF SendStart
  <2> QED
    BY <1>e, <1>g, <1>p, <1>r, <1>s, <1>u, <1>v, <2>0
<1>12. CASE Started
  <2>0. /\ proc.phase = "starting" /\ session' = session /\ ~Pending(act)
        /\ UNCHANGED <<call, work, tasking, ending>>
    BY <1>12 DEF Started
  <2>1. act'.status = act.status /\ (act.ends /\ act.status # "rejected" => act'.ends)
    BY <1>t, <1>12 DEF Started, Owed
  <2>2. \/ act.status = "started" /\ proc.adopted /\ Goto("apply")
        \/ act.status = "started" /\ ~proc.adopted /\ Goto("tasking")
        \/ proc' = Raised(Classified(proc), "other")
    BY <1>12 DEF Started, Goto
  <2>3. proc' = Raised(Classified(proc), "other") =>
          proc'.phase = "graceful" /\ proc'.kind = proc.kind /\ proc'.adopted = proc.adopted
    <3>1. "other" \in Errors /\ Classified(proc) \in Procedures
      BY <1>c, <1>e
    <3>2. SameProc(Raised(Classified(proc), "other"), Classified(proc))
          /\ Raised(Classified(proc), "other").phase = "graceful"
      BY <3>1, RaisedKeeps
    <3> QED
      BY <1>c, <3>2 DEF SameProc
  <2> QED
    BY <1>g, <1>p, <1>s, <1>u, <1>v, <2>0, <2>1, <2>2, <2>3
<1>13. CASE TaskingEnded
  <2>0. /\ proc.phase = "tasking" /\ session' = session
        /\ UNCHANGED <<call, act, work, tasking, ending>>
        /\ (ending = "init" /\ Goto("pause")) \/ \E e \in Errors : proc' = Raised(proc, e)
    BY <1>e, <1>13 DEF TaskingEnded, Goto
  <2> QED
    BY <1>g, <1>p, <1>r, <1>s, <1>u, <1>v, <2>0
<1>14. CASE PauseEnds
  <2>0. /\ proc.phase = "pause" /\ session' = session /\ proc' = Concluded(proc)
        /\ UNCHANGED <<call, act, work, tasking, ending>>
    BY <1>14 DEF PauseEnds
  <2> QED
    BY <1>o, <1>s, <1>t, <1>u, <1>v, <2>0
<1>15. CASE NoDispatch
  <2>0. /\ proc.phase \in {"clearing", "apply", "preparing", "activating", "claim"}
        /\ ~sup.alive /\ session' = session /\ proc' = Concluded(proc)
        /\ UNCHANGED <<call, act, work, tasking, ending>>
    BY <1>15 DEF NoDispatch
  <2> QED
    BY <1>o, <1>s, <1>t, <1>u, <1>v, <2>0
<1>16. CASE TaskCleaned
  <2>0. /\ proc.phase \in {"graceful", "aborting"} /\ session' = session
        /\ UNCHANGED <<call, act, work, tasking, ending>>
        /\ Goto("stopLogic") \/ Goto("abortLogic")
    BY <1>16, Zenon DEF TaskCleaned, worldVars
  <2> QED
    BY <1>g, <1>p, <1>s, <1>u, <1>v, <2>0
<1>17. CASE NothingToEnd
  <2>0. /\ proc.phase \in {"stopLogic", "abortLogic"} /\ session' = session
        /\ act.status = "none" \/ (~Pending(act) /\ (~Owed(act).ends \/ act.status = "lost"))
        /\ UNCHANGED <<call, act, work, tasking, ending>> /\ proc' = Concluded(Classified(proc))
    BY <1>17 DEF NothingToEnd
  <2>1. act.ends /\ act.status # "rejected" => Owed(act).ends
    BY <1>t DEF Owed
  <2> QED
    BY <1>c, <1>o, <1>s, <1>t, <1>u, <2>0, <2>1
<1>18. CASE TaskingCleaned
  <2>0. /\ proc.phase \in {"stopLogic", "abortLogic"} /\ session' = session
        /\ act.status \in {"started", "failed", "unconfirmed"}
        /\ tasking' = IF tasking = "mine" THEN "none" ELSE tasking
        /\ act'.status = act.status
        /\ UNCHANGED <<call, work, ending>> /\ proc' = Concluded(Classified(proc))
    BY <1>t, <1>18 DEF TaskingCleaned
  <2> QED
    BY <1>c, <1>o, <1>s, <1>t, <1>u, <2>0
<1>19. CASE CleanupExpires
  <2>0. /\ proc.phase \in {"graceful", "stopLogic", "aborting"} /\ session' = session
        /\ UNCHANGED <<act, work, tasking, ending>> /\ call'.status = call.status
    BY <1>t, <1>19 DEF CleanupExpires, AbortCall
  <2>1. Goto("abortLogic") \/ (/\ proc'.phase = "aborting" /\ proc'.kind = proc.kind
                               /\ proc'.adopted = proc.adopted)
    <3> DEFINE b == proc.unclean \/ proc.phase = "stopLogic"
    <3>1. b \in BOOLEAN
      BY <1>t DEF Procedures
    <3>2. Escalated(proc).unclean = proc.unclean
      BY <1>t DEF Escalated, Procedures
    <3>3. \/ Goto("abortLogic")
          \/ proc' = [Escalated(proc) EXCEPT !.unclean = @ \/ proc.phase = "stopLogic"]
      BY <1>19, Zenon DEF CleanupExpires
    <3>4. Goto("abortLogic") \/ proc' = [Escalated(proc) EXCEPT !.unclean = b]
      BY <3>2, <3>3, Zenon
    <3>5. LET q == [Escalated(proc) EXCEPT !.unclean = b]
          IN  q.phase = "aborting" /\ q.kind = proc.kind /\ q.adopted = proc.adopted
      BY <1>t, <3>1, EscalatedKeeps, Zenon DEF SameProc
    <3> QED
      BY <3>4, <3>5, Zenon
  <2> QED
    BY <1>g, <1>p, <1>s, <1>u, <2>0, <2>1
<1>20. CASE CleaningFails
  <2> DEFINE k == Classified(proc)
             q == [k EXCEPT !.unclean = TRUE, !.unresolved = TRUE]
  <2>0. /\ proc.phase \in {"stopLogic", "abortLogic"} /\ session' = session
        /\ UNCHANGED <<act, work, ending>> /\ call'.status = call.status
        /\ tasking' \in {tasking, "none"}
    BY <1>t, <1>20 DEF CleaningFails, AbortCall
  <2>1. \/ proc' = [Escalated(k) EXCEPT !.unclean = TRUE]
        \/ proc' = Concluded(q)
    BY <1>20, Zenon DEF CleaningFails
  <2>k. k \in Procedures /\ k.kind = proc.kind /\ k.adopted = proc.adopted
    BY <1>c
  <2> HIDE DEF k
  <2>2. CASE proc' = [Escalated(k) EXCEPT !.unclean = TRUE]
    <3>1. proc'.phase = "aborting" /\ proc'.kind = proc.kind /\ proc'.adopted = proc.adopted
      BY <2>k, <2>2, EscalatedKeeps DEF SameProc
    <3> QED
      BY <1>s, <1>u, <2>0, <3>1
  <2>3. CASE proc' = Concluded(q)
    <3>1. q \in Procedures /\ q.kind = proc.kind /\ q.adopted = proc.adopted /\ q.unresolved
      BY <2>k DEF Procedures
    <3> HIDE DEF q
    <3>2. /\ proc'.phase = "done" /\ proc'.kind = proc.kind /\ proc'.adopted = proc.adopted
          /\ proc'.unresolved
      BY <1>o, <2>3, <3>1
    <3> QED
      BY <1>s, <1>u, <2>0, <3>2
  <2> QED
    BY <2>1, <2>2, <2>3
<1> QED
  BY <1>1, <1>2, <1>3, <1>4, <1>5, <1>6, <1>7, <1>8, <1>9, <1>10, <1>11, <1>12, <1>13, <1>14,
     <1>15, <1>16, <1>17, <1>18, <1>19, <1>20 DEF ProcedureStep

\* The reactor keeps the account: it interrupts a procedure, forgets one, or starts the next.
LEMMA ReactorAccounted ==
  ASSUME TypeInv, Accounted, sup'.alive => sup.alive,
         \/ Released
         \/ session = "running" /\ (EvaluateRaises \/ EvaluateUnsupervised
                                     \/ EvaluateRunning \/ EvaluateIdle)
  PROVE  Accounted'
<1> USE DEF Accounted, Tracked, Activated, LeftBehind, Sent, Pending, worldVars
<1>t. /\ call \in [status : {"none", "sending", "running", "rejected", "unknown", "succeeded",
                         "failed", "aborted"}, aborting : BOOLEAN]
      /\ proc \in Procedures
  BY DEF TypeInv, TypeOK, ProcType
<1>n. /\ NoProc.phase = "none" /\ NoProc.kind = "none" /\ ~NoProc.adopted
      /\ NoCall.status = "none" /\ NoAct.status = "none"
  BY DEF NoProc, NoCall, NoAct
<1>u. {"graceful", "aborting"} \cap Quiet = {}
  BY DEF Quiet
<1> HIDE DEF Quiet
<1>1. CASE EvaluateRaises \/ Released
  <2>1. /\ proc' = NoProc /\ call' = NoCall /\ act' = NoAct /\ ending' = "none"
        /\ tasking' \in {"none", "stray"} /\ work' \in {"none", "stray"}
    BY <1>1 DEF EvaluateRaises, Released, EndSession, Forget
  <2> QED
    BY <1>n, <2>1
<1>2. CASE session = "running" /\ EvaluateIdle
  <2>1. /\ call' = NoCall /\ act' = NoAct /\ ending' = "none"
        /\ tasking' \in {"none", "stray"} /\ work' \in {"none", "stray"}
    <3>1. CASE ~enabled
      BY <1>2, <3>1, Zenon DEF EvaluateIdle, EndSession, Forget
    <3>2. CASE enabled
      BY <1>2, <3>2, Zenon DEF EvaluateIdle, Forget
    <3> QED
      BY <3>1, <3>2
  <2>2. CASE proc' = NoProc
    BY <1>n, <2>1, <2>2
  <2>3. CASE proc' # NoProc
    <3>1. PICK g \in FailuresNext : proc' = Begun(Successor(g))
      BY <1>2, <2>3, IdleMoves
    <3>2. proc'.phase = "online" /\ ~proc'.adopted
      BY <3>1 DEF Begun, NoProc
    <3>3. UNCHANGED session
      <4>1. enabled
        BY <1>2, <2>3, Zenon DEF EvaluateIdle, EndSession
      <4> QED
        BY <1>2, <4>1, Zenon DEF EvaluateIdle
    <3> QED
      BY <1>2, <1>n, <2>1, <3>2, <3>3
  <2> QED
    BY <2>2, <2>3
<1>3. CASE session = "running" /\ (EvaluateUnsupervised \/ EvaluateRunning)
  <2>1. /\ session' \in {"running", "releasing"} /\ UNCHANGED <<act, work, tasking, ending>>
    BY <1>3 DEF EvaluateUnsupervised, EvaluateRunning
  <2>2. CASE UNCHANGED proc
    <3>1. call'.status = call.status
      BY <1>t, <1>3 DEF EvaluateUnsupervised, EvaluateRunning, Interrupt, AbortCall
    <3> QED
      BY <1>t, <2>1, <2>2, <3>1
  <2>3. CASE proc' # proc
    <3>1. Running /\ call'.status = call.status
      BY <1>t, <1>3, <2>3 DEF EvaluateUnsupervised, EvaluateRunning, Interrupt, AbortCall
    <3>2. proc' \in {RequestAbort(proc), RequestStop(proc)}
      BY <1>3, <2>3 DEF EvaluateUnsupervised, EvaluateRunning, Interrupt
    <3>3. /\ proc'.kind = proc.kind /\ proc'.adopted = proc.adopted
          /\ \/ proc'.phase \in {"graceful", "aborting"}
             \/ proc'.phase = "online" /\ proc.phase = "online"
      BY <1>t, <2>3, <3>2, RequestKeeps DEF SameProc
    <3> QED
      BY <1>t, <1>u, <2>1, <3>1, <3>3 DEF Running
  <2> QED
    BY <2>2, <2>3
<1> QED
  BY <1>1, <1>2, <1>3

\* Every step keeps the account.
LEMMA AccountedKept ==
  ASSUME TypeInv, Accounted, Next
  PROVE  Accounted'
<1>1. CASE ~Begin
  <2> DEFINE Still == UNCHANGED <<procVars, worldVars>> /\ (UNCHANGED session \/ DelayElapses)
             Reacts == session = "running" /\ (EvaluateRaises \/ EvaluateUnsupervised
                                              \/ EvaluateRunning \/ EvaluateIdle)
  <2>1. sup'.alive => sup.alive
    BY <1>1, AliveKept
  <2>2. CASE WorldStep \/ NotAccepted \/ StrayBegins \/ Reports \/ StartFails \/ SessionFails
    BY <2>1, <2>2, WorldAccounted
  <2>3. CASE ProcedureStep \/ TaskExpires \/ StartExpires \/ CleanupExpires \/ CleaningFails
    BY <2>1, <2>3, ProcedureAccounted
  <2>4. CASE Released \/ Reacts
    BY <2>1, <2>4, ReactorAccounted
  <2>5. CASE Still
    <3>1. session' \in {"off", "delay"} => session \in {"off", "delay"}
      BY <2>5 DEF DelayElapses
    <3> QED
      BY <2>1, <2>5, <3>1 DEF procVars, worldVars, Accounted, Tracked, Activated,
         LeftBehind, Sent, Pending
  <2>6. \/ WorldStep \/ ProcedureStep \/ Begin \/ Released
        \/ NotAccepted \/ StrayBegins \/ Reports \/ StartFails \/ SessionFails
        \/ TaskExpires \/ StartExpires \/ CleanupExpires \/ CleaningFails
        \/ Reacts \/ Still
    <3>1. CASE SessionStep
      BY <3>1 DEF SessionStep, Deliver, GraceChecked, Expectation, Evaluate, RetryElapses,
         DelayElapses
    <3>2. CASE FaultStep
      BY <3>2 DEF FaultStep, GraceElapses, MonitorFails, SettleElapses
    <3>3. CASE StablePasses \/ (\E d \in Demands : SetDemand(d)) \/ Disable \/ Enable
      BY <3>3 DEF StablePasses, SetDemand, Disable, Enable, OnlyRequest
    <3> QED
      BY <3>1, <3>2, <3>3 DEF Next
  <2> HIDE DEF Still, Reacts
  <2> QED
    BY <1>1, <2>2, <2>3, <2>4, <2>5, <2>6
<1>2. CASE Begin
  <2>1. UNCHANGED <<procVars, worldVars>> /\ session = "off" /\ session' \in {"running", "delay"}
    BY <1>2 DEF Begin
  <2> QED
    BY <2>1 DEF procVars, worldVars, Accounted, Tracked, Activated, LeftBehind, Sent, Pending
<1> QED
  BY <1>1, <1>2

\* A procedure that ends without saying so leaves no task and no tasking running, whatever failed,
\* timed out or got lost on the way (LifecycleProcedure and its cleanup).
THEOREM NothingIsLeftBehind == Spec => []NothingLeftBehind
<1>1. Init => Accounted
  BY DEF Init, Accounted, Tracked, Activated, LeftBehind, NoProc, NoCall, NoAct, Sent, Pending
<1>2. TypeInv /\ Accounted /\ [Next]_vars => Accounted'
  <2>1. CASE Next
    BY <2>1, AccountedKept
  <2>2. CASE UNCHANGED vars
    BY <2>2 DEF vars, supVars, procVars, worldVars, Accounted, Tracked, Activated, LeftBehind,
       Sent, Pending
  <2> QED
    BY <2>1, <2>2
<1>3. Spec => [](TypeInv /\ Accounted)
  BY <1>1, <1>2, TypeInitially, TypeKept, PTL DEF Spec
<1>4. Accounted => NothingLeftBehind
  BY DEF Accounted, Tracked, LeftBehind, NothingLeftBehind, Sent
<1> QED
  BY <1>3, <1>4, PTL
=============================================================================
