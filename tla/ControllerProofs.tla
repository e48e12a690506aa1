--------------------------- MODULE ControllerProofs ---------------------------
(***************************************************************************)
(* Proofs about Controller, for every set of targets and inputs and every  *)
(* bound on runs, reports, failed publications and restarts.               *)
(***************************************************************************)
EXTENDS Controller, TLAPS

USE ControllerAssumption DEF Runs, NoRun

-----------------------------------------------------------------------------
(* Types of the pure operators.                                            *)

LEMMA ResolverTypes ==
  ASSUME NEW s \in Resolvers, NEW i \in Inputs
  PROVE  /\ SettledOf(s) \in StateInput
         /\ \A b \in BOOLEAN : NewResolver(i, b) \in Resolvers
         /\ \A state \in Targets \cup Latched : RecordObserved(s, state, i) \in Resolvers
         /\ \A t \in Tasks, began \in BOOLEAN, outcome \in {"aborted", "success", "failed"} :
              RecordFinish(s, t, i, outcome, began) \in Resolvers
<1>1. SettledOf(s) \in StateInput
  BY DEF Resolvers, StateInput, SettledOf
<1>2. ASSUME NEW b \in BOOLEAN PROVE NewResolver(i, b) \in Resolvers
  BY DEF Resolvers, StateInput, NewResolver, States, Latched
<1>3. ASSUME NEW state \in Targets \cup Latched
      PROVE  RecordObserved(s, state, i) \in Resolvers
  BY <1>1 DEF Resolvers, StateInput, RecordObserved, States, Latched
<1>4. ASSUME NEW t \in Tasks, NEW began \in BOOLEAN,
             NEW outcome \in {"aborted", "success", "failed"}
      PROVE  RecordFinish(s, t, i, outcome, began) \in Resolvers
  <2>1. RecordSuccess(s, t, i) \in Resolvers
    BY DEF Resolvers, RecordSuccess, TargetOf, States, Latched
  <2>2. \A c \in Inputs, state \in Latched :
          [s EXCEPT !.latch = [state |-> state, input |-> c]] \in Resolvers
    BY DEF Resolvers, StateInput, States, Latched
  <2>3. (IF TargetOf(t) = None THEN SettledOf(s).input ELSE i) \in Inputs
    BY <1>1 DEF StateInput
  <2>4. QED
    BY <2>1, <2>2, <2>3 DEF RecordFinish, Latched
<1>5. QED
  BY <1>1, <1>2, <1>3, <1>4

Views == [current : States, target : Targets \cup {None}, input : Inputs]

LEMMA ViewTypes ==
  ASSUME NEW s \in Resolvers
  PROVE  /\ AtRest(s) \in Views
         /\ \A t \in Tasks, i \in Inputs : InTransition(s, t, i) \in Views
<1>1. SettledOf(s) \in StateInput
  BY ResolverTypes
<1>2. QED
  BY <1>1 DEF AtRest, InTransition, Views, StateInput, States, TargetOf

LEMMA EventTypes ==
  /\ \A op \in Operating : View(op) \in Views
  /\ \A v \in Views, b \in BOOLEAN : OperatingEvent(v, b) \in Events
  /\ \A op \in Operating, v \in Views : Derive(op, v) \in Events
  BY DEF View, Views, Operating, OperatingEvent, Derive, Events

LEMMA ApplyType ==
  ASSUME NEW m \in Memories, NEW e \in Events
  PROVE  Apply(m, e) \in Memories
  BY DEF Memories, Events, Apply

LEMMA SeqTypes ==
  /\ <<>> \in Seq(Events)
  /\ \A e \in Events : <<e>> \in Seq(Events)
  /\ \A q1, q2 \in Seq(Events) : q1 \o q2 \in Seq(Events)
  /\ \A q \in Seq(Events) : q # <<>> => Head(q) \in Events /\ Tail(q) \in Seq(Events)
  OBVIOUS
LEMMA DerivedType ==
  ASSUME TypeOK, NEW s \in Resolvers, NEW r \in Runs \cup {NoRun}, NEW p
  PROVE  /\ Derived(s, r, p) \in Views
         /\ OperatingChange(Derived(s, r, p)) \in Seq(Events)
<1>1. Derived(s, r, p) \in Views
  BY ViewTypes DEF Derived, TypeOK
<1>2. memory.operating \in Operating
  BY DEF TypeOK, Memories
<1>3. QED
  BY <1>1, <1>2, EventTypes, SeqTypes DEF OperatingChange

-----------------------------------------------------------------------------
(* Types of the state.                                                     *)

LEMMA UpdateTypes ==
  ASSUME TypeOK
  PROVE  /\ Stored => memory' \in Memories /\ kv' \in Memories /\ stream' \in Operating
                      /\ faults' \in Nat
         /\ update # None /\ Raises =>
              memory' \in Memories /\ kv' \in Memories /\ stream' \in Operating /\ faults' \in Nat
         /\ \A by \in Holders, r \in Runs \cup {NoRun}, q \in Seq(Events) :
              Begin(by, r, q) => update' \in Updates \cup {None}
<1>1. Stored => memory' \in Memories /\ kv' \in Memories /\ stream' \in Operating /\ faults' \in Nat
  BY DEF TypeOK, Stored
<1>2. ASSUME update # None, Raises
      PROVE  memory' \in Memories /\ kv' \in Memories /\ stream' \in Operating /\ faults' \in Nat
  <2>1. update.events \in Seq(Events)
    BY <1>2 DEF TypeOK, Updates
  <2>2. update.events # <<>> => Apply(memory, Head(update.events)) \in Memories
    BY <2>1, SeqTypes, ApplyType DEF TypeOK
  <2>3. QED
    BY <1>2, <2>2 DEF TypeOK, Raises
<1>3. ASSUME NEW by \in Holders, NEW r \in Runs \cup {NoRun}, NEW q \in Seq(Events),
             Begin(by, r, q)
      PROVE  update' \in Updates \cup {None}
  BY <1>3 DEF TypeOK, Begin, Updates, Memories
<1>4. QED
  BY <1>1, <1>2, <1>3

LEMMA CancelType ==
  ASSUME cancel \in [Runs -> {"no", "flag", "pending", "seen"}], NEW r
  PROVE  /\ Cancel(r) => cancel' \in [Runs -> {"no", "flag", "pending", "seen"}]
         /\ Consume(r) => cancel' \in [Runs -> {"no", "flag", "pending", "seen"}]
  BY DEF Cancel, Consume

LEMMA RunStepTypes ==
  ASSUME TypeOK, NEW r \in Runs, RunStep(r)
  PROVE  TypeOK'
<1> USE DEF TypeOK, UnchangedByRunner, bounds, Goto, Finish, Consume, RunStages
<1>1. CASE FirstStep(r)
  <2>1. CASE pred[r] = NoRun
    BY <1>1, <2>1 DEF FirstStep, Execute
  <2>2. CASE pred[r] # NoRun
    <3>1. cancel' \in [Runs -> {"no", "flag", "pending", "seen"}]
      BY <1>1, <2>2 DEF FirstStep, Cancel
    <3>2. QED
      BY <1>1, <2>2, <3>1 DEF FirstStep
  <2>3. QED
    BY <2>1, <2>2
<1>2. CASE JoinPredecessor(r)
  <2>1. CASE result[pred[r]] = "failed"
    <3>1. pc' \in [Runs -> RunStages] /\ cancel' \in [Runs -> {"no", "flag", "pending", "seen"}]
      BY <1>2, <2>1 DEF JoinPredecessor
    <3>2. finish' \in [Runs -> {"aborted", "success", "failed"}]
      BY <1>2, <2>1 DEF JoinPredecessor
    <3>3. QED
      BY <1>2, <2>1, <3>1, <3>2 DEF JoinPredecessor
  <2>2. CASE result[pred[r]] # "failed" /\ cancel[r] = "no"
    BY <1>2, <2>2 DEF JoinPredecessor, Execute
  <2>3. CASE result[pred[r]] # "failed" /\ cancel[r] # "no"
    BY <1>2, <2>3 DEF JoinPredecessor, Execute
  <2>4. QED
    BY <2>1, <2>2, <2>3
<1>3. CASE BeginStart(r)
  <2>1. ExecutionEvent("executing", r) \in Events
    BY DEF ExecutionEvent, Events, Execution
  <2>2. update' \in Updates \cup {None}
    BY <1>3, <2>1, SeqTypes, UpdateTypes DEF BeginStart, Holders
  <2>3. QED
    BY <1>3, <2>2 DEF BeginStart
<1>4. CASE CanceledBeforeStart(r)
  BY <1>4 DEF CanceledBeforeStart
<1>5. CASE HandlerReturns(r)
  BY <1>5 DEF HandlerReturns
<1>6. CASE HandlerFails(r)
  BY <1>6 DEF HandlerFails
<1>7. CASE HandlerCanceled(r)
  BY <1>7 DEF HandlerCanceled
<1>8. CASE BeginUpdateContext(r)
  <2>1. ExecutionEvent(memory.execution.status, memory.execution.run) \in Events
    BY DEF ExecutionEvent, Events, Execution, Memories
  <2>2. update' \in Updates \cup {None}
    BY <1>8, <2>1, SeqTypes, UpdateTypes DEF BeginUpdateContext, Holders
  <2>3. QED
    BY <1>8, <2>2 DEF BeginUpdateContext
<1>9. CASE ConfirmWakes(r)
  <2>1. CASE Goto(r, "settling") /\ (Finish(r, "failed") \/ Finish(r, "success"))
    BY <1>9, <2>1 DEF ConfirmWakes
  <2>2. CASE UNCHANGED <<pc, finish>>
    BY <1>9, <2>2 DEF ConfirmWakes
  <2>3. QED
    BY <1>9, <2>1, <2>2, Zenon DEF ConfirmWakes
<1>10. CASE ConfirmTimesOut(r)
  BY <1>10 DEF ConfirmTimesOut
<1>11. CASE ConfirmCanceled(r)
  BY <1>11 DEF ConfirmCanceled
<1>12. CASE BeginFinish(r)
  <2>1. SettledOutcome(r) \in {"aborted", "success", "failed"}
    BY DEF SettledOutcome
  <2>2. SettledStates(r) \in Resolvers
    BY <2>1, ResolverTypes DEF SettledStates
  <2>3. FinishEvents(r) \in Seq(Events)
    <3>1. ExecutionEvent("finished", r) \in Events
      BY DEF ExecutionEvent, Events, Execution
    <3>2. OperatingChange(Derived(SettledStates(r), execution, NewestPhase(r))) \in Seq(Events)
      BY <2>2, DerivedType
    <3>3. QED
      BY <3>1, <3>2, SeqTypes DEF FinishEvents
  <2>4. update' \in Updates \cup {None}
    BY <1>12, <2>3, UpdateTypes DEF BeginFinish, Holders
  <2>5. QED
    BY <1>12, <2>1, <2>2, <2>4 DEF BeginFinish
<1>13. CASE RunEnds(r)
  BY <1>13 DEF RunEnds
<1>14. CASE HandlerSwallows(r)
  BY <1>14 DEF HandlerSwallows
<1>15. QED
  BY <1>14, <1>1, <1>2, <1>3, <1>4, <1>5, <1>6, <1>7, <1>8, <1>9, <1>10, <1>11, <1>12, <1>13 DEF RunStep

LEMMA CallStepTypes ==
  ASSUME TypeOK
  PROVE  /\ \A t \in Tasks, i \in Inputs, interrupt \in BOOLEAN :
              BeginAdmit(t, i, interrupt) => TypeOK'
         /\ \A r \in Runs : CallStep(r) => TypeOK'
         /\ BeginAbort => TypeOK'
<1> USE DEF TypeOK, bounds, RunStages
<1>1. ASSUME NEW t \in Tasks, NEW i \in Inputs, NEW interrupt \in BOOLEAN,
             BeginAdmit(t, i, interrupt)
      PROVE  TypeOK'
  <2> DEFINE n == admitted + 1
             change == IF Lifecycle(t) THEN OperatingChange(InTransition(states, t, i)) ELSE <<>>
  <2>1. n \in Runs
    BY <1>1 DEF BeginAdmit
  <2>2. change \in Seq(Events)
    BY ViewTypes, EventTypes, SeqTypes DEF OperatingChange, Memories
  <2>3. Predecessor \in Runs \cup {NoRun}
    BY DEF Predecessor
  <2>4. CASE change = <<>>
    <3>1. Install(n) /\ update' = update
      BY <1>1, <2>4 DEF BeginAdmit
    <3> HIDE DEF change
    <3>2. QED
      BY <1>1, <2>1, <2>3, <3>1 DEF BeginAdmit, Install
  <2>5. CASE change # <<>>
    <3>1. update' \in Updates \cup {None}
      BY <1>1, <2>1, <2>2, <2>5, UpdateTypes DEF BeginAdmit, Holders
    <3>2. QED
      BY <1>1, <2>1, <2>3, <2>5, <3>1 DEF BeginAdmit
  <2>6. QED
    BY <2>4, <2>5
<1>2. ASSUME NEW r \in Runs, CallStep(r) PROVE TypeOK'
  <2>1. CASE CallBreaks(r)
    BY <2>1 DEF CallBreaks, ctlVars, pubVars, Cancel
  <2>2. CASE CallEnds(r)
    BY <2>2 DEF CallEnds, pubVars
  <2>3. QED
    BY <1>2, <2>1, <2>2 DEF CallStep
<1>3. ASSUME BeginAbort PROVE TypeOK'
  <2>1. ExecutionEvent("aborting", execution) \in Events
    BY DEF ExecutionEvent, Events, Execution
  <2>2. update' \in Updates \cup {None}
    BY <1>3, <2>1, SeqTypes, UpdateTypes DEF BeginAbort, Holders
  <2>3. cancel' \in [Runs -> {"no", "flag", "pending", "seen"}]
    <3>1. cancel' = cancel \/ Cancel(execution)
      BY <1>3 DEF BeginAbort
    <3>2. QED
      BY <3>1, CancelType
  <2>4. QED
    BY <1>3, <2>2, <2>3 DEF BeginAbort, ctlVars
<1>4. QED
  BY <1>1, <1>2, <1>3

LEMMA ReportTypes ==
  ASSUME TypeOK
  PROVE  /\ \A state \in Targets \cup Latched, i \in Inputs : Report(state, i) => TypeOK'
         /\ \A b \in BOOLEAN : BeginSetEnable(b) => TypeOK'
<1> USE DEF TypeOK
<1>1. ASSUME NEW state \in Targets \cup Latched, NEW i \in Inputs, Report(state, i)
      PROVE  TypeOK'
  <2> DEFINE next == RecordObserved(states, state, i)
             phase == IF execution = NoRun THEN "none" ELSE pc[execution]
             change == OperatingChange(Derived(next, execution, phase))
  <2>1. next \in Resolvers
    BY ResolverTypes
  <2>2. change \in Seq(Events)
    BY <2>1, DerivedType
  <2>3. update' \in Updates \cup {None}
    BY <1>1, <2>2, UpdateTypes DEF Report, Holders
  <2>4. QED
    BY <1>1, <2>1, <2>3 DEF Report, runVars
<1>2. ASSUME NEW b \in BOOLEAN, BeginSetEnable(b) PROVE TypeOK'
  <2>1. <<EnableEvent(b)>> \in Seq(Events)
    BY SeqTypes DEF EnableEvent, Events
  <2>2. update' \in Updates \cup {None}
    BY <1>2, <2>1, UpdateTypes DEF BeginSetEnable, Holders
  <2>3. QED
    BY <1>2, <2>2 DEF BeginSetEnable, runVars, ctlVars
<1>3. QED
  BY <1>1, <1>2

LEMMA UpdateStepTypes ==
  ASSUME TypeOK, UpdateStep
  PROVE  TypeOK'
<1> USE DEF TypeOK, RunStages, bounds, Goto, Finish, Consume
<1>u. update # None /\ update \in Updates
  BY DEF UpdateStep, EmitEvent, Holds, Admit, AdmitFails, Restore, Start, UpdateContext,
         PublishFinish, Abort, Published, Normalized
<1>w. (Stored \/ Raises) =>
        memory' \in Memories /\ kv' \in Memories /\ stream' \in Operating /\ faults' \in Nat
  BY <1>u, UpdateTypes
<1>1. CASE EmitEvent
  <2>1. Head(update.events) \in Events /\ Tail(update.events) \in Seq(Events)
    BY <1>1, <1>u, SeqTypes DEF EmitEvent, Updates
  <2>2. memory' \in Memories
    BY <1>1, <2>1, ApplyType DEF EmitEvent
  <2>3. stream' \in Operating
    BY <1>1, <2>1 DEF EmitEvent, Events
  <2>4. update' \in Updates
    BY <1>1, <1>u, <2>1 DEF EmitEvent, Updates
  <2>5. QED
    BY <1>1, <2>2, <2>3, <2>4 DEF EmitEvent, runVars, ctlVars
<1>2. CASE Admit
  <2>1. update.run \in Runs \cup {NoRun}
    BY <1>u DEF Updates
  <2>2. memory' \in Memories /\ kv' \in Memories /\ stream' \in Operating /\ faults' \in Nat
    BY <1>2, <1>w DEF Admit
  <2> HIDE DEF TypeOK
  <2>3. pc' \in [Runs -> RunStages] /\ call' \in
          [Runs -> {"none", "accepted", "broken", "succeeded", "failed", "lost"}]
    BY <1>2, <2>1 DEF Admit, Install, TypeOK
  <2>4. admitted' \in 0..MaxRuns /\ execution' \in Runs \cup {NoRun}
    BY <1>2, <2>1 DEF Admit, Install
  <2>5. QED
    BY <1>2, <2>2, <2>3, <2>4 DEF Admit, TypeOK
<1>3. CASE AdmitFails
  <2>1. OperatingEvent(View(update.prior), update.prior.previous) \in Events
    <3>1. update.prior \in Operating /\ update.prior.previous \in BOOLEAN
      BY <1>u DEF Updates, Operating
    <3>2. View(update.prior) \in Views
      BY <3>1, EventTypes
    <3>3. QED
      BY <3>1, <3>2, EventTypes
  <2>2. update' \in Updates
    BY <1>3, <1>u, <2>1, SeqTypes DEF AdmitFails, Updates, Holders
  <2>3. memory' \in Memories /\ kv' \in Memories /\ stream' \in Operating /\ faults' \in Nat
    BY <1>3, <1>w DEF AdmitFails
  <2>4. QED
    BY <1>3, <2>2, <2>3 DEF AdmitFails, runVars, ctlVars
<1>4. CASE Restore
  BY <1>4, <1>w DEF Restore, ctlVars, Tasks
<1>5. CASE Start
  <2> DEFINE r == update.run
  <2>1. /\ r \in Runs \cup {NoRun} /\ Consume(r) /\ update' = None
        /\ memory' \in Memories /\ kv' \in Memories /\ stream' \in Operating /\ faults' \in Nat
        /\ UNCHANGED <<task, input, pred, started, result, call, ctlVars,
                       up, reports, crashes, interrupted>>
    BY <1>5, <1>u, <1>w DEF Start, Updates
  <2>2. PICK x \in RunStages : Goto(r, x)
    BY <1>5 DEF Start, RunStages
  <2>3. UNCHANGED finish \/ Finish(r, "failed")
    BY <1>5 DEF Start
  <2>4. QED
    BY <2>1, <2>2, <2>3 DEF ctlVars
<1>6. CASE UpdateContext
  BY <1>6, <1>w DEF UpdateContext, runVars, ctlVars
<1>7. CASE PublishFinish
  BY <1>7, <1>w DEF PublishFinish, ctlVars
<1>8. CASE Abort
  <2> DEFINE r == update.run
  <2>1. cancel' \in [Runs -> {"no", "flag", "pending", "seen"}]
    <3>1. Cancel(r) \/ cancel' = cancel
      BY <1>8 DEF Abort
    <3>2. r \in Runs \cup {NoRun}
      BY <1>u DEF Updates
    <3> HIDE DEF r
    <3>3. QED
      BY <3>1, <3>2 DEF Cancel
  <2>2. QED
    BY <1>8, <1>w, <2>1 DEF Abort, ctlVars
<1>9. CASE Published
  BY <1>9, <1>w DEF Published, runVars, ctlVars
<1>10. CASE Normalized
  BY <1>10, <1>w DEF Normalized, runVars, ctlVars
<1>11. QED
  BY <1>1, <1>2, <1>3, <1>4, <1>5, <1>6, <1>7, <1>8, <1>9, <1>10 DEF UpdateStep

LEMMA RestartTypes ==
  ASSUME TypeOK
  PROVE  (Crash => TypeOK') /\ (Restart => TypeOK')
<1>i. InitialMemory \in Memories /\ InitialOperating \in Operating
  BY DEF InitialMemory, InitialOperating, Memories, Execution, Operating, States, Latched
<1>1. ASSUME Crash PROVE TypeOK'
  <2>1. NewResolver(EmptyInput, FALSE) \in Resolvers
    BY DEF NewResolver, Resolvers, States, Latched
  <2>2. QED
    <3>1. started' \in [Runs -> BOOLEAN]
      BY <1>1, Zenon DEF Crash
    <3>2. task' \in [Runs -> Tasks]
      BY <1>1 DEF Crash, Tasks
    <3>3. interrupted' \in BOOLEAN
      BY <1>1, Zenon DEF Crash, TypeOK
    <3>4. task' \in [Runs -> Tasks] /\ input' \in [Runs -> Inputs]
      BY <1>1, <1>i, <2>1, <3>1, <3>2, <3>3 DEF Crash, TypeOK, RunStages
    <3>5. pred' \in [Runs -> Runs \cup {NoRun}] /\ pc' \in [Runs -> RunStages]
      BY <1>1, <1>i, <2>1, <3>1, <3>2, <3>3 DEF Crash, TypeOK, RunStages
    <3>6. cancel' \in [Runs -> {"no", "flag", "pending", "seen"}] /\ finish' \in [Runs -> {"aborted", "success", "failed"}]
      BY <1>1, <1>i, <2>1, <3>1, <3>2, <3>3 DEF Crash, TypeOK, RunStages
    <3>7. /\ result' \in [Runs -> {"none", "success", "canceled", "failed", "lost"}]
          /\ call' \in [Runs -> {"none", "accepted", "broken", "succeeded", "failed", "lost"}]
      BY <1>1, <1>i, <2>1, <3>1, <3>2, <3>3 DEF Crash, TypeOK, RunStages
    <3>8. admitted' \in 0..MaxRuns /\ execution' \in Runs \cup {NoRun}
      BY <1>1, <1>i, <2>1, <3>1, <3>2, <3>3 DEF Crash, TypeOK, RunStages
    <3>9. states' \in Resolvers /\ update' \in Updates \cup {None} /\ memory' \in Memories /\ kv' \in Memories /\ stream' \in Operating
      BY <1>1, <1>i, <2>1, <3>1, <3>2, <3>3 DEF Crash, TypeOK, RunStages
    <3>10. freshLatch' \in BOOLEAN /\ woken' \in BOOLEAN /\ up' \in BOOLEAN /\ interrupted' \in BOOLEAN
      BY <1>1, <1>i, <2>1, <3>1, <3>2, <3>3 DEF Crash, TypeOK, RunStages
    <3>11. reports' \in Nat /\ faults' \in Nat /\ crashes' \in Nat
      BY <1>1, <1>i, <2>1, <3>1, <3>2, <3>3 DEF Crash, TypeOK, RunStages
    <3>12. QED
      BY <1>1, <1>i, <2>1, <3>1, <3>2, <3>3, <3>4, <3>5, <3>6, <3>7, <3>8, <3>9, <3>10, <3>11 DEF TypeOK
<1>2. ASSUME Restart PROVE TypeOK'
  <2>1. kv.operating \in Operating /\ kv.operating.input \in Inputs
    BY DEF TypeOK, Memories, Operating
  <2>2. states' \in Resolvers
    BY <1>2, <2>1 DEF Restart, NewResolver, Resolvers, StateInput, States, Latched
  <2>3. StartupEvents(kv) \in Seq(Events)
    <3>1. Derive(kv.operating, [current |-> "UNKNOWN", target |-> None,
                                input |-> kv.operating.input]) \in Events
      BY <2>1, EventTypes DEF Views, States, Latched
    <3>2. ExecutionEvent("finished", kv.execution.run) \in Events
      BY DEF TypeOK, Memories, ExecutionEvent, Events, Execution
    <3>3. QED
      BY <3>1, <3>2, SeqTypes DEF StartupEvents
  <2>4. update' \in Updates \cup {None}
    BY <1>2, <2>1, <2>3 DEF Restart, Updates, Holders, TypeOK
  <2>5. QED
    BY <1>2, <2>2, <2>4 DEF Restart, TypeOK, runVars, bounds
<1>3. QED
  BY <1>1, <1>2

\* TypeOK holds in every reachable state: in particular no publication, restart or
\* restored state ever carries an operating state outside the declared ones.
THEOREM TypeCorrect == Spec => []TypeOK
<1>1. Init => TypeOK
  <2> SUFFICES ASSUME Init PROVE TypeOK
    OBVIOUS
  <2>1. InitialMemory \in Memories /\ InitialOperating \in Operating
    BY DEF InitialMemory, InitialOperating, Memories, Execution, Operating, States, Latched
  <2>2. NewResolver(EmptyInput, FALSE) \in Resolvers
    BY DEF NewResolver, Resolvers, States, Latched
  <2>3. QED
    <3>1. started \in [Runs -> BOOLEAN]
      BY Zenon DEF Init
    <3>2. task \in [Runs -> Tasks] /\ result \in [Runs -> {"none", "success", "canceled", "failed", "lost"}]
      BY DEF Init, Tasks
    <3>3. task \in [Runs -> Tasks] /\ input \in [Runs -> Inputs]
      BY <2>1, <2>2, <3>1, <3>2 DEF Init, TypeOK, RunStages
    <3>4. pred \in [Runs -> Runs \cup {NoRun}] /\ pc \in [Runs -> RunStages]
      BY <2>1, <2>2, <3>1, <3>2 DEF Init, TypeOK, RunStages
    <3>5. cancel \in [Runs -> {"no", "flag", "pending", "seen"}] /\ finish \in [Runs -> {"aborted", "success", "failed"}]
      BY <2>1, <2>2, <3>1, <3>2 DEF Init, TypeOK, RunStages
    <3>6. /\ result \in [Runs -> {"none", "success", "canceled", "failed", "lost"}]
          /\ call \in [Runs -> {"none", "accepted", "broken", "succeeded", "failed", "lost"}]
      BY <2>1, <2>2, <3>1, <3>2 DEF Init, TypeOK, RunStages
    <3>7. admitted \in 0..MaxRuns /\ execution \in Runs \cup {NoRun}
      BY <2>1, <2>2, <3>1, <3>2 DEF Init, TypeOK, RunStages
    <3>8. states \in Resolvers /\ update \in Updates \cup {None} /\ memory \in Memories /\ kv \in Memories /\ stream \in Operating
      BY <2>1, <2>2, <3>1, <3>2 DEF Init, TypeOK, RunStages
    <3>9. freshLatch \in BOOLEAN /\ woken \in BOOLEAN /\ up \in BOOLEAN /\ interrupted \in BOOLEAN
      BY <2>1, <2>2, <3>1, <3>2 DEF Init, TypeOK, RunStages
    <3>10. reports \in Nat /\ faults \in Nat /\ crashes \in Nat
      BY <2>1, <2>2, <3>1, <3>2 DEF Init, TypeOK, RunStages
    <3>11. QED
      BY <2>1, <2>2, <3>1, <3>2, <3>3, <3>4, <3>5, <3>6, <3>7, <3>8, <3>9, <3>10 DEF TypeOK
<1>2. TypeOK /\ [Next]_vars => TypeOK'
  <2> SUFFICES ASSUME TypeOK, [Next]_vars PROVE TypeOK'
    OBVIOUS
  <2>1. CASE Next
    BY <2>1, RunStepTypes, CallStepTypes, UpdateStepTypes, ReportTypes, RestartTypes DEF Next
  <2>2. CASE UNCHANGED vars
    BY <2>2 DEF TypeOK, vars, runVars, ctlVars, pubVars, bounds
  <2>3. QED
    BY <2>1, <2>2
<1>3. QED
  BY <1>1, <1>2, PTL DEF Spec

-----------------------------------------------------------------------------
(* Turn taking.  A run is admitted behind the latest one, so the live runs *)
(* form a chain, each waiting for its predecessor; only the oldest works.  *)

\* Run s was admitted, or its admission is being published.
Entered(s) == pc[s] # "none" \/ (update # None /\ update.by = "admit" /\ update.run = s)

\* The stage of an update's run while the update holds the lock.
UpdateStage ==
  update # None =>
    /\ update.by \in {"admit", "restore"} => update.run = admitted + 1
    /\ update.by = "start" => update.run \in Runs /\ pc[update.run] = "starting"
    /\ update.by = "finish" => update.run \in Runs /\ pc[update.run] = "publishing"

\* Every run admitted behind a live one still waits, for a live predecessor.
Chain ==
  \A r, s \in Runs : r < s /\ Live(r) /\ Entered(s) =>
    /\ pc[s] \in Waiting \cup {"none"}
    /\ r <= pred[s]
    /\ Live(pred[s])

TurnInv ==
  /\ \A r \in Runs : pc[r] # "none" <=> r <= admitted
  /\ admitted # 0 /\ Live(admitted) => execution = admitted
  /\ execution \in 0..admitted
  /\ UpdateStage
  /\ Chain

LEMMA AdmissionChain ==
  ASSUME TypeOK, TurnInv, NEW r \in Runs, Live(r)
  PROVE  Predecessor \in Runs /\ r <= Predecessor /\ Live(Predecessor)
<1>1. admitted \in Runs /\ r <= admitted /\ pc[admitted] # "none"
  BY DEF TypeOK, TurnInv, Live
<1>2. Live(admitted)
  BY <1>1 DEF TurnInv, Chain, Entered, Live, Waiting
<1>3. QED
  BY <1>1, <1>2 DEF TurnInv, Predecessor

\* What a step of a runner does to its place in the chain: it leaves the waiting
\* stages only when its predecessor has ended, and never returns to them.
Moves(r, q) ==
  /\ r \in Runs /\ Live(r)
  /\ pc' = [pc EXCEPT ![r] = q]
  /\ q \in RunStages \ {"none"}
  /\ pc[r] \in Waiting => q \in Waiting \/ ~Live(pred[r])
  /\ pc[r] \notin Waiting => q \notin Waiting
  /\ q = "done" => pc[r] = "ending"
  /\ UNCHANGED <<pred, admitted, execution>>
  /\ \/ update' = None
     \/ UNCHANGED update /\ ~(update # None /\ update.run = r /\ update.by \in {"start", "finish"})
     \/ /\ update = None /\ update' # None /\ update'.run = r
        /\ \/ update'.by = "context"
           \/ update'.by = "start" /\ q = "starting"
           \/ update'.by = "finish" /\ q = "publishing"

LEMMA MovePreservesTurn ==
  ASSUME TypeOK, TurnInv, NEW r \in Runs, NEW q, Moves(r, q)
  PROVE  TurnInv'
<1>1. \A s \in Runs : (pc'[s] # "none" <=> pc[s] # "none") /\ (s # r => pc'[s] = pc[s])
  BY DEF Moves, TypeOK, Live
<1>2. \A s \in Runs : Live(s)' => Live(s)
  BY DEF Moves, TypeOK, Live
<1>3. \A s \in Runs : Entered(s)' => Entered(s)
  BY <1>1 DEF Moves, Entered
<1>4. Chain'
  <2> SUFFICES ASSUME NEW a \in Runs, NEW b \in Runs, a < b, Live(a)', Entered(b)'
               PROVE  /\ pc'[b] \in Waiting \cup {"none"}
                      /\ a <= pred[b]
                      /\ Live(pred[b])'
    BY DEF Chain, Moves
  <2>1. pc[b] \in Waiting \cup {"none"} /\ a <= pred[b] /\ Live(pred[b])
    BY <1>2, <1>3 DEF TurnInv, Chain
  <2>2. pc'[b] \in Waiting \cup {"none"}
    BY <2>1, <1>1 DEF Moves, Live, TypeOK
  <2>3. Live(pred[b])'
    <3>1. pred[b] \in Runs
      BY <2>1 DEF TypeOK, Live
    <3>2. CASE pred[b] # r
      BY <2>1, <3>1, <3>2, <1>1 DEF Live, Moves
    <3>3. CASE pred[b] = r
      <4>1. CASE a = r
        BY <3>3, <4>1 DEF Moves, Live
      <4>2. CASE a < r
        <5>1. pc[r] \in Waiting /\ Live(pred[r])
          BY <4>2, <1>2 DEF TurnInv, Chain, Entered, Moves, Live
        <5>2. q \in Waiting
          BY <5>1 DEF Moves
        <5>3. QED
          BY <5>2, <3>3 DEF Moves, Live, TypeOK, Waiting
      <4>3. QED
        BY <2>1, <3>3, <4>1, <4>2
    <3>4. QED
      BY <3>2, <3>3
  <2>4. QED
    BY <2>1, <2>2, <2>3
<1>5. UpdateStage'
  BY DEF TurnInv, UpdateStage, Moves, TypeOK, Live
<1>6. (\A s \in Runs : pc[s] # "none" <=> s <= admitted)'
  BY <1>1 DEF TurnInv, Moves
<1>7. (admitted # 0 /\ Live(admitted) => execution = admitted)' /\ (execution \in 0..admitted)'
  BY <1>2 DEF TurnInv, Moves, TypeOK
<1>8. QED
  BY <1>4, <1>5, <1>6, <1>7 DEF TurnInv

LEMMA RunStepMoves ==
  ASSUME TypeOK, TurnInv, NEW r \in Runs, RunStep(r)
  PROVE  \E q \in RunStages : Moves(r, q)
<1> USE DEF TypeOK, UnchangedByRunner, Goto, Live, Waiting, RunStages, Moves
<1>1. CASE FirstStep(r)
  <2>1. CASE pred[r] = NoRun
    <3>1. Moves(r, "starting") \/ Moves(r, "settling")
      BY <1>1, <2>1 DEF FirstStep, Execute, TurnInv, UpdateStage
    <3>2. QED
      BY <3>1
  <2>2. CASE pred[r] # NoRun
    <3>1. Moves(r, "interrupting")
      BY <1>1, <2>2 DEF FirstStep, TurnInv, UpdateStage
    <3>2. QED
      BY <3>1
  <2>3. QED
    BY <2>1, <2>2
<1>2. CASE JoinPredecessor(r)
  BY <1>2 DEF JoinPredecessor, Execute, TurnInv, UpdateStage
<1>3. CASE BeginStart(r)
  BY <1>3 DEF BeginStart, Begin, Free, InHandler, Holds, TurnInv, UpdateStage
<1>4. CASE CanceledBeforeStart(r)
  BY <1>4 DEF CanceledBeforeStart, InHandler, Holds, TurnInv, UpdateStage
<1>5. CASE HandlerReturns(r)
  BY <1>5 DEF HandlerReturns, InHandler, Holds, TurnInv, UpdateStage
<1>6. CASE HandlerFails(r)
  BY <1>6 DEF HandlerFails, InHandler, Holds, TurnInv, UpdateStage
<1>7. CASE HandlerCanceled(r)
  BY <1>7 DEF HandlerCanceled, InHandler, Holds, TurnInv, UpdateStage
<1>8. CASE BeginUpdateContext(r)
  BY <1>8 DEF BeginUpdateContext, Begin, Free, InHandler, Holds, TurnInv, UpdateStage
<1>9. CASE ConfirmWakes(r)
  BY <1>9 DEF ConfirmWakes, InHandler, Holds, TurnInv, UpdateStage
<1>10. CASE ConfirmTimesOut(r)
  BY <1>10 DEF ConfirmTimesOut, InHandler, Holds, TurnInv, UpdateStage
<1>11. CASE ConfirmCanceled(r)
  BY <1>11 DEF ConfirmCanceled, InHandler, Holds, TurnInv, UpdateStage
<1>12. CASE BeginFinish(r)
  BY <1>12 DEF BeginFinish, Begin, Free, InHandler, Holds, TurnInv, UpdateStage
<1>13. CASE RunEnds(r)
  BY <1>13 DEF RunEnds, InHandler, Holds, TurnInv, UpdateStage
<1>14. CASE HandlerSwallows(r)
  BY <1>14 DEF HandlerSwallows, InHandler, Holds, TurnInv, UpdateStage
<1>15. QED
  BY <1>14, <1>1, <1>2, <1>3, <1>4, <1>5, <1>6, <1>7, <1>8, <1>9, <1>10, <1>11, <1>12, <1>13 DEF RunStep

\* Admission appends a run to the chain.
LEMMA AdmitTurn ==
  ASSUME TypeOK, TurnInv
  PROVE  /\ \A t \in Tasks, i \in Inputs, interrupt \in BOOLEAN :
              BeginAdmit(t, i, interrupt) => TurnInv'
         /\ Admit => TurnInv'
         /\ AdmitFails => TurnInv'
         /\ Restore => TurnInv'
<1> DEFINE n == admitted + 1
<1>1. \A r \in Runs : Live(r) => Predecessor \in Runs /\ r <= Predecessor /\ Live(Predecessor)
  BY AdmissionChain
<1>2. ASSUME NEW t \in Tasks, NEW i \in Inputs, NEW interrupt \in BOOLEAN,
             BeginAdmit(t, i, interrupt)
      PROVE  TurnInv'
  <2> DEFINE change == IF Lifecycle(t) THEN OperatingChange(InTransition(states, t, i)) ELSE <<>>
  <2>1. n \in Runs /\ update = None /\ pred' = [pred EXCEPT ![n] = Predecessor] /\ pc[n] = "none"
    BY <1>2 DEF BeginAdmit, Free, TypeOK, TurnInv
  <2>2. Predecessor # n
    BY <2>1 DEF Predecessor, TurnInv, TypeOK
  <2>3. CASE change = <<>>
    <3>1. Install(n) /\ update' = update
      BY <1>2, <2>3 DEF BeginAdmit
    <3>2. \A s \in Runs : (Live(s)' <=> Live(s) \/ s = n)
      BY <2>1, <3>1 DEF Install, Live, TypeOK
    <3>3. Chain'
      <4> SUFFICES ASSUME NEW a \in Runs, NEW b \in Runs, a < b, Live(a)', Entered(b)'
                   PROVE  (/\ pc[b] \in Waiting \cup {"none"}
                           /\ a <= pred[b]
                           /\ Live(pred[b]))'
        BY DEF Chain
      <4>1. CASE b = n
        BY <4>1, <1>1, <2>1, <2>2, <3>1, <3>2 DEF Install, TypeOK, Waiting
      <4>2. CASE b # n
        <5>1. Entered(b) /\ pc[b] # "none"
          BY <4>2, <2>1, <3>1 DEF Entered, Install, TypeOK
        <5>2. b <= admitted /\ a # n
          BY <5>1 DEF TurnInv, TypeOK
        <5>3. /\ pc[b] \in Waiting \cup {"none"}
              /\ a <= pred[b]
              /\ Live(pred[b])
          BY <5>1, <5>2, <3>2 DEF TurnInv, Chain
        <5>4. QED
          BY <5>3, <4>2, <2>1, <3>1, <3>2 DEF Install, TypeOK, Live
      <4>3. QED
        BY <4>1, <4>2
    <3>4. UpdateStage'
      BY <2>1, <3>1 DEF UpdateStage
    <3>5. QED
      BY <2>1, <3>1, <3>3, <3>4 DEF TurnInv, Install, TypeOK
  <2>4. CASE change # <<>>
    <3>1. update'.by = "admit" /\ update'.run = n
      BY <1>2, <2>4 DEF BeginAdmit, Begin, Free
    <3>2. UNCHANGED <<pc, admitted, execution>>
      BY <1>2, <2>4 DEF BeginAdmit
    <3>3. Chain'
      BY <1>1, <2>1, <2>2, <3>1, <3>2 DEF TurnInv, Chain, Entered, Live, Waiting, TypeOK
    <3>4. QED
      BY <3>1, <3>2, <3>3 DEF TurnInv, UpdateStage, Live
  <2>5. QED
    BY <2>3, <2>4
<1>3. ASSUME Admit PROVE TurnInv'
  <2>1. /\ update.run = n /\ update # None /\ update.by = "admit" /\ Install(n) /\ update' = None
        /\ pred' = pred /\ n \in Nat
    BY <1>3 DEF Admit, Holds, TurnInv, UpdateStage, TypeOK
  <2>2. CASE n \in Runs
    <3>1. \A s \in Runs : (Live(s)' <=> Live(s) \/ s = n) /\ (Entered(s)' => Entered(s))
      BY <2>1, <2>2 DEF Install, Live, TypeOK, Entered
    <3>2. pc[n] = "none"
      BY <2>2 DEF TurnInv, TypeOK
    <3>3. Chain'
      <4> SUFFICES ASSUME NEW a \in Runs, NEW b \in Runs, a < b, Live(a)', Entered(b)'
                   PROVE  (/\ pc[b] \in Waiting \cup {"none"}
                           /\ a <= pred[b]
                           /\ Live(pred[b]))'
        BY DEF Chain
      <4>1. a # n
        BY <2>1, <2>2 DEF Entered, Install, TurnInv, TypeOK
      <4>2. /\ pc[b] \in Waiting \cup {"none"}
            /\ a <= pred[b]
            /\ Live(pred[b])
        BY <4>1, <3>1 DEF TurnInv, Chain
      <4>3. QED
        BY <4>2, <2>1, <2>2, <3>1 DEF Install, TypeOK, Live, Waiting
    <3>4. QED
      BY <2>1, <2>2, <3>3 DEF TurnInv, UpdateStage, Install, TypeOK
  <2>3. CASE n \notin Runs
    BY <1>3, <2>1, <2>3 DEF TypeOK, Updates
  <2>4. QED
    BY <2>2, <2>3
<1>4. ASSUME AdmitFails PROVE TurnInv'
  <2>1. update # None /\ update.by = "admit" /\ update.run = n
    BY <1>4 DEF AdmitFails, Holds, TurnInv, UpdateStage
  <2>2. update'.by = "restore" /\ update'.run = update.run
    BY <1>4, <2>1 DEF AdmitFails, TypeOK, Updates
  <2>3. QED
    BY <1>4, <2>1, <2>2 DEF AdmitFails, runVars, ctlVars, TurnInv, UpdateStage, Chain, Entered, Live
<1>5. ASSUME Restore PROVE TurnInv'
  <2>1. update # None /\ update.by = "restore" /\ update.run = n /\ update' = None
    BY <1>5 DEF Restore, Holds, TurnInv, UpdateStage
  <2>2. UNCHANGED <<pc, admitted, execution>> /\ \A s \in Runs : s # n => pred'[s] = pred[s]
    BY <1>5, <2>1 DEF Restore, ctlVars, TypeOK
  <2>3. Chain'
    <3> SUFFICES ASSUME NEW a \in Runs, NEW b \in Runs, a < b, Live(a)', Entered(b)'
                 PROVE  (/\ pc[b] \in Waiting \cup {"none"}
                         /\ a <= pred[b]
                         /\ Live(pred[b]))'
      BY DEF Chain
    <3>1. Live(a) /\ Entered(b) /\ pc[b] # "none"
      BY <2>1, <2>2 DEF Live, Entered
    <3>2. b # n
      BY <3>1 DEF TurnInv, TypeOK
    <3>3. QED
      BY <3>1, <3>2, <2>2 DEF TurnInv, Chain, Live
  <2>4. QED
    BY <2>1, <2>2, <2>3 DEF TurnInv, UpdateStage, Live
<1>6. QED
  BY <1>2, <1>3, <1>4, <1>5

\* Steps that leave the runs where they are.
Quiet ==
  /\ UNCHANGED <<pc, pred, admitted>>
  /\ execution' = execution \/ (execution' = NoRun /\ ~Live(execution))
  /\ \/ update' = None
     \/ update # None /\ update'.by = update.by /\ update'.run = update.run
     \/ update'.by \in Holders \ {"admit", "restore", "start", "finish"}

LEMMA QuietTurn ==
  ASSUME TypeOK, TurnInv, Quiet
  PROVE  TurnInv'
<1>1. \A s \in Runs : Entered(s)' => Entered(s)
  BY DEF Quiet, Entered
<1>2. Chain'
  BY <1>1 DEF Quiet, TurnInv, Chain, Live
<1>3. UpdateStage'
  BY DEF Quiet, TurnInv, UpdateStage
<1>4. (admitted # 0 /\ Live(admitted) => execution = admitted)' /\ (execution \in 0..admitted)'
  BY DEF Quiet, TurnInv, TypeOK, Live
<1>5. (\A s \in Runs : pc[s] # "none" <=> s <= admitted)'
  BY DEF Quiet, TurnInv
<1>6. QED
  BY <1>2, <1>3, <1>4, <1>5 DEF TurnInv

LEMMA UpdateStepTurn ==
  ASSUME TypeOK, TurnInv, UpdateStep
  PROVE  TurnInv'
<1>1. CASE EmitEvent
  <2>1. update'.by = update.by /\ update'.run = update.run /\ update # None
    BY <1>1 DEF EmitEvent, TypeOK, Updates
  <2>2. QED
    BY <1>1, <2>1, QuietTurn DEF EmitEvent, runVars, ctlVars, Quiet
<1>2. CASE Admit \/ AdmitFails \/ Restore
  BY <1>2, AdmitTurn
<1>3. CASE Start
  <2>1. update.run \in Runs /\ pc[update.run] = "starting"
    BY <1>3 DEF Start, Holds, TurnInv, UpdateStage
  <2>2. PICK q \in {"settling", "handler"} : Goto(update.run, q)
    BY <1>3 DEF Start
  <2>3. Moves(update.run, q)
    BY <1>3, <2>1, <2>2 DEF Start, Goto, Moves, Live, Waiting, RunStages, ctlVars
  <2>4. QED
    BY <2>1, <2>3, MovePreservesTurn
<1>4. CASE PublishFinish
  <2>1. update.run \in Runs /\ pc[update.run] = "publishing"
    BY <1>4 DEF PublishFinish, Holds, TurnInv, UpdateStage
  <2>2. Moves(update.run, "ending")
    BY <1>4, <2>1 DEF PublishFinish, Goto, Moves, Live, Waiting, RunStages, ctlVars
  <2>3. QED
    BY <2>1, <2>2, MovePreservesTurn
<1>5. CASE UpdateContext \/ Abort \/ Published \/ Normalized
  BY <1>5, QuietTurn
  DEF UpdateContext, Abort, Published, Normalized, runVars, ctlVars, Quiet
<1>6. QED
  BY <1>1, <1>2, <1>3, <1>4, <1>5 DEF UpdateStep

LEMMA RestartTurn ==
  ASSUME TypeOK, TurnInv
  PROVE  (Crash => TurnInv') /\ (Restart => TurnInv')
<1>1. ASSUME Crash PROVE TurnInv'
  <2>1. \A r \in Runs : ~Live(r)' /\ (pc'[r] = "none" <=> pc[r] = "none")
    BY <1>1 DEF Crash, Live
  <2>2. update' = None /\ execution' = NoRun /\ admitted' = admitted
    BY <1>1 DEF Crash
  <2>3. (admitted # 0 => ~Live(admitted))'
    BY <2>1, <2>2 DEF TypeOK
  <2>4. QED
    BY <2>1, <2>2, <2>3 DEF TurnInv, Chain, UpdateStage, TypeOK
<1>2. ASSUME Restart PROVE TurnInv'
  <2>1. update' = update \/ update'.by = "startup"
    BY <1>2 DEF Restart
  <2>2. QED
    BY <1>2, <2>1, QuietTurn DEF Restart, runVars, Quiet, Holders
<1>3. QED
  BY <1>1, <1>2

LEMMA TurnInvariant == Spec => [](TypeOK /\ TurnInv)
<1>1. Init => TurnInv
  BY DEF Init, TurnInv, Chain, UpdateStage, Live
<1>2. TypeOK /\ TurnInv /\ [Next]_vars => TurnInv'
  <2> SUFFICES ASSUME TypeOK, TurnInv, [Next]_vars PROVE TurnInv'
    OBVIOUS
  <2>1. ASSUME NEW r \in Runs, RunStep(r) PROVE TurnInv'
    BY <2>1, RunStepMoves, MovePreservesTurn
  <2>2. ASSUME NEW r \in Runs, CallStep(r) PROVE TurnInv'
    BY <2>2, QuietTurn DEF CallStep, CallBreaks, CallEnds, Quiet, ctlVars, pubVars, Live
  <2>3. ASSUME BeginAbort PROVE TurnInv'
    BY <2>3, QuietTurn DEF BeginAbort, Begin, Quiet, Holders, ctlVars
  <2>4. ASSUME NEW state \in Targets \cup Latched, NEW i \in Inputs, Report(state, i)
        PROVE  TurnInv'
    BY <2>4, QuietTurn DEF Report, Begin, Free, Quiet, Holders, runVars
  <2>5. ASSUME NEW b \in BOOLEAN, BeginSetEnable(b) PROVE TurnInv'
    BY <2>5, QuietTurn DEF BeginSetEnable, Begin, Quiet, Holders, runVars, ctlVars
  <2>6. CASE UNCHANGED vars
    BY <2>6 DEF vars, runVars, ctlVars, pubVars, TurnInv, Chain, UpdateStage, Entered, Live
  <2>7. QED
    BY <2>1, <2>2, <2>3, <2>4, <2>5, <2>6, AdmitTurn, UpdateStepTurn, RestartTurn DEF Next
<1>3. QED
  BY <1>1, <1>2, TypeCorrect, PTL DEF Spec

\* At most one run is past joining its predecessor, and every run admitted before
\* it has ended: task handlers exclude each other, settlement included
\* (_run_execution joins the predecessor before it executes).
THEOREM HandlersAreSerial == Spec => []SerialHandlers
<1>1. TypeOK /\ TurnInv => SerialHandlers
  BY DEF TurnInv, Chain, SerialHandlers, Entered
<1>2. QED
  BY <1>1, TurnInvariant, PTL

-----------------------------------------------------------------------------
(* Refinement of SerialExecution.                                          *)

Stages == [r \in Runs |-> StageOf(pc[r])]
Replies == [r \in Runs |-> ReplyOf(call[r])]

LEMMA StagesOf ==
  \A p \in RunStages :
    /\ StageOf(p) = "none" <=> p = "none"
    /\ StageOf(p) = "waiting" <=> p \in Waiting
    /\ StageOf(p) = "ended" <=> p = "done"
    /\ StageOf(p) = "turn" <=> p \notin Waiting \cup {"none", "done"}
    /\ StageOf(p) \in {"none", "waiting", "turn", "ended"}
<1>1. ASSUME NEW p \in RunStages
      PROVE StageOf(p) = IF p = "none" THEN "none" ELSE IF p \in Waiting THEN "waiting"
                         ELSE IF p = "done" THEN "ended" ELSE "turn"
  BY DEF StageOf, Waiting
<1>2. QED
  BY <1>1 DEF Waiting

LEMMA MoveRefines ==
  ASSUME TypeOK, TurnInv, NEW r \in Runs, NEW q, Moves(r, q), call' = call
  PROVE  Serial!Next \/ UNCHANGED Serial!vars
<1> DEFINE p == pc[r]
<1>1. Stages' = [Stages EXCEPT ![r] = StageOf(q)] /\ Stages[r] = StageOf(p)
  BY DEF Moves, Stages, TypeOK
<1>2. admitted' = admitted /\ Replies' = Replies
  BY DEF Moves, Replies
<1>3. p \in RunStages /\ q \in RunStages /\ p # "none" /\ p # "done" /\ q # "none"
  BY DEF Moves, Live, TypeOK
<1>4. CASE p \in Waiting /\ q \in Waiting
  <2>1. StageOf(p) = "waiting" /\ StageOf(q) = "waiting"
    BY <1>3, <1>4, StagesOf
  <2>2. Stages' = Stages
    BY <1>1, <2>1 DEF Stages
  <2>3. QED
    BY <1>2, <2>2 DEF Serial!vars, Stages, Replies
<1>5. CASE p \in Waiting /\ q \notin Waiting /\ q # "done"
  <2>1. ASSUME NEW s \in Runs, s < r PROVE Stages[s] = "ended"
    <3>1. ~Live(s)
      BY <1>5, <2>1 DEF Moves, TurnInv, Chain, Entered, Live
    <3>2. pc[s] # "none"
      BY <1>3, <2>1 DEF TurnInv, TypeOK
    <3>3. QED
      BY <3>1, <3>2, StagesOf DEF Live, Stages, TypeOK
  <2>2. Stages[r] = "waiting" /\ StageOf(q) = "turn"
    BY <1>1, <1>3, <1>5, StagesOf
  <2>3. Serial!TakeTurn(r)
    BY <1>1, <1>2, <2>1, <2>2 DEF Serial!TakeTurn, Serial!Runs, Stages, Replies
  <2>4. QED
    BY <2>3 DEF Serial!Next, Serial!Runs
<1>6. CASE p \notin Waiting /\ q # "done"
  <2>1. q \notin Waiting /\ StageOf(p) = "turn" /\ StageOf(q) = "turn"
    BY <1>3, <1>6, StagesOf DEF Moves
  <2>2. Stages' = Stages
    BY <1>1, <2>1 DEF Stages
  <2>3. QED
    BY <1>2, <2>2 DEF Serial!vars, Stages, Replies
<1>7. CASE p \notin Waiting /\ q = "done"
  <2>1. Stages[r] = "turn" /\ StageOf(q) = "ended"
    BY <1>1, <1>3, <1>7, StagesOf
  <2>2. Serial!End(r)
    BY <1>1, <1>2, <2>1 DEF Serial!End, Stages, Replies
  <2>3. QED
    BY <2>2 DEF Serial!Next, Serial!Runs
<1>8. QED
  BY <1>4, <1>5, <1>6, <1>7 DEF Moves, Waiting

\* Steps the abstract controller does not see.
LEMMA QuietRefines ==
  ASSUME UNCHANGED <<pc, call, admitted>>
  PROVE  UNCHANGED Serial!vars
  BY DEF Serial!vars

LEMMA InstallRefines ==
  ASSUME TypeOK, TurnInv, admitted + 1 \in Runs, Install(admitted + 1)
  PROVE  Serial!Next
<1> DEFINE n == admitted + 1
<1>1. Stages' = [Stages EXCEPT ![n] = "waiting"]
  BY DEF Install, Stages, TypeOK, StageOf, Waiting
<1>2. Replies' = [Replies EXCEPT ![n] = "open"]
  BY DEF Install, Replies, TypeOK, ReplyOf
<1>3. Serial!Accept
  BY <1>1, <1>2 DEF Serial!Accept, Install, Stages, Replies, TypeOK
<1>4. QED
  BY <1>3 DEF Serial!Next

LEMMA CrashRefines ==
  ASSUME TypeOK, Crash
  PROVE  Serial!Next
<1>1. Stages' = [r \in Runs |-> IF Stages[r] = "none" THEN "none" ELSE "ended"]
  <2>1. ASSUME NEW r \in Runs
        PROVE  StageOf(pc'[r]) = IF StageOf(pc[r]) = "none" THEN "none" ELSE "ended"
    <3>1. pc[r] \in RunStages /\ pc'[r] = IF pc[r] = "none" THEN "none" ELSE "done"
      BY DEF Crash, TypeOK
    <3>2. pc'[r] \in RunStages
      BY <3>1 DEF RunStages
    <3>3. QED
      BY <3>1, <3>2, StagesOf
  <2>2. QED
    BY <2>1 DEF Stages
<1>2. Replies' = [r \in Runs |-> IF Replies[r] = "open" THEN "lost" ELSE Replies[r]]
  BY DEF Crash, Replies, TypeOK, ReplyOf
<1>3. Serial!Lose
  BY <1>1, <1>2 DEF Crash, Serial!Lose, Serial!Runs, Stages, Replies
<1>4. QED
  BY <1>3 DEF Serial!Next

LEMMA CallStepRefines ==
  ASSUME TypeOK, NEW r \in Runs, CallStep(r)
  PROVE  Serial!Next \/ UNCHANGED Serial!vars
<1>1. CASE CallBreaks(r)
  <2>1. Replies' = Replies
    BY <1>1 DEF CallBreaks, Replies, ReplyOf, TypeOK
  <2>2. QED
    BY <1>1, <2>1 DEF CallBreaks, ctlVars, Serial!vars, Replies
<1>2. CASE CallEnds(r)
  <2>1. PICK outcome \in {"succeeded", "failed"} : Replies' = [Replies EXCEPT ![r] = outcome]
    BY <1>2 DEF CallEnds, Replies, ReplyOf, TypeOK
  <2>2. Stages' = Stages /\ Stages[r] = "ended" /\ Replies[r] = "open" /\ admitted' = admitted
    BY <1>2 DEF CallEnds, Stages, Replies, ReplyOf, StageOf, Waiting
  <2>3. Serial!Answer(r)
    BY <2>1, <2>2 DEF Serial!Answer, Stages, Replies
  <2>4. QED
    BY <2>3 DEF Serial!Next, Serial!Runs
<1>3. QED
  BY <1>1, <1>2 DEF CallStep

\* The controller implements SerialExecution: for any number of runs, tasks take
\* turns in admission order and every call is answered at most once, after its
\* task and all before it have ended.
THEOREM Refinement == Spec => ImplementsSerialExecution
<1>1. Init => Serial!Init
  <2> SUFFICES ASSUME Init PROVE Serial!Init
    OBVIOUS
  <2>1. StageOf("none") = "none" /\ ReplyOf("none") = "none"
    BY StagesOf DEF RunStages, ReplyOf
  <2>2. \A r \in Runs : pc[r] = "none" /\ call[r] = "none"
    BY DEF Init
  <2>3. QED
    BY <2>1, <2>2 DEF Init, Serial!Init, Serial!Runs
<1>2. TypeOK /\ TurnInv /\ [Next]_vars => [Serial!Next]_Serial!vars
  <2> SUFFICES ASSUME TypeOK, TurnInv, [Next]_vars
               PROVE  Serial!Next \/ UNCHANGED Serial!vars
    OBVIOUS
  <2>1. ASSUME NEW r \in Runs, RunStep(r) PROVE Serial!Next \/ UNCHANGED Serial!vars
    <3>1. call' = call
      BY <2>1 DEF RunStep, UnchangedByRunner, FirstStep, JoinPredecessor, BeginStart,
            CanceledBeforeStart, HandlerReturns, HandlerFails, HandlerCanceled,
            HandlerSwallows, BeginUpdateContext, ConfirmWakes, ConfirmTimesOut, ConfirmCanceled, BeginFinish,
            RunEnds
    <3>2. QED
      BY <2>1, <3>1, RunStepMoves, MoveRefines
  <2>2. ASSUME NEW r \in Runs, CallStep(r) PROVE Serial!Next \/ UNCHANGED Serial!vars
    BY <2>2, CallStepRefines
  <2>3. ASSUME NEW t \in Tasks, NEW i \in Inputs, NEW interrupt \in BOOLEAN,
               BeginAdmit(t, i, interrupt)
        PROVE  Serial!Next \/ UNCHANGED Serial!vars
    <3>1. Install(admitted + 1) \/ UNCHANGED <<pc, call, admitted>>
      BY <2>3 DEF BeginAdmit
    <3>2. admitted + 1 \in Runs
      BY <2>3 DEF BeginAdmit, TypeOK
    <3>3. QED
      BY <3>1, <3>2, InstallRefines, QuietRefines
  <2>4. CASE Admit
    <3>1. Install(admitted + 1)
      BY <2>4 DEF Admit, Holds, TurnInv, UpdateStage
    <3>2. CASE admitted + 1 \in Runs
      BY <3>1, <3>2, InstallRefines
    <3>3. CASE admitted + 1 \notin Runs
      BY <2>4, <3>3 DEF Admit, Holds, TurnInv, UpdateStage, TypeOK, Updates
    <3>4. QED
      BY <3>2, <3>3
  <2>5. CASE Start
    <3>1. update.run \in Runs /\ pc[update.run] = "starting"
      BY <2>5 DEF Start, Holds, TurnInv, UpdateStage
    <3>2. PICK q \in {"settling", "handler"} : Goto(update.run, q)
      BY <2>5 DEF Start
    <3>3. Moves(update.run, q) /\ call' = call
      BY <2>5, <3>1, <3>2 DEF Start, Goto, Moves, Live, Waiting, RunStages, ctlVars
    <3>4. QED
      BY <3>1, <3>3, MoveRefines
  <2>6. CASE PublishFinish
    <3>1. update.run \in Runs /\ pc[update.run] = "publishing"
      BY <2>6 DEF PublishFinish, Holds, TurnInv, UpdateStage
    <3>2. Moves(update.run, "ending") /\ call' = call
      BY <2>6, <3>1 DEF PublishFinish, Goto, Moves, Live, Waiting, RunStages, ctlVars
    <3>3. QED
      BY <3>1, <3>2, MoveRefines
  <2>7. CASE EmitEvent \/ AdmitFails \/ Restore \/ UpdateContext \/ Abort \/ Published
             \/ Normalized \/ BeginAbort \/ Restart
    <3>1. UNCHANGED <<pc, call, admitted>>
      BY <2>7 DEF EmitEvent, AdmitFails, Restore, UpdateContext, Abort, Published, Normalized,
            BeginAbort, Restart, runVars, ctlVars
    <3>2. QED
      BY <3>1, QuietRefines
  <2>8. ASSUME NEW state \in Targets \cup Latched, NEW i \in Inputs, Report(state, i)
        PROVE  Serial!Next \/ UNCHANGED Serial!vars
    BY <2>8, QuietRefines DEF Report, runVars
  <2>9. ASSUME NEW b \in BOOLEAN, BeginSetEnable(b)
        PROVE  Serial!Next \/ UNCHANGED Serial!vars
    BY <2>9, QuietRefines DEF BeginSetEnable, runVars, ctlVars
  <2>10. CASE UNCHANGED vars
    BY <2>10, QuietRefines DEF vars, runVars, ctlVars
  <2>11. QED
    BY <2>1, <2>2, <2>3, <2>4, <2>5, <2>6, <2>7, <2>8, <2>9, <2>10, CrashRefines
    DEF Next, UpdateStep
<1>3. QED
  BY <1>1, <1>2, TurnInvariant, PTL DEF Spec, ImplementsSerialExecution, Serial!Spec

=============================================================================
