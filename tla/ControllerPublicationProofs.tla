---------------------- MODULE ControllerPublicationProofs ----------------------
(***************************************************************************)
(* Proofs about what Controller publishes, for every set of targets and    *)
(* inputs and every bound on runs, reports, failed publications and        *)
(* restarts.                                                               *)
(*                                                                         *)
(* The properties speak of the state in memory, on the stream and in the   *)
(* snapshot, which an update changes one event at a time and may leave     *)
(* half changed when an event fails.  The invariant therefore speaks of    *)
(* "Coming", the memory once the update in progress is through: it fits    *)
(* the newest run and the work at hand at every step, and the parts of the *)
(* invariant tell how far memory, stream and snapshot may lag behind it.   *)
(***************************************************************************)
EXTENDS ControllerProofs

USE ControllerAssumption DEF Runs, NoRun

-----------------------------------------------------------------------------
(* The invariant, part by part.                                            *)

\* The memory once the update in progress has emitted all its events.
After(m, q) ==
  IF q = <<>> THEN m
  ELSE IF Tail(q) = <<>> THEN Apply(m, Head(q))
  ELSE Apply(Apply(m, Head(q)), Head(Tail(q)))
Coming == IF update = None THEN memory ELSE After(memory, update.events)

By(holders) == update # None /\ update.by \in holders

\* The event lists an update can hold: at most an execution event and then an
\* operating event.
Queues ==
  {<<>>} \cup {<<e>> : e \in Events}
    \cup {<<e, f>> : e \in {d \in Events : d.field = "execution"},
                     f \in {d \in Events : d.field = "operating"}}

\* What the holders of the lock publish.
Queued ==
  update # None =>
    /\ update.events \in Queues
    /\ update.by \notin {"finish", "startup"} => update.events = <<>> \/ Tail(update.events) = <<>>
    /\ update.by \in {"admit", "restore", "report", "enable", "context"} =>
         Coming.execution = memory.execution
    /\ update.by \in {"start", "context", "abort", "enable"} =>
         Coming.operating = memory.operating

\* Nothing runs before the state is normalized.
Resting ==
  /\ ~up => update = None
  /\ ~up \/ By({"startup"}) =>
       ~freshLatch /\ execution = NoRun /\ \A r \in Runs : pc[r] \in {"none", "done"}

\* While any run is in transition the newest is.
NewestTransition == \A r \in Runs : Transition(r) => Transition(execution)

\* previous is set in every known, error or transition state.
Rotated(op) == op.current # "UNKNOWN" => op.previous
Rotations ==
  /\ Rotated(memory.operating) /\ Rotated(kv.operating) /\ Rotated(Coming.operating)
  /\ update # None => Rotated(update.prior)

Shown == Derived(states, execution, IF execution = NoRun THEN "none" ELSE pc[execution])
Fits(op) == View(op) = Shown \/ (faults > 0 /\ op.current = "TRANSITION")

\* The operating state derived from the newest run is in memory, or on its way.
Fitting ==
  up =>
    IF By({"admit", "restore"})
    THEN /\ Fits(update.prior)
         /\ update.by = "restore" => Coming.operating = update.prior
         /\ update.by = "admit" =>
              /\ Lifecycle(task[update.run])
              /\ View(Coming.operating) = InTransition(states, task[update.run], input[update.run])
    ELSE /\ Fits(Coming.operating)
         /\ \/ memory.operating = Coming.operating
            \/ memory.operating.current = "TRANSITION"
            \/ By({"report", "startup"})

\* A transition in memory is the published one.
PublishedTransition == kv.operating.current = "TRANSITION" /\ stream.current = "TRANSITION"
Transitions ==
  up =>
    /\ Transition(execution) => memory.operating.current = "TRANSITION"
    /\ IF By({"admit", "restore"})
       THEN /\ update.prior.current = "TRANSITION" => PublishedTransition
            /\ update.by = "admit" /\ memory.operating = Coming.operating =>
                 stream.current = "TRANSITION"
       ELSE /\ memory.operating.current = "TRANSITION" => PublishedTransition \/ By({"startup"})
            /\ Coming.operating.current = "TRANSITION" =>
                 memory.operating.current = "TRANSITION" /\ ~By({"startup"})

\* Interrupted work leaves a latch here and its mark in the snapshot.
Unsure(op) == op.current \notin Targets /\ op.previous
Latches ==
  /\ freshLatch => states.latch # None
  /\ states.latch # None => states.latch.state \in Latched
  /\ interrupted => Unsure(kv.operating)
  /\ interrupted /\ up =>
       /\ states.latch # None
       /\ Unsure(memory.operating) /\ Unsure(Coming.operating)
       /\ update # None => Unsure(update.prior)

\* The execution published, or on its way, belongs to the run at work.
Active(m) == m.execution.status \in {"executing", "aborting"}
Owned(m) ==
  /\ Active(m) => m.execution.run \in Runs /\ started[m.execution.run] /\ pc[m.execution.run] \in Working
  /\ \A r \in Runs : Handling(r) => m.execution.run = r /\ Active(m)
Fresh(m) ==
  \A r \in Runs : m.execution.run = r =>
    /\ pc[r] \notin {"none"} \cup Waiting
    /\ pc[r] = "starting" => By({"start"}) /\ update.run = r
Follows(a, b) ==
  b.run = a.run =>
    /\ a.status = "aborting" => b.status \in {"aborting", "finished"}
    /\ a.status = "finished" => b.status = "finished"
Executes ==
  /\ \A r \in Runs : pc[r] \in {"starting", "handler", "confirming"} => started[r]
  /\ Fresh(memory) /\ Fresh(Coming)
  /\ \A r \in Runs : pc[r] \in {"none"} \cup Waiting => kv.execution.run # r
  /\ Follows(memory.execution, Coming.execution)
  /\ up => /\ Owned(Coming) /\ (~By({"startup"}) => Owned(memory))
           /\ By({"start"}) => Coming.execution = [status |-> "executing", run |-> update.run]
           /\ By({"finish"}) => ~Active(Coming)

-----------------------------------------------------------------------------
(* The events of an update.                                                *)

LEMMA QueueSteps ==
  ASSUME NEW m \in Memories, NEW q \in Queues, q # <<>>
  PROVE  /\ Head(q) \in Events /\ Tail(q) \in Queues
         /\ After(Apply(m, Head(q)), Tail(q)) = After(m, q)
         /\ Apply(m, Head(q)).execution = After(m, q).execution
         /\ \/ /\ Head(q).field = "operating" /\ Head(q).value = After(m, q).operating
               /\ Apply(m, Head(q)).operating = After(m, q).operating
            \/ Head(q).field # "operating" /\ Apply(m, Head(q)).operating = m.operating
         /\ Tail(q) = <<>> => After(m, q) = Apply(m, Head(q))
<1>1. CASE \E e \in Events : q = <<e>>
  <2>1. PICK e \in Events : q = <<e>>
    BY <1>1
  <2>2. Head(q) = e /\ Tail(q) = <<>>
    BY <2>1
  <2>3. After(m, q) = Apply(m, e) /\ \A n : After(n, <<>>) = n
    BY <2>1, <2>2 DEF After
  <2>4. Head(q) \in Events /\ Tail(q) \in Queues
    BY <2>2 DEF Queues
  <2>5. e.field = "operating" => Apply(m, e).operating = e.value
    BY DEF Apply
  <2>6. e.field # "operating" => Apply(m, e).operating = m.operating
    BY DEF Apply
  <2>7. QED
    BY <2>2, <2>3, <2>4, <2>5, <2>6
<1>2. CASE \E e, f \in Events : q = <<e, f>> /\ e.field = "execution" /\ f.field = "operating"
  <2>1. PICK e \in Events, f \in Events :
          q = <<e, f>> /\ e.field = "execution" /\ f.field = "operating"
    BY <1>2
  <2>2. Head(q) = e /\ Tail(q) = <<f>> /\ Tail(q) # <<>> /\ Head(<<f>>) = f /\ Tail(<<f>>) = <<>>
    BY <2>1
  <2>3. After(m, q) = Apply(Apply(m, e), f)
    BY <2>1, <2>2 DEF After
  <2>4. After(Apply(m, e), <<f>>) = Apply(Apply(m, e), f)
    BY <2>2 DEF After
  <2>5. /\ Apply(m, e).operating = m.operating
        /\ Apply(Apply(m, e), f).execution = Apply(m, e).execution
    BY <2>1 DEF Apply
  <2>6. Tail(q) \in Queues
    BY <2>1, <2>2 DEF Queues
  <2>7. QED
    BY <2>1, <2>2, <2>3, <2>4, <2>5, <2>6
<1>3. QED
  BY <1>1, <1>2 DEF Queues

LEMMA AfterType ==
  ASSUME NEW m \in Memories, NEW q \in Queues
  PROVE  After(m, q) \in Memories
<1>1. CASE q = <<>>
  BY <1>1 DEF After
<1>2. CASE q # <<>>
  <2>1. Head(q) \in Events /\ Tail(q) \in Queues
    BY <1>2, QueueSteps
  <2>2. Apply(m, Head(q)) \in Memories
    BY <2>1, ApplyType
  <2>3. Tail(q) # <<>> => Head(Tail(q)) \in Events
    BY <2>1, <2>2, QueueSteps
  <2>4. Tail(q) # <<>> => Apply(Apply(m, Head(q)), Head(Tail(q))) \in Memories
    BY <2>2, <2>3, ApplyType
  <2>5. QED
    BY <1>2, <2>2, <2>4 DEF After
<1>3. QED
  BY <1>1, <1>2

\* What a step of the holder of the lock does to the publication.
LEMMA EmitEffect ==
  ASSUME TypeOK, Queued, EmitEvent
  PROVE  /\ Coming' = Coming
         /\ update # None /\ update' # None
         /\ update'.by = update.by /\ update'.run = update.run /\ update'.prior = update.prior
         /\ kv' = kv /\ memory'.execution = Coming.execution
         /\ \/ memory'.operating = memory.operating /\ stream' = stream
            \/ memory'.operating = Coming.operating /\ stream' = Coming.operating
<1>1. /\ update \in Updates /\ update.events \in Queues /\ update.events # <<>>
      /\ update # None
  BY DEF EmitEvent, TypeOK, Queued
<1>2. update' = [by |-> update.by, run |-> update.run, events |-> Tail(update.events),
                 prior |-> update.prior]
  BY <1>1 DEF EmitEvent, Updates
<1>3. Tail(update.events) \in Queues
  BY <1>1, QueueSteps DEF TypeOK
<1>4. update' # None
  <2>1. Tail(update.events) \in Seq(Events)
    BY <1>1, SeqTypes DEF Updates
  <2>2. update' \in Updates
    BY <1>1, <1>2, <2>1 DEF Updates
  <2>3. QED
    BY <2>2, NoneAssumption
<1>5. Coming' = After(memory', Tail(update.events))
  BY <1>2, <1>4 DEF Coming
<1>6. Coming = After(memory, update.events)
  BY <1>1 DEF Coming
<1>7. memory' = Apply(memory, Head(update.events))
  BY DEF EmitEvent
<1>8. Coming' = Coming
  BY <1>1, <1>5, <1>6, <1>7, QueueSteps DEF TypeOK
<1>9. memory'.execution = Coming.execution
  BY <1>1, <1>6, <1>7, QueueSteps DEF TypeOK
<1>10. \/ memory'.operating = memory.operating /\ stream' = stream
       \/ memory'.operating = Coming.operating /\ stream' = Coming.operating
  BY <1>1, <1>6, <1>7, QueueSteps DEF TypeOK, EmitEvent
<1>11. QED
  BY <1>1, <1>2, <1>4, <1>8, <1>9, <1>10 DEF EmitEvent

\* A holder opens its update.
Opens(by, r, operating, exec) ==
  /\ up /\ update = None /\ update' # None
  /\ update'.by = by /\ update'.run = r /\ update'.prior = memory.operating
  /\ Coming'.operating = operating /\ Coming'.execution = exec
  /\ UNCHANGED <<memory, kv, stream, up, faults>>

\* The update returns, raises or is abandoned.
Closes ==
  /\ update # None /\ update' = None /\ Coming' = memory'
  /\ memory'.execution = Coming.execution
  /\ stream' = stream
  /\ \/ memory' = memory /\ memory = Coming /\ kv' = memory /\ faults' = faults
     \/ /\ kv' = kv /\ faults' > 0
        /\ \/ memory'.operating = Coming.operating
           \/ memory'.operating = memory.operating /\ By({"finish", "startup"})
     \/ /\ UNCHANGED <<memory, kv, faults>>
        /\ memory.operating = Coming.operating

LEMMA QueuesAreSequences ==
  ASSUME NEW q \in Queues
  PROVE  q \in Seq(Events)
<1>1. \A e, f \in Events : <<e, f>> \in Seq(Events)
  OBVIOUS
<1>2. q = <<>> \/ (\E e \in Events : q = <<e>>) \/ (\E e, f \in Events : q = <<e, f>>)
  BY DEF Queues
<1>3. QED
  BY <1>1, <1>2, SeqTypes

LEMMA BeginEffect ==
  ASSUME TypeOK, NEW by \in Holders, NEW r \in Runs \cup {NoRun}, NEW q \in Queues, q # <<>>,
         up, update = None, Begin(by, r, q), UNCHANGED <<memory, kv, stream, up, faults>>
  PROVE  /\ update' # None /\ update'.events = q
         /\ Coming' = After(memory, q)
         /\ \A op, ex : After(memory, q).operating = op /\ After(memory, q).execution = ex =>
              Opens(by, r, op, ex)
<1>1. update' = [by |-> by, run |-> r, events |-> q, prior |-> memory.operating]
  BY DEF Begin
<1>2. update' \in Updates
  <2>1. q \in Seq(Events)
    BY QueuesAreSequences
  <2>2. QED
    BY <1>1, <2>1 DEF TypeOK, Updates, Memories
<1>3. update' # None
  BY <1>2, NoneAssumption
<1>4. Coming' = After(memory, q)
  BY <1>1, <1>3 DEF Coming
<1>5. QED
  BY <1>1, <1>3, <1>4 DEF Opens

LEMMA SingleEvents ==
  ASSUME NEW m, NEW e \in Events
  PROVE  /\ <<e>> \in Queues /\ <<e>> # <<>> /\ Tail(<<e>>) = <<>>
         /\ After(m, <<e>>) = Apply(m, e)
<1>1. <<e>> # <<>> /\ Tail(<<e>>) = <<>> /\ Head(<<e>>) = e
  OBVIOUS
<1>2. QED
  BY <1>1 DEF Queues, After

LEMMA ExecutionEvents ==
  ASSUME NEW m, NEW status \in {"executing", "aborting", "finished"}, NEW r \in Runs \cup {NoRun}
  PROVE  LET q == <<ExecutionEvent(status, r)>>
         IN  /\ q \in Queues /\ q # <<>> /\ Tail(q) = <<>>
             /\ After(m, q).operating = m.operating
             /\ After(m, q).execution = [status |-> status, run |-> r]
<1>1. ExecutionEvent(status, r) \in Events
  BY DEF ExecutionEvent, Events, Execution
<1> DEFINE e == ExecutionEvent(status, r)
<1>2. Apply(m, e).operating = m.operating /\ Apply(m, e).execution = [status |-> status, run |-> r]
  BY DEF ExecutionEvent, Apply
<1>3. <<e>> \in Queues /\ <<e>> # <<>> /\ Tail(<<e>>) = <<>> /\ After(m, <<e>>) = Apply(m, e)
  BY <1>1, SingleEvents
<1>4. QED
  BY <1>2, <1>3

\* The operating state that publishes view v after op.
Turned(op, v) ==
  IF v = View(op) THEN op
  ELSE [current |-> v.current, target |-> v.target, input |-> v.input,
        previous |-> op.previous \/ v.current # op.current]

LEMMA OperatingEvents ==
  ASSUME NEW m \in Memories, NEW v \in Views, NEW b \in BOOLEAN
  PROVE  LET q == <<OperatingEvent(v, b)>>
         IN  /\ q \in Queues /\ q # <<>> /\ Tail(q) = <<>>
             /\ After(m, q).execution = m.execution
             /\ After(m, q).operating =
                  [current |-> v.current, target |-> v.target, input |-> v.input, previous |-> b]
<1>1. OperatingEvent(v, b) \in Events
  BY EventTypes
<1> DEFINE e == OperatingEvent(v, b)
<1>2. /\ Apply(m, e).execution = m.execution
      /\ Apply(m, e).operating =
           [current |-> v.current, target |-> v.target, input |-> v.input, previous |-> b]
  BY DEF OperatingEvent, Apply
<1>3. <<e>> \in Queues /\ <<e>> # <<>> /\ Tail(<<e>>) = <<>> /\ After(m, <<e>>) = Apply(m, e)
  BY <1>1, SingleEvents
<1>4. QED
  BY <1>2, <1>3

LEMMA DeriveTurns ==
  ASSUME NEW op \in Operating, NEW v \in Views
  PROVE  Derive(op, v) = OperatingEvent(v, op.previous \/ v.current # op.current)
         /\ Derive(op, v).value = Turned(op, v)
<1>1. Derive(op, v).value = [current |-> v.current, target |-> v.target, input |-> v.input,
                             previous |-> op.previous \/ v.current # op.current]
  BY DEF Derive, OperatingEvent
<1>2. CASE v = View(op)
  <2>1. v.current = op.current /\ v.target = op.target /\ v.input = op.input
    BY <1>2 DEF View
  <2>2. op.previous \in BOOLEAN /\ (op.previous \/ v.current # op.current) = op.previous
    BY <2>1 DEF Operating
  <2>3. op = [current |-> op.current, target |-> op.target, input |-> op.input,
              previous |-> op.previous]
    BY DEF Operating
  <2>4. QED
    BY <1>1, <1>2, <2>1, <2>2, <2>3 DEF Turned, Derive
<1>3. CASE v # View(op)
  BY <1>1, <1>3 DEF Turned, Derive
<1>4. QED
  BY <1>2, <1>3

LEMMA DeriveEvents ==
  ASSUME NEW m \in Memories, NEW v \in Views
  PROVE  LET q == <<Derive(m.operating, v)>>
         IN  /\ q \in Queues /\ q # <<>> /\ Tail(q) = <<>>
             /\ After(m, q).execution = m.execution
             /\ After(m, q).operating = Turned(m.operating, v)
<1>1. m.operating \in Operating
  BY DEF Memories
<1>2. (m.operating.previous \/ v.current # m.operating.current) \in BOOLEAN
  OBVIOUS
<1>3. /\ Derive(m.operating, v) =
           OperatingEvent(v, m.operating.previous \/ v.current # m.operating.current)
      /\ Derive(m.operating, v).value = Turned(m.operating, v)
  BY <1>1, DeriveTurns
<1>4. Turned(m.operating, v) = [current |-> v.current, target |-> v.target, input |-> v.input,
        previous |-> m.operating.previous \/ v.current # m.operating.current]
  BY <1>3 DEF Derive, OperatingEvent
<1> DEFINE b == m.operating.previous \/ v.current # m.operating.current
           q == <<OperatingEvent(v, b)>>
<1>5. /\ q \in Queues /\ q # <<>> /\ Tail(q) = <<>> /\ After(m, q).execution = m.execution
      /\ After(m, q).operating =
           [current |-> v.current, target |-> v.target, input |-> v.input, previous |-> b]
  <2> HIDE DEF b
  <2>1. b \in BOOLEAN
    BY <1>2 DEF b
  <2>2. QED
    BY <2>1, OperatingEvents
<1>6. <<Derive(m.operating, v)>> = q
  BY <1>3
<1> HIDE DEF q
<1>7. QED
  BY <1>4, <1>5, <1>6

LEMMA CloseEffect ==
  ASSUME TypeOK, Queued, update # None, update' = None, Stored \/ Raises
  PROVE  Closes
<1>1. update \in Updates /\ update.events \in Queues /\ Coming = After(memory, update.events)
  BY DEF TypeOK, Queued, Coming
<1>2. Coming' = memory'
  BY DEF Coming
<1>3. CASE Stored
  <2>1. Coming = memory
    BY <1>1, <1>3 DEF Stored, After
  <2>2. QED
    BY <1>2, <1>3, <2>1 DEF Stored, Closes
<1>4. CASE Raises
  <2>1. faults' > 0 /\ kv' = kv /\ stream' = stream
    BY <1>4 DEF Raises, TypeOK
  <2>2. CASE update.events = <<>>
    BY <1>1, <1>2, <1>4, <2>1, <2>2 DEF Raises, Closes, After
  <2>3. CASE update.events # <<>>
    <3>1. memory' = Apply(memory, Head(update.events))
      BY <1>4, <2>3 DEF Raises
    <3>2. memory'.execution = Coming.execution
      BY <1>1, <2>3, <3>1, QueueSteps DEF TypeOK
    <3>3. memory'.operating = Coming.operating \/ memory'.operating = memory.operating
      BY <1>1, <2>3, <3>1, QueueSteps DEF TypeOK
    <3>4. ~By({"finish", "startup"}) => memory' = Coming
      BY <1>1, <2>3, <3>1, QueueSteps DEF TypeOK, Queued, By
    <3>5. QED
      BY <1>2, <2>1, <3>2, <3>3, <3>4 DEF Closes
  <2>4. QED
    BY <2>2, <2>3
<1>5. QED
  BY <1>3, <1>4

LEMMA ContextEffect ==
  ASSUME TypeOK, Queued, UpdateContext
  PROVE  Closes
<1>1. update # None /\ update' = None /\ update.by = "context"
  BY DEF UpdateContext, Holds
<1>2. CASE Stored \/ Raises
  BY <1>1, <1>2, CloseEffect
<1>3. CASE UNCHANGED <<memory, stream, kv, faults>>
  <2>1. Coming' = memory'
    BY <1>1 DEF Coming
  <2>2. Coming.operating = memory.operating /\ Coming.execution = memory.execution
    BY <1>1 DEF Queued
  <2>3. QED
    BY <1>1, <1>3, <2>1, <2>2 DEF Closes
<1>4. QED
  BY <1>2, <1>3 DEF UpdateContext

LEMMA AdmitFailsEffect ==
  ASSUME TypeOK, Queued, AdmitFails
  PROVE  /\ update # None /\ update.by = "admit" /\ update' # None
         /\ update'.by = "restore" /\ update'.run = update.run /\ update'.prior = update.prior
         /\ update'.events \in Queues /\ update'.events # <<>> /\ Tail(update'.events) = <<>>
         /\ Coming'.operating = update.prior /\ Coming'.execution = memory'.execution
         /\ memory'.execution = memory.execution
         /\ memory'.operating = memory.operating \/ memory'.operating = Coming.operating
         /\ stream' = stream
         /\ kv' = kv \/ (kv' = memory /\ memory = Coming)
         /\ faults' > 0 /\ up' = up
<1>1. /\ update \in Updates /\ update.events \in Queues /\ Coming = After(memory, update.events)
      /\ update # None /\ update.by = "admit"
  BY DEF TypeOK, Queued, Coming, AdmitFails, Holds
<1> DEFINE q == <<OperatingEvent(View(update.prior), update.prior.previous)>>
<1>2. update' = [by |-> "restore", run |-> update.run, events |-> q, prior |-> update.prior]
  BY <1>1 DEF AdmitFails, Updates
<1>3. update.prior \in Operating /\ update.prior.previous \in BOOLEAN /\ View(update.prior) \in Views
  BY <1>1, EventTypes DEF Updates, Operating
<1>4. memory' \in Memories
  <2>1. Stored => memory' = memory
    BY DEF Stored
  <2>2. QED
    BY <1>1, UpdateTypes DEF AdmitFails, TypeOK
<1>5. /\ q \in Queues /\ q # <<>> /\ Tail(q) = <<>>
      /\ After(memory', q).execution = memory'.execution
      /\ After(memory', q).operating =
           [current |-> View(update.prior).current, target |-> View(update.prior).target,
            input |-> View(update.prior).input, previous |-> update.prior.previous]
  BY <1>3, <1>4, OperatingEvents
<1>6. update' # None
  <2>1. update' \in Updates
    BY <1>1, <1>2, <1>3, EventTypes, SeqTypes DEF Updates, Holders
  <2>2. QED
    BY <2>1, NoneAssumption
<1>7. Coming' = After(memory', q)
  BY <1>2, <1>6 DEF Coming
<1>8. [current |-> View(update.prior).current, target |-> View(update.prior).target,
       input |-> View(update.prior).input, previous |-> update.prior.previous] = update.prior
  BY <1>3 DEF View, Operating
<1>9. CASE Raises
  <2>1. faults' > 0 /\ kv' = kv /\ stream' = stream
    BY <1>9 DEF Raises, TypeOK
  <2>2. memory'.operating = memory.operating \/ memory'.operating = Coming.operating
    BY <1>1, <1>9, QueueSteps DEF TypeOK, Raises
  <2>3. memory'.execution = memory.execution
    BY <1>1, <1>9, QueueSteps DEF TypeOK, Raises, Queued
  <2>4. QED
    BY <1>1, <1>2, <1>5, <1>6, <1>7, <1>8, <2>1, <2>2, <2>3 DEF AdmitFails
<1>10. CASE ~Raises
  <2>1. /\ faults' = faults + 1 /\ faults' > 0 /\ update.events = <<>> /\ kv' = memory
        /\ UNCHANGED <<memory, stream>>
    BY <1>10 DEF AdmitFails, TypeOK
  <2>2. Coming = memory
    BY <1>1, <2>1 DEF After
  <2>3. QED
    BY <1>1, <1>2, <1>5, <1>6, <1>7, <1>8, <2>1, <2>2 DEF AdmitFails
<1>11. QED
  BY <1>9, <1>10

LEMMA TurnedFacts ==
  ASSUME NEW op \in Operating, NEW v \in Views
  PROVE  /\ Turned(op, v) \in Operating
         /\ View(Turned(op, v)) = v /\ Turned(op, v).current = v.current
         /\ Rotated(op) => Rotated(Turned(op, v))
         /\ Unsure(op) /\ v.current \notin Targets => Unsure(Turned(op, v))
<1>1. CASE v = View(op)
  BY <1>1 DEF Turned, View
<1>2. CASE v # View(op)
  <2>1. /\ Turned(op, v).current = v.current /\ Turned(op, v).target = v.target
        /\ Turned(op, v).input = v.input
        /\ Turned(op, v).previous = (op.previous \/ v.current # op.current)
    BY <1>2 DEF Turned
  <2>2. Turned(op, v) \in Operating
    BY <1>2 DEF Turned, Operating, Views
  <2>3. View(Turned(op, v)) = v
    BY <2>1 DEF View, Views
  <2>4. Rotated(op) => Rotated(Turned(op, v))
    BY <2>1 DEF Rotated
  <2>5. Unsure(op) /\ v.current \notin Targets => Unsure(Turned(op, v))
    BY <2>1 DEF Unsure
  <2>6. QED
    BY <2>1, <2>2, <2>3, <2>4, <2>5
<1>3. QED
  BY <1>1, <1>2

LEMMA ChangeEffect ==
  ASSUME TypeOK, NEW by \in Holders \ {"start", "context", "abort"}, by # "enable",
         NEW r \in Runs \cup {NoRun}, NEW v \in Views, OperatingChange(v) # <<>>,
         up, update = None,
         Begin(by, r, OperatingChange(v)), UNCHANGED <<memory, kv, stream, up, faults>>
  PROVE  /\ Opens(by, r, Turned(memory.operating, v), memory.execution)
         /\ v # View(memory.operating)
         /\ Queued'
<1>1. v # View(memory.operating) /\ OperatingChange(v) = <<Derive(memory.operating, v)>>
  BY DEF OperatingChange
<1> DEFINE q == <<Derive(memory.operating, v)>>
<1>2. /\ q \in Queues /\ q # <<>> /\ Tail(q) = <<>>
      /\ After(memory, q).execution = memory.execution
      /\ After(memory, q).operating = Turned(memory.operating, v)
  BY <1>1, DeriveEvents DEF TypeOK
<1>3. Begin(by, r, q)
  BY <1>1
<1> HIDE DEF q
<1>4. /\ update'.events = q
      /\ Opens(by, r, Turned(memory.operating, v), memory.execution)
  BY <1>2, <1>3, BeginEffect
<1>5. Queued'
  BY <1>2, <1>4 DEF Queued, Opens
<1>6. QED
  BY <1>1, <1>4, <1>5

LEMMA ExecutionEffect ==
  ASSUME TypeOK, NEW by \in {"start", "context", "abort"}, NEW r \in Runs,
         NEW status \in {"executing", "aborting"}, NEW s \in Runs \cup {NoRun}, up, update = None,
         Begin(by, r, <<ExecutionEvent(status, s)>>), UNCHANGED <<memory, kv, stream, up, faults>>,
         by = "context" => memory.execution = [status |-> status, run |-> s]
  PROVE  /\ Opens(by, r, memory.operating, [status |-> status, run |-> s])
         /\ Queued'
<1> DEFINE q == <<ExecutionEvent(status, s)>>
<1>1. /\ q \in Queues /\ q # <<>> /\ Tail(q) = <<>>
      /\ After(memory, q).operating = memory.operating
      /\ After(memory, q).execution = [status |-> status, run |-> s]
  BY ExecutionEvents
<1> HIDE DEF q
<1>2. Begin(by, r, q)
  BY DEF q
<1>3. /\ update'.events = q
      /\ Opens(by, r, memory.operating, [status |-> status, run |-> s])
  BY <1>1, <1>2, BeginEffect DEF Holders
<1>4. Queued'
  BY <1>1, <1>3 DEF Queued, Opens
<1>5. QED
  BY <1>3, <1>4

LEMMA EnableEffect ==
  ASSUME TypeOK, NEW b \in BOOLEAN, BeginSetEnable(b)
  PROVE  /\ Opens("enable", NoRun, memory.operating, memory.execution)
         /\ Queued'
<1> DEFINE e == EnableEvent(b)
<1>1. e \in Events
  BY DEF EnableEvent, Events
<1>2. Apply(memory, e).operating = memory.operating /\ Apply(memory, e).execution = memory.execution
  BY DEF EnableEvent, Apply
<1>3. /\ <<e>> \in Queues /\ <<e>> # <<>> /\ Tail(<<e>>) = <<>>
      /\ After(memory, <<e>>) = Apply(memory, e)
  BY <1>1, SingleEvents
<1>4. up /\ update = None /\ Begin("enable", NoRun, <<e>>) /\ UNCHANGED <<memory, kv, stream, up, faults>>
  BY DEF BeginSetEnable, Free
<1> HIDE DEF e
<1>5. update'.events = <<e>> /\ Opens("enable", NoRun, memory.operating, memory.execution)
  BY <1>2, <1>3, <1>4, BeginEffect DEF Holders
<1>6. Queued'
  BY <1>3, <1>5 DEF Queued, Opens
<1>7. QED
  BY <1>5, <1>6

\* Publication steps that change neither the lock nor what it protects.
Silent == UNCHANGED <<memory, kv, stream, update, up, faults>>

LEMMA SilentEffect ==
  ASSUME Queued, Silent
  PROVE  Coming' = Coming /\ Queued' /\ \A holders : By(holders)' = By(holders)
  BY DEF Silent, Coming, Queued, By

LEMMA AdmitEffect ==
  ASSUME TypeOK, Queued, NEW t \in Tasks, NEW i \in Inputs, NEW interrupt \in BOOLEAN,
         BeginAdmit(t, i, interrupt)
  PROVE  LET n == admitted + 1
             v == InTransition(states, t, i)
         IN  /\ Queued'
             /\ \/ /\ Silent /\ Install(n)
                   /\ Lifecycle(t) => View(memory.operating) = v
                \/ /\ Lifecycle(t) /\ v # View(memory.operating)
                   /\ Opens("admit", n, Turned(memory.operating, v), memory.execution)
                   /\ UNCHANGED <<pc, admitted, execution>>
<1> DEFINE n == admitted + 1
           v == InTransition(states, t, i)
           change == IF Lifecycle(t) THEN OperatingChange(v) ELSE <<>>
<1>0. n \in Runs
  <2>1. admitted < MaxRuns
    BY Zenon DEF BeginAdmit
  <2>2. admitted \in 0..MaxRuns
    BY DEF TypeOK
  <2>3. QED
    BY <2>1, <2>2
<1>1. v \in Views
  BY ViewTypes DEF TypeOK
<1>2. up /\ update = None /\ UNCHANGED <<memory, kv, stream, up, faults>>
  BY DEF BeginAdmit, Free, bounds
<1>3. CASE change = <<>>
  <2>1. Install(n) /\ Silent
    BY <1>2, <1>3 DEF BeginAdmit, Silent
  <2>2. <<Derive(memory.operating, v)>> # <<>>
    OBVIOUS
  <2>3. Lifecycle(t) => View(memory.operating) = v
    BY <1>3, <2>2 DEF OperatingChange
  <2>4. QED
    BY <2>1, <2>3, SilentEffect
<1>4. CASE change # <<>>
  <2>1. Begin("admit", n, change) /\ UNCHANGED <<pc, admitted, execution>>
    BY <1>4 DEF BeginAdmit
  <2>2. Lifecycle(t) /\ change = OperatingChange(v)
    BY <1>4
  <2> HIDE DEF v, n, change
  <2>3. /\ Opens("admit", n, Turned(memory.operating, v), memory.execution) /\ Queued'
        /\ v # View(memory.operating)
    BY <1>0, <1>1, <1>2, <1>4, <2>1, <2>2, ChangeEffect DEF Holders
  <2>4. QED
    BY <2>1, <2>2, <2>3 DEF v, n
<1>5. QED
  BY <1>3, <1>4

LEMMA ReportEffect ==
  ASSUME TypeOK, Queued, NEW state \in Targets \cup Latched, NEW i \in Inputs, Report(state, i)
  PROVE  LET v == Derived(RecordObserved(states, state, i), execution,
                          IF execution = NoRun THEN "none" ELSE pc[execution])
         IN  /\ Queued' /\ v \in Views
             /\ \/ Silent /\ View(memory.operating) = v
                \/ /\ v # View(memory.operating)
                   /\ Opens("report", NoRun, Turned(memory.operating, v), memory.execution)
<1> DEFINE v == Derived(RecordObserved(states, state, i), execution,
                        IF execution = NoRun THEN "none" ELSE pc[execution])
<1>1. v \in Views
  BY ResolverTypes, DerivedType DEF TypeOK
<1>2. up /\ update = None /\ UNCHANGED <<memory, kv, stream, up, faults>>
  BY DEF Report, Free
<1>3. CASE OperatingChange(v) = <<>>
  <2>1. Silent
    BY <1>2, <1>3 DEF Report, Silent
  <2>2. <<Derive(memory.operating, v)>> # <<>>
    OBVIOUS
  <2>3. View(memory.operating) = v
    BY <1>3, <2>2 DEF OperatingChange
  <2>4. QED
    BY <1>1, <2>1, <2>3, SilentEffect
<1>4. CASE OperatingChange(v) # <<>>
  <2>1. Begin("report", NoRun, OperatingChange(v))
    BY <1>4 DEF Report
  <2> HIDE DEF v
  <2>2. /\ Opens("report", NoRun, Turned(memory.operating, v), memory.execution) /\ Queued'
        /\ v # View(memory.operating)
    BY <1>1, <1>2, <1>4, <2>1, ChangeEffect DEF Holders
  <2>3. QED
    BY <1>1, <2>2 DEF v
<1>5. QED
  BY <1>3, <1>4

LEMMA Pairs ==
  ASSUME NEW e \in Events, NEW f \in Events
  PROVE  /\ <<e>> \o <<f>> = <<e, f>>
         /\ <<>> \o <<f>> = <<f>>
         /\ <<f>> # <<>> /\ Head(<<f>>) = f /\ Tail(<<f>>) = <<>>
         /\ <<e, f>> # <<>> /\ Head(<<e, f>>) = e /\ Tail(<<e, f>>) = <<f>>
<1> DEFINE q == <<e>> \o <<f>>
<1>1. q \in Seq(Events) /\ Len(q) = 2 /\ q[1] = e /\ q[2] = f
  OBVIOUS
<1> HIDE DEF q
<1>2. q = <<e, f>>
  BY <1>1
<1>3. QED
  BY <1>2 DEF q

\* The view a finishing run publishes.
FinishView(r) == Derived(SettledStates(r), execution, NewestPhase(r))

LEMMA FinishEffect ==
  ASSUME TypeOK, Queued, NEW r \in Runs, BeginFinish(r)
  PROVE  /\ Queued' /\ FinishView(r) \in Views
         /\ \/ /\ Silent /\ ~started[r] /\ Goto(r, "ending")
               /\ View(memory.operating) = FinishView(r)
            \/ /\ Goto(r, "publishing")
               /\ Opens("finish", r, Turned(memory.operating, FinishView(r)),
                        IF started[r] THEN [status |-> "finished", run |-> r] ELSE memory.execution)
<1> DEFINE v == FinishView(r)
           e == ExecutionEvent("finished", r)
           f == Derive(memory.operating, v)
<1>1. SettledStates(r) \in Resolvers
  <2>1. SettledOutcome(r) \in {"aborted", "success", "failed"}
    BY DEF SettledOutcome, TypeOK
  <2>2. QED
    BY <2>1, ResolverTypes DEF SettledStates, TypeOK
<1>2. v \in Views
  BY <1>1, DerivedType DEF FinishView, TypeOK
<1>3. up /\ update = None /\ UNCHANGED <<memory, kv, stream, up, faults>>
  BY DEF BeginFinish, Free, bounds
<1>4. e \in Events /\ e.field = "execution" /\ e.value = [status |-> "finished", run |-> r]
  BY DEF ExecutionEvent, Events, Execution
<1>5. f \in Events /\ f.field = "operating"
  <2>1. memory.operating \in Operating
    BY DEF TypeOK, Memories
  <2>2. f \in Events
    BY <1>2, <2>1, EventTypes
  <2>3. QED
    BY <2>2 DEF Derive, OperatingEvent
<1>6. FinishEvents(r) = (IF started[r] THEN <<e>> ELSE <<>>) \o OperatingChange(v)
  BY DEF FinishEvents, FinishView
<1>7. OperatingChange(v) = IF v = View(memory.operating) THEN <<>> ELSE <<f>>
  BY DEF OperatingChange
<1>8. /\ FinishEvents(r) = <<>> => Silent /\ Goto(r, "ending")
      /\ FinishEvents(r) # <<>> => Begin("finish", r, FinishEvents(r)) /\ Goto(r, "publishing")
  BY <1>3 DEF BeginFinish, Silent
<1>9. memory \in Memories
  BY DEF TypeOK
<1>10. started[r] \in BOOLEAN
  BY DEF TypeOK
<1> HIDE DEF v, e, f
<1>11. CASE started[r] /\ v = View(memory.operating)
  <2>1. FinishEvents(r) = <<e>>
    BY <1>6, <1>7, <1>11
  <2>2. /\ <<e>> \in Queues /\ <<e>> # <<>> /\ Tail(<<e>>) = <<>>
        /\ After(memory, <<e>>) = Apply(memory, e)
    BY <1>4, SingleEvents
  <2>3. /\ Apply(memory, e).operating = memory.operating
        /\ Apply(memory, e).execution = [status |-> "finished", run |-> r]
    BY <1>4 DEF Apply
  <2>4. Begin("finish", r, <<e>>) /\ Goto(r, "publishing")
    BY <1>8, <2>1, <2>2
  <2>5. /\ update'.events = <<e>>
        /\ Opens("finish", r, memory.operating, [status |-> "finished", run |-> r])
    BY <1>3, <2>2, <2>3, <2>4, BeginEffect DEF Holders
  <2>6. Turned(memory.operating, v) = memory.operating
    BY <1>11 DEF Turned
  <2>7. Queued'
    BY <2>2, <2>5 DEF Queued, Opens
  <2>8. QED
    BY <1>2, <1>11, <2>4, <2>5, <2>6, <2>7 DEF v
<1>12. CASE started[r] /\ v # View(memory.operating)
  <2>1. FinishEvents(r) = <<e, f>>
    <3>1. <<e>> \o <<f>> = <<e, f>>
      BY <1>4, <1>5, Pairs
    <3>2. QED
      BY <1>6, <1>7, <1>12, <3>1
  <2>2. <<e, f>> \in Queues /\ <<e, f>> # <<>>
    BY <1>4, <1>5 DEF Queues
  <2>3. /\ Head(<<e, f>>) = e /\ Tail(<<e, f>>) = <<f>> /\ <<f>> # <<>>
        /\ Head(<<f>>) = f
    OBVIOUS
  <2>4. After(memory, <<e, f>>) = Apply(Apply(memory, e), f)
    BY <2>2, <2>3 DEF After
  <2>5. /\ Apply(memory, e).operating = memory.operating
        /\ Apply(memory, e).execution = [status |-> "finished", run |-> r]
        /\ Apply(Apply(memory, e), f).execution = Apply(memory, e).execution
        /\ Apply(Apply(memory, e), f).operating = f.value
    BY <1>4, <1>5 DEF Apply
  <2>6. f.value = Turned(memory.operating, v)
    BY <1>12 DEF f, Turned, Derive, OperatingEvent
  <2>7. Begin("finish", r, <<e, f>>) /\ Goto(r, "publishing")
    BY <1>8, <2>1, <2>2
  <2>8. /\ update'.events = <<e, f>>
        /\ Opens("finish", r, Turned(memory.operating, v), [status |-> "finished", run |-> r])
    <3>1. /\ After(memory, <<e, f>>).operating = Turned(memory.operating, v)
          /\ After(memory, <<e, f>>).execution = [status |-> "finished", run |-> r]
      BY <2>4, <2>5, <2>6
    <3>2. "finish" \in Holders
      BY DEF Holders
    <3>3. QED
      BY <1>3, <2>2, <2>7, <3>1, <3>2, BeginEffect
  <2>9. Queued'
    BY <2>2, <2>8 DEF Queued, Opens
  <2>10. QED
    BY <1>2, <1>12, <2>7, <2>8, <2>9 DEF v
<1>13. CASE ~started[r] /\ v = View(memory.operating)
  <2>1. FinishEvents(r) = <<>>
    BY <1>6, <1>7, <1>13
  <2>2. QED
    BY <1>2, <1>8, <1>13, <2>1, SilentEffect DEF v
<1>14. CASE ~started[r] /\ v # View(memory.operating)
  <2>1. FinishEvents(r) = OperatingChange(v) /\ OperatingChange(v) # <<>>
    <3>1. <<>> \o <<f>> = <<f>> /\ <<f>> # <<>>
      OBVIOUS
    <3>2. QED
      BY <1>6, <1>7, <1>14, <3>1
  <2>2. Begin("finish", r, OperatingChange(v)) /\ Goto(r, "publishing")
    BY <1>8, <2>1
  <2>3. Opens("finish", r, Turned(memory.operating, v), memory.execution) /\ Queued'
    BY <1>2, <1>3, <2>1, <2>2, ChangeEffect DEF Holders
  <2>4. QED
    BY <1>2, <1>14, <2>2, <2>3 DEF v
<1>15. QED
  BY <1>10, <1>11, <1>12, <1>13, <1>14

\* What a restart publishes first.
LEMMA RestartEffect ==
  ASSUME TypeOK, Resting, Restart
  PROVE  /\ Queued' /\ memory' = kv /\ UNCHANGED <<kv, stream, faults>> /\ up'
         /\ \/ /\ update' = None /\ Coming' = kv
               /\ kv.operating.current = "UNKNOWN" /\ kv.operating.target = None /\ ~Active(kv)
            \/ /\ update' # None /\ update'.by = "startup" /\ update'.prior = kv.operating
               /\ Coming'.operating = Turned(kv.operating, [current |-> "UNKNOWN", target |-> None,
                                                           input |-> kv.operating.input])
               /\ Coming'.execution = IF Active(kv)
                    THEN [status |-> "finished", run |-> kv.execution.run] ELSE kv.execution
<1> DEFINE v == [current |-> "UNKNOWN", target |-> None, input |-> kv.operating.input]
           e == ExecutionEvent("finished", kv.execution.run)
           f == Derive(kv.operating, v)
<1>1. kv.operating \in Operating /\ kv.execution.run \in Runs \cup {NoRun}
  BY DEF TypeOK, Memories, Execution
<1>2. v \in Views
  BY <1>1 DEF Views, Operating, States, Latched
<1>3. e \in Events /\ e.field = "execution"
      /\ e.value = [status |-> "finished", run |-> kv.execution.run]
  BY <1>1 DEF ExecutionEvent, Events, Execution
<1>4. f \in Events /\ f.field = "operating"
  <2>1. f \in Events
    BY <1>1, <1>2, EventTypes
  <2>2. QED
    BY <2>1 DEF Derive, OperatingEvent
<1>6. memory' = kv /\ UNCHANGED <<kv, stream, faults>> /\ up'
  BY DEF Restart, bounds
<1> HIDE DEF v, e, f
<1>7. /\ kv.operating.current = "UNKNOWN" /\ kv.operating.target = None /\ ~Active(kv) =>
           StartupEvents(kv) = <<>>
      /\ ~(kv.operating.current = "UNKNOWN" /\ kv.operating.target = None /\ ~Active(kv)) =>
           StartupEvents(kv) = (IF Active(kv) THEN <<e>> ELSE <<>>) \o <<f>>
  BY DEF StartupEvents, Active, e, f, v
<1>8. /\ <<e>> \o <<f>> = <<e, f>> /\ <<>> \o <<f>> = <<f>>
      /\ <<e, f>> # <<>> /\ <<f>> # <<>> /\ Head(<<f>>) = f /\ Tail(<<f>>) = <<>>
      /\ Head(<<e, f>>) = e /\ Tail(<<e, f>>) = <<f>>
  BY <1>3, <1>4, Pairs
<1>9. ASSUME NEW q \in Queues, q # <<>>, StartupEvents(kv) = q
      PROVE  /\ update' # None /\ update'.by = "startup" /\ update'.prior = kv.operating
             /\ update'.events = q /\ Coming' = After(kv, q)
  <2>1. update' = [by |-> "startup", run |-> NoRun, events |-> q, prior |-> kv.operating]
    BY <1>9 DEF Restart
  <2>3. update' # None
    <3>1. q \in Seq(Events)
      BY QueuesAreSequences
    <3>2. update' \in Updates
      BY <1>1, <2>1, <3>1 DEF Updates, Holders
    <3>3. QED
      BY <3>2, NoneAssumption
  <2>4. QED
    BY <1>6, <2>1, <2>3 DEF Coming
<1>10. CASE StartupEvents(kv) = <<>>
  <2>1. update' = None
    <3>1. update' = update
      BY <1>10 DEF Restart
    <3>2. QED
      BY <3>1 DEF Restart, Resting
  <2>2. kv.operating.current = "UNKNOWN" /\ kv.operating.target = None /\ ~Active(kv)
    BY <1>7, <1>8, <1>10
  <2>3. QED
    BY <1>6, <2>1, <2>2 DEF Coming, Queued
<1>11. CASE StartupEvents(kv) # <<>> /\ Active(kv)
  <2>1. StartupEvents(kv) = <<e, f>>
    BY <1>7, <1>8, <1>11
  <2>2. <<e, f>> \in Queues
    BY <1>3, <1>4 DEF Queues
  <2>3. /\ update' # None /\ update'.by = "startup" /\ update'.prior = kv.operating
        /\ update'.events = <<e, f>> /\ Coming' = After(kv, <<e, f>>)
    BY <1>8, <1>9, <2>1, <2>2
  <2>4. After(kv, <<e, f>>) = Apply(Apply(kv, e), f)
    BY <1>8 DEF After
  <2>5. /\ Apply(Apply(kv, e), f).execution = [status |-> "finished", run |-> kv.execution.run]
        /\ Apply(Apply(kv, e), f).operating = f.value
    BY <1>3, <1>4 DEF Apply
  <2>6. f.value = Turned(kv.operating, v)
    BY <1>1, <1>2, DeriveTurns DEF f
  <2>7. Queued'
    BY <2>2, <2>3 DEF Queued
  <2>8. QED
    BY <1>6, <1>11, <2>3, <2>4, <2>5, <2>6, <2>7 DEF v
<1>12. CASE StartupEvents(kv) # <<>> /\ ~Active(kv)
  <2>1. StartupEvents(kv) = <<f>>
    BY <1>7, <1>8, <1>12
  <2>2. <<f>> \in Queues
    BY <1>4 DEF Queues
  <2>3. /\ update' # None /\ update'.by = "startup" /\ update'.prior = kv.operating
        /\ update'.events = <<f>> /\ Coming' = After(kv, <<f>>)
    BY <1>8, <1>9, <2>1, <2>2
  <2>4. After(kv, <<f>>) = Apply(kv, f)
    BY <1>8 DEF After
  <2>5. Apply(kv, f).execution = kv.execution /\ Apply(kv, f).operating = f.value
    BY <1>4 DEF Apply
  <2>6. f.value = Turned(kv.operating, v)
    BY <1>1, <1>2, DeriveTurns DEF f
  <2>7. Queued'
    BY <2>2, <2>3 DEF Queued
  <2>8. QED
    BY <1>6, <1>12, <2>3, <2>4, <2>5, <2>6, <2>7 DEF v
<1>13. QED
  BY <1>10, <1>11, <1>12

-----------------------------------------------------------------------------
(* The kinds of steps: what a step does to the runs and to the publication. *)

\* Steps that leave the settled state and the transitions of the runs alone.
Keeps ==
  /\ UNCHANGED <<states, interrupted>> /\ (freshLatch' => freshLatch) /\ (up' => up)
  /\ UNCHANGED <<task, input>> \/ update' = None
  /\ execution' = execution \/ (execution' = NoRun /\ ~Live(execution))
  /\ \A r \in Runs :
       /\ pc[r] \in {"none", "done"} => pc'[r] = pc[r]
       /\ pc[r] # "none" => /\ pc'[r] # "none" /\ task'[r] = task[r] /\ input'[r] = input[r]
                            /\ pc'[r] \in Settled <=> pc[r] \in Settled

LEMMA KeepsFacts ==
  ASSUME TypeOK, TurnInv, Keeps
  PROVE  /\ Shown' = Shown
         /\ Transition(execution)' <=> Transition(execution)
         /\ \A r \in Runs : Transition(r)' => Transition(r)
<1>1. execution # NoRun => execution \in Runs /\ pc[execution] # "none"
  BY DEF TypeOK, TurnInv
<1>2. \A r \in Runs : Transition(r)' => Transition(r)
  BY DEF Keeps, Transition, Live, Settled
<1>3. CASE execution' = execution
  <2>1. Transition(execution)' <=> Transition(execution)
    BY <1>1, <1>3 DEF Keeps, Transition, Live, Settled
  <2>2. Shown' = Shown
    BY <1>1, <1>3 DEF Keeps, Shown, Derived, InTransition, AtRest
  <2>3. QED
    BY <1>2, <2>1, <2>2
<1>4. CASE execution' # execution
  <2>1. execution' = NoRun /\ execution # NoRun /\ pc[execution] = "done"
    BY <1>1, <1>4 DEF Keeps, Live
  <2>2. Shown = AtRest(states) /\ Shown' = AtRest(states')
    BY <2>1 DEF Shown, Derived, Settled
  <2>3. Shown' = Shown
    BY <2>2 DEF Keeps
  <2>4. ~Transition(execution) /\ ~Transition(execution)'
    BY <2>1 DEF Transition, Live
  <2>5. QED
    BY <1>2, <2>3, <2>4
<1>5. QED
  BY <1>3, <1>4

LEMMA RunStepKinds ==
  ASSUME TypeOK, TurnInv, Queued, NEW r \in Runs, RunStep(r), ~BeginFinish(r)
  PROVE  /\ Keeps /\ Queued'
         /\ Silent \/ \E by \in {"start", "context"}, status \in {"executing", "aborting"}, s \in Runs \cup {NoRun} :
              /\ Opens(by, r, memory.operating, [status |-> status, run |-> s])
              /\ by = "start" => /\ pc[r] = "starting" /\ s = r /\ status = "executing"
              /\ by = "context" => /\ Handling(r) /\ memory.execution = [status |-> status, run |-> s]
              /\ UNCHANGED <<pc, started>>
<1> USE DEF TypeOK, UnchangedByRunner, Goto, RunStages, Keeps, Settled, bounds
<1>1. ASSUME Silent, Keeps
      PROVE  /\ Keeps /\ Queued'
             /\ Silent \/ \E by \in {"start", "context"}, status \in {"executing", "aborting"}, s \in Runs \cup {NoRun} :
                  /\ Opens(by, r, memory.operating, [status |-> status, run |-> s])
                  /\ by = "start" => /\ pc[r] = "starting" /\ s = r /\ status = "executing"
                  /\ by = "context" => /\ Handling(r) /\ memory.execution = [status |-> status, run |-> s]
                  /\ UNCHANGED <<pc, started>>
  BY <1>1, SilentEffect
<1>2. CASE FirstStep(r)
  <2>1. UNCHANGED <<task, input, states, interrupted, freshLatch, up, execution>> /\ Silent
    BY <1>2 DEF FirstStep, Silent
  <2>2. pc[r] = "received" /\ \E p \in {"starting", "settling", "interrupting"} : pc' = [pc EXCEPT ![r] = p]
    BY <1>2 DEF FirstStep, Execute
  <2>3. QED
    BY <1>1, <2>1, <2>2
<1>3. CASE JoinPredecessor(r)
  <2>1. UNCHANGED <<task, input, states, interrupted, freshLatch, up, execution>> /\ Silent
    BY <1>3 DEF JoinPredecessor, Silent
  <2>2. pc[r] = "interrupting" /\ \E p \in {"starting", "settling"} : pc' = [pc EXCEPT ![r] = p]
    BY <1>3 DEF JoinPredecessor, Execute
  <2>3. QED
    BY <1>1, <2>1, <2>2
<1>4. CASE BeginStart(r)
  <2>1. /\ up /\ update = None /\ Begin("start", r, <<ExecutionEvent("executing", r)>>)
        /\ UNCHANGED <<memory, kv, stream, up, faults, pc, started>> /\ pc[r] = "starting"
    BY <1>4 DEF BeginStart, Free
  <2>2. Keeps
    BY <1>4 DEF BeginStart
  <2>3. Opens("start", r, memory.operating, [status |-> "executing", run |-> r]) /\ Queued'
    BY <2>1, ExecutionEffect
  <2>4. QED
    BY <2>1, <2>2, <2>3
<1>5. CASE BeginUpdateContext(r)
  <2> DEFINE status == memory.execution.status
             s == memory.execution.run
  <2>1. /\ up /\ update = None /\ Begin("context", r, <<ExecutionEvent(status, s)>>)
        /\ UNCHANGED <<memory, kv, stream, up, faults, pc, started>> /\ pc[r] = "handler"
        /\ status \in {"executing", "aborting"}
    BY <1>5 DEF BeginUpdateContext, Free, InHandler
  <2>2. Keeps
    BY <1>5 DEF BeginUpdateContext
  <2>3. memory.execution = [status |-> status, run |-> s] /\ s \in Runs \cup {NoRun}
    BY DEF Memories, Execution
  <2> HIDE DEF status, s
  <2>4. Opens("context", r, memory.operating, [status |-> status, run |-> s]) /\ Queued'
    BY <2>1, <2>3, ExecutionEffect
  <2>5. QED
    BY <2>1, <2>2, <2>3, <2>4 DEF Handling
<1>6. ASSUME NEW p \in RunStages, Goto(r, p), pc[r] \notin {"none", "done"}, p # "none",
             p \in Settled <=> pc[r] \in Settled,
             UNCHANGED <<task, input, states, interrupted, up, execution>>, freshLatch' => freshLatch,
             Silent
      PROVE  Keeps /\ Silent
  BY <1>6
<1>7. CASE CanceledBeforeStart(r)
  BY <1>1, <1>6, <1>7 DEF CanceledBeforeStart, Silent
<1>8. CASE HandlerReturns(r)
  BY <1>1, <1>6, <1>8 DEF HandlerReturns, InHandler, Silent
<1>9. CASE HandlerFails(r)
  BY <1>1, <1>6, <1>9 DEF HandlerFails, InHandler, Silent
<1>10. CASE HandlerCanceled(r)
  BY <1>1, <1>6, <1>10 DEF HandlerCanceled, InHandler, Silent
<1>11. CASE HandlerSwallows(r)
  <2>1. Keeps /\ Silent
    BY <1>11 DEF HandlerSwallows, Silent
  <2>2. QED
    BY <1>1, <2>1
<1>12. CASE ConfirmWakes(r)
  <2>1. Silent /\ UNCHANGED <<task, input, states, interrupted, up, execution, freshLatch>>
    BY <1>12 DEF ConfirmWakes, Silent
  <2>2. pc' = pc \/ (Goto(r, "settling") /\ pc[r] = "confirming")
    BY <1>12 DEF ConfirmWakes
  <2>3. QED
    BY <1>1, <2>1, <2>2
<1>13. CASE ConfirmTimesOut(r)
  BY <1>1, <1>6, <1>13 DEF ConfirmTimesOut, Silent
<1>14. CASE ConfirmCanceled(r)
  BY <1>1, <1>6, <1>14 DEF ConfirmCanceled, Silent
<1>15. CASE RunEnds(r)
  BY <1>1, <1>6, <1>15 DEF RunEnds, Silent
<1>16. QED
  BY <1>2, <1>3, <1>4, <1>5, <1>7, <1>8, <1>9, <1>10, <1>11, <1>12, <1>13, <1>14, <1>15 DEF RunStep

LEMMA EmitKinds ==
  ASSUME TypeOK, Queued, EmitEvent
  PROVE  Keeps /\ Queued'
<1>1. Keeps
  BY DEF EmitEvent, Keeps, runVars, ctlVars
<1>2. /\ update # None /\ update.events \in Queues /\ update.events # <<>>
      /\ update \in Updates
  BY DEF EmitEvent, Queued, TypeOK
<1>3. update'.events = Tail(update.events) /\ update'.by = update.by
  BY <1>2 DEF EmitEvent, Updates
<1>4. update'.events \in Queues
  BY <1>2, <1>3, QueueSteps DEF TypeOK
<1>5. Tail(update.events) = <<>> => update'.events = <<>>
  BY <1>3
<1>6. Coming' = Coming /\ memory'.execution = Coming.execution
      /\ (memory'.operating = memory.operating \/ memory'.operating = Coming.operating)
  BY EmitEffect
<1>7. Queued'
  BY <1>2, <1>3, <1>4, <1>5, <1>6 DEF Queued
<1>8. QED
  BY <1>1, <1>7

LEMMA CloseKinds ==
  ASSUME TypeOK, TurnInv, Queued, UpdateStep, ~EmitEvent, ~AdmitFails, ~Admit
  PROVE  /\ Closes /\ Keeps /\ Queued' /\ (up' = up \/ By({"startup"}))
         /\ up' /\ By({"startup"}) => memory'.operating = Coming.operating
<1> USE DEF TypeOK, Goto, RunStages, Keeps, Settled
<1>1. \/ Restore \/ Start \/ UpdateContext \/ PublishFinish \/ Abort \/ Published \/ Normalized
  BY DEF UpdateStep
<1>2. update # None /\ update' = None
  BY <1>1 DEF Holds, Restore, Start, UpdateContext, PublishFinish, Abort, Published, Normalized
<1>3. Closes
  <2>1. CASE UpdateContext
    BY <2>1, ContextEffect
  <2>2. CASE ~UpdateContext
    <3>1. Stored \/ Raises
      BY <1>1, <2>2 DEF Restore, Start, PublishFinish, Abort, Published, Normalized
    <3>2. QED
      BY <1>2, <3>1, CloseEffect
  <2>3. QED
    BY <2>1, <2>2
<1>4. Queued'
  BY <1>2 DEF Queued
<1>0. up' = up \/ By({"startup"})
  BY <1>1, <1>2 DEF By, Holds, Restore, Start, UpdateContext, PublishFinish, Abort, Published, Normalized
<1>s. up' /\ By({"startup"}) => memory'.operating = Coming.operating
  <2>1. up' /\ By({"startup"}) => Stored
    BY <1>1 DEF By, Holds, Restore, Start, UpdateContext, PublishFinish, Abort, Published,
               Normalized
  <2>2. Stored => memory' = Coming
    BY <1>2 DEF Stored, Coming, After
  <2>3. QED
    BY <2>1, <2>2
<1>5. CASE Restore
  <2>1. update.run = admitted + 1 /\ admitted \in Nat
    BY <1>5 DEF Restore, Holds, TurnInv, UpdateStage
  <2>2. \A s \in Runs : pc[s] # "none" => s # update.run
    BY <2>1 DEF TurnInv
  <2>3. QED
    BY <1>0, <1>s, <1>2, <1>3, <1>4, <1>5, <2>2 DEF Restore, ctlVars
<1>6. CASE Start
  <2>1. update.run \in Runs /\ pc[update.run] = "starting"
    BY <1>6 DEF Start, Holds, TurnInv, UpdateStage
  <2>2. PICK q \in {"settling", "handler"} : Goto(update.run, q)
    BY <1>6 DEF Start
  <2>3. Keeps
    BY <1>2, <1>6, <2>1, <2>2 DEF Start, ctlVars
  <2>4. QED
    BY <1>0, <1>s, <1>3, <1>4, <2>3
<1>7. CASE PublishFinish
  <2>1. update.run \in Runs /\ pc[update.run] = "publishing"
    BY <1>7 DEF PublishFinish, Holds, TurnInv, UpdateStage
  <2>2. Keeps
    BY <1>2, <1>7, <2>1 DEF PublishFinish, ctlVars
  <2>3. QED
    BY <1>0, <1>s, <1>3, <1>4, <2>2
<1>8. CASE UpdateContext \/ Abort \/ Published \/ Normalized
  <2>1. Keeps
    BY <1>2, <1>8 DEF UpdateContext, Abort, Published, Normalized, runVars, ctlVars
  <2>2. QED
    BY <1>0, <1>s, <1>3, <1>4, <2>1
<1>9. QED
  BY <1>1, <1>5, <1>6, <1>7, <1>8

LEMMA AdmitFailsKinds ==
  ASSUME TypeOK, Queued, AdmitFails
  PROVE  Keeps /\ Queued'
<1>1. Keeps
  BY DEF AdmitFails, Keeps, runVars, ctlVars
<1>2. Queued'
  BY AdmitFailsEffect DEF Queued
<1>3. QED
  BY <1>1, <1>2

LEMMA CallKinds ==
  ASSUME TypeOK, TurnInv, Queued
  PROVE  /\ \A r \in Runs : CallStep(r) => Silent /\ Keeps /\ Queued'
         /\ BeginAbort =>
              /\ Keeps /\ Queued' /\ UNCHANGED <<pc, started>>
              /\ \/ Silent
                 \/ /\ execution \in Runs /\ Active(memory) /\ memory.execution.run = execution
                    /\ Opens("abort", execution, memory.operating,
                             [status |-> "aborting", run |-> execution])
         /\ \A b \in BOOLEAN : BeginSetEnable(b) =>
              /\ Keeps /\ Queued' /\ UNCHANGED <<pc, started>>
              /\ Opens("enable", NoRun, memory.operating, memory.execution)
<1>1. ASSUME NEW r \in Runs, CallStep(r) PROVE Silent /\ Keeps /\ Queued'
  <2>1. CASE CallBreaks(r)
    BY <2>1, SilentEffect DEF CallBreaks, Silent, Keeps, ctlVars, pubVars, bounds
  <2>2. CASE CallEnds(r)
    <3>1. execution' = execution \/ (execution' = NoRun /\ ~Live(execution))
      BY <2>2 DEF CallEnds, Live
    <3>2. QED
      BY <2>2, <3>1, SilentEffect DEF CallEnds, Silent, Keeps, pubVars, bounds
  <2>3. QED
    BY <1>1, <2>1, <2>2 DEF CallStep
<1>2. ASSUME BeginAbort
      PROVE  /\ Keeps /\ Queued' /\ UNCHANGED <<pc, started>>
             /\ \/ Silent
                \/ /\ execution \in Runs /\ Active(memory) /\ memory.execution.run = execution
                   /\ Opens("abort", execution, memory.operating,
                            [status |-> "aborting", run |-> execution])
  <2>1. Keeps /\ UNCHANGED <<pc, started>> /\ execution \in Runs
    BY <1>2 DEF BeginAbort, Keeps, ctlVars, Live, TypeOK
  <2>2. up /\ update = None /\ UNCHANGED <<memory, kv, stream, up, faults>>
    BY <1>2 DEF BeginAbort, Free, bounds
  <2>3. CASE Active(memory) /\ memory.execution.run = execution
    <3>1. Begin("abort", execution, <<ExecutionEvent("aborting", execution)>>)
      BY <1>2, <2>3 DEF BeginAbort, Active
    <3>2. Opens("abort", execution, memory.operating, [status |-> "aborting", run |-> execution])
          /\ Queued'
      BY <2>1, <2>2, <3>1, ExecutionEffect
    <3>3. QED
      BY <2>1, <2>3, <3>2
  <2>4. CASE ~(Active(memory) /\ memory.execution.run = execution)
    <3>1. Silent
      BY <1>2, <2>2, <2>4 DEF BeginAbort, Active, Silent
    <3>2. QED
      BY <2>1, <3>1, SilentEffect
  <2>5. QED
    BY <2>3, <2>4
<1>3. ASSUME NEW b \in BOOLEAN, BeginSetEnable(b)
      PROVE  /\ Keeps /\ Queued' /\ UNCHANGED <<pc, started>>
             /\ Opens("enable", NoRun, memory.operating, memory.execution)
  <2>1. Keeps /\ UNCHANGED <<pc, started>>
    BY <1>3 DEF BeginSetEnable, Keeps, runVars, ctlVars
  <2>2. QED
    BY <1>3, <2>1, EnableEffect
<1>4. QED
  BY <1>1, <1>2, <1>3

-----------------------------------------------------------------------------
(* Queued and Resting are kept.                                            *)

\* The steps of the controller, by what they do to its publication.
Unpublished == Silent /\ Keeps /\ Queued'
Opening ==
  \E by \in {"start", "context", "abort", "enable"}, r \in Runs \cup {NoRun}, ex \in Execution :
    Opens(by, r, memory.operating, ex) /\ Keeps /\ Queued'
Emitting == EmitEvent /\ Keeps /\ Queued'
Closing ==
  Closes /\ Keeps /\ Queued' /\ update.by # "admit"
  /\ (up' = up \/ By({"startup"}))
  /\ (up' /\ By({"startup"}) => memory'.operating = Coming.operating)
Failing == AdmitFails /\ Keeps /\ Queued'

LEMMA Kinds ==
  ASSUME TypeOK, TurnInv, Queued, [Next]_vars
  PROVE  \/ Unpublished \/ Opening \/ Emitting \/ Closing \/ Failing
         \/ \E t \in Tasks, i \in Inputs, interrupt \in BOOLEAN : BeginAdmit(t, i, interrupt)
         \/ Admit
         \/ \E r \in Runs : BeginFinish(r)
         \/ \E state \in Targets \cup Latched, i \in Inputs : Report(state, i)
         \/ Crash \/ Restart
<1>1. ASSUME NEW r \in Runs, RunStep(r), ~BeginFinish(r) PROVE Unpublished \/ Opening
  <2>1. \A status \in {"executing", "aborting"}, s \in Runs \cup {NoRun} :
          [status |-> status, run |-> s] \in Execution
    BY DEF Execution
  <2>2. Keeps /\ Queued'
    BY <1>1, RunStepKinds
  <2>3. CASE Silent
    BY <2>2, <2>3 DEF Unpublished
  <2>4. CASE ~Silent
    <3>1. PICK by \in {"start", "context"}, status \in {"executing", "aborting"},
               s \in Runs \cup {NoRun} :
            Opens(by, r, memory.operating, [status |-> status, run |-> s])
      BY <1>1, <2>4, RunStepKinds
    <3>2. QED
      BY <2>1, <2>2, <3>1 DEF Opening
  <2>5. QED
    BY <2>3, <2>4
<1>2. ASSUME NEW r \in Runs, CallStep(r) PROVE Unpublished
  BY <1>2, CallKinds DEF Unpublished
<1>3. BeginAbort => Unpublished \/ Opening
  <2>1. \A r \in Runs : [status |-> "aborting", run |-> r] \in Execution
    BY DEF Execution
  <2>2. QED
    BY <2>1, CallKinds DEF Unpublished, Opening
<1>4. \A b \in BOOLEAN : BeginSetEnable(b) => Opening
  <2>1. memory.execution \in Execution
    BY DEF TypeOK, Memories
  <2>2. QED
    BY <2>1, CallKinds DEF Opening
<1>5. UpdateStep => Emitting \/ Closing \/ Failing \/ Admit
  <2>1. EmitEvent => Emitting
    BY EmitKinds DEF Emitting
  <2>2. AdmitFails => Failing
    BY AdmitFailsKinds DEF Failing
  <2>3. UpdateStep /\ ~EmitEvent /\ ~AdmitFails /\ ~Admit => update.by # "admit"
    BY DEF UpdateStep, Holds, Restore, Start, UpdateContext, PublishFinish, Abort, Published, Normalized
  <2>4. UpdateStep /\ ~EmitEvent /\ ~AdmitFails /\ ~Admit => Closing
    <3> SUFFICES ASSUME UpdateStep, ~EmitEvent, ~AdmitFails, ~Admit PROVE Closing
      OBVIOUS
    <3>1. /\ Closes /\ Keeps /\ Queued' /\ (up' = up \/ By({"startup"}))
          /\ up' /\ By({"startup"}) => memory'.operating = Coming.operating
      BY CloseKinds
    <3>2. QED
      BY <2>3, <3>1 DEF Closing
  <2>5. QED
    BY <2>1, <2>2, <2>4
<1>6. UNCHANGED vars => Unpublished
  BY SilentEffect DEF vars, runVars, ctlVars, pubVars, bounds, Silent, Keeps, Unpublished
<1>7. QED
  BY <1>1, <1>2, <1>3, <1>4, <1>5, <1>6 DEF Next

LEMMA QueuedKept ==
  ASSUME TypeOK, TurnInv, Queued, Resting, [Next]_vars
  PROVE  Queued'
<1>1. (Admit \/ Crash) => Queued'
  BY DEF Admit, Crash, Queued
<1>2. QED
  BY <1>1, Kinds, AdmitEffect, FinishEffect, ReportEffect, RestartEffect
  DEF Unpublished, Opening, Emitting, Closing, Failing

LEMMA RestingKept ==
  ASSUME TypeOK, TurnInv, Queued, Resting, [Next]_vars
  PROVE  Resting'
<1>1. ASSUME UNCHANGED up, By({"startup"})' => By({"startup"}), Keeps, ~up => update' = None PROVE Resting'
  BY <1>1 DEF Resting, Keeps
<1>2. CASE Unpublished
  BY <1>1, <1>2, SilentEffect DEF Unpublished, Silent, Resting
<1>3. CASE Opening
  BY <1>1, <1>3 DEF Opening, Opens, By
<1>4. CASE Emitting
  BY <1>1, <1>4, EmitEffect DEF Emitting, EmitEvent, By
<1>5. CASE Failing
  BY <1>1, <1>5, AdmitFailsEffect DEF Failing, AdmitFails, Holds, By
<1>6. CASE Closing
  BY <1>6 DEF Closing, Closes, Resting, Keeps, By
<1>7. ASSUME NEW t \in Tasks, NEW i \in Inputs, NEW interrupt \in BOOLEAN,
             BeginAdmit(t, i, interrupt)
      PROVE  Resting'
  <2>1. up' /\ (update' = None \/ update'.by = "admit")
    BY <1>7, AdmitEffect DEF BeginAdmit, Free, Silent, Opens
  <2>2. QED
    BY <2>1 DEF Resting, By
<1>8. CASE Admit
  BY <1>8 DEF Admit, Holds, Resting, By
<1>9. ASSUME NEW r \in Runs, BeginFinish(r) PROVE Resting'
  <2>1. up' /\ (update' = None \/ update'.by = "finish")
    BY <1>9, FinishEffect DEF BeginFinish, Free, Silent, Opens
  <2>2. QED
    BY <2>1 DEF Resting, By
<1>10. ASSUME NEW state \in Targets \cup Latched, NEW i \in Inputs, Report(state, i)
       PROVE  Resting'
  <2>1. up' /\ (update' = None \/ update'.by = "report")
    BY <1>10, ReportEffect DEF Report, Free, Silent, Opens
  <2>2. QED
    BY <2>1 DEF Resting, By
<1>11. CASE Crash
  BY <1>11 DEF Crash, Resting, By
<1>12. CASE Restart
  BY <1>12 DEF Restart, Resting, runVars
<1>13. QED
  BY <1>2, <1>3, <1>4, <1>5, <1>6, <1>7, <1>8, <1>9, <1>10, <1>11, <1>12, Kinds

-----------------------------------------------------------------------------
(* NewestTransition and Rotations are kept.                                *)

LEMMA AdmittedRun ==
  ASSUME TypeOK, TurnInv, By({"admit", "restore"})
  PROVE  update.run = admitted + 1 /\ update.run \in Runs /\ pc[update.run] = "none"
<1>1. update.run = admitted + 1 /\ admitted \in Nat
  BY DEF By, TurnInv, UpdateStage, TypeOK
<1>2. update.run \in Runs \cup {NoRun}
  BY DEF By, TypeOK, Updates
<1>3. update.run \in Runs
  BY <1>1, <1>2
<1>4. ~(update.run <= admitted)
  BY <1>1
<1>5. QED
  BY <1>1, <1>3, <1>4 DEF TurnInv

LEMMA NewestKept ==
  ASSUME TypeOK, TurnInv, Queued, Fitting, NewestTransition, [Next]_vars
  PROVE  NewestTransition'
<1>1. ASSUME Keeps PROVE NewestTransition'
  BY <1>1, KeepsFacts DEF NewestTransition
<1>2. ASSUME NEW n \in Runs, Install(n), pc[n] = "none",
             \A s \in Runs : s # n => task'[s] = task[s],
             Transition(execution) => Lifecycle(task'[n])
      PROVE  NewestTransition'
  <2> SUFFICES ASSUME NEW s \in Runs, Transition(s)' PROVE Transition(execution)'
    BY DEF NewestTransition
  <2>1. execution' = n /\ pc'[n] = "received"
    BY <1>2 DEF Install, TypeOK
  <2>2. CASE s = n
    BY <2>1, <2>2
  <2>3. CASE s # n
    <3>1. Transition(s)
      BY <1>2, <2>3 DEF Install, Transition, Live, TypeOK
    <3>2. Lifecycle(task'[n])
      BY <1>2, <3>1 DEF NewestTransition
    <3>3. QED
      BY <2>1, <3>2 DEF Transition, Live, Settled
  <2>4. QED
    BY <2>2, <2>3
<1>3. ASSUME NEW t \in Tasks, NEW i \in Inputs, NEW interrupt \in BOOLEAN,
             BeginAdmit(t, i, interrupt)
      PROVE  NewestTransition'
  <2> DEFINE n == admitted + 1
  <2>1. n \in Runs
    <3>1. admitted < MaxRuns
      BY <1>3, Zenon DEF BeginAdmit
    <3>2. admitted \in 0..MaxRuns
      BY DEF TypeOK
    <3>3. QED
      BY <3>1, <3>2
  <2>2. task' = [task EXCEPT ![n] = t]
    BY <1>3, Zenon DEF BeginAdmit
  <2>3. Transition(execution) => Lifecycle(t)
    <3>1. Admissible(t, interrupt)
      BY <1>3, Zenon DEF BeginAdmit
    <3>2. QED
      BY <3>1 DEF Admissible, Predecessor, Transition, Live
  <2>4. pc[n] = "none" /\ n \notin {0} /\ execution # n
    BY <2>1 DEF TurnInv, TypeOK
  <2> HIDE DEF n
  <2>5. CASE Install(n)
    BY <1>2, <2>1, <2>2, <2>3, <2>4, <2>5 DEF TypeOK
  <2>6. CASE UNCHANGED <<pc, admitted, execution>>
    <3>1. \A s \in Runs : Transition(s)' <=> Transition(s)
      BY <2>1, <2>2, <2>4, <2>6 DEF Transition, Live, TypeOK
    <3>2. Transition(execution) => execution \in Runs
      BY DEF Transition, Live, TypeOK
    <3>3. QED
      BY <2>6, <3>1, <3>2 DEF NewestTransition
  <2>7. QED
    BY <1>3, <2>5, <2>6, AdmitEffect DEF n
<1>4. CASE Admit
  <2>1. By({"admit"}) /\ By({"admit", "restore"}) /\ Install(update.run) /\ task' = task /\ up
    BY <1>4 DEF Admit, Holds, By
  <2>2. update.run \in Runs /\ pc[update.run] = "none"
    BY <2>1, AdmittedRun
  <2>3. Lifecycle(task[update.run])
    BY <2>1 DEF Fitting, By
  <2>4. QED
    BY <1>2, <2>1, <2>2, <2>3
<1>5. ASSUME NEW r \in Runs, BeginFinish(r) PROVE NewestTransition'
  <2> SUFFICES ASSUME NEW s \in Runs, Transition(s)' PROVE Transition(execution)'
    BY DEF NewestTransition
  <2>1. /\ pc[r] = "settling" /\ UNCHANGED <<task, execution>>
        /\ \E p \in {"publishing", "ending"} : pc' = [pc EXCEPT ![r] = p]
    BY <1>5 DEF BeginFinish, Goto
  <2>2. s # r /\ Transition(s)
    BY <2>1 DEF Transition, Live, Settled, TypeOK
  <2>3. ~(s < r)
    BY <2>1, <2>2 DEF TurnInv, Chain, Transition, Entered, Waiting
  <2>4. Live(r) /\ Live(s)
    BY <2>1, <2>2 DEF Transition, Live
  <2>5. Predecessor \in Runs /\ s <= Predecessor /\ Live(Predecessor)
    BY <2>4, AdmissionChain
  <2>6. execution = Predecessor /\ execution \in Runs
    BY <2>5 DEF Predecessor
  <2>7. execution # r
    BY <2>2, <2>3, <2>5, <2>6
  <2>8. Transition(execution)
    BY <2>2 DEF NewestTransition
  <2>9. QED
    BY <2>1, <2>6, <2>7, <2>8 DEF Transition, Live, TypeOK
<1>6. ASSUME UNCHANGED <<runVars, execution>> PROVE NewestTransition'
  BY <1>6 DEF runVars, NewestTransition, Transition, Live
<1>7. ASSUME NEW state \in Targets \cup Latched, NEW i \in Inputs, Report(state, i)
      PROVE  NewestTransition'
  BY <1>6, <1>7 DEF Report
<1>8. CASE Crash
  BY <1>8 DEF Crash, NewestTransition, Transition, Live
<1>9. CASE Restart
  BY <1>6, <1>9 DEF Restart
<1>10. QED
  BY <1>1, <1>3, <1>4, <1>5, <1>7, <1>8, <1>9, Kinds
  DEF Unpublished, Opening, Emitting, Closing, Failing

LEMMA RotationsKept ==
  ASSUME TypeOK, TurnInv, Queued, Resting, Rotations, [Next]_vars
  PROVE  Rotations'
<1>0. memory.operating \in Operating /\ kv.operating \in Operating
  BY DEF TypeOK, Memories
<1>1. CASE Unpublished
  BY <1>1, SilentEffect DEF Unpublished, Silent, Rotations
<1>2. ASSUME NEW by, NEW r, NEW op, NEW ex, Opens(by, r, op, ex), Rotated(op) PROVE Rotations'
  BY <1>2 DEF Opens, Rotations
<1>3. CASE Opening
  BY <1>2, <1>3 DEF Opening, Rotations
<1>4. CASE Emitting
  BY <1>4, EmitEffect DEF Emitting, Rotations
<1>5. CASE Closes
  BY <1>5 DEF Closes, Rotations
<1>6. CASE AdmitFails
  BY <1>6, AdmitFailsEffect DEF Rotations
<1>7. ASSUME NEW v \in Views PROVE Rotated(Turned(memory.operating, v))
  BY <1>0, TurnedFacts DEF Rotations
<1>8. ASSUME NEW t \in Tasks, NEW i \in Inputs, NEW interrupt \in BOOLEAN,
             BeginAdmit(t, i, interrupt)
      PROVE  Rotations'
  <2>1. InTransition(states, t, i) \in Views
    BY ViewTypes DEF TypeOK
  <2>2. CASE Silent
    BY <2>2, SilentEffect DEF Silent, Rotations
  <2>3. CASE ~Silent
    BY <1>2, <1>7, <1>8, <2>1, <2>3, AdmitEffect
  <2>4. QED
    BY <2>2, <2>3
<1>9. CASE Admit
  <2>1. Closes
    BY <1>9, CloseEffect DEF Admit, Holds
  <2>2. QED
    BY <1>5, <2>1
<1>10. ASSUME NEW r \in Runs, BeginFinish(r) PROVE Rotations'
  <2>1. CASE Silent
    BY <2>1, SilentEffect DEF Silent, Rotations
  <2>2. CASE ~Silent
    BY <1>2, <1>7, <1>10, <2>2, FinishEffect
  <2>3. QED
    BY <2>1, <2>2
<1>11. ASSUME NEW state \in Targets \cup Latched, NEW i \in Inputs, Report(state, i)
       PROVE  Rotations'
  <2>1. CASE Silent
    BY <2>1, SilentEffect DEF Silent, Rotations
  <2>2. CASE ~Silent
    BY <1>2, <1>7, <1>11, <2>2, ReportEffect
  <2>3. QED
    BY <2>1, <2>2
<1>12. CASE Crash
  <2>1. update' = None /\ memory' = InitialMemory /\ kv' = kv
    BY <1>12 DEF Crash
  <2>2. Coming' = InitialMemory
    BY <2>1 DEF Coming
  <2>3. Rotated(InitialMemory.operating)
    BY DEF InitialMemory, InitialOperating, Rotated
  <2>4. QED
    BY <2>1, <2>2, <2>3 DEF Rotations
<1>13. CASE Restart
  <2> DEFINE v == [current |-> "UNKNOWN", target |-> None, input |-> kv.operating.input]
  <2>1. v \in Views
    BY <1>0 DEF Views, Operating, States, Latched
  <2>2. Rotated(Turned(kv.operating, v))
    BY <1>0, <2>1, TurnedFacts DEF Rotations
  <2> HIDE DEF v
  <2>3. memory' = kv /\ kv' = kv /\ (Coming'.operating = kv.operating \/ Coming'.operating = Turned(kv.operating, v))
        /\ (update' = None \/ update'.prior = kv.operating)
    BY <1>13, RestartEffect DEF v
  <2>4. QED
    BY <2>2, <2>3 DEF Rotations
<1>14. QED
  BY <1>1, <1>3, <1>4, <1>5, <1>6, <1>8, <1>9, <1>10, <1>11, <1>12, <1>13, Kinds
  DEF Closing, Failing

-----------------------------------------------------------------------------
(* Fitting is kept.                                                        *)

LEMMA ShownCases ==
  ASSUME TypeOK, TurnInv
  PROVE  /\ Transition(execution) =>
              /\ execution \in Runs /\ Lifecycle(task[execution])
              /\ Shown = InTransition(states, task[execution], input[execution])
              /\ Shown.current = "TRANSITION"
         /\ ~Transition(execution) => Shown = AtRest(states)
         /\ AtRest(states).current # "TRANSITION"
         /\ \A s, t, i : InTransition(s, t, i).current = "TRANSITION"
<1>1. execution # NoRun => execution \in Runs /\ pc[execution] # "none"
  BY DEF TypeOK, TurnInv
<1>2. SettledOf(states) \in StateInput
  BY ResolverTypes DEF TypeOK
<1>3. AtRest(states).current # "TRANSITION"
  BY <1>2 DEF AtRest, StateInput
<1>4. \A s, t, i : InTransition(s, t, i).current = "TRANSITION"
  BY DEF InTransition
<1>5. Transition(execution) =>
        /\ execution \in Runs /\ Lifecycle(task[execution])
        /\ Shown = InTransition(states, task[execution], input[execution])
  BY <1>1 DEF Transition, Shown, Derived, Live
<1>6. ~Transition(execution) => Shown = AtRest(states)
  BY <1>1 DEF Transition, Shown, Derived, Live, Settled
<1>7. QED
  BY <1>3, <1>4, <1>5, <1>6

LEMMA FitsKept ==
  ASSUME TypeOK, TurnInv, Keeps, faults' = faults \/ faults' > 0
  PROVE  \A op : Fits(op) => View(op) = Shown' \/ (faults' > 0 /\ op.current = "TRANSITION")
<1>1. Shown' = Shown
  BY KeepsFacts
<1>2. QED
  BY <1>1 DEF Fits

LEMMA ComingType ==
  ASSUME TypeOK, Queued
  PROVE  Coming \in Memories /\ Coming.operating \in Operating /\ memory.operating \in Operating
<1>1. Coming \in Memories
  BY AfterType DEF Coming, Queued, TypeOK
<1>2. QED
  BY <1>1 DEF Memories, TypeOK

LEMMA FittingKeeps ==
  ASSUME TypeOK, TurnInv, Queued, Resting, Fitting,
         Unpublished \/ Opening \/ Emitting \/ Closing \/ Failing
  PROVE  Fitting'
<1>k. Keeps /\ (up' => up)
  BY DEF Unpublished, Opening, Emitting, Closing, Failing, Keeps
<1>f. faults' = faults \/ faults' > 0
  BY AdmitFailsEffect DEF Unpublished, Silent, Opening, Opens, Emitting, EmitEvent, bounds, Closing,
    Closes, Failing
<1>1. \A op : Fits(op) => View(op) = Shown' \/ (faults' > 0 /\ op.current = "TRANSITION")
  BY <1>k, <1>f, FitsKept
<1> SUFFICES ASSUME up' PROVE Fitting'
  BY DEF Fitting
<1>2. up
  BY <1>k
<1>3. CASE Unpublished
  <2>1. Coming' = Coming /\ update' = update /\ memory' = memory
    BY <1>3, SilentEffect DEF Unpublished, Silent
  <2>2. states' = states /\ (update' # None => UNCHANGED <<task, input>>)
    BY <1>k DEF Keeps
  <2>3. CASE By({"admit", "restore"})
    BY <1>1, <1>2, <2>1, <2>2, <2>3 DEF Fitting, Fits, By
  <2>4. CASE ~By({"admit", "restore"})
    BY <1>1, <1>2, <2>1, <2>2, <2>4 DEF Fitting, Fits, By
  <2>5. QED
    BY <2>3, <2>4
<1>4. CASE Opening
  <2>1. update = None /\ Coming = memory
    BY <1>4 DEF Opening, Opens, Coming
  <2>2. /\ Coming'.operating = memory.operating /\ memory' = memory
        /\ ~By({"admit", "restore"})'
    BY <1>4 DEF Opening, Opens, By
  <2>3. QED
    BY <1>1, <1>2, <2>1, <2>2 DEF Fitting, Fits, By
<1>5. CASE Emitting
  <2>1. /\ Coming' = Coming /\ update' # None /\ update # None
        /\ update'.by = update.by /\ update'.run = update.run /\ update'.prior = update.prior
        /\ memory'.operating = memory.operating \/ memory'.operating = Coming.operating
    BY <1>5, EmitEffect DEF Emitting
  <2>2. states' = states /\ UNCHANGED <<task, input>>
    BY <1>k, <2>1 DEF Keeps
  <2>3. CASE By({"admit", "restore"})
    BY <1>1, <1>2, <2>1, <2>2, <2>3 DEF Fitting, Fits, By
  <2>4. CASE ~By({"admit", "restore"})
    BY <1>1, <1>2, <2>1, <2>2, <2>4 DEF Fitting, Fits, By
  <2>5. QED
    BY <2>3, <2>4
<1>6. CASE Closing
  <2>1. update' = None /\ Coming' = memory' /\ ~By({"admit", "restore"})'
    BY <1>6 DEF Closing, Closes, By
  <2>2. CASE memory'.operating = Coming.operating
    <3>1. Fits(Coming.operating)
      BY <1>2, <1>6, <2>2 DEF Fitting, Closing, By
    <3>2. QED
      BY <1>1, <2>1, <2>2, <3>1 DEF Fitting, Fits
  <2>3. CASE memory'.operating # Coming.operating
    <3>1. /\ memory'.operating = memory.operating /\ By({"finish"}) /\ faults' > 0
      BY <1>6, <2>3 DEF Closing, Closes, By
    <3>2. memory.operating.current = "TRANSITION"
      BY <1>2, <2>3, <3>1 DEF Fitting, By
    <3>3. QED
      BY <2>1, <3>1, <3>2 DEF Fitting, Fits
  <2>4. QED
    BY <2>2, <2>3
<1>7. CASE Failing
  <2>1. /\ update # None /\ update.by = "admit" /\ update' # None
        /\ update'.by = "restore" /\ update'.prior = update.prior
        /\ Coming'.operating = update.prior
    BY <1>7, AdmitFailsEffect DEF Failing
  <2>2. Fits(update.prior)
    BY <1>2, <2>1 DEF Fitting, By
  <2>3. QED
    BY <1>1, <2>1, <2>2 DEF Fitting, Fits, By
<1>8. QED
  BY <1>3, <1>4, <1>5, <1>6, <1>7

\* Stamps of BeginAdmit on the run it is about to install.
LEMMA AdmitStamps ==
  ASSUME TypeOK, TurnInv, NEW t \in Tasks, NEW i \in Inputs, NEW interrupt \in BOOLEAN,
         BeginAdmit(t, i, interrupt)
  PROVE  LET n == admitted + 1
         IN  /\ n \in Runs /\ n # 0 /\ pc[n] = "none" /\ execution # n
             /\ task' = [task EXCEPT ![n] = t] /\ input' = [input EXCEPT ![n] = i]
             /\ up /\ up' /\ update = None /\ states' = states /\ faults' = faults
             /\ UNCHANGED <<freshLatch, interrupted, started, memory, kv, stream>>
             /\ Transition(execution) => Lifecycle(t)
<1> DEFINE n == admitted + 1
<1>1. n \in Runs
  <2>1. admitted < MaxRuns
    BY Zenon DEF BeginAdmit
  <2>2. admitted \in 0..MaxRuns
    BY DEF TypeOK
  <2>3. QED
    BY <2>1, <2>2
<1>2. pc[n] = "none" /\ n # 0 /\ execution # n
  BY <1>1 DEF TurnInv, TypeOK
<1>3. /\ task' = [task EXCEPT ![n] = t] /\ input' = [input EXCEPT ![n] = i]
      /\ Admissible(t, interrupt)
      /\ UNCHANGED <<freshLatch, interrupted, started, memory, kv, stream>>
      /\ up /\ update = None /\ up' = up /\ states' = states /\ UNCHANGED bounds
  BY Zenon DEF BeginAdmit, Free
<1>4. Transition(execution) => Lifecycle(t)
  BY <1>3 DEF Admissible, Predecessor, Transition, Live
<1>5. QED
  BY <1>1, <1>2, <1>3, <1>4 DEF bounds

LEMMA FittingAdmit ==
  ASSUME TypeOK, TurnInv, Queued, Fitting, NEW t \in Tasks, NEW i \in Inputs,
         NEW interrupt \in BOOLEAN, BeginAdmit(t, i, interrupt)
  PROVE  Fitting'
<1> DEFINE n == admitted + 1
           v == InTransition(states, t, i)
<1>1. /\ n \in Runs /\ n # 0 /\ pc[n] = "none" /\ execution # n
      /\ task' = [task EXCEPT ![n] = t] /\ input' = [input EXCEPT ![n] = i]
      /\ up /\ up' /\ update = None /\ states' = states /\ faults' = faults
      /\ UNCHANGED <<memory, kv, stream>>
      /\ Transition(execution) => Lifecycle(t)
  BY AdmitStamps
<1>2. Fits(memory.operating) /\ Coming = memory
  BY <1>1 DEF Fitting, By, Coming
<1>3. task'[n] = t /\ input'[n] = i
  BY <1>1 DEF TypeOK
<1>4. CASE Silent /\ Install(n) /\ (Lifecycle(t) => View(memory.operating) = v)
  <2>1. execution' = n /\ pc'[n] = "received"
    BY <1>1, <1>4 DEF Install, TypeOK
  <2>2. Lifecycle(t) => Shown' = v
    BY <1>1, <1>3, <2>1 DEF Shown, Derived, Settled
  <2>3. ~Lifecycle(t) => Shown' = Shown
    <3>1. ~Lifecycle(t) => Shown' = AtRest(states)
      BY <1>1, <1>3, <2>1 DEF Shown, Derived
    <3>2. QED
      BY <1>1, <3>1, ShownCases
  <2>4. Coming' = memory' /\ update' = None
    BY <1>1, <1>4 DEF Silent, Coming
  <2>5. View(memory.operating) = Shown' \/ (faults' > 0 /\ memory.operating.current = "TRANSITION")
    BY <1>1, <1>2, <1>4, <2>2, <2>3 DEF Fits
  <2>6. QED
    BY <1>1, <2>4, <2>5 DEF Fitting, Fits, By
<1>5. CASE /\ Lifecycle(t) /\ v # View(memory.operating)
           /\ Opens("admit", n, Turned(memory.operating, v), memory.execution)
           /\ UNCHANGED <<pc, admitted, execution>>
  <2>1. execution # NoRun => execution \in Runs
    BY DEF TypeOK
  <2>2. Shown' = Shown
    BY <1>1, <1>5, <2>1 DEF Shown, Derived, InTransition, AtRest, TypeOK
  <2>3. View(memory.operating) = Shown' \/ (faults' > 0 /\ memory.operating.current = "TRANSITION")
    BY <1>1, <1>2, <2>2 DEF Fits
  <2>4. /\ update' # None /\ update'.by = "admit" /\ update'.run = n
        /\ update'.prior = memory.operating /\ Coming'.operating = Turned(memory.operating, v)
    BY <1>5 DEF Opens
  <2>5. View(Turned(memory.operating, v)) = v
    <3>1. v \in Views
      BY ViewTypes DEF TypeOK
    <3>2. QED
      BY <3>1, ComingType, TurnedFacts
  <2>6. Lifecycle(task'[n]) /\ v = InTransition(states', task'[n], input'[n])
    BY <1>1, <1>3, <1>5
  <2> HIDE DEF n, v
  <2>7. QED
    BY <2>3, <2>4, <2>5, <2>6 DEF Fitting, Fits, By, View
<1>6. QED
  BY <1>4, <1>5, AdmitEffect

LEMMA FittingAdmitted ==
  ASSUME TypeOK, TurnInv, Queued, Fitting, Admit
  PROVE  Fitting' /\ Closes /\ Coming = memory
<1>1. /\ update # None /\ update.by = "admit" /\ update' = None /\ up /\ up' /\ Stored
      /\ Install(update.run) /\ UNCHANGED <<task, input, states>>
  BY DEF Admit, Holds
<1>2. update.run \in Runs /\ update.run # 0 /\ By({"admit", "restore"})
  BY <1>1, AdmittedRun DEF By
<1>3. Closes
  BY <1>1, CloseEffect
<1>4. Coming = memory
  BY <1>1 DEF Stored, Coming, After
<1>5. /\ Lifecycle(task[update.run])
      /\ View(memory.operating) = InTransition(states, task[update.run], input[update.run])
  BY <1>1, <1>2, <1>4 DEF Fitting
<1>6. execution' = update.run /\ pc'[update.run] = "received"
  BY <1>1, <1>2 DEF Install, TypeOK
<1>7. Shown' = InTransition(states, task[update.run], input[update.run])
  BY <1>1, <1>2, <1>5, <1>6 DEF Shown, Derived, Settled
<1>8. Coming' = memory' /\ memory' = memory
  BY <1>1 DEF Coming, Stored
<1>9. Fitting'
  BY <1>1, <1>5, <1>7, <1>8 DEF Fitting, Fits, By
<1>10. QED
  BY <1>3, <1>4, <1>9

\* What a run publishes when it finishes is derived from the newest run afterwards.
LEMMA FinishShown ==
  ASSUME TypeOK, TurnInv, NewestTransition, NEW r \in Runs, BeginFinish(r)
  PROVE  /\ Shown' = FinishView(r)
         /\ ~Lifecycle(task[r]) => FinishView(r) = Shown
         /\ Lifecycle(task[r]) => Transition(execution)
         /\ Transition(execution)' => Transition(execution)
         /\ FinishView(r).current = "TRANSITION" => Transition(execution)
<1>1. /\ pc[r] = "settling" /\ UNCHANGED <<task, input, execution>>
      /\ states' = SettledStates(r)
      /\ \E p \in {"publishing", "ending"} : pc' = [pc EXCEPT ![r] = p]
  BY DEF BeginFinish, Goto
<1>2. execution # NoRun => execution \in Runs /\ pc[execution] # "none"
  BY DEF TypeOK, TurnInv
<1>3. Shown' = FinishView(r)
  BY <1>1, <1>2 DEF Shown, FinishView, NewestPhase, Derived, InTransition, AtRest, Settled, TypeOK
<1>4. ~Lifecycle(task[r]) => FinishView(r) = Shown
  BY <1>1 DEF FinishView, NewestPhase, SettledStates, Shown, Derived
<1>5. Lifecycle(task[r]) => Transition(execution)
  <2>1. Lifecycle(task[r]) => Transition(r)
    BY <1>1 DEF Transition, Live, Settled
  <2>2. QED
    BY <2>1 DEF NewestTransition
<1>6. Transition(execution)' => Transition(execution)
  BY <1>1, <1>2 DEF Transition, Live, Settled, TypeOK
<1>7. FinishView(r).current = "TRANSITION" => Transition(execution)
  <2>1. SettledStates(r) \in Resolvers
    <3>1. SettledOutcome(r) \in {"aborted", "success", "failed"}
      BY DEF SettledOutcome, TypeOK
    <3>2. QED
      BY <3>1, ResolverTypes DEF SettledStates, TypeOK
  <2>2. AtRest(SettledStates(r)).current # "TRANSITION"
    BY <2>1, ResolverTypes DEF AtRest, StateInput
  <2>3. QED
    BY <1>1, <1>2, <2>2 DEF FinishView, NewestPhase, Derived, Transition, Live, Settled
<1>8. QED
  BY <1>3, <1>4, <1>5, <1>6, <1>7

LEMMA FittingFinish ==
  ASSUME TypeOK, TurnInv, Queued, NewestTransition, Transitions, Fitting, NEW r \in Runs,
         BeginFinish(r)
  PROVE  Fitting'
<1> DEFINE v == FinishView(r)
<1>1. up /\ up' /\ update = None /\ faults' = faults
  BY DEF BeginFinish, Free, bounds
<1>2. /\ Shown' = v /\ (~Lifecycle(task[r]) => v = Shown)
      /\ Lifecycle(task[r]) => Transition(execution)
  BY FinishShown
<1>3. Fits(memory.operating) /\ Coming = memory
  BY <1>1 DEF Fitting, By, Coming
<1>4. v = View(memory.operating) \/ memory.operating.current = "TRANSITION"
  <2>1. Transition(execution) => memory.operating.current = "TRANSITION"
    BY <1>1 DEF Transitions
  <2>2. QED
    BY <1>2, <1>3, <2>1 DEF Fits
<1> HIDE DEF v
<1>5. CASE Silent /\ View(memory.operating) = v
  <2>1. update' = None /\ memory' = memory /\ Coming' = memory
    BY <1>1, <1>5 DEF Silent, Coming
  <2>2. QED
    BY <1>1, <1>2, <1>5, <2>1 DEF Fitting, Fits, By
<1>6. ASSUME NEW ex, Opens("finish", r, Turned(memory.operating, v), ex), v \in Views PROVE Fitting'
  <2>1. /\ ~By({"admit", "restore"})' /\ Coming'.operating = Turned(memory.operating, v)
        /\ memory' = memory
    BY <1>6 DEF Opens, By
  <2>2. View(Turned(memory.operating, v)) = v
    BY <1>6, ComingType, TurnedFacts
  <2>3. v = View(memory.operating) => Turned(memory.operating, v) = memory.operating
    BY DEF Turned
  <2>4. QED
    BY <1>2, <1>4, <2>1, <2>2, <2>3 DEF Fitting, Fits, By, View
<1>7. QED
  BY <1>5, <1>6, FinishEffect DEF v

LEMMA FittingReport ==
  ASSUME TypeOK, TurnInv, Queued, Fitting, NEW state \in Targets \cup Latched, NEW i \in Inputs,
         Report(state, i)
  PROVE  Fitting'
<1> DEFINE v == Derived(RecordObserved(states, state, i), execution,
                        IF execution = NoRun THEN "none" ELSE pc[execution])
<1>1. /\ up /\ update = None /\ UNCHANGED <<runVars, execution>>
      /\ states' = RecordObserved(states, state, i)
  BY DEF Report, Free
<1>2. Shown' = v
  BY <1>1 DEF Shown, runVars, Derived
<1> HIDE DEF v
<1>3. CASE Silent /\ View(memory.operating) = v
  <2>1. update' = None /\ memory' = memory /\ Coming' = memory
    BY <1>1, <1>3 DEF Silent, Coming
  <2>2. QED
    BY <1>1, <1>2, <1>3, <2>1 DEF Fitting, Fits, By
<1>4. CASE Opens("report", NoRun, Turned(memory.operating, v), memory.execution) /\ v \in Views
  <2>1. /\ ~By({"admit", "restore"})' /\ By({"report", "startup"})'
        /\ Coming'.operating = Turned(memory.operating, v)
    BY <1>4 DEF Opens, By
  <2>2. View(Turned(memory.operating, v)) = v
    BY <1>4, ComingType, TurnedFacts
  <2>3. QED
    BY <1>2, <2>1, <2>2 DEF Fitting, Fits, View
<1>5. QED
  BY <1>3, <1>4, ReportEffect DEF v

LEMMA FittingRestart ==
  ASSUME TypeOK, TurnInv, Resting, Restart
  PROVE  Fitting' /\ execution' = NoRun
<1> DEFINE v == [current |-> "UNKNOWN", target |-> None, input |-> kv.operating.input]
<1>1. execution' = NoRun /\ states' = NewResolver(kv.operating.input, RecoverLatched(kv.operating))
  BY DEF Restart, Resting
<1>2. kv.operating \in Operating /\ v \in Views
  BY DEF TypeOK, Memories, Operating, Views, States, Latched
<1>3. \A b : AtRest(NewResolver(kv.operating.input, b)) = v
  <2>1. ASSUME NEW b PROVE SettledOf(NewResolver(kv.operating.input, b)) =
          [state |-> "UNKNOWN", input |-> kv.operating.input]
    BY NoneAssumption DEF SettledOf, NewResolver
  <2>2. QED
    BY <2>1 DEF AtRest
<1>4. Shown' = v
  BY <1>1, <1>3 DEF Shown, Derived
<1>5. View(Turned(kv.operating, v)) = v
  BY <1>2, TurnedFacts
<1>6. kv.operating.current = "UNKNOWN" /\ kv.operating.target = None => View(kv.operating) = v
  BY DEF View
<1>7. Coming'.operating = Turned(kv.operating, v) \/ (Coming' = kv /\ View(kv.operating) = v)
  BY <1>6, RestartEffect
<1>8. View(Coming'.operating) = v
  BY <1>5, <1>7
<1>9. /\ ~By({"admit", "restore"})'
      /\ By({"report", "startup"})' \/ memory'.operating = Coming'.operating
  BY RestartEffect DEF By
<1> HIDE DEF v
<1>10. QED
  BY <1>1, <1>4, <1>8, <1>9 DEF Fitting, Fits, View

LEMMA FittingKept ==
  ASSUME TypeOK, TurnInv, Queued, Resting, NewestTransition, Transitions, Fitting, [Next]_vars
  PROVE  Fitting'
<1>1. CASE Crash
  BY <1>1 DEF Crash, Fitting
<1>2. QED
  BY <1>1, Kinds, FittingKeeps, FittingAdmit, FittingAdmitted, FittingFinish, FittingReport,
     FittingRestart

-----------------------------------------------------------------------------
(* Transitions is kept.                                                    *)

LEMMA TransitionsKeeps ==
  ASSUME TypeOK, TurnInv, Queued, Resting, Fitting, Transitions,
         Unpublished \/ Opening \/ Emitting \/ Closing \/ Failing
  PROVE  Transitions'
<1>k. Keeps /\ (up' => up)
  BY DEF Unpublished, Opening, Emitting, Closing, Failing, Keeps
<1> SUFFICES ASSUME up' PROVE Transitions'
  BY DEF Transitions
<1>1. up
  BY <1>k
<1>2. Transition(execution)' => Transition(execution)
  BY <1>k, KeepsFacts
<1>3. \A op : Fits(op) /\ Transition(execution) => op.current = "TRANSITION"
  BY ShownCases DEF Fits, View
<1>4. By({"admit"}) => Coming.operating.current = "TRANSITION"
  <2>1. \A s, t, i : InTransition(s, t, i).current = "TRANSITION"
    BY ShownCases
  <2>2. By({"admit"}) =>
          View(Coming.operating) = InTransition(states, task[update.run], input[update.run])
    BY <1>1 DEF Fitting, By
  <2>3. QED
    BY <2>1, <2>2 DEF View
<1>5. By({"restore"}) => Coming.operating = update.prior
  BY <1>1 DEF Fitting, By
<1>6. Transition(execution) => Coming.operating.current = "TRANSITION"
  <2>1. CASE By({"admit"})
    BY <1>4, <2>1
  <2>2. CASE ~By({"admit"})
    BY <1>1, <1>3, <1>5, <2>2 DEF Fitting, By
  <2>3. QED
    BY <2>1, <2>2
<1>7. Transition(execution) => memory.operating.current = "TRANSITION"
  BY <1>1 DEF Transitions
<1>8. CASE Unpublished
  <2>1. /\ Coming' = Coming /\ update' = update /\ memory' = memory /\ kv' = kv /\ stream' = stream
        /\ \A holders : By(holders)' = By(holders)
    BY <1>8, SilentEffect DEF Unpublished, Silent
  <2>2. QED
    BY <1>1, <1>2, <2>1 DEF Transitions, PublishedTransition
<1>9. CASE Opening
  <2>1. /\ Coming'.operating = memory.operating /\ memory' = memory /\ kv' = kv /\ stream' = stream
        /\ ~By({"admit", "restore"})' /\ ~By({"startup"})'
        /\ ~By({"admit", "restore"}) /\ ~By({"startup"})
    BY <1>9 DEF Opening, Opens, By
  <2>2. QED
    BY <1>1, <1>2, <2>1 DEF Transitions, PublishedTransition
<1>10. CASE Emitting
  <2>1. /\ Coming' = Coming /\ kv' = kv
        /\ update'.by = update.by /\ update'.prior = update.prior
        /\ \A holders : By(holders)' <=> By(holders)
        /\ \/ memory'.operating = memory.operating /\ stream' = stream
           \/ memory'.operating = Coming.operating /\ stream' = Coming.operating
    BY <1>10, EmitEffect DEF Emitting, By
  <2>2. Transition(execution)' => memory'.operating.current = "TRANSITION"
    BY <1>2, <1>6, <1>7, <2>1
  <2>3. CASE By({"admit", "restore"})
    <3>1. update.prior.current = "TRANSITION" => PublishedTransition'
      BY <1>1, <1>4, <1>5, <2>1, <2>3 DEF Transitions, PublishedTransition, By
    <3>2. update.by = "admit" /\ memory'.operating = Coming.operating => stream'.current = "TRANSITION"
      BY <1>1, <1>4, <2>1, <2>3 DEF Transitions, By
    <3>3. QED
      BY <2>1, <2>2, <2>3, <3>1, <3>2 DEF Transitions
  <2>4. CASE ~By({"admit", "restore"})
    <3>1. Coming.operating.current = "TRANSITION" =>
            memory.operating.current = "TRANSITION" /\ ~By({"startup"})
      BY <1>1, <2>4 DEF Transitions
    <3>2. memory.operating.current = "TRANSITION" => PublishedTransition \/ By({"startup"})
      BY <1>1, <2>4 DEF Transitions
    <3>3. memory'.operating.current = "TRANSITION" => PublishedTransition' \/ By({"startup"})'
      BY <2>1, <3>1, <3>2 DEF PublishedTransition
    <3>4. Coming.operating.current = "TRANSITION" => memory'.operating.current = "TRANSITION"
      BY <2>1, <3>1
    <3>5. QED
      BY <2>1, <2>2, <2>4, <3>1, <3>3, <3>4 DEF Transitions
  <2>5. QED
    BY <2>3, <2>4
<1>11. CASE Closing
  <2>1. /\ update' = None /\ Coming' = memory' /\ stream' = stream
        /\ ~By({"admit", "restore"})' /\ ~By({"startup"})' /\ ~By({"admit"})
        /\ memory'.operating = Coming.operating \/
             (memory'.operating = memory.operating /\ By({"finish"}))
        /\ kv' = kv \/ (kv' = memory /\ memory = Coming)
    BY <1>11 DEF Closing, Closes, By
  <2>2. Transition(execution)' => memory'.operating.current = "TRANSITION"
    BY <1>2, <1>6, <1>7, <2>1
  <2>3. memory'.operating.current = "TRANSITION" => PublishedTransition'
    <3>1. CASE By({"restore"})
      <4>1. memory'.operating = update.prior
        BY <1>5, <2>1, <3>1 DEF By
      <4>2. update.prior.current = "TRANSITION" => PublishedTransition
        BY <1>1, <3>1 DEF Transitions, By
      <4>3. QED
        BY <1>5, <2>1, <3>1, <4>1, <4>2 DEF PublishedTransition
    <3>2. CASE ~By({"restore"})
      <4>1. ~By({"admit", "restore"})
        BY <2>1, <3>2 DEF By
      <4>2. /\ Coming.operating.current = "TRANSITION" =>
                 memory.operating.current = "TRANSITION" /\ ~By({"startup"})
            /\ memory.operating.current = "TRANSITION" => PublishedTransition \/ By({"startup"})
        BY <1>1, <4>1 DEF Transitions
      <4>3. By({"finish"}) => ~By({"startup"})
        BY DEF By
      <4>4. QED
        BY <2>1, <4>2, <4>3 DEF PublishedTransition
    <3>3. QED
      BY <3>1, <3>2
  <2>4. QED
    BY <2>1, <2>2, <2>3 DEF Transitions
<1>12. CASE Failing
  <2>1. /\ By({"admit"}) /\ By({"admit", "restore"}) /\ By({"admit", "restore"})'
        /\ update'.by = "restore" /\ update'.prior = update.prior
        /\ memory'.operating = memory.operating \/ memory'.operating = Coming.operating
        /\ stream' = stream
        /\ kv' = kv \/ (kv' = memory /\ memory = Coming)
    BY <1>12, AdmitFailsEffect DEF Failing, By
  <2>2. Transition(execution)' => memory'.operating.current = "TRANSITION"
    BY <1>2, <1>6, <1>7, <2>1
  <2>3. update.prior.current = "TRANSITION" => PublishedTransition'
    BY <1>1, <1>4, <2>1 DEF Transitions, PublishedTransition
  <2>4. QED
    BY <2>1, <2>2, <2>3 DEF Transitions
<1>13. QED
  BY <1>8, <1>9, <1>10, <1>11, <1>12

LEMMA TransitionsAdmit ==
  ASSUME TypeOK, TurnInv, Queued, Transitions, NEW t \in Tasks, NEW i \in Inputs,
         NEW interrupt \in BOOLEAN, BeginAdmit(t, i, interrupt)
  PROVE  Transitions'
<1> DEFINE n == admitted + 1
           v == InTransition(states, t, i)
<1>1. /\ n \in Runs /\ n # 0 /\ pc[n] = "none" /\ execution # n
      /\ task' = [task EXCEPT ![n] = t]
      /\ up /\ up' /\ update = None
      /\ UNCHANGED <<memory, kv, stream>>
  BY AdmitStamps
<1>2. /\ Coming = memory /\ ~By({"admit", "restore"}) /\ ~By({"startup"})
  BY <1>1 DEF Coming, By
<1>3. /\ memory.operating.current = "TRANSITION" => PublishedTransition
      /\ Transition(execution) => memory.operating.current = "TRANSITION"
  BY <1>1, <1>2 DEF Transitions
<1>4. v.current = "TRANSITION" /\ task'[n] = t
  BY <1>1, ShownCases DEF TypeOK
<1>5. PublishedTransition => PublishedTransition'
  BY <1>1 DEF PublishedTransition
<1>6. CASE Silent /\ Install(n) /\ (Lifecycle(t) => View(memory.operating) = v)
  <2>1. execution' = n /\ update' = None /\ Coming' = memory' /\ memory' = memory
        /\ ~By({"admit", "restore"})' /\ ~By({"startup"})'
    BY <1>1, <1>6 DEF Install, Silent, Coming, By
  <2>2. Transition(execution)' => Lifecycle(t)
    BY <1>4, <2>1 DEF Transition
  <2>3. Lifecycle(t) => memory.operating.current = "TRANSITION"
    BY <1>4, <1>6 DEF View
  <2>4. QED
    BY <1>3, <1>5, <2>1, <2>2, <2>3 DEF Transitions
<1>7. CASE /\ Lifecycle(t) /\ v # View(memory.operating)
           /\ Opens("admit", n, Turned(memory.operating, v), memory.execution)
           /\ UNCHANGED <<pc, admitted, execution>>
  <2>1. Transition(execution)' => Transition(execution)
    BY <1>1, <1>7 DEF Transition, Live, TypeOK
  <2>2. v \in Views
    BY ViewTypes DEF TypeOK
  <2>3. Turned(memory.operating, v) # memory.operating
    BY <1>7, <2>2, ComingType, TurnedFacts
  <2>4. /\ update'.prior = memory.operating /\ By({"admit", "restore"})'
        /\ Coming'.operating = Turned(memory.operating, v) /\ memory' = memory
    BY <1>7 DEF Opens, By
  <2> HIDE DEF n, v
  <2>5. QED
    BY <1>3, <1>5, <2>1, <2>3, <2>4 DEF Transitions
<1>8. QED
  BY <1>6, <1>7, AdmitEffect

LEMMA TransitionsAdmitted ==
  ASSUME TypeOK, TurnInv, Queued, Fitting, Transitions, Admit
  PROVE  Transitions'
<1>1. /\ By({"admit", "restore"}) /\ update # None /\ update.by = "admit" /\ up
      /\ update' = None /\ memory' = memory /\ stream' = stream /\ kv' = memory
  BY DEF Admit, Holds, By, Stored
<1>2. Coming = memory /\ Coming' = memory'
  BY <1>1, FittingAdmitted DEF Coming
<1>3. View(Coming.operating) = InTransition(states, task[update.run], input[update.run])
  BY <1>1 DEF Fitting
<1>4. memory.operating.current = "TRANSITION"
  BY <1>2, <1>3, ShownCases DEF View
<1>5. stream.current = "TRANSITION"
  BY <1>1, <1>2 DEF Transitions
<1>6. QED
  BY <1>1, <1>2, <1>4, <1>5 DEF Transitions, PublishedTransition, By

\* A change opened by a report or a finish is a transition only if one is published.
LEMMA TransitionsChange ==
  ASSUME TypeOK, Queued, Transitions, up, update = None, NEW v \in Views,
         Transition(execution)' => Transition(execution),
         v.current = "TRANSITION" => Transition(execution),
         \/ Silent
         \/ \E by \in {"report", "finish"} : \E r, ex : Opens(by, r, Turned(memory.operating, v), ex)
  PROVE  Transitions'
<1>1. Coming = memory /\ ~By({"admit", "restore"}) /\ ~By({"startup"})
  BY DEF Coming, By
<1>2. /\ memory.operating.current = "TRANSITION" => PublishedTransition
      /\ Transition(execution) => memory.operating.current = "TRANSITION"
  BY <1>1 DEF Transitions
<1>3. CASE Silent
  <2>1. Coming' = memory' /\ memory' = memory /\ kv' = kv /\ stream' = stream
        /\ ~By({"admit", "restore"})' /\ ~By({"startup"})'
    BY <1>1, <1>3, SilentEffect DEF Silent
  <2>2. QED
    BY <1>2, <2>1 DEF Transitions, PublishedTransition
<1>4. ASSUME NEW by \in {"report", "finish"}, NEW r, NEW ex,
             Opens(by, r, Turned(memory.operating, v), ex)
      PROVE  Transitions'
  <2>1. /\ Coming'.operating = Turned(memory.operating, v) /\ memory' = memory
        /\ kv' = kv /\ stream' = stream
        /\ ~By({"admit", "restore"})' /\ ~By({"startup"})'
    BY <1>4 DEF Opens, By
  <2>2. Turned(memory.operating, v).current = v.current
    BY ComingType, TurnedFacts
  <2>3. QED
    BY <1>2, <2>1, <2>2 DEF Transitions, PublishedTransition
<1>5. QED
  BY <1>3, <1>4

LEMMA ReportedView ==
  ASSUME TypeOK, TurnInv, NEW state \in Targets \cup Latched, NEW i \in Inputs, Report(state, i)
  PROVE  LET v == Derived(RecordObserved(states, state, i), execution,
                          IF execution = NoRun THEN "none" ELSE pc[execution])
         IN  /\ v.current = "TRANSITION" => Transition(execution)
             /\ Transition(execution)' => Transition(execution)
<1>1. execution # NoRun => execution \in Runs /\ pc[execution] # "none"
  BY DEF TypeOK, TurnInv
<1>2. RecordObserved(states, state, i) \in Resolvers
  BY ResolverTypes DEF TypeOK
<1>3. AtRest(RecordObserved(states, state, i)).current # "TRANSITION"
  BY <1>2, ResolverTypes DEF AtRest, StateInput
<1>4. Transition(execution)' => Transition(execution)
  BY DEF Report, runVars, Transition, Live
<1>5. QED
  BY <1>1, <1>3, <1>4 DEF Derived, Transition, Live, Settled

LEMMA TransitionsRestart ==
  ASSUME TypeOK, TurnInv, Resting, Restart
  PROVE  Transitions'
<1> DEFINE v == [current |-> "UNKNOWN", target |-> None, input |-> kv.operating.input]
<1>1. ~Transition(execution)'
  BY FittingRestart DEF Transition, Live
<1>2. kv.operating \in Operating /\ v \in Views
  BY DEF TypeOK, Memories, Operating, Views, States, Latched
<1>3. Turned(kv.operating, v).current = "UNKNOWN"
  BY <1>2, TurnedFacts
<1>4. /\ Coming'.operating.current = "UNKNOWN" /\ ~By({"admit", "restore"})'
      /\ By({"startup"})' \/ memory' = Coming'
  BY <1>3, RestartEffect DEF By
<1>5. QED
  BY <1>1, <1>4 DEF Transitions

LEMMA TransitionsKept ==
  ASSUME TypeOK, TurnInv, Queued, Resting, NewestTransition, Fitting, Transitions, [Next]_vars
  PROVE  Transitions'
<1>1. CASE Crash
  BY <1>1 DEF Crash, Transitions
<1>2. ASSUME NEW r \in Runs, BeginFinish(r) PROVE Transitions'
  <2>1. up /\ update = None
    BY <1>2 DEF BeginFinish, Free
  <2>2. /\ FinishView(r) \in Views
        /\ \/ Silent
           \/ \E by \in {"report", "finish"} : \E s, ex :
                Opens(by, s, Turned(memory.operating, FinishView(r)), ex)
    BY <1>2, FinishEffect
  <2>3. QED
    BY <1>2, <2>1, <2>2, FinishShown, TransitionsChange
<1>3. ASSUME NEW state \in Targets \cup Latched, NEW i \in Inputs, Report(state, i)
      PROVE  Transitions'
  <2> DEFINE v == Derived(RecordObserved(states, state, i), execution,
                          IF execution = NoRun THEN "none" ELSE pc[execution])
  <2>1. up /\ update = None
    BY <1>3 DEF Report, Free
  <2>2. /\ v \in Views
        /\ \/ Silent
           \/ \E by \in {"report", "finish"} : \E s, ex : Opens(by, s, Turned(memory.operating, v), ex)
    BY <1>3, ReportEffect
  <2>3. /\ v.current = "TRANSITION" => Transition(execution)
        /\ Transition(execution)' => Transition(execution)
    BY <1>3, ReportedView
  <2> HIDE DEF v
  <2>4. QED
    BY <2>1, <2>2, <2>3, TransitionsChange
<1>4. QED
  BY <1>1, <1>2, <1>3, Kinds, TransitionsKeeps, TransitionsAdmit, TransitionsAdmitted,
     TransitionsRestart

-----------------------------------------------------------------------------
(* Latches is kept.                                                        *)

LatchHonest(s) == s.latch # None => s.latch.state \in Latched

\* Reports and settlements keep a latch; only a success clears it.
LEMMA LatchRecords ==
  ASSUME NEW s \in Resolvers, LatchHonest(s), NEW i \in Inputs
  PROVE  /\ \A state \in Targets \cup Latched :
              /\ LatchHonest(RecordObserved(s, state, i))
              /\ state \in Latched \/ s.latch # None => RecordObserved(s, state, i).latch # None
         /\ \A t \in Tasks, began \in BOOLEAN, outcome \in {"aborted", "success", "failed"} :
              /\ LatchHonest(RecordFinish(s, t, i, outcome, began))
              /\ outcome # "success" /\ s.latch # None =>
                   RecordFinish(s, t, i, outcome, began).latch # None
<1>0. SettledOf(s).input \in Inputs
  BY ResolverTypes DEF StateInput
<1>1. \A state \in Latched, c \in Inputs : [state |-> state, input |-> c] # None
  <2>1. \A state \in Latched, c \in Inputs : [state |-> state, input |-> c] \in StateInput
    BY DEF StateInput, States, Latched
  <2>2. QED
    BY <2>1, NoneAssumption
<1>2. ASSUME NEW state \in Targets \cup Latched
      PROVE  /\ LatchHonest(RecordObserved(s, state, i))
             /\ state \in Latched \/ s.latch # None => RecordObserved(s, state, i).latch # None
  <2>1. CASE state \in Latched
    <3>1. RecordObserved(s, state, i).latch = [state |-> state, input |-> SettledOf(s).input]
      BY <2>1 DEF RecordObserved, Resolvers
    <3>2. QED
      BY <1>0, <1>1, <2>1, <3>1 DEF LatchHonest
  <2>2. CASE state \notin Latched
    <3>1. RecordObserved(s, state, i).latch = s.latch
      BY <2>2 DEF RecordObserved, Resolvers
    <3>2. QED
      BY <2>2, <3>1 DEF LatchHonest
  <2>3. QED
    BY <2>1, <2>2
<1>3. ASSUME NEW t \in Tasks, NEW began \in BOOLEAN, NEW outcome \in {"aborted", "success", "failed"}
      PROVE  /\ LatchHonest(RecordFinish(s, t, i, outcome, began))
             /\ outcome # "success" /\ s.latch # None =>
                  RecordFinish(s, t, i, outcome, began).latch # None
  <2> DEFINE context == IF TargetOf(t) = None THEN SettledOf(s).input ELSE i
             after == RecordFinish(s, t, i, outcome, began)
  <2>1. context \in Inputs
    BY <1>0
  <2>2. CASE outcome = "success"
    <3>1. after = RecordSuccess(s, t, i)
      BY <2>2 DEF RecordFinish
    <3>2. after.latch = None
      BY <3>1 DEF RecordSuccess, Resolvers
    <3>3. QED
      BY <2>2, <3>2 DEF LatchHonest
  <2>3. CASE outcome = "aborted" /\ ~began
    <3>1. after = s
      BY <2>3 DEF RecordFinish
    <3>2. QED
      BY <3>1
  <2>4. CASE (outcome = "aborted" /\ began) \/ outcome = "failed"
    <3>1. after.latch = [state |-> "UNKNOWN", input |-> context] \/
          after.latch = [state |-> "ERROR", input |-> context]
      BY <2>4 DEF RecordFinish, Resolvers
    <3> HIDE DEF after
    <3>2. after.latch # None /\ after.latch.state \in Latched
      BY <1>1, <2>1, <3>1 DEF Latched
    <3>3. QED
      BY <3>2 DEF LatchHonest, after
  <2>5. QED
    BY <2>2, <2>3, <2>4
<1>4. QED
  BY <1>2, <1>3

LEMMA RestingCurrent ==
  ASSUME NEW s \in Resolvers, LatchHonest(s), s.latch # None
  PROVE  AtRest(s).current \notin Targets
<1>1. SettledOf(s) = s.latch
  BY DEF SettledOf
<1>2. QED
  BY <1>1 DEF AtRest, LatchHonest

LEMMA LatchesKeeps ==
  ASSUME TypeOK, TurnInv, Queued, Resting, Latches, UNCHANGED <<states, interrupted>>,
         freshLatch' => freshLatch, up' => up,
         Unpublished \/ Opening \/ Emitting \/ Closes \/ Failing
  PROVE  Latches'
<1>1. update # None => up
  BY DEF Resting
<1>2. update = None => Coming = memory
  BY DEF Coming
<1>3. interrupted => Unsure(kv'.operating)
  BY <1>1, SilentEffect, EmitEffect, AdmitFailsEffect
  DEF Latches, Unpublished, Silent, Opening, Opens, Emitting, Closes, Failing
<1>4. interrupted /\ up => /\ Unsure(memory'.operating) /\ Unsure(Coming'.operating)
                           /\ update' # None => Unsure(update'.prior)
  <2>1. CASE Unpublished
    BY <2>1, SilentEffect DEF Unpublished, Silent, Latches
  <2>2. CASE Opening
    BY <2>2 DEF Opening, Opens, Latches
  <2>3. CASE Emitting
    BY <2>3, EmitEffect DEF Emitting, Latches
  <2>4. CASE Closes
    BY <2>4 DEF Closes, Latches
  <2>5. CASE Failing
    BY <2>5, AdmitFailsEffect DEF Failing, Latches
  <2>6. QED
    BY <2>1, <2>2, <2>3, <2>4, <2>5
<1>5. QED
  BY <1>3, <1>4 DEF Latches, Unsure

\* A step that publishes view v settles no interrupted work by it.
LEMMA LatchesChange ==
  ASSUME TypeOK, Queued, Latches, up, update = None, NEW v \in Views,
         LatchHonest(states'), freshLatch' => states'.latch # None,
         interrupted' => interrupted /\ states'.latch # None /\ v.current \notin Targets,
         \/ Silent
         \/ \E by, r, ex : Opens(by, r, Turned(memory.operating, v), ex)
  PROVE  Latches'
<1>1. Coming = memory
  BY DEF Coming
<1>2. interrupted => Unsure(kv.operating) /\ Unsure(memory.operating)
  BY DEF Latches
<1>3. CASE Silent
  BY <1>1, <1>2, <1>3, SilentEffect DEF Silent, Latches, Unsure, LatchHonest
<1>4. ASSUME NEW by, NEW r, NEW ex, Opens(by, r, Turned(memory.operating, v), ex)
      PROVE  Latches'
  <2>1. interrupted' => Unsure(Turned(memory.operating, v))
    BY <1>2, ComingType, TurnedFacts
  <2>2. /\ Coming'.operating = Turned(memory.operating, v) /\ memory' = memory /\ kv' = kv
        /\ update'.prior = memory.operating
    BY <1>4 DEF Opens
  <2>3. QED
    BY <1>2, <2>1, <2>2 DEF Latches, Unsure, LatchHonest
<1>5. QED
  BY <1>3, <1>4

LEMMA LatchesFinish ==
  ASSUME TypeOK, TurnInv, Queued, Latches, NEW r \in Runs, BeginFinish(r)
  PROVE  Latches'
<1>1. /\ up /\ update = None /\ ~freshLatch' /\ states' = SettledStates(r)
      /\ interrupted' = (interrupted /\ ~(Lifecycle(task[r]) /\ SettledOutcome(r) = "success"))
  BY DEF BeginFinish, Free
<1>2. /\ states \in Resolvers /\ LatchHonest(states) /\ task[r] \in Tasks /\ input[r] \in Inputs
      /\ started[r] \in BOOLEAN /\ SettledOutcome(r) \in {"aborted", "success", "failed"}
  BY DEF TypeOK, Latches, LatchHonest, SettledOutcome
<1>3. LatchHonest(SettledStates(r)) /\ SettledStates(r) \in Resolvers
  BY <1>2, LatchRecords, ResolverTypes DEF SettledStates
<1>4. interrupted' => interrupted /\ SettledStates(r).latch # None
  <2>1. interrupted /\ up => states.latch # None
    BY DEF Latches
  <2>2. QED
    BY <1>1, <1>2, <2>1, LatchRecords DEF SettledStates
<1>5. interrupted' => FinishView(r).current \notin Targets
  <2>1. interrupted' => AtRest(SettledStates(r)).current \notin Targets
    BY <1>3, <1>4, RestingCurrent
  <2>2. \A s, t, i : InTransition(s, t, i).current = "TRANSITION"
    BY ShownCases
  <2>3. QED
    BY <2>1, <2>2 DEF FinishView, Derived
<1>6. /\ FinishView(r) \in Views
      /\ \/ Silent
         \/ \E by, s, ex : Opens(by, s, Turned(memory.operating, FinishView(r)), ex)
  BY FinishEffect
<1>7. QED
  BY <1>1, <1>3, <1>4, <1>5, <1>6, LatchesChange

LEMMA LatchesReport ==
  ASSUME TypeOK, TurnInv, Queued, Latches, NEW state \in Targets \cup Latched, NEW i \in Inputs,
         Report(state, i)
  PROVE  Latches'
<1> DEFINE next == RecordObserved(states, state, i)
           v == Derived(next, execution, IF execution = NoRun THEN "none" ELSE pc[execution])
<1>1. /\ up /\ update = None /\ states' = next /\ interrupted' = interrupted
      /\ freshLatch' => freshLatch \/ state \in Latched
  BY DEF Report, Free
<1>2. states \in Resolvers /\ LatchHonest(states)
  BY DEF TypeOK, Latches, LatchHonest
<1>3. /\ LatchHonest(next) /\ next \in Resolvers
      /\ state \in Latched \/ states.latch # None => next.latch # None
  BY <1>2, LatchRecords, ResolverTypes
<1>4. freshLatch \/ interrupted => states.latch # None
  BY <1>1 DEF Latches
<1>5. interrupted' => v.current \notin Targets
  <2>1. interrupted' => AtRest(next).current \notin Targets
    BY <1>1, <1>3, <1>4, RestingCurrent
  <2>2. \A s, t, j : InTransition(s, t, j).current = "TRANSITION"
    BY ShownCases
  <2>3. QED
    BY <2>1, <2>2 DEF Derived
<1>6. v \in Views /\ (Silent \/ \E by, s, ex : Opens(by, s, Turned(memory.operating, v), ex))
  BY ReportEffect
<1> HIDE DEF next, v
<1>7. QED
  BY <1>1, <1>3, <1>4, <1>5, <1>6, LatchesChange

LEMMA LatchesCrash ==
  ASSUME TypeOK, TurnInv, Resting, NewestTransition, Rotations, Fitting, Transitions, Latches, Crash
  PROVE  Latches'
<1>1. /\ up /\ ~up' /\ kv' = kv /\ ~freshLatch' /\ states' = NewResolver(EmptyInput, FALSE)
      /\ interrupted' => interrupted \/ \E r \in Runs : Live(r) /\ Unsettled(r)
  BY DEF Crash
<1>2. states'.latch = None
  BY <1>1 DEF NewResolver
<1>3. ASSUME NEW r \in Runs, Live(r), Unsettled(r) PROVE Unsure(kv.operating)
  <2>1. Transition(execution)
    BY <1>3 DEF NewestTransition, Transition, Unsettled
  <2>2. kv.operating.current = "TRANSITION"
    <3>1. CASE By({"admit", "restore"})
      <4>1. Fits(update.prior)
        BY <1>1, <3>1 DEF Fitting
      <4>2. update.prior.current = "TRANSITION"
        BY <2>1, <4>1, ShownCases DEF Fits, View
      <4>3. QED
        BY <1>1, <3>1, <4>2 DEF Transitions, PublishedTransition
    <3>2. CASE ~By({"admit", "restore"})
      <4>1. memory.operating.current = "TRANSITION"
        BY <1>1, <2>1 DEF Transitions
      <4>2. ~By({"startup"})
        BY <2>1 DEF Resting, Transition, Live
      <4>3. QED
        BY <1>1, <3>2, <4>1, <4>2 DEF Transitions, PublishedTransition
    <3>3. QED
      BY <3>1, <3>2
  <2>3. kv.operating.previous
    BY <2>2 DEF Rotations, Rotated
  <2>4. QED
    BY <2>2, <2>3 DEF Unsure
<1>4. interrupted' => Unsure(kv.operating)
  BY <1>1, <1>3 DEF Latches
<1>5. QED
  BY <1>1, <1>2, <1>4 DEF Latches, Unsure

LEMMA LatchesRestart ==
  ASSUME TypeOK, Resting, Latches, Restart
  PROVE  Latches'
<1> DEFINE v == [current |-> "UNKNOWN", target |-> None, input |-> kv.operating.input]
<1>1. /\ kv' = kv /\ memory' = kv /\ interrupted' = interrupted /\ freshLatch' = freshLatch
      /\ states' = NewResolver(kv.operating.input, RecoverLatched(kv.operating)) /\ ~up
  BY DEF Restart
<1>2. ~freshLatch'
  BY <1>1 DEF Resting
<1>3. kv.operating \in Operating /\ v \in Views /\ kv.operating.input \in Inputs
  BY DEF TypeOK, Memories, Operating, Views, States, Latched
<1>4. LatchHonest(states')
  BY <1>1 DEF LatchHonest, NewResolver, Latched
<1>5. interrupted => states'.latch # None
  <2>1. interrupted => RecoverLatched(kv.operating)
    BY DEF Latches, Unsure, RecoverLatched
  <2>2. [state |-> "UNKNOWN", input |-> kv.operating.input] # None
    <3>1. [state |-> "UNKNOWN", input |-> kv.operating.input] \in StateInput
      BY <1>3 DEF StateInput, States, Latched
    <3>2. QED
      BY <3>1, NoneAssumption
  <2>3. QED
    BY <1>1, <2>1, <2>2 DEF NewResolver
<1>6. interrupted => Unsure(kv.operating) /\ Unsure(Turned(kv.operating, v))
  BY <1>3, TurnedFacts DEF Latches, Latched
<1> HIDE DEF v
<1>7. /\ Coming'.operating = kv.operating \/ Coming'.operating = Turned(kv.operating, v)
      /\ update' # None => update'.prior = kv.operating
  BY RestartEffect DEF v
<1>8. QED
  BY <1>1, <1>2, <1>4, <1>5, <1>6, <1>7 DEF Latches, LatchHonest, Unsure

LEMMA LatchesKept ==
  ASSUME TypeOK, TurnInv, Queued, Resting, NewestTransition, Rotations, Fitting, Transitions,
         Latches, [Next]_vars
  PROVE  Latches'
<1>1. CASE Unpublished \/ Opening \/ Emitting \/ Closing \/ Failing
  BY <1>1, LatchesKeeps DEF Unpublished, Opening, Emitting, Closing, Failing, Keeps
<1>2. CASE Admit
  <2>1. Closes
    BY <1>2, FittingAdmitted
  <2>2. UNCHANGED <<states, interrupted, freshLatch, up>>
    BY <1>2 DEF Admit
  <2>3. QED
    BY <2>1, <2>2, LatchesKeeps
<1>3. ASSUME NEW t \in Tasks, NEW i \in Inputs, NEW interrupt \in BOOLEAN,
             BeginAdmit(t, i, interrupt)
      PROVE  Latches'
  <2> DEFINE v == InTransition(states, t, i)
  <2>1. up /\ update = None /\ UNCHANGED <<freshLatch, interrupted, states>>
    BY <1>3, AdmitStamps
  <2>2. v \in Views /\ v.current \notin Targets
    BY ViewTypes, ShownCases DEF TypeOK
  <2>3. /\ LatchHonest(states') /\ (freshLatch' => states'.latch # None)
        /\ interrupted' => interrupted /\ states'.latch # None
    BY <2>1 DEF Latches, LatchHonest
  <2>4. Silent \/ \E by, r, ex : Opens(by, r, Turned(memory.operating, v), ex)
    BY <1>3, AdmitEffect
  <2> HIDE DEF v
  <2>5. QED
    BY <2>1, <2>2, <2>3, <2>4, LatchesChange
<1>4. QED
  BY <1>1, <1>2, <1>3, Kinds, LatchesFinish, LatchesReport, LatchesCrash, LatchesRestart

-----------------------------------------------------------------------------
(* Executes is kept.                                                       *)

\* Steps that start no run and end no work.
Unstarted == {"none"} \cup Waiting
Steady ==
  \A r \in Runs :
    /\ pc'[r] \in Unstarted => pc[r] \in Unstarted
    /\ pc'[r] = "starting" => pc[r] \in {"starting"} \cup Unstarted
    /\ started[r] => started'[r]
    /\ pc'[r] \in {"starting", "handler", "confirming"} => started'[r]
    /\ pc[r] \in Working => pc'[r] \in Working
    /\ Handling(r)' => Handling(r)

Begun == \A r \in Runs : pc[r] \in {"starting", "handler", "confirming"} => started[r]

LEMMA SteadySame ==
  ASSUME Begun, UNCHANGED <<pc, started>>
  PROVE  Steady
  BY DEF Begun, Steady, Handling

LEMMA SteadyInstall ==
  ASSUME TypeOK, Begun, NEW n \in Runs, pc[n] = "none", Install(n), UNCHANGED started
  PROVE  Steady
  BY DEF Begun, Steady, Handling, Install, TypeOK, Unstarted, Waiting, Working

LEMMA SteadyRuns ==
  ASSUME TypeOK, Begun, NEW r \in Runs, RunStep(r), ~BeginFinish(r)
  PROVE  Steady
<1> USE DEF TypeOK, Begun, Steady, Goto, Unstarted, Waiting, Working, Handling
<1>1. ASSUME NEW q, pc' = [pc EXCEPT ![r] = q], pc[r] \in Waiting,
             \/ q = "interrupting" /\ started' = started
             \/ q = "settling" /\ started' = started
             \/ q = "starting" /\ started' = [started EXCEPT ![r] = TRUE]
      PROVE  Steady
  BY <1>1
<1>2. ASSUME NEW q, pc' = [pc EXCEPT ![r] = q], started' = started,
             \/ pc[r] \in {"starting", "handler", "confirming"} /\ q = "settling"
             \/ pc[r] = "handler" /\ q = "confirming"
             \/ pc[r] = "ending" /\ q = "done"
      PROVE  Steady
  BY <1>2
<1>3. CASE FirstStep(r)
  <2>1. pc[r] \in Waiting /\ (Execute(r) \/ (Goto(r, "interrupting") /\ started' = started))
    BY <1>3 DEF FirstStep
  <2>2. QED
    BY <1>1, <2>1 DEF Execute
<1>4. CASE JoinPredecessor(r)
  <2>1. pc[r] \in Waiting /\ (Execute(r) \/ (Goto(r, "settling") /\ started' = started))
    BY <1>4 DEF JoinPredecessor
  <2>2. QED
    BY <1>1, <2>1 DEF Execute
<1>5. CASE BeginStart(r) \/ HandlerSwallows(r) \/ BeginUpdateContext(r)
  <2>1. UNCHANGED <<pc, started>>
    BY <1>5 DEF BeginStart, HandlerSwallows, BeginUpdateContext
  <2>2. QED
    BY <2>1, SteadySame
<1>6. CASE CanceledBeforeStart(r) \/ HandlerFails(r) \/ HandlerCanceled(r)
           \/ ConfirmTimesOut(r) \/ ConfirmCanceled(r)
  <2>1. /\ pc' = [pc EXCEPT ![r] = "settling"] /\ started' = started
        /\ pc[r] \in {"starting", "handler", "confirming"}
    BY <1>6 DEF CanceledBeforeStart, HandlerFails, HandlerCanceled, ConfirmTimesOut,
         ConfirmCanceled, InHandler
  <2>2. QED
    BY <1>2, <2>1
<1>7. CASE HandlerReturns(r)
  <2>1. /\ started' = started /\ pc[r] = "handler"
        /\ \E q \in {"settling", "confirming"} : pc' = [pc EXCEPT ![r] = q]
    BY <1>7 DEF HandlerReturns, InHandler
  <2>2. QED
    BY <1>2, <2>1
<1>8. CASE ConfirmWakes(r)
  <2>1. /\ started' = started /\ pc[r] = "confirming"
        /\ pc' = pc \/ pc' = [pc EXCEPT ![r] = "settling"]
    BY <1>8 DEF ConfirmWakes
  <2>2. QED
    BY <1>2, <2>1, SteadySame
<1>9. CASE RunEnds(r)
  <2>1. started' = started /\ pc[r] = "ending" /\ pc' = [pc EXCEPT ![r] = "done"]
    BY <1>9 DEF RunEnds
  <2>2. QED
    BY <1>2, <2>1
<1>10. QED
  BY <1>3, <1>4, <1>5, <1>6, <1>7, <1>8, <1>9 DEF RunStep

LEMMA ExecutesSteady ==
  ASSUME TypeOK, Queued, Executes, Steady, Silent
  PROVE  Executes'
<1>1. memory' = memory /\ Coming' = Coming /\ kv' = kv /\ up' = up /\ update' = update
  BY SilentEffect DEF Silent
<1>2. ASSUME NEW m, Fresh(m)
      PROVE  \A r \in Runs : m.execution.run = r =>
               /\ pc'[r] \notin Unstarted
               /\ pc'[r] = "starting" => By({"start"}) /\ update.run = r
  BY <1>2 DEF Fresh, Steady, Unstarted
<1>3. ASSUME NEW m, Owned(m)
      PROVE  /\ Active(m) => /\ m.execution.run \in Runs
                             /\ started'[m.execution.run] /\ pc'[m.execution.run] \in Working
             /\ \A r \in Runs : Handling(r)' => m.execution.run = r /\ Active(m)
  BY <1>3 DEF Owned, Steady
<1>4. Fresh(memory)' /\ Fresh(Coming)'
  BY <1>1, <1>2 DEF Executes, Fresh, By, Unstarted
<1>5. up' => /\ Owned(Coming)' /\ (~By({"startup"})' => Owned(memory)')
             /\ By({"start"})' => Coming'.execution = [status |-> "executing", run |-> update'.run]
             /\ By({"finish"})' => ~Active(Coming')
  BY <1>1, <1>3 DEF Executes, Owned, By, Active
<1>6. (\A r \in Runs : pc[r] \in Unstarted => kv.execution.run # r)'
  BY <1>1 DEF Executes, Steady, Unstarted
<1>7. Follows(memory.execution, Coming.execution)'
  BY <1>1 DEF Executes, Follows
<1>8. QED
  BY <1>4, <1>5, <1>6, <1>7 DEF Executes, Steady, Unstarted, Active

\* At most one run is past joining its predecessor.
LEMMA OneWorks ==
  ASSUME TypeOK, TurnInv, NEW r \in Runs, NEW s \in Runs,
         Live(r), pc[r] \notin Waiting, Live(s), pc[s] \notin Waiting
  PROVE  r = s
<1>1. ~(r < s) /\ ~(s < r)
  BY DEF TurnInv, Chain, Entered, Live
<1>2. QED
  BY <1>1

LEMMA ExecutesOpens ==
  ASSUME TypeOK, Executes, UNCHANGED <<pc, started>>,
         NEW by \in {"admit", "context", "abort", "report", "enable"}, NEW r, NEW op, NEW ex,
         Opens(by, r, op, ex),
         \/ ex = memory.execution
         \/ Active(memory) /\ ex = [status |-> "aborting", run |-> memory.execution.run]
  PROVE  Executes'
<1>1. /\ memory' = memory /\ kv' = kv /\ up /\ up' /\ update = None /\ Coming'.execution = ex
      /\ update'.by = by /\ Coming = memory
      /\ ~By({"start"}) /\ ~By({"startup"}) /\ ~By({"start"})' /\ ~By({"startup"})' /\ ~By({"finish"})'
  BY DEF Opens, By, Coming
<1>2. ex.run = memory.execution.run /\ (ex.status \in {"executing", "aborting"} <=> Active(memory))
  BY DEF Active
<1>3. Follows(memory.execution, ex)
  BY DEF Follows, Active
<1>4. Fresh(memory) /\ Owned(memory)
  BY <1>1 DEF Executes
<1>5. Fresh(memory)' /\ Fresh(Coming)'
  BY <1>1, <1>2, <1>4 DEF Fresh
<1>6. Owned(memory)' /\ Owned(Coming)'
  BY <1>1, <1>2, <1>4 DEF Owned, Active, Handling
<1>7. Follows(memory.execution, Coming.execution)'
  BY <1>1, <1>3
<1>8. QED
  BY <1>1, <1>5, <1>6, <1>7 DEF Executes

LEMMA ExecutesStart ==
  ASSUME TypeOK, TurnInv, Executes, UNCHANGED <<pc, started>>, NEW r \in Runs, pc[r] = "starting",
         NEW op, Opens("start", r, op, [status |-> "executing", run |-> r])
  PROVE  Executes'
<1>1. /\ memory' = memory /\ kv' = kv /\ up /\ up' /\ update = None /\ Coming = memory
      /\ Coming'.execution = [status |-> "executing", run |-> r]
      /\ update'.by = "start" /\ update'.run = r /\ By({"start"})' /\ ~By({"finish"})'
      /\ ~By({"start"}) /\ ~By({"startup"}) /\ ~By({"startup"})'
  BY DEF Opens, By, Coming
<1>2. Fresh(memory) /\ Owned(memory) /\ memory.execution.run # r
  BY <1>1 DEF Executes, Fresh
<1>3. started[r] /\ pc[r] \in Working /\ pc[r] \notin Unstarted
  BY DEF Executes, Working, Unstarted, Waiting
<1>4. \A s \in Runs : ~Handling(s)
  <2> SUFFICES ASSUME NEW s \in Runs, Handling(s) PROVE FALSE
    OBVIOUS
  <2>1. Live(s) /\ pc[s] \notin Waiting /\ Live(r) /\ pc[r] \notin Waiting
    BY DEF Handling, Live, Waiting
  <2>2. s = r
    BY <2>1, OneWorks
  <2>3. QED
    BY <2>2 DEF Handling
<1>5. Fresh(memory)' /\ Fresh(Coming)'
  BY <1>1, <1>2, <1>3 DEF Fresh, Unstarted
<1>6. Owned(memory)' /\ Owned(Coming)'
  BY <1>1, <1>2, <1>3, <1>4 DEF Owned, Active, Handling
<1>7. Follows(memory.execution, Coming.execution)'
  BY <1>1, <1>2 DEF Follows
<1>8. QED
  BY <1>1, <1>5, <1>6, <1>7 DEF Executes

LEMMA ExecutesEmit ==
  ASSUME TypeOK, Queued, Executes, EmitEvent
  PROVE  Executes'
<1>1. /\ Coming' = Coming /\ memory'.execution = Coming.execution /\ kv' = kv /\ up' = up
      /\ update # None /\ update' # None /\ update'.by = update.by /\ update'.run = update.run
      /\ UNCHANGED <<pc, started>>
  BY EmitEffect DEF EmitEvent, runVars
<1>2. By({"start"})' = By({"start"}) /\ By({"startup"})' = By({"startup"})
      /\ By({"finish"})' = By({"finish"})
  BY <1>1 DEF By
<1>3. Fresh(memory)' /\ Fresh(Coming)'
  BY <1>1, <1>2 DEF Executes, Fresh
<1>4. up => Owned(memory)' /\ Owned(Coming)'
  BY <1>1 DEF Executes, Owned, Active, Handling
<1>5. Follows(memory.execution, Coming.execution)'
  BY <1>1 DEF Follows
<1>6. QED
  BY <1>1, <1>2, <1>3, <1>4, <1>5 DEF Executes, Active

\* The update ends where it leaves the runs alone.
LEMMA ExecutesClose ==
  ASSUME TypeOK, Executes, Steady, Closes, up' => up, ~By({"start"}), ~By({"finish"})
  PROVE  Executes'
<1>1. /\ update' = None /\ Coming' = memory' /\ memory'.execution = Coming.execution
      /\ ~By({"start"})' /\ ~By({"finish"})'
      /\ kv' = kv \/ (kv' = memory /\ memory = Coming)
  BY DEF Closes, By
<1>2. \A s \in Runs : Coming.execution.run = s =>
        pc'[s] \notin Unstarted /\ pc'[s] # "starting"
  BY DEF Executes, Fresh, Steady, Unstarted
<1>3. Fresh(memory)' /\ Fresh(Coming)'
  BY <1>1, <1>2 DEF Fresh, Unstarted
<1>4. up => Owned(memory)' /\ Owned(Coming)'
  BY <1>1 DEF Executes, Owned, Active, Steady
<1>5. (\A s \in Runs : pc[s] \in Unstarted => kv.execution.run # s)'
  BY <1>1, <1>2 DEF Executes, Steady, Unstarted
<1>6. Follows(memory.execution, Coming.execution)'
  BY <1>1 DEF Follows
<1>7. QED
  BY <1>1, <1>3, <1>4, <1>5, <1>6 DEF Executes, Steady, Unstarted

\* A start is published: its run goes on, or is settled.
LEMMA ExecutesStarted ==
  ASSUME TypeOK, TurnInv, Queued, Executes, Start
  PROVE  Executes'
<1> DEFINE r == update.run
<1>1. /\ update # None /\ update' = None /\ up /\ up' /\ UNCHANGED <<started>>
      /\ By({"start"}) /\ ~By({"startup"}) /\ r \in Runs /\ pc[r] = "starting"
      /\ ~By({"start"})' /\ ~By({"finish"})'
  BY DEF Start, Holds, By, TurnInv, UpdateStage
<1>2. PICK q \in {"settling", "handler"} : pc' = [pc EXCEPT ![r] = q]
  BY DEF Start, Goto
<1>3. Closes
  BY <1>1, CloseEffect DEF Start
<1>4. Coming.execution = [status |-> "executing", run |-> r]
  BY <1>1 DEF Executes
<1>5. /\ memory'.execution = [status |-> "executing", run |-> r] /\ Coming' = memory'
      /\ kv' = kv \/ (kv' = memory /\ memory = Coming)
  BY <1>3, <1>4 DEF Closes
<1> HIDE DEF r
<1>6. started[r]
  BY <1>1 DEF Executes
<1>7. /\ pc'[r] \in {"settling", "handler"}
      /\ \A s \in Runs : s # r => pc'[s] = pc[s] /\ ~Handling(s)'
  <2>1. pc'[r] = q /\ \A s \in Runs : s # r => pc'[s] = pc[s]
    BY <1>1, <1>2 DEF TypeOK
  <2>2. ASSUME NEW s \in Runs, s # r, Handling(s) PROVE FALSE
    <3>1. Live(s) /\ pc[s] \notin Waiting /\ Live(r) /\ pc[r] \notin Waiting
      BY <1>1, <2>2 DEF Handling, Live, Waiting
    <3>2. QED
      BY <1>1, <2>2, <3>1, OneWorks
  <2>3. QED
    BY <2>1, <2>2 DEF Handling
<1>8. Fresh(memory)' /\ Fresh(Coming)'
  BY <1>5, <1>7 DEF Fresh, Waiting
<1>9. Owned(memory)' /\ Owned(Coming)'
  BY <1>1, <1>5, <1>6, <1>7 DEF Owned, Active, Working
<1>10. (\A s \in Runs : pc[s] \in {"none"} \cup Waiting => kv.execution.run # s)'
  BY <1>4, <1>5, <1>7 DEF Executes, Waiting
<1>11. Follows(memory.execution, Coming.execution)'
  BY <1>5 DEF Follows
<1>12. (\A s \in Runs : pc[s] \in {"starting", "handler", "confirming"} => started[s])'
  BY <1>1, <1>6, <1>7 DEF Executes
<1>13. QED
  BY <1>1, <1>8, <1>9, <1>10, <1>11, <1>12 DEF Executes

\* A finish is published: nothing is at work any more.
LEMMA ExecutesFinished ==
  ASSUME TypeOK, TurnInv, Queued, Executes, PublishFinish
  PROVE  Executes'
<1> DEFINE r == update.run
<1>1. /\ update # None /\ update' = None /\ up /\ up' /\ UNCHANGED <<started>>
      /\ By({"finish"}) /\ ~By({"start"}) /\ ~By({"startup"}) /\ r \in Runs /\ pc[r] = "publishing"
      /\ ~By({"start"})' /\ ~By({"finish"})' /\ pc' = [pc EXCEPT ![r] = "ending"]
  BY DEF PublishFinish, Holds, By, TurnInv, UpdateStage, Goto
<1>2. Closes
  BY <1>1, CloseEffect DEF PublishFinish
<1>3. ~Active(Coming)
  BY <1>1 DEF Executes
<1>4. /\ memory'.execution = Coming.execution /\ Coming' = memory'
      /\ kv' = kv \/ (kv' = memory /\ memory = Coming)
  BY <1>2 DEF Closes
<1> HIDE DEF r
<1>5. /\ pc'[r] = "ending" /\ \A s \in Runs : s # r => pc'[s] = pc[s]
  BY <1>1 DEF TypeOK
<1>6. \A s \in Runs : ~Handling(s)'
  <2>1. Owned(Coming)
    BY <1>1 DEF Executes
  <2>2. QED
    BY <1>3, <1>5, <2>1 DEF Owned, Handling
<1>7. Fresh(memory)' /\ Fresh(Coming)'
  BY <1>1, <1>4, <1>5 DEF Executes, Fresh, Waiting, By
<1>8. Owned(memory)' /\ Owned(Coming)'
  BY <1>3, <1>4, <1>6 DEF Owned, Active
<1>9. (\A s \in Runs : pc[s] \in {"none"} \cup Waiting => kv.execution.run # s)'
  BY <1>4, <1>5 DEF Executes, Fresh, Waiting
<1>10. Follows(memory.execution, Coming.execution)'
  BY <1>4 DEF Follows
<1>11. (\A s \in Runs : pc[s] \in {"starting", "handler", "confirming"} => started[s])'
  BY <1>1, <1>5 DEF Executes
<1>12. QED
  BY <1>1, <1>7, <1>8, <1>9, <1>10, <1>11 DEF Executes

LEMMA ExecutesFinish ==
  ASSUME TypeOK, TurnInv, Queued, Executes, NEW r \in Runs, BeginFinish(r)
  PROVE  Executes'
<1>1. /\ up /\ update = None /\ pc[r] = "settling" /\ UNCHANGED <<memory, kv, stream, up, started>>
      /\ Coming = memory /\ ~By({"startup"}) /\ ~By({"start"})
  BY DEF BeginFinish, Free, Coming, By
<1>2. PICK q \in {"publishing", "ending"} : pc' = [pc EXCEPT ![r] = q]
  BY DEF BeginFinish, Goto
<1>3. /\ pc'[r] = q /\ \A s \in Runs : s # r => pc'[s] = pc[s]
  BY <1>2 DEF TypeOK
<1>4. Owned(memory) /\ Fresh(memory)
  BY <1>1 DEF Executes
<1>5. Active(memory) => memory.execution.run = r /\ started[r]
  <2> SUFFICES ASSUME Active(memory) PROVE memory.execution.run = r /\ started[r]
    OBVIOUS
  <2>1. /\ memory.execution.run \in Runs /\ started[memory.execution.run]
        /\ pc[memory.execution.run] \in Working
    BY <1>4 DEF Owned
  <2>2. /\ Live(memory.execution.run) /\ pc[memory.execution.run] \notin Waiting
        /\ Live(r) /\ pc[r] \notin Waiting
    BY <1>1, <2>1 DEF Live, Waiting, Working
  <2>3. QED
    BY <2>1, <2>2, OneWorks
<1>6. \A s \in Runs : ~Handling(s) /\ ~Handling(s)'
  <2> SUFFICES ASSUME NEW s \in Runs, Handling(s) \/ Handling(s)' PROVE FALSE
    OBVIOUS
  <2>1. s # r /\ Handling(s)
    BY <1>1, <1>3 DEF Handling
  <2>2. Live(s) /\ pc[s] \notin Waiting /\ Live(r) /\ pc[r] \notin Waiting
    BY <1>1, <2>1 DEF Handling, Live, Waiting
  <2>3. QED
    BY <2>1, <2>2, OneWorks
<1>7. \/ /\ Coming' = memory /\ update' = None /\ ~Active(memory)
      \/ /\ update' # None /\ update'.by = "finish" /\ q = "publishing"
         /\ Coming'.execution = IF started[r] THEN [status |-> "finished", run |-> r]
                                ELSE memory.execution
  <2>1. CASE Silent
    <3>1. Coming' = memory /\ update' = None /\ (~started[r])
      <4>1. Coming' = Coming /\ update' = None
        BY <1>1, <2>1, SilentEffect DEF Silent
      <4>2. ~started[r]
        BY <1>1, <2>1, FinishEffect DEF Opens, Silent
      <4>3. QED
        BY <1>1, <4>1, <4>2
    <3>2. QED
      BY <1>5, <3>1
  <2>2. CASE ~Silent
    <3>1. Goto(r, "publishing")
          /\ Opens("finish", r, Turned(memory.operating, FinishView(r)),
                   IF started[r] THEN [status |-> "finished", run |-> r] ELSE memory.execution)
      BY <2>2, FinishEffect
    <3>2. q = "publishing"
      BY <1>3, <3>1 DEF Goto, TypeOK
    <3>3. QED
      BY <3>1, <3>2 DEF Opens
  <2>3. QED
    BY <2>1, <2>2
<1>8. ~Active(Coming)'
  BY <1>5, <1>7 DEF Active
<1>9. ~By({"start"})' /\ ~By({"startup"})'
  BY <1>7 DEF By
<1>10. Coming'.execution \in {memory.execution, [status |-> "finished", run |-> r]}
  BY <1>7
<1>11. Fresh(memory)' /\ Fresh(Coming)'
  <2>1. \A s \in Runs : memory.execution.run = s =>
          pc'[s] \notin {"none"} \cup Waiting /\ pc'[s] # "starting"
    BY <1>1, <1>3, <1>4 DEF Fresh, Waiting
  <2>2. pc'[r] \notin {"none"} \cup Waiting /\ pc'[r] # "starting"
    BY <1>3 DEF Waiting
  <2>3. QED
    BY <1>1, <1>10, <2>1, <2>2 DEF Fresh
<1>12. Owned(Coming)'
  BY <1>6, <1>8 DEF Owned, Active
<1>13. Owned(memory)'
  <2>1. Active(memory) => q = "publishing"
    BY <1>7
  <2>2. QED
    BY <1>1, <1>3, <1>5, <1>6, <2>1 DEF Owned, Active, Working
<1>14. (\A s \in Runs : pc[s] \in {"none"} \cup Waiting => kv.execution.run # s)'
  BY <1>1, <1>3 DEF Executes, Waiting
<1>15. Follows(memory.execution, Coming.execution)'
  BY <1>1, <1>10 DEF Follows
<1>16. (\A s \in Runs : pc[s] \in {"starting", "handler", "confirming"} => started[s])'
  BY <1>1, <1>3 DEF Executes
<1>17. QED
  BY <1>8, <1>9, <1>11, <1>12, <1>13, <1>14, <1>15, <1>16 DEF Executes

LEMMA ExecutesAdmit ==
  ASSUME TypeOK, TurnInv, Queued, Executes, NEW t \in Tasks, NEW i \in Inputs,
         NEW interrupt \in BOOLEAN, BeginAdmit(t, i, interrupt)
  PROVE  Executes'
<1> DEFINE n == admitted + 1
<1>1. n \in Runs
  <2>1. admitted < MaxRuns
    BY Zenon DEF BeginAdmit
  <2>2. admitted \in 0..MaxRuns
    BY DEF TypeOK
  <2>3. QED
    BY <2>1, <2>2
<1>2. started' = started
  BY Zenon DEF BeginAdmit
<1>3. pc[n] = "none"
  BY <1>1 DEF TurnInv, TypeOK
<1> HIDE DEF n
<1>4. \/ Silent /\ Install(n)
      \/ /\ Opens("admit", n, Turned(memory.operating, InTransition(states, t, i)), memory.execution)
         /\ UNCHANGED pc
  BY AdmitEffect DEF n
<1>5. Begun
  BY DEF Executes, Begun
<1>6. CASE Silent /\ Install(n)
  BY <1>1, <1>2, <1>3, <1>5, <1>6, SteadyInstall, ExecutesSteady
<1>7. CASE UNCHANGED pc /\ Opens("admit", n, Turned(memory.operating, InTransition(states, t, i)),
                                 memory.execution)
  BY <1>2, <1>7, ExecutesOpens
<1>8. QED
  BY <1>4, <1>6, <1>7

LEMMA ExecutesAdmitted ==
  ASSUME TypeOK, TurnInv, Queued, Executes, Admit
  PROVE  Executes'
<1>1. /\ update # None /\ update' = None /\ Stored /\ Install(update.run) /\ UNCHANGED <<started, up>>
      /\ By({"admit", "restore"}) /\ ~By({"start"}) /\ ~By({"finish"})
  BY DEF Admit, Holds, By
<1>2. update.run \in Runs /\ pc[update.run] = "none"
  BY <1>1, AdmittedRun
<1>3. Steady
  BY <1>1, <1>2, SteadyInstall DEF Executes, Begun
<1>4. Closes
  BY <1>1, CloseEffect
<1>5. QED
  BY <1>1, <1>3, <1>4, ExecutesClose

LEMMA ExecutesFails ==
  ASSUME TypeOK, Queued, Executes, AdmitFails
  PROVE  Executes'
<1>1. /\ update # None /\ update.by = "admit" /\ update' # None /\ update'.by = "restore"
      /\ Coming'.execution = memory'.execution /\ memory'.execution = memory.execution
      /\ kv' = kv \/ (kv' = memory /\ memory = Coming)
      /\ up' = up /\ UNCHANGED <<pc, started>>
  BY AdmitFailsEffect DEF AdmitFails, runVars
<1>2. /\ ~By({"start"}) /\ ~By({"startup"}) /\ ~By({"start"})' /\ ~By({"startup"})'
      /\ ~By({"finish"})'
  BY <1>1 DEF By
<1>3. Fresh(memory)' /\ Fresh(Coming)'
  BY <1>1, <1>2 DEF Executes, Fresh
<1>4. up => Owned(memory)' /\ Owned(Coming)'
  BY <1>1, <1>2 DEF Executes, Owned, Active, Handling
<1>5. (\A r \in Runs : pc[r] \in {"none"} \cup Waiting => kv.execution.run # r)'
  BY <1>1 DEF Executes, Fresh
<1>6. Follows(memory.execution, Coming.execution)'
  BY <1>1 DEF Follows
<1>7. QED
  BY <1>1, <1>2, <1>3, <1>4, <1>5, <1>6 DEF Executes

LEMMA ExecutesCrash ==
  ASSUME TypeOK, Executes, Crash
  PROVE  Executes'
<1>1. /\ ~up' /\ update' = None /\ memory' = InitialMemory /\ Coming' = memory' /\ kv' = kv
  BY DEF Crash, Coming
<1>2. \A r \in Runs : /\ pc'[r] \in {"none", "done"}
                      /\ pc'[r] = "none" => pc[r] = "none"
                      /\ r # NoRun
  BY DEF Crash
<1>3. memory'.execution.run = NoRun
  BY <1>1 DEF InitialMemory
<1>4. Fresh(memory)' /\ Fresh(Coming)'
  BY <1>1, <1>2, <1>3 DEF Fresh
<1>5. (\A r \in Runs : pc[r] \in {"none"} \cup Waiting => kv.execution.run # r)'
  BY <1>1, <1>2 DEF Executes, Waiting
<1>6. Follows(memory.execution, Coming.execution)'
  BY <1>1 DEF Follows
<1>7. QED
  BY <1>1, <1>2, <1>4, <1>5, <1>6 DEF Executes

LEMMA ExecutesRestart ==
  ASSUME TypeOK, Resting, Executes, Restart
  PROVE  Executes'
<1>1. /\ memory' = kv /\ kv' = kv /\ up' /\ UNCHANGED <<pc, started>>
      /\ \A r \in Runs : pc[r] \in {"none", "done"}
  BY RestartEffect DEF Restart, Resting, runVars
<1>2. /\ ~Active(Coming)' /\ Coming'.execution.run = kv.execution.run
      /\ Follows(kv.execution, Coming'.execution)
      /\ By({"startup"})' \/ Coming' = kv
      /\ ~By({"start"})'
  BY RestartEffect DEF By, Active, Follows
<1>3. Fresh(memory)' /\ Fresh(Coming)'
  BY <1>1, <1>2 DEF Executes, Fresh, Waiting
<1>4. \A r \in Runs : ~Handling(r)'
  BY <1>1 DEF Handling
<1>5. Owned(Coming)' /\ (~By({"startup"})' => Owned(memory)')
  BY <1>1, <1>2, <1>4 DEF Owned, Active
<1>6. QED
  BY <1>1, <1>2, <1>3, <1>5 DEF Executes

LEMMA ExecutesKept ==
  ASSUME TypeOK, TurnInv, Queued, Resting, Executes, [Next]_vars
  PROVE  Executes'
<1>0. Begun
  BY DEF Executes, Begun
<1>1. ASSUME NEW r \in Runs, RunStep(r) PROVE Executes'
  <2>1. CASE BeginFinish(r)
    BY <2>1, ExecutesFinish
  <2>2. CASE ~BeginFinish(r) /\ Silent
    BY <1>0, <1>1, <2>2, SteadyRuns, ExecutesSteady
  <2>3. CASE ~BeginFinish(r) /\ ~Silent
    <3>1. PICK by \in {"start", "context"}, status \in {"executing", "aborting"}, s \in Runs \cup {NoRun} :
            /\ Opens(by, r, memory.operating, [status |-> status, run |-> s])
            /\ by = "start" => /\ pc[r] = "starting" /\ s = r /\ status = "executing"
            /\ by = "context" => memory.execution = [status |-> status, run |-> s]
            /\ UNCHANGED <<pc, started>>
      BY <1>1, <2>3, RunStepKinds
    <3>2. CASE by = "start"
      BY <3>1, <3>2, ExecutesStart
    <3>3. CASE by = "context"
      BY <3>1, <3>3, ExecutesOpens
    <3>4. QED
      BY <3>1, <3>2, <3>3
  <2>4. QED
    BY <2>1, <2>2, <2>3
<1>2. ASSUME NEW r \in Runs, CallStep(r) PROVE Executes'
  <2>1. UNCHANGED <<pc, started>>
    BY <1>2 DEF CallStep, CallBreaks, CallEnds
  <2>2. QED
    BY <1>0, <1>2, <2>1, CallKinds, SteadySame, ExecutesSteady
<1>3. CASE BeginAbort
  <2>1. UNCHANGED <<pc, started>>
    BY <1>3, CallKinds
  <2>2. CASE Silent
    BY <1>0, <2>1, <2>2, SteadySame, ExecutesSteady
  <2>3. CASE ~Silent
    <3>1. Active(memory) /\ Opens("abort", execution, memory.operating,
                                  [status |-> "aborting", run |-> memory.execution.run])
      BY <1>3, <2>3, CallKinds
    <3>2. QED
      BY <2>1, <3>1, ExecutesOpens
  <2>4. QED
    BY <2>2, <2>3
<1>4. ASSUME NEW b \in BOOLEAN, BeginSetEnable(b) PROVE Executes'
  BY <1>4, CallKinds, ExecutesOpens
<1>5. ASSUME NEW state \in Targets \cup Latched, NEW i \in Inputs, Report(state, i) PROVE Executes'
  <2>1. UNCHANGED <<pc, started>>
    BY <1>5 DEF Report, runVars
  <2>2. CASE Silent
    BY <1>0, <2>1, <2>2, SteadySame, ExecutesSteady
  <2>3. CASE ~Silent
    <3>1. \E op : Opens("report", NoRun, op, memory.execution)
      BY <1>5, <2>3, ReportEffect
    <3>2. QED
      BY <2>1, <3>1, ExecutesOpens
  <2>4. QED
    BY <2>2, <2>3
<1>6. CASE UpdateStep
  <2>1. CASE Restore \/ UpdateContext \/ Abort \/ Published \/ Normalized
    <3>1. ~EmitEvent /\ ~AdmitFails /\ ~Admit
      <4>1. update' = None /\ update.by # "admit"
        BY <2>1 DEF Restore, UpdateContext, Abort, Published, Normalized, Holds
      <4>2. QED
        BY <4>1, EmitEffect DEF AdmitFails, Admit, Holds
    <3>2. UNCHANGED <<pc, started>> /\ ~By({"start"}) /\ ~By({"finish"})
      BY <2>1 DEF Restore, UpdateContext, Abort, Published, Normalized, runVars, Holds, By
    <3>3. QED
      BY <1>0, <1>6, <3>1, <3>2, CloseKinds, SteadySame, ExecutesClose DEF Keeps
  <2>2. QED
    BY <1>6, <2>1, ExecutesEmit, ExecutesAdmitted, ExecutesFails, ExecutesStarted,
       ExecutesFinished DEF UpdateStep
<1>7. CASE UNCHANGED vars
  <2>1. Silent /\ UNCHANGED <<pc, started>>
    BY <1>7 DEF vars, runVars, pubVars, bounds, Silent
  <2>2. QED
    BY <1>0, <2>1, SteadySame, ExecutesSteady
<1>8. QED
  BY <1>1, <1>2, <1>3, <1>4, <1>5, <1>6, <1>7, ExecutesAdmit, ExecutesCrash, ExecutesRestart DEF Next

-----------------------------------------------------------------------------
(* The invariant, and what it says of the published state.                 *)

PublicationInv ==
  /\ Queued /\ Resting /\ NewestTransition /\ Rotations
  /\ Fitting /\ Transitions /\ Latches /\ Executes

LEMMA InitPublication == Init => PublicationInv
<1> SUFFICES ASSUME Init PROVE PublicationInv
  OBVIOUS
<1>1. /\ update = None /\ up /\ execution = NoRun /\ memory = InitialMemory /\ kv = InitialMemory
      /\ states = NewResolver(EmptyInput, FALSE) /\ ~freshLatch /\ ~interrupted
      /\ \A r \in Runs : pc[r] = "none" /\ r # NoRun
  BY DEF Init
<1>2. Coming = memory /\ \A holders : ~By(holders)
  BY <1>1 DEF Coming, By
<1>3. Queued /\ Resting
  BY <1>1, <1>2 DEF Queued, Resting
<1>4. NewestTransition /\ ~Transition(execution)
  BY <1>1 DEF NewestTransition, Transition, Live
<1>5. /\ InitialMemory.operating = InitialOperating
      /\ InitialMemory.execution = [status |-> "idle", run |-> NoRun]
      /\ InitialOperating.current = "UNKNOWN" /\ InitialOperating.target = None
      /\ InitialOperating.input = EmptyInput /\ ~InitialOperating.previous
  BY DEF InitialMemory, InitialOperating
<1>6. Rotations
  BY <1>1, <1>2, <1>5 DEF Rotations, Rotated
<1>7. /\ states.latch = None /\ states.observed = None /\ states.inferred = "UNKNOWN"
      /\ states.commanded = EmptyInput
  BY <1>1 DEF NewResolver
<1>8. Fitting
  <2>1. Shown = AtRest(states)
    BY <1>1 DEF Shown, Derived
  <2>2. SettledOf(states) = [state |-> "UNKNOWN", input |-> EmptyInput]
    BY <1>7 DEF SettledOf
  <2>3. Shown = View(memory.operating)
    <3>1. AtRest(states) = [current |-> "UNKNOWN", target |-> None, input |-> EmptyInput]
      BY <2>2 DEF AtRest
    <3>2. View(InitialOperating) = [current |-> "UNKNOWN", target |-> None, input |-> EmptyInput]
      BY <1>5 DEF View
    <3>3. QED
      BY <1>1, <1>5, <2>1, <3>1, <3>2
  <2>4. QED
    BY <1>2, <2>3 DEF Fitting, Fits
<1>9. Transitions
  BY <1>1, <1>2, <1>4, <1>5 DEF Transitions
<1>10. Latches
  BY <1>1, <1>7 DEF Latches
<1>11. Executes
  BY <1>1, <1>2, <1>5 DEF Executes, Fresh, Owned, Active, Handling, Follows
<1>12. QED
  BY <1>3, <1>4, <1>6, <1>8, <1>9, <1>10, <1>11 DEF PublicationInv

LEMMA NextPublication ==
  ASSUME TypeOK, TurnInv, PublicationInv, [Next]_vars
  PROVE  PublicationInv'
<1>1. Queued' /\ Resting'
  BY QueuedKept, RestingKept DEF PublicationInv
<1>2. NewestTransition' /\ Rotations'
  BY NewestKept, RotationsKept DEF PublicationInv
<1>3. Fitting' /\ Transitions'
  BY FittingKept, TransitionsKept DEF PublicationInv
<1>4. Latches' /\ Executes'
  BY LatchesKept, ExecutesKept DEF PublicationInv
<1>5. QED
  BY <1>1, <1>2, <1>3, <1>4 DEF PublicationInv

LEMMA PublicationInvariant == Spec => [](TypeOK /\ TurnInv /\ PublicationInv)
<1>1. TypeOK /\ TurnInv /\ PublicationInv /\ [Next]_vars => PublicationInv'
  BY NextPublication
<1>2. QED
  BY <1>1, InitPublication, TurnInvariant, PTL DEF Spec

\* What the controller shows of itself is what it does: with the lock free the
\* operating state in memory is the one derived from the newest run, no known
\* state is the latest one published while the handler of a lifecycle task runs,
\* and the published execution is that of the run at work, under any failures of
\* publications and any crashes (_publish_operating_state, _enter_transition,
\* _publish_start, _publish_finish).
THEOREM PublicationIsHonest == Spec => []PublicationHonest
<1>1. TypeOK /\ TurnInv /\ PublicationInv => PublishedState
  <2> SUFFICES ASSUME PublicationInv, Free PROVE Fits(memory.operating)
    BY DEF PublishedState, Fits, Shown
  <2>1. Coming = memory /\ ~By({"admit", "restore"}) /\ up
    BY DEF Free, Coming, By
  <2>2. QED
    BY <2>1 DEF PublicationInv, Fitting
<1>2. TypeOK /\ TurnInv /\ PublicationInv => NoKnownStateInTransition
  <2> SUFFICES ASSUME TypeOK, TurnInv, PublicationInv, NEW r \in Runs, Handling(r),
                      Lifecycle(task[r])
               PROVE  stream.current = "TRANSITION"
    BY ControllerAssumption DEF NoKnownStateInTransition
  <2>1. up /\ ~By({"startup"})
    BY DEF PublicationInv, Resting, Handling
  <2>2. Transition(r)
    BY DEF Handling, Transition, Live, Settled
  <2>3. Transition(execution) /\ memory.operating.current = "TRANSITION"
    BY <2>1, <2>2 DEF PublicationInv, NewestTransition, Transitions
  <2>4. CASE By({"admit", "restore"})
    <3>1. Fits(update.prior)
      BY <2>1, <2>4 DEF PublicationInv, Fitting
    <3>2. update.prior.current = "TRANSITION"
      BY <2>3, <3>1, ShownCases DEF Fits, View
    <3>3. QED
      BY <2>1, <2>4, <3>2 DEF PublicationInv, Transitions, PublishedTransition
  <2>5. CASE ~By({"admit", "restore"})
    BY <2>1, <2>3, <2>5 DEF PublicationInv, Transitions, PublishedTransition
  <2>6. QED
    BY <2>4, <2>5
<1>3. TypeOK /\ TurnInv /\ PublicationInv => ExecutionOwned
  <2> SUFFICES ASSUME PublicationInv, up, ~By({"startup"}) PROVE Owned(memory)
    BY DEF ExecutionOwned, Owned, Active, Holds, By
  <2>1. QED
    BY DEF PublicationInv, Executes
<1>4. QED
  BY <1>1, <1>2, <1>3, PublicationInvariant, PTL DEF PublicationHonest

\* A crash in the middle of lifecycle work leaves the controller latched after
\* any number of restarts, and of failures while it publishes the normalized
\* state, until a lifecycle task succeeds (init_impl, _normalize_startup_state).
THEOREM InterruptionStaysLatched == Spec => []InterruptionLatched
<1>1. PublicationInv => InterruptionLatched
  BY DEF PublicationInv, Latches, InterruptionLatched
<1>2. QED
  BY <1>1, PublicationInvariant, PTL

\* A lifecycle task finishes successfully only with the controller settled at
\* its target and input, and no latch recorded after its handler returned is
\* cleared by its settlement (_settle).
THEOREM SettlementIsHonest == Spec => SettlementHonest
<1> DEFINE A == \A r \in Runs :
       pc[r] = "settling" /\ pc'[r] \in {"publishing", "ending"} /\ Lifecycle(task[r]) =>
         /\ freshLatch => states'.latch # None
         /\ finish'[r] = "success" /\ TargetOf(task[r]) # None =>
              SettledOf(states') = [state |-> task[r], input |-> input[r]]
<1>1. ASSUME TypeOK, TurnInv, PublicationInv, [Next]_vars PROVE A
  <2> USE <1>1
  <2> SUFFICES ASSUME NEW r \in Runs, pc[r] = "settling", pc'[r] \in {"publishing", "ending"},
                      Lifecycle(task[r])
               PROVE  /\ freshLatch => states'.latch # None
                      /\ finish'[r] = "success" /\ TargetOf(task[r]) # None =>
                           SettledOf(states') = [state |-> task[r], input |-> input[r]]
    OBVIOUS
  <2>1. BeginFinish(r)
    <3>1. ~Keeps
      BY DEF Keeps, Settled
    <3>2. ~(pc' = pc) /\ ~Crash
      BY DEF Crash
    <3>3. ASSUME NEW n, Install(n) PROVE FALSE
      BY <3>3 DEF Install, TypeOK
    <3>4. ASSUME NEW s \in Runs, BeginFinish(s) PROVE s = r
      BY <3>4 DEF BeginFinish, Goto, TypeOK
    <3>5. ASSUME NEW t \in Tasks, NEW i \in Inputs, NEW interrupt \in BOOLEAN,
                 BeginAdmit(t, i, interrupt)
          PROVE  FALSE
      BY <3>2, <3>3, <3>5, AdmitEffect DEF PublicationInv
    <3>6. ~Admit /\ ~Restart /\ \A state \in Targets \cup Latched, i \in Inputs : ~Report(state, i)
      BY <3>2, <3>3 DEF Admit, Restart, Report, runVars
    <3>7. QED
      BY <3>1, <3>2, <3>4, <3>5, <3>6, Kinds
      DEF PublicationInv, Unpublished, Opening, Emitting, Closing, Failing
  <2>2. /\ states' = RecordFinish(states, task[r], input[r], SettledOutcome(r), started[r])
        /\ finish'[r] = SettledOutcome(r)
    BY <2>1 DEF BeginFinish, SettledStates, Finish, TypeOK
  <2>3. /\ SettledOutcome(r) \in {"aborted", "success", "failed"}
        /\ SettledOutcome(r) = "success" => finish[r] = "success" /\ ~Mismatch(r)
    BY DEF SettledOutcome, TypeOK
  <2>4. states \in Resolvers /\ LatchHonest(states) /\ freshLatch => states.latch # None
    BY DEF PublicationInv, Latches, LatchHonest, TypeOK
  <2>5. freshLatch => states'.latch # None
    <3> SUFFICES ASSUME freshLatch PROVE states'.latch # None
      OBVIOUS
    <3>1. states.latch # None
      BY DEF PublicationInv, Latches
    <3>2. SettledOutcome(r) # "success"
      BY <2>3, <3>1 DEF Mismatch
    <3>3. states \in Resolvers /\ LatchHonest(states) /\ task[r] \in Tasks /\ input[r] \in Inputs
          /\ started[r] \in BOOLEAN
      BY DEF PublicationInv, Latches, LatchHonest, TypeOK
    <3>4. QED
      BY <2>2, <2>3, <3>1, <3>2, <3>3, LatchRecords
  <2>6. ASSUME finish'[r] = "success", TargetOf(task[r]) # None
        PROVE  SettledOf(states') = [state |-> task[r], input |-> input[r]]
    <3>1. states' = RecordSuccess(states, task[r], input[r]) /\ task[r] \in Targets
      BY <2>2, <2>6 DEF RecordFinish, TargetOf
    <3>2. Confirms(states, task[r], input[r])
      BY <2>2, <2>3, <2>6 DEF Mismatch
    <3>3. /\ states'.latch = None /\ states'.observed = states.observed
          /\ states'.inferred = task[r] /\ states'.commanded = input[r]
      BY <2>6, <3>1 DEF RecordSuccess, TypeOK, Resolvers
    <3>4. QED
      BY <3>2, <3>3 DEF Confirms, SettledOf
  <2>7. QED
    BY <2>5, <2>6
<1>2. QED
  BY <1>1, PublicationInvariant, PTL DEF Spec, SettlementHonest

\* A published abort stays published until the execution is finished, and a
\* finished execution is never published again (update_context keeps the
\* published flags, _abort_request publishes only a current execution).
THEOREM AbortingIsHeld == Spec => AbortingHeld
<1> DEFINE A == up /\ up' /\ memory'.execution.run = memory.execution.run =>
       /\ memory.execution.status = "aborting" =>
            memory'.execution.status \in {"aborting", "finished"}
       /\ memory.execution.status = "finished" => memory'.execution.status = "finished"
<1>1. ASSUME TypeOK, TurnInv, PublicationInv, [Next]_vars PROVE A
  <2> USE <1>1
  <2> SUFFICES ASSUME up, up' PROVE Follows(memory.execution, memory'.execution)
    BY DEF Follows
  <2>1. Queued /\ Follows(memory.execution, Coming.execution)
    BY DEF PublicationInv, Executes
  <2>2. memory'.execution \in {memory.execution, Coming.execution}
    <3>1. CASE Silent \/ \E by, r, op, ex : Opens(by, r, op, ex)
      BY <3>1 DEF Silent, Opens
    <3>2. CASE Unpublished \/ Opening \/ Emitting \/ Closing \/ Failing
      BY <2>1, <3>1, <3>2, EmitEffect, AdmitFailsEffect
      DEF Unpublished, Opening, Emitting, Closing, Closes, Failing
    <3>3. ASSUME NEW t \in Tasks, NEW i \in Inputs, NEW interrupt \in BOOLEAN,
                 BeginAdmit(t, i, interrupt)
          PROVE  memory' = memory
      BY <3>3, Zenon DEF BeginAdmit
    <3>4. ASSUME NEW r \in Runs, BeginFinish(r) PROVE memory' = memory
      BY <3>4, Zenon DEF BeginFinish
    <3>5. ASSUME NEW state \in Targets \cup Latched, NEW i \in Inputs, Report(state, i)
          PROVE  memory' = memory
      BY <3>5, Zenon DEF Report
    <3>6. Admit => memory' = memory
      BY DEF Admit, Stored
    <3>7. ~Crash /\ ~Restart
      BY DEF Crash, Restart
    <3>8. QED
      BY <2>1, <3>2, <3>3, <3>4, <3>5, <3>6, <3>7, Kinds
  <2>3. QED
    BY <2>1, <2>2 DEF Follows
<1>2. QED
  BY <1>1, PublicationInvariant, PTL DEF Spec, AbortingHeld
=============================================================================
