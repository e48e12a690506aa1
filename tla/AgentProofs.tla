----------------------------- MODULE AgentProofs -----------------------------
(***************************************************************************)
(* Proofs about Agent, for every set of controllers, programs and requests *)
(* and every bound.                                                        *)
(***************************************************************************)
EXTENDS Agent, TLAPS

-----------------------------------------------------------------------------
(* What the derivations return.                                            *)

\* A controllers map has an entry of the right type for each of its names.
LEMMA OperatingShape ==
  ASSUME NEW o \in OperatingStates
  PROVE  /\ o.global \in BOOLEAN
         /\ DOMAIN o.controllers \subseteq Controllers
         /\ \A c \in DOMAIN o.controllers :
              /\ o.controllers[c].control \in BOOLEAN
              /\ o.controllers[c].override \in Overrides
         /\ o.controllers \in [DOMAIN o.controllers -> ControllerInfo]
<1>1. PICK cs \in SUBSET Controllers : o.controllers \in [cs -> ControllerInfo]
  BY DEF OperatingStates
<1>2. cs = DOMAIN o.controllers
  BY <1>1
<1>3. o.global \in BOOLEAN
  BY DEF OperatingStates
<1> QED
  BY <1>1, <1>2, <1>3 DEF ControllerInfo

\* Any map over some controllers, with the global switch, is an operating state.
LEMMA OperatingMade ==
  ASSUME NEW g \in BOOLEAN, NEW cs \in SUBSET Controllers,
         NEW f \in [cs -> ControllerInfo]
  PROVE  [global |-> g, controllers |-> f] \in OperatingStates
  BY DEF OperatingStates

\* A request leaves a scheduler state a scheduler state (derive_for_request).
LEMMA SchedulerForType ==
  ASSUME NEW s \in SchedulerStates, NEW q \in ConfigureRequests
  PROVE  SchedulerFor(s, q) \in SchedulerStates
<1>1. q.scheduling \in Optional(BOOLEAN) /\ q.exclude \in SUBSET Programs
  BY DEF ConfigureRequests
<1>2. s.enabled \in BOOLEAN /\ s.excluded \in SUBSET Programs
  BY DEF SchedulerStates
<1>3. OrKeep(q.scheduling, s.enabled) \in BOOLEAN
  BY <1>1, <1>2, Zenon DEF OrKeep, Optional
<1>4. (s.excluded \cup q.exclude) \ q.include \in SUBSET Programs
  BY <1>1, <1>2
<1> QED
  BY <1>3, <1>4 DEF SchedulerFor, SchedulerStates

\* A request changes entries and keeps their names (derive_for_request).
LEMMA OperatingForType ==
  ASSUME NEW o \in OperatingStates, NEW q \in ConfigureRequests
  PROVE  /\ OperatingFor(o, q) \in OperatingStates
         /\ DOMAIN OperatingFor(o, q).controllers = DOMAIN o.controllers
<1> DEFINE cs == DOMAIN o.controllers
           info(c) == [control |-> Given(q.control, c, o.controllers[c].control),
                       override |-> Given(q.override, c, o.controllers[c].override)]
           f == [c \in cs |-> info(c)]
<1>1. q.global \in Optional(BOOLEAN)
  BY DEF ConfigureRequests
<1>2. PICK named \in SUBSET Controllers : q.control \in [named -> BOOLEAN]
  BY DEF ConfigureRequests
<1>3. PICK voted \in SUBSET Controllers : q.override \in [voted -> Overrides]
  BY DEF ConfigureRequests
<1>4. OrKeep(q.global, o.global) \in BOOLEAN
  BY <1>1, OperatingShape, Zenon DEF OrKeep, Optional
<1>5. ASSUME NEW c \in cs PROVE info(c) \in ControllerInfo
  <2>1. Given(q.control, c, o.controllers[c].control) \in BOOLEAN
    BY <1>2, <1>5, OperatingShape, Zenon DEF Given
  <2>2. Given(q.override, c, o.controllers[c].override) \in Overrides
    BY <1>3, <1>5, OperatingShape, Zenon DEF Given
  <2> QED
    BY <2>1, <2>2 DEF ControllerInfo
<1>6. f \in [cs -> ControllerInfo]
  BY <1>5
<1>7. OperatingFor(o, q) = [global |-> OrKeep(q.global, o.global), controllers |-> f]
  BY DEF OperatingFor
<1> HIDE DEF f
<1>8. cs \in SUBSET Controllers
  BY OperatingShape
<1>9. OperatingFor(o, q) \in OperatingStates
  BY <1>4, <1>6, <1>7, <1>8, OperatingMade
<1> QED
  BY <1>6, <1>7, <1>9

\* Reconciliation leaves exactly the configured names (derive_for_config_change).
LEMMA ReconciledType ==
  ASSUME NEW o \in OperatingStates, NEW cs \in SUBSET Controllers
  PROVE  /\ ReconciledWith(o, cs) \in OperatingStates
         /\ DOMAIN ReconciledWith(o, cs).controllers = cs
<1> DEFINE f == [c \in cs |-> Given(o.controllers, c, DefaultInfo)]
<1>1. DefaultInfo \in ControllerInfo
  BY DEF DefaultInfo, ControllerInfo, Overrides, Optional
<1>2. f \in [cs -> ControllerInfo]
  BY <1>1, OperatingShape DEF Given
<1>3. ReconciledWith(o, cs) = [global |-> o.global, controllers |-> f]
  BY DEF ReconciledWith, OperatingStates
<1> HIDE DEF f
<1>4. o.global \in BOOLEAN
  BY OperatingShape
<1> QED
  BY <1>2, <1>3, <1>4, OperatingMade

\* Applying a state sets one gate and one vote for each configured controller.
LEMMA AppliedType ==
  ASSUME NEW s \in AgentStates, NEW cs \in SUBSET Controllers,
         DOMAIN s.operating.controllers = cs
  PROVE  Applied(s, cs) \in OperatorStates(cs)
<1>1. s.scheduler \in SchedulerStates /\ s.operating \in OperatingStates
  BY DEF AgentStates
<1>2. s.scheduler.enabled \in BOOLEAN
  BY <1>1 DEF SchedulerStates
<1>3. AssignedPrograms(cs) \ s.scheduler.excluded \in SUBSET Programs
  BY AgentAssumption DEF AssignedPrograms
<1>4. \A c \in cs : /\ s.operating.controllers[c].control \in BOOLEAN
                    /\ s.operating.controllers[c].override \in Overrides
  BY <1>1, OperatingShape
<1>5. [c \in cs |-> s.operating.global /\ s.operating.controllers[c].control]
        \in [cs -> BOOLEAN]
  BY Zenon
<1>6. [c \in cs |-> s.operating.controllers[c].override] \in [cs -> Overrides]
  BY <1>4
<1> QED
  BY <1>2, <1>3, <1>5, <1>6 DEF Applied, OperatorStates

-----------------------------------------------------------------------------
(* The shape of the state: types, and who may hold or wait for what.       *)

\* Snapshots in flight name the configured controllers.
Domains ==
  /\ update # None => DOMAIN update.operating.controllers = config
  /\ configureWaits # None => DOMAIN configureWaits.operating.controllers = config
  /\ publishWaits # None => DOMAIN publishWaits.operating.controllers = config

\* A handler waits only while it holds _configure_lock and not the update lock,
\* and only a serving agent has handlers and a publish loop.
Parties ==
  /\ phase = "down" => update = None
  /\ phase # "serving" =>
       configuring = None /\ configureWaits = None /\ publishWaits = None
  /\ configureWaits # None => configuring # None
  /\ update # None =>
       /\ phase = IF update.by \in {"manifest", "startup"} THEN "starting" ELSE "serving"
       /\ update.at = "scheduler" => update.by \in {"configure", "publish"}
       /\ update.by = "configure" => configuring # None /\ configureWaits = None

Shape == TypeOK /\ Domains /\ Parties

USE DEF bounds, lockVars

LEMMA NoneIsNoRecord ==
  /\ None \notin AgentStates
  /\ None \notin Requests
  BY AgentAssumption

LEMMA InitialType == InitialState \in AgentStates
<1>1. <<>> \in [{} -> ControllerInfo]
  OBVIOUS
<1>2. InitialState.operating \in OperatingStates
  BY <1>1, AgentAssumption, OperatingMade DEF InitialState
<1>3. InitialState.scheduler \in SchedulerStates
  BY AgentAssumption DEF InitialState, SchedulerStates
<1> QED
  BY <1>2, <1>3 DEF InitialState, AgentStates

LEMMA InitShape == Init => Shape
<1> SUFFICES ASSUME Init PROVE Shape
  OBVIOUS
<1>1. memory \in AgentStates /\ asked \in AgentStates
  BY InitialType DEF Init
<1>2. requests \in 0..MaxRequests /\ faults \in 0..MaxFaults /\ starts \in 0..MaxStarts
  BY AgentAssumption DEF Init
<1>3. \A S : None \in Optional(S)
  BY DEF Optional
<1>4. TypeOK
  BY <1>1, <1>2, <1>3, Zenon DEF Init, TypeOK
<1> QED
  BY <1>4, Zenon DEF Init, Shape, Domains, Parties

LEMMA StartShape == ASSUME Shape, Start PROVE Shape'
<1> USE DEF Shape
<1> DEFINE recovered == IF kv = None THEN InitialState ELSE kv
           current(cs) == DOMAIN recovered.operating.controllers = cs
           state(cs) == IF current(cs) THEN recovered
                        ELSE [recovered EXCEPT !.operating = ReconciledWith(@, cs)]
<1>1. PICK cs \in SUBSET Controllers :
        /\ config' = cs
        /\ kv' = recovered
        /\ memory' = state(cs)
        /\ asked' = state(cs) /\ doubt' = ~current(cs)
        /\ update' = [by |-> IF current(cs) THEN "startup" ELSE "manifest",
                      at |-> IF current(cs) THEN "runtime" ELSE "operating",
                      operating |-> state(cs).operating]
        /\ operator' = IF current(cs) THEN Applied(state(cs), cs) ELSE None
  BY DEF Start
<1>2. recovered \in AgentStates
  BY InitialType DEF TypeOK, Optional
<1>3. state(cs) \in AgentStates /\ DOMAIN state(cs).operating.controllers = cs
  BY <1>2, ReconciledType DEF AgentStates
<1>4. operator' \in Optional(OperatorStates(cs))
  BY <1>1, <1>3, AppliedType DEF Optional
<1>5. update' \in Updates /\ doubt' \in BOOLEAN
  BY <1>1, <1>3 DEF Updates, AgentStates
<1>6. starts' \in 0..MaxStarts
  BY AgentAssumption DEF TypeOK, Start
<1> HIDE DEF recovered, current, state
<1>7. TypeOK'
  BY <1>1, <1>2, <1>3, <1>4, <1>5, <1>6 DEF TypeOK, Start, Optional
<1>8. update'.operating = state(cs).operating /\ update'.by \in {"startup", "manifest"}
      /\ update'.at # "scheduler"
  BY <1>1
<1>9. configuring' = None /\ configureWaits' = None /\ publishWaits' = None
  BY DEF Start, Parties
<1> QED
  BY <1>1, <1>3, <1>7, <1>8, <1>9 DEF Domains, Parties, Start

\* What is acquired with is what is set and what will be set.
LEMMA AcquireShape ==
  ASSUME Shape, NEW by \in {"configure", "publish"}, NEW events \in AgentStates,
         Acquire(by, events)
  PROVE  /\ memory' \in AgentStates /\ memory'.operating = memory.operating
         /\ memory'.scheduler = events.scheduler
         /\ update' \in Updates
         /\ update'.by = by /\ update'.at = "scheduler"
         /\ update'.operating = events.operating
  BY DEF Acquire, Shape, TypeOK, AgentStates, Updates

\* The events that a request derives from a state of the configured controllers.
LEMMA EventsForType ==
  ASSUME Shape, NEW s \in AgentStates, NEW q \in Requests
  PROVE  /\ SchedulerFor(s.scheduler, q) \in SchedulerStates
         /\ OperatingFor(s.operating, q) \in OperatingStates
         /\ DOMAIN OperatingFor(s.operating, q).controllers = DOMAIN s.operating.controllers
<1>1. q \in ConfigureRequests
  BY AgentAssumption
<1> QED
  BY <1>1, SchedulerForType, OperatingForType DEF AgentStates

LEMMA ConfigureShape ==
  ASSUME Shape, NEW q \in Requests, Configure(q)
  PROVE  Shape'
<1> DEFINE events == [scheduler |-> SchedulerFor(memory.scheduler, q),
                      operating |-> OperatingFor(memory.operating, q)]
<1>1. events \in AgentStates /\ DOMAIN events.operating.controllers = config
  BY EventsForType DEF Shape, TypeOK, AgentStates, Configure
<1>2. q # None /\ configuring' = q /\ phase' = "serving" /\ configuring = None
  BY NoneIsNoRecord DEF Configure
<1>3. requests' \in 0..MaxRequests
  BY AgentAssumption DEF Configure, Shape, TypeOK
<1>4. [asked EXCEPT !.scheduler = SchedulerFor(@, q)] \in AgentStates
  BY EventsForType DEF Shape, TypeOK, AgentStates
<1>5. CASE Available
  <2>1. /\ Acquire("configure", events)
        /\ asked' = [asked EXCEPT !.scheduler = SchedulerFor(@, q)]
        /\ doubt' = TRUE /\ configureWaits' = configureWaits
    BY <1>5, Zenon DEF Configure
  <2> HIDE DEF events
  <2>2. TypeOK'
    BY <1>1, <1>2, <1>3, <1>4, <2>1, AcquireShape DEF Shape, TypeOK, Configure, Optional
  <2> QED
    BY <1>1, <1>2, <1>5, <2>1, <2>2, AcquireShape
       DEF Shape, TypeOK, Domains, Parties, Configure, Available
<1>6. CASE ~Available
  <2>1. /\ configureWaits' = events
        /\ UNCHANGED <<update, memory, asked, doubt>>
    BY <1>6, Zenon DEF Configure
  <2> HIDE DEF events
  <2>2. TypeOK'
    BY <1>1, <1>2, <1>3, <2>1 DEF Shape, TypeOK, Configure, Optional
  <2> QED
    BY <1>1, <1>2, <2>1, <2>2 DEF Shape, TypeOK, Domains, Parties, Configure
<1> QED
  BY <1>5, <1>6

LEMMA GrantConfigureShape == ASSUME Shape, GrantConfigure PROVE Shape'
<1>1. configureWaits \in AgentStates /\ configuring \in Requests /\ phase = "serving"
  BY DEF Shape, TypeOK, Parties, Optional, GrantConfigure
<1>2. [asked EXCEPT !.scheduler = SchedulerFor(@, configuring)] \in AgentStates
  BY <1>1, EventsForType DEF Shape, TypeOK, AgentStates
<1>3. Acquire("configure", configureWaits)
  BY DEF GrantConfigure
<1>4. TypeOK'
  BY <1>1, <1>2, <1>3, AcquireShape DEF Shape, TypeOK, Optional, GrantConfigure
<1> QED
  BY <1>1, <1>3, <1>4, AcquireShape, NoneIsNoRecord
     DEF Shape, Domains, Parties, GrantConfigure

LEMMA PublishShape == ASSUME Shape, Publish PROVE Shape'
<1>1. CASE Available
  <2>1. Acquire("publish", memory) /\ UNCHANGED <<publishWaits, overlapped>>
    BY <1>1, Zenon DEF Publish
  <2>2. memory \in AgentStates /\ DOMAIN memory.operating.controllers = config
    BY DEF Shape, TypeOK, Publish
  <2>3. TypeOK'
    BY <2>1, <2>2, AcquireShape DEF Shape, TypeOK, Optional, Publish
  <2> QED
    BY <2>1, <2>2, <2>3, AcquireShape DEF Shape, Domains, Parties, Publish
<1>2. CASE ~Available
  <2>1. overlapped' \in BOOLEAN
    BY <1>2, Zenon DEF Publish, Shape, TypeOK
  <2>2. publishWaits' = memory /\ UNCHANGED <<update, memory>>
    BY <1>2, Zenon DEF Publish
  <2>3. TypeOK'
    BY <2>1, <2>2 DEF Publish, Shape, TypeOK, Optional
  <2> QED
    BY <2>2, <2>3 DEF Shape, TypeOK, Domains, Parties, Publish
<1> QED
  BY <1>1, <1>2

LEMMA GrantPublishShape == ASSUME Shape, GrantPublish PROVE Shape'
<1>1. publishWaits \in AgentStates /\ phase = "serving"
  BY DEF Shape, TypeOK, Parties, Optional, GrantPublish
<1>2. Acquire("publish", publishWaits)
  BY DEF GrantPublish
<1>3. TypeOK'
  BY <1>1, <1>2, AcquireShape DEF Shape, TypeOK, Optional, GrantPublish
<1> QED
  BY <1>1, <1>2, <1>3, AcquireShape DEF Shape, Domains, Parties, GrantPublish

\* A step of the emission keeps the update's owner and snapshot.
LEMMA EmitShape ==
  ASSUME Shape, EmitScheduler \/ EmitOperating \/ EmitRuntime
  PROVE  Shape'
<1>1. update \in Updates /\ update # None
  BY DEF Shape, TypeOK, Optional, EmitScheduler, EmitOperating, EmitRuntime
<1>2. /\ update' \in Updates /\ update'.by = update.by
      /\ update'.operating = update.operating /\ update'.at # "scheduler"
  BY <1>1 DEF Updates, EmitScheduler, EmitOperating, EmitRuntime, EmittedOf
<1>3. update.operating \in OperatingStates
  BY <1>1 DEF Updates
<1>4. update.by = "configure" => configuring \in Requests
  BY <1>1 DEF Shape, TypeOK, Parties, Optional
<1>5. CASE EmitScheduler
  <2>1. memory' = [memory EXCEPT !.operating = update.operating]
    BY <1>5 DEF EmitScheduler
  <2>2. memory' \in AgentStates /\ DOMAIN memory'.operating.controllers = config
    BY <1>1, <1>3, <2>1 DEF Shape, TypeOK, Domains, AgentStates
  <2>3. asked' \in AgentStates
    BY <1>4, <1>5, EventsForType DEF EmitScheduler, Shape, TypeOK, AgentStates
  <2>4. TypeOK'
    BY <1>2, <1>5, <2>2, <2>3 DEF EmitScheduler, Shape, TypeOK, Optional
  <2> QED
    BY <1>1, <1>2, <1>5, <2>4 DEF EmitScheduler, Shape, Domains, Parties
<1>6. CASE EmitOperating \/ EmitRuntime
  <2>1. TypeOK'
    BY <1>2, <1>6 DEF EmitOperating, EmitRuntime, Shape, TypeOK, Optional
  <2> QED
    BY <1>1, <1>2, <1>6, <2>1 DEF EmitOperating, EmitRuntime, Shape, Domains, Parties
<1> QED
  BY <1>5, <1>6

LEMMA StoreShape ==
  ASSUME Shape, StoreManifest \/ StoreStartup \/ StoreConfigure \/ StorePublish
  PROVE  Shape'
<1>1. memory \in AgentStates /\ phase # "down" /\ DOMAIN memory.operating.controllers = config
  BY DEF Shape, TypeOK, Parties, StoreManifest, StoreStartup, StoreConfigure, StorePublish
<1>2. Applied(memory, config) \in OperatorStates(config)
  BY <1>1, AppliedType DEF Shape, TypeOK
<1>3. CASE StoreManifest
  <2>1. update \in Updates
    BY <1>3 DEF StoreManifest, Shape, TypeOK, Optional
  <2>2. /\ update' \in Updates /\ update'.by = "startup" /\ update'.at = "runtime"
        /\ update'.operating = update.operating
    BY <1>3, <2>1 DEF StoreManifest, Updates
  <2>3. TypeOK'
    BY <1>1, <1>2, <1>3, <2>2 DEF StoreManifest, Shape, TypeOK, Optional
  <2> QED
    BY <1>3, <2>2, <2>3 DEF StoreManifest, Shape, Domains, Parties
<1>4. CASE StoreStartup
  <2>1. TypeOK'
    BY <1>1, <1>4 DEF StoreStartup, Shape, TypeOK, Optional
  <2> QED
    BY <1>4, <2>1 DEF StoreStartup, Shape, Domains, Parties
<1>5. CASE StoreConfigure
  <2>1. TypeOK'
    BY <1>1, <1>2, <1>5 DEF StoreConfigure, Shape, TypeOK, Optional
  <2> QED
    BY <1>5, <2>1 DEF StoreConfigure, Shape, Domains, Parties
<1>6. CASE StorePublish
  <2>1. TypeOK'
    BY <1>1, <1>6 DEF StorePublish, Shape, TypeOK, Optional
  <2> QED
    BY <1>6, <2>1 DEF StorePublish, Shape, Domains, Parties
<1> QED
  BY <1>3, <1>4, <1>5, <1>6

LEMMA FaultShape == ASSUME Shape, VotesFail \/ Raises \/ Crash PROVE Shape'
<1>1. MayHaveStored => kv' \in Optional(AgentStates)
  BY DEF MayHaveStored, Shape, TypeOK, Optional
<1>2. CASE VotesFail
  <2>1. faults' \in 0..MaxFaults
    BY <1>2, AgentAssumption DEF VotesFail, Shape, TypeOK
  <2>2. TypeOK'
    BY <1>2, <2>1 DEF VotesFail, Shape, TypeOK
  <2> QED
    BY <1>2, <2>2 DEF VotesFail, Shape, Domains, Parties
<1>3. CASE Raises
  <2>1. faults' \in 0..MaxFaults
    BY <1>3, AgentAssumption DEF Raises, Shape, TypeOK
  <2>2. configuring' \in Optional(Requests) /\ operator' \in Optional(OperatorStates(config))
    BY <1>3 DEF Raises, Shape, TypeOK, Optional
  <2>3. publishing' \in BOOLEAN
    BY <1>3, Zenon DEF Raises, Shape, TypeOK
  <2>4. TypeOK'
    BY <1>1, <1>3, <2>1, <2>2, <2>3 DEF Raises, Shape, TypeOK, Optional
  <2> QED
    BY <1>3, <2>4 DEF Raises, Shape, Domains, Parties
<1>4. CASE Crash
  <2>1. TypeOK'
    BY <1>1, <1>4 DEF Crash, Shape, TypeOK, Optional
  <2> QED
    BY <1>4, <2>1 DEF Crash, Shape, Domains, Parties
<1> QED
  BY <1>2, <1>3, <1>4

LEMMA ShapeStep == ASSUME Shape, [Next]_vars PROVE Shape'
<1>1. CASE Start
  BY <1>1, StartShape
<1>2. CASE \E q \in Requests : Configure(q)
  BY <1>2, ConfigureShape
<1>3. CASE Publish
  BY <1>3, PublishShape
<1>4. CASE Advance
  BY <1>4, StoreShape, GrantConfigureShape, GrantPublishShape, EmitShape DEF Advance
<1>5. CASE VotesFail \/ Raises \/ Crash
  BY <1>5, FaultShape
<1>6. CASE UNCHANGED vars
  BY <1>6 DEF vars, Shape, TypeOK, Domains, Parties
<1> QED
  BY <1>1, <1>2, <1>3, <1>4, <1>5, <1>6 DEF Next

\* The lock's holder and waiters are always the parties that can be.
THEOREM ShapeInvariant == Spec => []Shape
<1>1. Init => Shape
  BY InitShape
<1>2. Shape /\ [Next]_vars => Shape'
  BY ShapeStep
<1> QED
  BY <1>1, <1>2, PTL DEF Spec

\* Every variable has its type and a running agent keeps an entry for exactly
\* its controllers (derive_for_request, derive_for_config_change).
THEOREM TypeCorrect == Spec => []TypeOK
<1>1. Shape => TypeOK
  BY DEF Shape
<1> QED
  BY <1>1, ShapeInvariant, PTL

-----------------------------------------------------------------------------
(* What the configurations add up to.                                      *)

\* Whoever waits for the lock has the scheduler part to set that is right when
\* it is granted the lock.
SchedulerInFlight ==
  /\ SchedulerKept
  /\ publishWaits # None => publishWaits.scheduler = asked.scheduler
  /\ configureWaits # None =>
       configureWaits.scheduler = SchedulerFor(asked.scheduler, configuring)

\* The same of the operating part and the holder, until the publish loop takes
\* its events from a request whose operating event is not set.
OperatingInFlight ==
  /\ OperatingKeptUnlessOverlapped
  /\ ~overlapped =>
       /\ publishWaits # None => publishWaits.operating = asked.operating
       /\ configureWaits # None =>
            configureWaits.operating = OperatingFor(asked.operating, configuring)
       /\ update # None /\ update.at = "scheduler" =>
            IF update.by = "configure"
            THEN /\ update.operating = OperatingFor(asked.operating, configuring)
                 /\ publishWaits = None
            ELSE update.operating = asked.operating

\* A configuration is in doubt as long as it holds the lock.
Doubted == update # None /\ update.by \in {"configure", "manifest"} => doubt

\* The operator has been given what is no longer in doubt.
OperatorGiven ==
  phase # "down" /\ ~doubt =>
    /\ operator.scheduling = asked.scheduler.enabled
    /\ operator.programs = AssignedPrograms(config) \ asked.scheduler.excluded

Kept ==
  /\ SchedulerInFlight /\ OperatingInFlight
  /\ Doubted /\ AnsweredIsStored /\ OperatorGiven

LEMMA InitKept == Init => Kept
  BY DEF Init, Kept, SchedulerInFlight, SchedulerKept, OperatingInFlight,
         OperatingKeptUnlessOverlapped, Doubted, AnsweredIsStored, OperatorGiven

\* What a KV write stores is what was asked for.
LEMMA MemoryIsAsked ==
  ASSUME Shape, Kept, update # None
  PROVE  /\ memory # None
         /\ memory.scheduler = asked.scheduler
         /\ ~overlapped => memory.operating = asked.operating
  BY NoneIsNoRecord DEF Shape, TypeOK, Parties, Kept, SchedulerInFlight, SchedulerKept,
                        OperatingInFlight, OperatingKeptUnlessOverlapped

LEMMA GrantConfigureKeeps == ASSUME Shape, Kept, GrantConfigure PROVE Kept'
<1>1. SchedulerInFlight'
  BY DEF Kept, SchedulerInFlight, SchedulerKept, GrantConfigure, Acquire
<1>2. OperatingInFlight'
  BY DEF Kept, OperatingInFlight, OperatingKeptUnlessOverlapped, GrantConfigure, Acquire
<1>3. Doubted'
  BY DEF Doubted, GrantConfigure
<1>4. AnsweredIsStored'
  BY DEF AnsweredIsStored, GrantConfigure
<1>5. OperatorGiven'
  BY DEF OperatorGiven, GrantConfigure
<1> QED
  BY <1>1, <1>2, <1>3, <1>4, <1>5 DEF Kept

LEMMA GrantPublishKeeps == ASSUME Shape, Kept, GrantPublish PROVE Kept'
<1>1. SchedulerInFlight'
  BY DEF Kept, SchedulerInFlight, SchedulerKept, GrantPublish, Acquire
<1>2. OperatingInFlight'
  BY DEF Kept, OperatingInFlight, OperatingKeptUnlessOverlapped, GrantPublish, Acquire
<1>3. Doubted'
  BY DEF Doubted, GrantPublish, Acquire
<1>4. AnsweredIsStored'
  BY DEF Kept, AnsweredIsStored, GrantPublish
<1>5. OperatorGiven'
  BY DEF Kept, OperatorGiven, GrantPublish
<1> QED
  BY <1>1, <1>2, <1>3, <1>4, <1>5 DEF Kept

LEMMA PublishKeeps == ASSUME Shape, Kept, Publish PROVE Kept'
<1>1. SchedulerInFlight'
  BY DEF Shape, Kept, TypeOK, SchedulerInFlight, SchedulerKept, Publish, Acquire,
     AgentStates
<1>2. OperatingInFlight'
  BY AcquireShape DEF Shape, Kept, TypeOK, OperatingInFlight,
     OperatingKeptUnlessOverlapped, Publish
<1>3. Doubted'
  BY DEF Kept, Doubted, Publish, Acquire
<1>4. AnsweredIsStored'
  BY DEF Kept, AnsweredIsStored, Publish
<1>5. OperatorGiven'
  BY DEF Kept, OperatorGiven, Publish
<1> QED
  BY <1>1, <1>2, <1>3, <1>4, <1>5 DEF Kept

LEMMA EmitSchedulerKeeps == ASSUME Shape, Kept, EmitScheduler PROVE Kept'
<1>1. SchedulerInFlight'
  BY DEF Kept, SchedulerInFlight, SchedulerKept, EmitScheduler
<1>2. OperatingInFlight'
  BY DEF Shape, Kept, Parties, OperatingInFlight, OperatingKeptUnlessOverlapped,
     EmitScheduler
<1>3. Doubted'
  BY DEF Kept, Doubted, EmitScheduler
<1>4. AnsweredIsStored'
  BY DEF Kept, Doubted, AnsweredIsStored, EmitScheduler
<1>5. OperatorGiven'
  BY DEF Kept, OperatorGiven, EmitScheduler
<1> QED
  BY <1>1, <1>2, <1>3, <1>4, <1>5 DEF Kept

LEMMA EmitOperatingKeeps == ASSUME Shape, Kept, EmitOperating PROVE Kept'
<1>1. SchedulerInFlight'
  BY DEF Kept, SchedulerInFlight, SchedulerKept, EmitOperating
<1>2. OperatingInFlight'
  BY DEF Kept, OperatingInFlight, OperatingKeptUnlessOverlapped, EmitOperating, EmittedOf
<1>3. Doubted'
  BY DEF Kept, Doubted, EmitOperating
<1>4. AnsweredIsStored'
  BY DEF Kept, AnsweredIsStored, EmitOperating
<1>5. OperatorGiven'
  BY DEF Kept, OperatorGiven, EmitOperating
<1> QED
  BY <1>1, <1>2, <1>3, <1>4, <1>5 DEF Kept

LEMMA EmitRuntimeKeeps == ASSUME Shape, Kept, EmitRuntime PROVE Kept'
<1>1. SchedulerInFlight'
  BY DEF Kept, SchedulerInFlight, SchedulerKept, EmitRuntime
<1>2. OperatingInFlight'
  BY DEF Kept, OperatingInFlight, OperatingKeptUnlessOverlapped, EmitRuntime
<1>3. Doubted'
  BY DEF Kept, Doubted, EmitRuntime
<1>4. AnsweredIsStored'
  BY DEF Kept, AnsweredIsStored, EmitRuntime
<1>5. OperatorGiven'
  BY DEF Kept, OperatorGiven, EmitRuntime
<1> QED
  BY <1>1, <1>2, <1>3, <1>4, <1>5 DEF Kept

LEMMA StoreManifestKeeps == ASSUME Shape, Kept, StoreManifest PROVE Kept'
<1>1. SchedulerInFlight'
  BY DEF Kept, SchedulerInFlight, SchedulerKept, StoreManifest
<1>2. OperatingInFlight'
  BY DEF Kept, OperatingInFlight, OperatingKeptUnlessOverlapped, StoreManifest
<1>3. Doubted'
  BY DEF Doubted, StoreManifest
<1>4. AnsweredIsStored'
  BY MemoryIsAsked DEF AnsweredIsStored, StoreManifest
<1>5. OperatorGiven'
  BY DEF Kept, SchedulerInFlight, SchedulerKept, OperatorGiven, Applied, StoreManifest
<1> QED
  BY <1>1, <1>2, <1>3, <1>4, <1>5 DEF Kept

LEMMA StoreStartupKeeps == ASSUME Shape, Kept, StoreStartup PROVE Kept'
<1>1. SchedulerInFlight'
  BY DEF Shape, Kept, Parties, SchedulerInFlight, SchedulerKept, StoreStartup
<1>2. OperatingInFlight'
  BY DEF Shape, Kept, Parties, OperatingInFlight, OperatingKeptUnlessOverlapped,
     StoreStartup
<1>3. Doubted'
  BY DEF Doubted, StoreStartup
<1>4. AnsweredIsStored'
  BY MemoryIsAsked DEF AnsweredIsStored, StoreStartup
<1>5. OperatorGiven'
  BY DEF Shape, Kept, Parties, OperatorGiven, StoreStartup
<1> QED
  BY <1>1, <1>2, <1>3, <1>4, <1>5 DEF Kept

LEMMA StoreConfigureKeeps == ASSUME Shape, Kept, StoreConfigure PROVE Kept'
<1>1. SchedulerInFlight'
  BY DEF Shape, Kept, Parties, SchedulerInFlight, SchedulerKept, StoreConfigure
<1>2. OperatingInFlight'
  BY DEF Shape, Kept, Parties, OperatingInFlight, OperatingKeptUnlessOverlapped,
     StoreConfigure
<1>3. Doubted'
  BY DEF Doubted, StoreConfigure
<1>4. AnsweredIsStored'
  BY MemoryIsAsked DEF AnsweredIsStored, StoreConfigure
<1>5. OperatorGiven'
  BY DEF Kept, SchedulerInFlight, SchedulerKept, OperatorGiven, Applied, StoreConfigure
<1> QED
  BY <1>1, <1>2, <1>3, <1>4, <1>5 DEF Kept

LEMMA StorePublishKeeps == ASSUME Shape, Kept, StorePublish PROVE Kept'
<1>1. SchedulerInFlight'
  BY DEF Kept, SchedulerInFlight, SchedulerKept, StorePublish
<1>2. OperatingInFlight'
  BY DEF Kept, OperatingInFlight, OperatingKeptUnlessOverlapped, StorePublish
<1>3. Doubted'
  BY DEF Doubted, StorePublish
<1>4. AnsweredIsStored'
  BY MemoryIsAsked DEF AnsweredIsStored, StorePublish
<1>5. OperatorGiven'
  BY DEF Kept, OperatorGiven, StorePublish
<1> QED
  BY <1>1, <1>2, <1>3, <1>4, <1>5 DEF Kept

LEMMA VotesFailKeeps == ASSUME Shape, Kept, VotesFail PROVE Kept'
<1>1. SchedulerInFlight'
  BY DEF Kept, SchedulerInFlight, SchedulerKept, VotesFail
<1>2. OperatingInFlight'
  BY DEF Kept, OperatingInFlight, OperatingKeptUnlessOverlapped, VotesFail
<1>3. Doubted'
  BY DEF Kept, Doubted, VotesFail
<1>4. AnsweredIsStored'
  BY DEF Kept, AnsweredIsStored, VotesFail
<1>5. OperatorGiven'
  BY DEF Kept, OperatorGiven, VotesFail
<1> QED
  BY <1>1, <1>2, <1>3, <1>4, <1>5 DEF Kept

LEMMA RaisesKeeps == ASSUME Shape, Kept, Raises PROVE Kept'
<1>1. SchedulerInFlight'
  BY DEF Shape, Kept, Parties, SchedulerInFlight, SchedulerKept, Raises
<1>2. OperatingInFlight'
  BY DEF Shape, Kept, Parties, OperatingInFlight, OperatingKeptUnlessOverlapped, Raises
<1>3. Doubted'
  BY DEF Doubted, Raises
<1>4. AnsweredIsStored'
  BY MemoryIsAsked DEF Kept, AnsweredIsStored, Raises, MayHaveStored
<1>5. OperatorGiven'
  BY DEF Kept, OperatorGiven, Raises
<1> QED
  BY <1>1, <1>2, <1>3, <1>4, <1>5 DEF Kept

LEMMA CrashKeeps == ASSUME Shape, Kept, Crash PROVE Kept'
<1>1. SchedulerInFlight'
  BY DEF SchedulerInFlight, SchedulerKept, Crash
<1>2. OperatingInFlight'
  BY DEF OperatingInFlight, OperatingKeptUnlessOverlapped, Crash
<1>3. Doubted'
  BY DEF Doubted, Crash
<1>4. AnsweredIsStored'
  BY MemoryIsAsked DEF Kept, AnsweredIsStored, Crash, MayHaveStored
<1>5. OperatorGiven'
  BY DEF OperatorGiven, Crash
<1> QED
  BY <1>1, <1>2, <1>3, <1>4, <1>5 DEF Kept

LEMMA ConfigureKeeps == ASSUME Shape, Kept, NEW q \in Requests, Configure(q) PROVE Kept'
<1>1. SchedulerInFlight'
  BY DEF Shape, Kept, TypeOK, SchedulerInFlight, SchedulerKept, Configure, Acquire,
     AgentStates, Available
<1>2. OperatingInFlight'
  BY DEF Shape, Kept, TypeOK, Parties, OperatingInFlight, OperatingKeptUnlessOverlapped,
     Configure, Acquire, AgentStates, Available
<1>3. Doubted'
  BY DEF Kept, Doubted, Configure
<1>4. AnsweredIsStored'
  BY DEF Kept, AnsweredIsStored, Configure
<1>5. OperatorGiven'
  BY DEF Kept, OperatorGiven, Configure
<1> QED
  BY <1>1, <1>2, <1>3, <1>4, <1>5 DEF Kept

LEMMA StartKeeps == ASSUME Shape, Start PROVE Kept'
<1> DEFINE recovered == IF kv = None THEN InitialState ELSE kv
           current(cs) == DOMAIN recovered.operating.controllers = cs
           state(cs) == IF current(cs) THEN recovered
                        ELSE [recovered EXCEPT !.operating = ReconciledWith(@, cs)]
<1>1. PICK cs \in SUBSET Controllers :
        /\ config' = cs
        /\ kv' = recovered
        /\ memory' = state(cs)
        /\ asked' = state(cs) /\ doubt' = ~current(cs)
        /\ update' = [by |-> IF current(cs) THEN "startup" ELSE "manifest",
                      at |-> IF current(cs) THEN "runtime" ELSE "operating",
                      operating |-> state(cs).operating]
        /\ operator' = IF current(cs) THEN Applied(state(cs), cs) ELSE None
  BY DEF Start
<1>2. recovered \in AgentStates /\ (~doubt' => state(cs) = recovered)
  BY <1>1, InitialType DEF Shape, TypeOK, Optional
<1>3. ~doubt' => operator' = Applied(asked', config')
  BY <1>1
<1>4. memory' = asked' /\ (~doubt' => kv' = asked')
  BY <1>1
<1>5. update'.by = "manifest" => doubt'
  BY <1>1
<1>6. update'.at # "scheduler" /\ update'.by # "configure"
  BY <1>1
<1> HIDE DEF recovered, current, state
<1>7. configureWaits' = None /\ publishWaits' = None
  BY DEF Start, Shape, Parties
<1>8. SchedulerInFlight' /\ OperatingInFlight'
  BY <1>4, <1>6, <1>7 DEF SchedulerInFlight, SchedulerKept, OperatingInFlight,
                          OperatingKeptUnlessOverlapped
<1>9. Doubted'
  BY <1>5, <1>6 DEF Doubted
<1>10. AnsweredIsStored'
  BY <1>1, <1>2, <1>4, NoneIsNoRecord DEF AnsweredIsStored
<1>11. OperatorGiven'
  BY <1>3 DEF OperatorGiven, Applied
<1> QED
  BY <1>8, <1>9, <1>10, <1>11 DEF Kept

LEMMA KeptStep == ASSUME Shape, Kept, [Next]_vars PROVE Kept'
<1>1. CASE Start
  BY <1>1, StartKeeps
<1>2. CASE \E q \in Requests : Configure(q)
  BY <1>2, ConfigureKeeps
<1>3. CASE Publish
  BY <1>3, PublishKeeps
<1>4. CASE Advance
  BY <1>4, StoreManifestKeeps, StoreStartupKeeps, GrantConfigureKeeps, StoreConfigureKeeps,
     GrantPublishKeeps, StorePublishKeeps, EmitSchedulerKeeps, EmitOperatingKeeps,
     EmitRuntimeKeeps DEF Advance
<1>5. CASE VotesFail \/ Raises \/ Crash
  BY <1>5, VotesFailKeeps, RaisesKeeps, CrashKeeps
<1>6. CASE UNCHANGED vars
  BY <1>6 DEF vars, Kept, SchedulerInFlight, SchedulerKept, OperatingInFlight,
              OperatingKeptUnlessOverlapped, Doubted, AnsweredIsStored, OperatorGiven
<1> QED
  BY <1>1, <1>2, <1>3, <1>4, <1>5, <1>6 DEF Next

\* Events in flight always carry what the configurations add up to.
THEOREM KeptInvariant == Spec => []Kept
<1>1. Init => Kept
  BY InitKept
<1>2. Shape /\ Kept /\ [Next]_vars => Kept'
  BY KeptStep
<1> QED
  BY <1>1, <1>2, ShapeInvariant, PTL DEF Spec

\* No request and no status update ever brings back an older scheduler gate or
\* an older exclusion (derivation before the lock, in waiter order).
THEOREM SchedulerNeverLost == Spec => []SchedulerKept
<1>1. Kept => SchedulerKept
  BY DEF Kept, SchedulerInFlight
<1> QED
  BY <1>1, KeptInvariant, PTL

\* A control gate or an override is lost only through the one overlap, of a
\* status update taken between the two events of a request.
THEOREM OperatingLostOnlyByOverlap == Spec => []OperatingKeptUnlessOverlapped
<1>1. Kept => OperatingKeptUnlessOverlapped
  BY DEF Kept, OperatingInFlight
<1> QED
  BY <1>1, KeptInvariant, PTL

\* No request is lost to the publish loop, but for that overlap.
THEOREM ConfigurationsKept == Spec => []ConfigurationKept
<1>1. Kept => ConfigurationKept
  BY DEF Kept, SchedulerInFlight, OperatingInFlight, ConfigurationKept, SchedulerKept,
         OperatingKeptUnlessOverlapped
<1> QED
  BY <1>1, KeptInvariant, PTL

\* An answered configuration is what a restart recovers (kv_put_model before
\* the answer; every later write stores it again).
THEOREM AnsweredSurvives == Spec => []AnsweredIsStored
<1>1. Kept => AnsweredIsStored
  BY DEF Kept
<1> QED
  BY <1>1, KeptInvariant, PTL

\* The operator enables the programs that the answered configurations leave
\* enabled (apply_to_operator).
THEOREM OperatorFollows == Spec => []OperatorFollowsScheduler
<1>1. Kept => OperatorFollowsScheduler
  BY DEF Kept, OperatorGiven, OperatorFollowsScheduler
<1> QED
  BY <1>1, KeptInvariant, PTL
=============================================================================
