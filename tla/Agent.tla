-------------------------------- MODULE Agent --------------------------------
(***************************************************************************)
(* The agent service: its event-sourced state, the configure request that  *)
(* changes its switches, the publish loop that rewrites the same state     *)
(* with fresh status about once a second, and the virtual operator that a  *)
(* configuration is applied to.                                            *)
(*                                                                         *)
(* The handler and the loop both derive their events from the state before *)
(* they ask for the update lock, and hold it while the events are emitted  *)
(* and the snapshot is stored.  A step is the code between two points      *)
(* where the event loop may switch; an event is set in memory in the step  *)
(* that begins its emission.                                               *)
(*                                                                         *)
(* Status (election results, schedules, runtime samples) is left out of    *)
(* the records: derive_for_status keeps every switch and replaces the      *)
(* rest.  So is the event stream, which recovery does not read.            *)
(***************************************************************************)
EXTENDS Naturals

CONSTANTS
  None,          \* absent value
  Controllers,   \* controllers a configuration may list
  Programs,      \* programs a controller may be assigned
  Tasking,       \* the programs of each controller
  FirstRun,      \* AgentConfig.first_run
  Requests,      \* configure requests that clients send
  MaxRequests,   \* bound: configure requests
  MaxFaults,     \* bound: emissions, publications or KV writes that raise
  MaxStarts      \* bound: starts of the service

Optional(S) == S \cup {None}
Overrides == Optional(BOOLEAN)

ControllerInfo == [control: BOOLEAN, override: Overrides]
OperatingStates ==
  [global: BOOLEAN, controllers: UNION {[cs -> ControllerInfo] : cs \in SUBSET Controllers}]
SchedulerStates == [enabled: BOOLEAN, excluded: SUBSET Programs]
AgentStates == [scheduler: SchedulerStates, operating: OperatingStates]

ConfigureRequests ==
  [global: Optional(BOOLEAN), scheduling: Optional(BOOLEAN),
   control: UNION {[cs -> BOOLEAN] : cs \in SUBSET Controllers},
   override: UNION {[cs -> Overrides] : cs \in SUBSET Controllers},
   exclude: SUBSET Programs, include: SUBSET Programs]

ASSUME AgentAssumption ==
  /\ None \notin BOOLEAN \cup AgentStates \cup ConfigureRequests
  /\ Tasking \in [Controllers -> SUBSET Programs]
  /\ FirstRun \in [operate: BOOLEAN, scheduling: BOOLEAN]
  /\ Requests \subseteq ConfigureRequests
  /\ MaxRequests \in Nat /\ MaxFaults \in Nat /\ MaxStarts \in Nat

VARIABLES
  phase,           \* "down", "starting" or "serving"
  config,          \* the controllers of the AgentConfig read at this start
  memory,          \* AgentState in this process
  kv,              \* its snapshot in the KV store, or None
  update,          \* the update holding the lock, or None
  configuring,     \* the request whose handler holds _configure_lock, or None
  configureWaits,  \* the events it waits for the update lock with, or None
  publishWaits,    \* the events the publish loop waits with, or None
  publishing,      \* the publish loop is alive
  operator,        \* the gates applied to the VirtualOperator
  \* bounds
  requests, faults, starts,
  \* history
  asked,           \* the state the accepted configurations add up to
  doubt,           \* the last of them was not answered with success
  overlapped       \* the loop took its events from a half-applied configuration

lockVars == <<update, configureWaits, publishWaits>>
bounds == <<requests, faults, starts>>
vars == <<phase, config, memory, kv, lockVars, configuring, publishing,
          operator, bounds, asked, doubt, overlapped>>

-----------------------------------------------------------------------------
(* Deriving events.                                                        *)

Given(change, c, old) == IF c \in DOMAIN change THEN change[c] ELSE old
OrKeep(change, old) == IF change = None THEN old ELSE change

SchedulerFor(s, q) ==
  [enabled |-> OrKeep(q.scheduling, s.enabled),
   excluded |-> (s.excluded \cup q.exclude) \ q.include]

\* Variant: a request adds the controllers it names.
OperatingForNamed(o, q) ==
  [global |-> OrKeep(q.global, o.global),
   controllers |-> [c \in DOMAIN o.controllers \cup DOMAIN q.control |->
     [control |-> IF c \in DOMAIN q.control THEN q.control[c] ELSE o.controllers[c].control,
      override |-> IF c \in DOMAIN o.controllers
                   THEN Given(q.override, c, o.controllers[c].override) ELSE None]]]

OperatingFor(o, q) ==
  [global |-> OrKeep(q.global, o.global),
   controllers |-> [c \in DOMAIN o.controllers |->
     [control |-> Given(q.control, c, o.controllers[c].control),
      override |-> Given(q.override, c, o.controllers[c].override)]]]

DefaultInfo == [control |-> TRUE, override |-> None]

ReconciledWith(o, cs) ==
  [o EXCEPT !.controllers = [c \in cs |-> Given(o.controllers, c, DefaultInfo)]]

InitialState ==
  [scheduler |-> [enabled |-> FirstRun.scheduling, excluded |-> {}],
   operating |-> [global |-> FirstRun.operate, controllers |-> <<>>]]

-----------------------------------------------------------------------------
(* The virtual operator.                                                   *)

AssignedPrograms(cs) == UNION {Tasking[c] : c \in cs}

\* Variant: a program once excluded is never enabled again.
AppliedSticky(s, cs) ==
  [scheduling |-> s.scheduler.enabled,
   programs |-> (IF operator = None THEN AssignedPrograms(cs) ELSE operator.programs)
                \ s.scheduler.excluded,
   gates |-> [c \in cs |-> s.operating.global /\ s.operating.controllers[c].control],
   votes |-> [c \in cs |-> s.operating.controllers[c].override]]

\* apply_to_operator: nothing in it suspends.
Applied(s, cs) ==
  [scheduling |-> s.scheduler.enabled,
   programs |-> AssignedPrograms(cs) \ s.scheduler.excluded,
   gates |-> [c \in cs |-> s.operating.global /\ s.operating.controllers[c].control],
   votes |-> [c \in cs |-> s.operating.controllers[c].override]]

-----------------------------------------------------------------------------
(* The update lock.                                                        *)

\* Variant: a newcomer takes a lock that was handed to the publish loop.
AvailableToNewcomer == update = None

\* Granted at once: the lock is free and nobody was woken for it.
Available == update = None /\ publishWaits = None /\ configureWaits = None

\* The first event is set and its emission begins as the lock is acquired.
Acquire(by, events) ==
  /\ update' = [by |-> by, at |-> "scheduler", operating |-> events.operating]
  /\ memory' = [memory EXCEPT !.scheduler = events.scheduler]

EmittedOf(by) == IF by = "publish" THEN "runtime" ELSE "kv"

-----------------------------------------------------------------------------
(* Startup.                                                                *)

Start ==
  /\ phase = "down" /\ starts < MaxStarts
  /\ starts' = starts + 1
  /\ phase' = "starting"
  /\ \E cs \in SUBSET Controllers :
       LET recovered == IF kv = None THEN InitialState ELSE kv
           current == DOMAIN recovered.operating.controllers = cs
           state == IF current THEN recovered
                    ELSE [recovered EXCEPT !.operating = ReconciledWith(@, cs)]
       IN  /\ config' = cs
           /\ kv' = recovered
           /\ memory' = state
           /\ asked' = state /\ doubt' = ~current
           /\ update' = [by |-> IF current THEN "startup" ELSE "manifest",
                         at |-> IF current THEN "runtime" ELSE "operating",
                         operating |-> state.operating]
           /\ operator' = IF current THEN Applied(state, cs) ELSE None
    /\ overlapped' = FALSE
  /\ UNCHANGED <<configuring, configureWaits, publishWaits, publishing, requests, faults>>

\* The reconciled state is stored: apply it, then replace the runtime state.
StoreManifest ==
  /\ update # None /\ update.by = "manifest" /\ update.at = "kv"
  /\ kv' = memory
  /\ operator' = Applied(memory, config)
  /\ update' = [update EXCEPT !.by = "startup", !.at = "runtime"]
  /\ doubt' = FALSE
  /\ UNCHANGED <<phase, config, memory, configuring, configureWaits, publishWaits,
                 publishing, bounds, asked, overlapped>>

\* The operator is started, the handler registered, the publish task created.
StoreStartup ==
  /\ update # None /\ update.by = "startup" /\ update.at = "kv"
  /\ kv' = memory
  /\ update' = None
  /\ phase' = "serving" /\ publishing' = TRUE
  /\ UNCHANGED <<config, memory, configuring, configureWaits, publishWaits, operator,
                 bounds, asked, doubt, overlapped>>

-----------------------------------------------------------------------------
(* The configure request.                                                  *)

\* A handler that gets _configure_lock derives both events at once.
Configure(q) ==
  /\ phase = "serving" /\ configuring = None /\ requests < MaxRequests
  /\ requests' = requests + 1
  /\ configuring' = q
  /\ LET events == [scheduler |-> SchedulerFor(memory.scheduler, q),
                    operating |-> OperatingFor(memory.operating, q)]
     IN  IF Available
         THEN /\ Acquire("configure", events)
              /\ asked' = [asked EXCEPT !.scheduler = SchedulerFor(@, q)]
              /\ doubt' = TRUE
              /\ UNCHANGED configureWaits
         ELSE /\ configureWaits' = events
              /\ UNCHANGED <<update, memory, asked, doubt>>
  /\ UNCHANGED <<phase, config, kv, publishWaits, publishing, operator, faults, starts,
                 overlapped>>

\* Variant: the last to wait is granted first.
GrantConfigureFirst ==
  /\ update = None /\ configureWaits # None
  /\ Acquire("configure", configureWaits)
  /\ configureWaits' = None
  /\ asked' = [asked EXCEPT !.scheduler = SchedulerFor(@, configuring)]
  /\ doubt' = TRUE
  /\ UNCHANGED <<phase, config, kv, configuring, publishWaits, publishing, operator,
                 bounds, overlapped>>

\* The lock is handed to the waiters in order; the loop is always first.
GrantConfigure ==
  /\ update = None /\ publishWaits = None /\ configureWaits # None
  /\ Acquire("configure", configureWaits)
  /\ configureWaits' = None
  /\ asked' = [asked EXCEPT !.scheduler = SchedulerFor(@, configuring)]
  /\ doubt' = TRUE
  /\ UNCHANGED <<phase, config, kv, configuring, publishWaits, publishing, operator,
                 bounds, overlapped>>

\* Variant: the update does not publish the state.
StoreConfigureEventsOnly ==
  /\ update # None /\ update.by = "configure" /\ update.at = "kv"
  /\ operator' = Applied(memory, config)
  /\ update' = None /\ configuring' = None /\ doubt' = FALSE
  /\ UNCHANGED <<phase, config, memory, kv, configureWaits, publishWaits, publishing,
                 bounds, asked, overlapped>>

\* The snapshot is stored, applied to the operator, and the request answered.
StoreConfigure ==
  /\ update # None /\ update.by = "configure" /\ update.at = "kv"
  /\ kv' = memory
  /\ operator' = Applied(memory, config)
  /\ update' = None /\ configuring' = None /\ doubt' = FALSE
  /\ UNCHANGED <<phase, config, memory, configureWaits, publishWaits, publishing,
                 bounds, asked, overlapped>>

-----------------------------------------------------------------------------
(* The publish loop.                                                       *)

\* Once around the loop: the votes are published, then the events derived.
\* After its own update the loop sleeps, so a handler it woke goes first.
Publish ==
  /\ phase = "serving" /\ publishing
  /\ publishWaits = None /\ configureWaits = None
  /\ IF Available
     THEN /\ Acquire("publish", memory)
          /\ UNCHANGED <<publishWaits, overlapped>>
     ELSE /\ update.by = "configure"
          /\ publishWaits' = memory
          /\ overlapped' = (overlapped \/ update.at = "scheduler")
          /\ UNCHANGED <<update, memory>>
  /\ UNCHANGED <<phase, config, kv, configuring, configureWaits, publishing, operator,
                 bounds, asked, doubt>>

GrantPublish ==
  /\ update = None /\ publishWaits # None
  /\ Acquire("publish", publishWaits)
  /\ publishWaits' = None
  /\ UNCHANGED <<phase, config, kv, configuring, configureWaits, publishing, operator,
                 bounds, asked, doubt, overlapped>>

StorePublish ==
  /\ update # None /\ update.by = "publish" /\ update.at = "kv"
  /\ kv' = memory
  /\ update' = None
  /\ UNCHANGED <<phase, config, memory, configuring, configureWaits, publishWaits,
                 publishing, operator, bounds, asked, doubt, overlapped>>

\* Publishing the votes raises: nothing catches it, the task is over.
VotesFail ==
  /\ phase = "serving" /\ publishing
  /\ publishWaits = None /\ configureWaits = None
  /\ update # None => update.by # "publish"
  /\ faults < MaxFaults /\ faults' = faults + 1
  /\ publishing' = FALSE
  /\ UNCHANGED <<phase, config, memory, kv, lockVars, configuring, operator, requests,
                 starts, asked, doubt, overlapped>>

-----------------------------------------------------------------------------
(* Emission and storage.                                                   *)

EmitScheduler ==
  /\ update # None /\ update.at = "scheduler"
  /\ memory' = [memory EXCEPT !.operating = update.operating]
  /\ update' = [update EXCEPT !.at = "operating"]
  /\ asked' = IF update.by = "configure"
              THEN [asked EXCEPT !.operating = OperatingFor(@, configuring)]
              ELSE asked
  /\ UNCHANGED <<phase, config, kv, configuring, configureWaits, publishWaits, publishing,
                 operator, bounds, doubt, overlapped>>

EmitOperating ==
  /\ update # None /\ update.at = "operating"
  /\ update' = [update EXCEPT !.at = EmittedOf(update.by)]
  /\ UNCHANGED <<phase, config, memory, kv, configuring, configureWaits, publishWaits,
                 publishing, operator, bounds, asked, doubt, overlapped>>

EmitRuntime ==
  /\ update # None /\ update.at = "runtime"
  /\ update' = [update EXCEPT !.at = "kv"]
  /\ UNCHANGED <<phase, config, memory, kv, configuring, configureWaits, publishWaits,
                 publishing, operator, bounds, asked, doubt, overlapped>>

\* A KV write that raises, or that a crash cuts off, may have been stored.
MayHaveStored ==
  kv' \in IF update # None /\ update.at = "kv" THEN {kv, memory} ELSE {kv}

\* Variant: the lock is not released when the body raises.
RaisesHolding ==
  /\ update # None /\ faults < MaxFaults /\ faults' = faults + 1
  /\ update.by = "configure"
  /\ MayHaveStored
  /\ configuring' = None /\ update' = [update EXCEPT !.at = "held"]
  /\ UNCHANGED <<phase, publishing, operator>>
  /\ UNCHANGED <<config, memory, configureWaits, publishWaits, requests, starts, asked,
                 doubt, overlapped>>

\* An emission or the KV write raises; the lock is released as it propagates:
\* to the client, out of the publish task, or out of the starting service.
Raises ==
  /\ update # None /\ faults < MaxFaults /\ faults' = faults + 1
  /\ MayHaveStored
  /\ update' = None
  /\ configuring' = IF update.by = "configure" THEN None ELSE configuring
  /\ publishing' = (publishing /\ update.by # "publish")
  /\ phase' = IF phase = "starting" THEN "down" ELSE phase
  /\ operator' = IF phase = "starting" THEN None ELSE operator
  /\ UNCHANGED <<config, memory, configureWaits, publishWaits, requests, starts, asked,
                 doubt, overlapped>>

\* The process is killed or stopped.
Crash ==
  /\ phase # "down"
  /\ MayHaveStored
  /\ phase' = "down" /\ operator' = None /\ publishing' = FALSE
  /\ update' = None /\ configuring' = None
  /\ configureWaits' = None /\ publishWaits' = None
  /\ UNCHANGED <<config, memory, bounds, asked, doubt, overlapped>>

-----------------------------------------------------------------------------

Init ==
  /\ phase = "down" /\ config = {} /\ memory = InitialState /\ kv = None
  /\ update = None /\ configuring = None
  /\ configureWaits = None /\ publishWaits = None /\ publishing = FALSE
  /\ operator = None
  /\ requests = 0 /\ faults = 0 /\ starts = 0
  /\ asked = InitialState /\ doubt = TRUE /\ overlapped = FALSE

Advance ==
  \/ StoreManifest \/ StoreStartup \/ GrantConfigure \/ StoreConfigure
  \/ GrantPublish \/ StorePublish
  \/ EmitScheduler \/ EmitOperating \/ EmitRuntime

Next ==
  \/ Start
  \/ \E q \in Requests : Configure(q)
  \/ Publish \/ VotesFail
  \/ Advance
  \/ Raises \/ Crash

Spec == Init /\ [][Next]_vars

\* Emissions and KV writes end, the lock's waiters are woken, the loop's
\* sleep ends.  Clients, faults and restarts owe nothing.
FairSpec == Spec /\ WF_vars(Advance) /\ WF_vars(Publish)

-----------------------------------------------------------------------------
(* Properties.                                                             *)

Updates ==
  [by: {"manifest", "startup", "configure", "publish"},
   at: {"scheduler", "operating", "runtime", "kv"}, operating: OperatingStates]

OperatorStates(cs) ==
  [scheduling: BOOLEAN, programs: SUBSET Programs,
   gates: [cs -> BOOLEAN], votes: [cs -> Overrides]]

\* Every variable has its type, the lock's holder and waiters are the parties
\* that can be, and a running agent keeps an entry for exactly the controllers
\* of its configuration, whatever clients and older snapshots name
\* (derive_for_request and derive_for_config_change).
TypeOK ==
  /\ phase \in {"down", "starting", "serving"}
  /\ config \subseteq Controllers
  /\ memory \in AgentStates /\ kv \in Optional(AgentStates) /\ asked \in AgentStates
  /\ update \in Optional(Updates)
  /\ configuring \in Optional(Requests)
  /\ configureWaits \in Optional(AgentStates) /\ publishWaits \in Optional(AgentStates)
  /\ publishing \in BOOLEAN /\ doubt \in BOOLEAN /\ overlapped \in BOOLEAN
  /\ operator \in Optional(OperatorStates(config))
  /\ requests \in 0..MaxRequests /\ faults \in 0..MaxFaults /\ starts \in 0..MaxStarts
  /\ phase # "down" => DOMAIN memory.operating.controllers = config

\* The scheduler part of the state is what the accepted requests add up to:
\* neither a request that waited while the loop held the lock, nor the loop
\* that waited while a request held it, brings an older scheduler gate or an
\* older exclusion back (derivation before the lock in _agent_configure_request
\* and publish()).
SchedulerKept == phase # "down" => memory.scheduler = asked.scheduler

\* The same of the operating part, unless the loop took its events from a
\* configuration whose operating event was still to come.
OperatingKeptUnlessOverlapped ==
  phase # "down" /\ ~overlapped => memory.operating = asked.operating

\* No request is lost to the publish loop, but for one overlap.
ConfigurationKept == SchedulerKept /\ OperatingKeptUnlessOverlapped

\* The same of the operating part, always: the control gates and overrides are
\* the ones that were configured ("Three independent switches gate autonomy,
\* all persisted across restarts"; "without racing the publish loop's updates").
OperatingKept == phase # "down" => memory.operating = asked.operating

\* A configuration that was answered with success survives any crash, failed
\* write and later status update: a restart finds it in the KV store.
AnsweredIsStored ==
  ~doubt => /\ kv # None
            /\ kv.scheduler = asked.scheduler
            /\ ~overlapped => kv.operating = asked.operating

\* When no configuration is in doubt, the virtual operator enables exactly the
\* programs that the configurations leave enabled, behind the scheduler gate:
\* applying a state undoes the exclusions it no longer lists.
OperatorFollowsScheduler ==
  phase = "serving" /\ ~doubt =>
    /\ operator.scheduling = asked.scheduler.enabled
    /\ operator.programs = AssignedPrograms(config) \ asked.scheduler.excluded

\* Every configure request is answered, with success or an error, or cut off
\* by a crash: a failed emission releases the lock and the waiters go on.
RequestsAnswered == configuring # None ~> configuring = None
=============================================================================
