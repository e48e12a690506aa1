------------------------------- MODULE Service -------------------------------
(***************************************************************************)
(* Services, the entities they register and the leases that keep a second  *)
(* copy out: Lease and LeaseGroup (backend/lease.py), ServiceContext       *)
(* (core/client.py) and the declarative Service that drives it             *)
(* (api/declarative.py).                                                   *)
(*                                                                         *)
(* A lease is an entry of the key-value store with a TTL. Its holder knows *)
(* the revision of its last write, and every refresh and delete names it.  *)
(* Revisions are only ever compared: what is kept of them is whether the   *)
(* entry is the holder's and whether the holder knows of its last write.   *)
(***************************************************************************)
EXTENDS Naturals

CONSTANTS
  Services,        \* processes that run a service
  Others,          \* holders of leases that are not modelled
  Names, Name,     \* names of services, and the name each process runs under
  Entities,
  Declared,        \* the entities each process declares
  None,
  MaxLosses,       \* bound: entries of maintained leases that expire or are deleted
  MaxFaults,       \* bound: backend calls and hooks that raise
  MaxCrashes       \* bound: services that die

ASSUME ServiceAssumption ==
  /\ Name \in [Services -> Names] /\ Declared \in [Services -> SUBSET Entities]
  /\ Names \cap Entities = {} /\ None \notin Services \cup Others \cup Names \cup Entities
  /\ Services \cap Others = {}
  /\ MaxLosses \in Nat /\ MaxFaults \in Nat /\ MaxCrashes \in Nat

Keys == Names \cup Entities        \* "EntityLease" of each; a service is an entity itself
Callers == {"shutdown", "loop"}    \* of LeaseGroup.expire

VARIABLES
  entry,       \* the key-value store: who holds each key
  \* LeaseGroup and its leases
  lease,       \* none, held or expired: the Lease objects
  behind,      \* leases whose _revision is older than their entry, for a lost answer
  called,      \* leases with expire_called
  deleting,    \* Lease.expire holds the lease's lock and awaits its delete
  expiring,    \* calls of LeaseGroup.expire
  cut,         \* the waiters in _lease_waiters are cancelled
  refreshing,  \* the lease whose refresh the loop awaits
  \* ServiceContext
  reg,         \* register_impl, for each impl
  task,        \* _service_task
  broken,      \* an exception is leaving refresh_loop
  outcome,     \* of the _shutdown future
  asked,       \* _shutdown_called
  detached,    \* impls whose detach ran
  \* the declarative Service
  main,
  up,
  losses, faults, crashes

groupVars == <<lease, behind, called, deleting, expiring, cut, refreshing>>
taskVars == <<task, broken, outcome, detached>>
mainVars == <<main, asked>>
bounds == <<losses, faults, crashes>>
vars == <<entry, groupVars, reg, taskVars, mainVars, up, bounds>>

NotCalled == [stage |-> "idle", leases |-> {}, left |-> {}, late |-> FALSE]

Init ==
  /\ entry = [k \in Keys |-> None]
  /\ lease = [s \in Services |-> [k \in Keys |-> "none"]]
  /\ behind = [s \in Services |-> {}] /\ called = [s \in Services |-> {}]
  /\ deleting = [s \in Services |-> [k \in Keys |-> None]]
  /\ expiring = [s \in Services |-> [c \in Callers |-> NotCalled]]
  /\ cut = [s \in Services |-> FALSE]
  /\ refreshing = [s \in Services |-> None]
  /\ reg = [s \in Services |-> [k \in Keys |-> "none"]]
  /\ task = [s \in Services |-> "none"] /\ broken = [s \in Services |-> FALSE]
  /\ outcome = [s \in Services |-> None] /\ asked = [s \in Services |-> FALSE]
  /\ detached = [s \in Services |-> {}]
  /\ main = [s \in Services |-> "idle"] /\ up = [s \in Services |-> TRUE]
  /\ losses = 0 /\ faults = 0 /\ crashes = 0

Held(s) == {k \in Keys : lease[s][k] = "held"}
Fault == faults < MaxFaults /\ faults' = faults + 1
NoFault == UNCHANGED faults

-----------------------------------------------------------------------------
(* Lease and LeaseGroup.                                                   *)

\* The backend answers a write of s that names the revision s knows.
Matches(s, k) == entry[k] = s /\ k \notin behind[s]

\* Variant: the registration goes on without the lease.
AnswerIgnored(k) == "init"

\* Lease.acquire: kv.create is refused when the key is held, and register_impl
\* raises. A call that raises may have been executed.
Answer(k) == IF entry[k] = None THEN "init" ELSE "refused"

Create(s, k) ==
  /\ up[s] /\ reg[s][k] = "creating"
  /\ \/ /\ reg' = [reg EXCEPT ![s][k] = Answer(k)]
        /\ IF entry[k] = None
           THEN /\ entry' = [entry EXCEPT ![k] = s]
                /\ lease' = [lease EXCEPT ![s][k] = "held"]
           ELSE UNCHANGED <<entry, lease>>
        /\ NoFault
     \/ /\ Fault /\ reg' = [reg EXCEPT ![s][k] = "refused"]
        /\ \/ UNCHANGED entry
           \/ entry[k] = None /\ entry' = [entry EXCEPT ![k] = s]
        /\ UNCHANGED lease
  /\ UNCHANGED <<behind, called, deleting, expiring, cut, refreshing, taskVars, mainVars, up,
                 losses, crashes>>

\* LeaseGroup.expire takes the leases that are not expired at its call.
\* Variant: a lease is not expired twice.
ExpireGroupOnce(s, c) ==
  expiring' = [expiring EXCEPT ![s][c] =
    [stage |-> "running", leases |-> Held(s) \ called[s], left |-> Held(s) \ called[s],
     late |-> FALSE]]

ExpireGroup(s, c) ==
  expiring' = [expiring EXCEPT ![s][c] =
    [stage |-> "running", leases |-> Held(s), left |-> Held(s), late |-> FALSE]]

\* Lease.expire, under the lease's lock, unless the lease has expired meanwhile.
BeginDelete(s, c, k) ==
  /\ up[s] /\ k \in expiring[s][c].left /\ deleting[s][k] = None /\ lease[s][k] = "held"
  /\ deleting' = [deleting EXCEPT ![s][k] = [by |-> c, known |-> k \notin behind[s]]]
  /\ called' = [called EXCEPT ![s] = @ \cup {k}]
  /\ UNCHANGED <<entry, lease, behind, expiring, cut, refreshing, reg, taskVars, mainVars, up,
                 bounds>>

\* A call of expire after its delete of k.
Without(call, k, late) ==
  [stage |-> call.stage, leases |-> call.leases, left |-> call.left \ {k},
   late |-> call.late \/ late]

\* The delete is answered, raises, or takes more than a second. Deleting a key
\* that is gone is refused or not, as the backend has it.
Deleted(s, k) ==
  LET by == deleting[s][k].by
      matches == deleting[s][k].known /\ entry[k] = s
  IN
  /\ up[s] /\ deleting[s][k] # None
  /\ deleting' = [deleting EXCEPT ![s][k] = None]
  /\ \E late \in BOOLEAN :
       /\ expiring' = [expiring EXCEPT ![s][by] = Without(@, k, late)]
       /\ \/ /\ matches \/ entry[k] = None
             /\ entry' = [entry EXCEPT ![k] = None]
             /\ lease' = [lease EXCEPT ![s][k] = "expired"]
             /\ ~late /\ NoFault
          \/ /\ ~matches
             /\ ~late /\ NoFault /\ UNCHANGED <<entry, lease>>
          \/ /\ Fault
             /\ \/ UNCHANGED entry
                \/ matches /\ entry' = [entry EXCEPT ![k] = None]
             /\ UNCHANGED lease
  /\ UNCHANGED <<behind, called, cut, refreshing, reg, taskVars, mainVars, up, losses, crashes>>

\* _expiry_monitor polls the key. It notices that the entry is gone, but not
\* that it is another's.
MonitorSees(s, k) ==
  /\ up[s] /\ lease[s][k] = "held" /\ entry[k] = None
  /\ lease' = [lease EXCEPT ![s][k] = "expired"]
  /\ UNCHANGED <<entry, behind, called, deleting, expiring, cut, refreshing, reg, taskVars,
                 mainVars, up, bounds>>

\* A poll that raises, or none that succeeds for the TTL, expires the lease.
MonitorFails(s, k) ==
  /\ up[s] /\ lease[s][k] = "held" /\ Fault
  /\ lease' = [lease EXCEPT ![s][k] = "expired"]
  /\ UNCHANGED <<entry, behind, called, deleting, expiring, cut, refreshing, reg, taskVars,
                 mainVars, up, losses, crashes>>

\* _wait_for_event returns False: a lease expired, or its waiter was cancelled.
\* Variant: only a lease that expired ends the loop.
InterruptedByExpiry(s) == \E k \in Keys : lease[s][k] = "expired"

Interrupted(s) == cut[s] \/ \E k \in Keys : lease[s][k] = "expired"

\* refresh_loop takes the lease whose refresh is due.
BeginRefresh(s, k) ==
  /\ up[s] /\ task[s] = "loop" /\ refreshing[s] = None /\ ~Interrupted(s)
  /\ lease[s][k] = "held"
  /\ refreshing' = [refreshing EXCEPT ![s] = k]
  /\ UNCHANGED <<entry, lease, behind, called, deleting, expiring, cut, reg, taskVars, mainVars,
                 up, bounds>>

\* A delete that is on its way does not know of a refresh executed before it.
Outdated(s, k) ==
  deleting' = IF deleting[s][k] = None THEN deleting
              ELSE [deleting EXCEPT ![s][k] = [by |-> @.by, known |-> FALSE]]

\* refresh_loop is left: all leases of the group are expired.
LeaveLoop(s, error) ==
  /\ task' = [task EXCEPT ![s] = "expiring"]
  /\ broken' = [broken EXCEPT ![s] = error]
  /\ ExpireGroup(s, "loop")
  /\ UNCHANGED <<outcome, detached>>

Refreshed(s) ==
  LET k == refreshing[s] IN
  /\ up[s] /\ k # None
  /\ refreshing' = [refreshing EXCEPT ![s] = None]
  /\ \/ Matches(s, k) /\ Outdated(s, k) /\ UNCHANGED <<expiring, taskVars>>
     \/ ~Matches(s, k) /\ LeaveLoop(s, TRUE) /\ UNCHANGED deleting
  /\ UNCHANGED <<entry, lease, behind, called, cut, reg, mainVars, up, bounds>>

\* A refresh raises although it may have been executed, or a task of the
\* service's group fails, which cancels the loop wherever it waits.
LoopFails(s) ==
  LET k == refreshing[s] IN
  /\ up[s] /\ task[s] = "loop" /\ Fault /\ LeaveLoop(s, TRUE)
  /\ refreshing' = [refreshing EXCEPT ![s] = None]
  /\ \/ UNCHANGED <<behind, deleting>>
     \/ /\ k # None /\ Matches(s, k) /\ Outdated(s, k)
        /\ behind' = [behind EXCEPT ![s] = @ \cup {k}]
  /\ UNCHANGED <<entry, lease, called, cut, reg, mainVars, up, losses, crashes>>

\* The loop ends; leases that expired uncalled for are reported as abandoned.
\* Variant: the loop is left in the middle of a refresh.
BreakLoopAtOnce(s) ==
  /\ up[s] /\ task[s] = "loop" /\ Interrupted(s)
  /\ LeaveLoop(s, \E k \in Keys \ called[s] : lease[s][k] = "expired")
  /\ UNCHANGED <<entry, lease, behind, called, deleting, cut, refreshing, reg, mainVars, up, bounds>>

BreakLoop(s) ==
  /\ up[s] /\ task[s] = "loop" /\ refreshing[s] = None /\ Interrupted(s)
  /\ LeaveLoop(s, \E k \in Keys \ called[s] : lease[s][k] = "expired")
  /\ UNCHANGED <<entry, lease, behind, called, deleting, cut, refreshing, reg, mainVars, up, bounds>>

\* LeaseGroup.expire cancels the waiters, and raises when a lease is left.
GroupExpired(s, c) ==
  /\ up[s] /\ expiring[s][c].stage = "running"
  /\ \A k \in expiring[s][c].left : lease[s][k] = "expired" /\ deleting[s][k] = None
  /\ expiring' = [expiring EXCEPT ![s][c] =
       [stage |-> "done", leases |-> @.leases, left |-> {}, late |-> @.late]]
  /\ cut' = [cut EXCEPT ![s] = TRUE]
Unexpired(s, c) == expiring[s][c].leases \cap Held(s)

-----------------------------------------------------------------------------
(* ServiceContext.                                                         *)

\* register_impl after the lease: init_impl, which for the service itself
\* starts the service task; the impl is then tracked and attached.
Initialize(s, k) ==
  /\ up[s] /\ reg[s][k] = "init"
  /\ \/ /\ reg' = [reg EXCEPT ![s][k] = "attaching"] /\ NoFault
        /\ task' = IF k = Name[s] THEN [task EXCEPT ![s] = "loop"] ELSE task
     \/ /\ reg' = [reg EXCEPT ![s][k] = "refused"] /\ Fault
        /\ UNCHANGED task
  /\ UNCHANGED <<entry, groupVars, broken, outcome, detached, mainVars, up, losses, crashes>>

Attach(s, k) ==
  /\ up[s] /\ reg[s][k] = "attaching"
  /\ \/ reg' = [reg EXCEPT ![s][k] = "attached"] /\ NoFault
     \/ reg' = [reg EXCEPT ![s][k] = "failed"] /\ Fault
  /\ UNCHANGED <<entry, groupVars, taskVars, mainVars, up, losses, crashes>>

\* The service task expires the group, whichever way the loop ended.
LoopExpired(s) ==
  /\ GroupExpired(s, "loop")
  /\ task' = [task EXCEPT ![s] = "detaching"]
  /\ broken' = [broken EXCEPT ![s] = @ \/ Unexpired(s, "loop") # {}]
  /\ UNCHANGED <<entry, lease, behind, called, deleting, refreshing, reg, outcome, detached,
                 mainVars, up, bounds>>

\* _run_detach detaches the impls tracked so far, and the task ends.
Detach(s) ==
  /\ up[s] /\ task[s] = "detaching"
  /\ task' = [task EXCEPT ![s] = "ended"]
  /\ detached' = [detached EXCEPT ![s] =
       {k \in Keys : reg[s][k] \in {"attaching", "attached", "failed"}}]
  /\ outcome' = [outcome EXCEPT ![s] =
       IF broken[s] THEN "error" ELSE IF asked[s] THEN "normal" ELSE "cancelled"]
  /\ UNCHANGED <<entry, groupVars, reg, broken, mainVars, up, bounds>>

-----------------------------------------------------------------------------
(* The declarative Service: register, start, run, stop.                    *)

Register(s) ==
  /\ up[s] /\ main[s] = "idle"
  /\ main' = [main EXCEPT ![s] = "registering"]
  /\ reg' = [reg EXCEPT ![s][Name[s]] = "creating"]
  /\ UNCHANGED <<entry, groupVars, taskVars, asked, up, bounds>>

\* register_service raised: there is no context to shut down.
NotRegistered(s) ==
  /\ up[s] /\ main[s] = "registering" /\ reg[s][Name[s]] \in {"refused", "failed"}
  /\ main' = [main EXCEPT ![s] = "stopped"]
  /\ UNCHANGED <<entry, groupVars, reg, taskVars, asked, up, bounds>>

\* start registers the declared entities concurrently.
Start(s) ==
  /\ up[s] /\ main[s] = "registering" /\ reg[s][Name[s]] = "attached"
  /\ main' = [main EXCEPT ![s] = "starting"]
  /\ reg' = [reg EXCEPT ![s] = [k \in Keys |-> IF k \in Declared[s] THEN "creating" ELSE @[k]]]
  /\ UNCHANGED <<entry, groupVars, taskVars, asked, up, bounds>>

Started(s) ==
  /\ up[s] /\ main[s] = "starting" /\ \A k \in Declared[s] : reg[s][k] = "attached"
  /\ main' = [main EXCEPT ![s] = "running"]
  /\ UNCHANGED <<entry, groupVars, reg, taskVars, asked, up, bounds>>

\* ServiceContext.shutdown.
ShutDown(s) ==
  /\ main' = [main EXCEPT ![s] = "stopping"]
  /\ asked' = [asked EXCEPT ![s] = TRUE]
  /\ ExpireGroup(s, "shutdown")
  /\ UNCHANGED <<entry, lease, behind, called, deleting, cut, refreshing, reg, taskVars, up, bounds>>

\* asyncio.gather raises with the first registration that fails, and leaves the
\* others running.
StartFails(s) ==
  /\ up[s] /\ main[s] = "starting" /\ \E k \in Declared[s] : reg[s][k] \in {"refused", "failed"}
  /\ ShutDown(s)

Stop(s) == up[s] /\ main[s] = "running" /\ ShutDown(s)

\* run: the service task has ended, and stop follows.
StopEnded(s) == task[s] = "ended" /\ Stop(s)

\* Errors of the backend are ignored by shutdown, a timeout leaves it at once.
ShutdownExpired(s) ==
  /\ GroupExpired(s, "shutdown")
  /\ main' = [main EXCEPT ![s] =
       IF Unexpired(s, "shutdown") # {} /\ expiring[s]["shutdown"].late THEN "stopped" ELSE "joining"]
  /\ UNCHANGED <<entry, lease, behind, called, deleting, refreshing, reg, taskVars, asked, up, bounds>>

Join(s) ==
  /\ up[s] /\ main[s] = "joining" /\ task[s] = "ended"
  /\ main' = [main EXCEPT ![s] = "stopped"]
  /\ UNCHANGED <<entry, groupVars, reg, taskVars, asked, up, bounds>>

-----------------------------------------------------------------------------
(* Entries that go by themselves, and services that die.                   *)

Maintained(s) == s \in Services /\ up[s] /\ (task[s] = "loop" \/ main[s] = "registering")

\* The TTL of an entry passes, because nobody refreshes it or because the
\* refreshes stall; or somebody deletes it.
Expires(k) ==
  /\ entry[k] # None /\ ~Maintained(entry[k])
  /\ entry' = [entry EXCEPT ![k] = None]
  /\ UNCHANGED <<groupVars, reg, taskVars, mainVars, up, bounds>>

\* A process that is not modelled acquires the key; it gives it up like a TTL.
Taken(k) ==
  /\ entry[k] = None
  /\ \E o \in Others : entry' = [entry EXCEPT ![k] = o]
  /\ UNCHANGED <<groupVars, reg, taskVars, mainVars, up, bounds>>

Lost(k) ==
  /\ entry[k] # None /\ Maintained(entry[k])
  /\ losses < MaxLosses /\ losses' = losses + 1
  /\ entry' = [entry EXCEPT ![k] = None]
  /\ UNCHANGED <<groupVars, reg, taskVars, mainVars, up, faults, crashes>>

Crash(s) ==
  /\ up[s] /\ main[s] # "idle" /\ crashes < MaxCrashes
  /\ crashes' = crashes + 1
  /\ up' = [up EXCEPT ![s] = FALSE]
  /\ lease' = [lease EXCEPT ![s] = [k \in Keys |-> "none"]]
  /\ deleting' = [deleting EXCEPT ![s] = [k \in Keys |-> None]]
  /\ expiring' = [expiring EXCEPT ![s] = [c \in Callers |-> NotCalled]]
  /\ behind' = [behind EXCEPT ![s] = {}] /\ called' = [called EXCEPT ![s] = {}]
  /\ cut' = [cut EXCEPT ![s] = FALSE] /\ refreshing' = [refreshing EXCEPT ![s] = None]
  /\ reg' = [reg EXCEPT ![s] = [k \in Keys |-> "none"]]
  /\ task' = [task EXCEPT ![s] = "none"] /\ broken' = [broken EXCEPT ![s] = FALSE]
  /\ main' = [main EXCEPT ![s] = "stopped"] /\ asked' = [asked EXCEPT ![s] = FALSE]
  /\ detached' = [detached EXCEPT ![s] = {}]
  /\ UNCHANGED <<entry, outcome, losses, faults>>

-----------------------------------------------------------------------------
\* What a process does of itself, but for the turns of the refresh loop.
Work(s) ==
  \/ \E k \in Keys :
       \/ Create(s, k) \/ Initialize(s, k) \/ Attach(s, k)
       \/ \E c \in Callers : BeginDelete(s, c, k)
       \/ Deleted(s, k) \/ MonitorSees(s, k)
  \/ NotRegistered(s) \/ Start(s) \/ Started(s) \/ StartFails(s)
  \/ StopEnded(s) \/ ShutdownExpired(s) \/ Join(s)
  \/ LoopExpired(s) \/ Detach(s)

Next ==
  \/ \E s \in Services :
       \/ Work(s) \/ \E k \in Keys : BeginRefresh(s, k) \/ MonitorFails(s, k)
       \/ Refreshed(s) \/ LoopFails(s) \/ BreakLoop(s)
       \/ Register(s) \/ Stop(s) \/ Crash(s)
  \/ \E k \in Keys : Expires(k) \/ Lost(k) \/ Taken(k)

Spec == Init /\ [][Next]_vars

\* What is ready runs, the backend answers or the call raises, and the monitors
\* poll: there is only so much Work. The loop looks at its waiters after every
\* refresh, and takes the refreshes in the order they are due.
Fairness ==
  \A s \in Services :
    /\ WF_vars(Work(s)) /\ WF_vars(Refreshed(s)) /\ SF_vars(BreakLoop(s))
    /\ \A k \in Keys : SF_vars(BeginRefresh(s, k))

FairSpec == Spec /\ Fairness

-----------------------------------------------------------------------------
(* Properties.                                                             *)

AtWork(s) ==
  /\ refreshing[s] # None => task[s] = "loop"
  /\ \A k \in Keys : deleting[s][k] # None => k \in expiring[s][deleting[s][k].by].left

\* The types of the state, and who may be at work on it: the loop awaits a
\* refresh only while it runs, and a delete belongs to a running expire call.
TypeOK ==
  /\ entry \in [Keys -> Services \cup Others \cup {None}]
  /\ lease \in [Services -> [Keys -> {"none", "held", "expired"}]]
  /\ behind \in [Services -> SUBSET Keys] /\ called \in [Services -> SUBSET Keys]
  /\ deleting \in [Services -> [Keys -> {None} \cup [by : Callers, known : BOOLEAN]]]
  /\ expiring \in [Services -> [Callers ->
       [stage : {"idle", "running", "done"}, leases : SUBSET Keys, left : SUBSET Keys,
        late : BOOLEAN]]]
  /\ cut \in [Services -> BOOLEAN] /\ refreshing \in [Services -> Keys \cup {None}]
  /\ reg \in [Services -> [Keys ->
       {"none", "creating", "refused", "init", "attaching", "attached", "failed"}]]
  /\ task \in [Services -> {"none", "loop", "expiring", "detaching", "ended"}]
  /\ broken \in [Services -> BOOLEAN]
  /\ outcome \in [Services -> {None, "normal", "error", "cancelled"}]
  /\ asked \in [Services -> BOOLEAN] /\ detached \in [Services -> SUBSET Keys]
  /\ main \in [Services -> {"idle", "registering", "starting", "running", "stopping", "joining",
                            "stopped"}]
  /\ up \in [Services -> BOOLEAN]
  /\ losses \in 0..MaxLosses /\ faults \in 0..MaxFaults /\ crashes \in 0..MaxCrashes
  /\ \A s \in Services : AtWork(s)

Attached(s, k) == up[s] /\ reg[s][k] = "attached" /\ k \notin detached[s]

\* While a service runs and is not asked to stop, it holds the lease of every
\* entity it has attached, whatever became of its other registrations: a
\* refresh, a late answer or a delete never costs it one (register_impl,
\* refresh_loop, LeaseGroup.expire).
HoldersServe ==
  losses = 0 /\ faults = 0 =>
    \A s \in Services : task[s] = "loop" /\ ~asked[s] =>
      \A k \in Keys : Attached(s, k) => entry[k] = s

\* While no call fails, every lease that was to be expired is released in the
\* end, also when its delete raced a refresh and was refused, and a service
\* that nobody stopped ends with an error (LeaseGroup.expire, refresh_loop,
\* _service_task).
ReleasedAtEnd ==
  faults = 0 =>
    \A s \in Services : task[s] = "ended" =>
      /\ outcome[s] # "cancelled"
      /\ \A c \in Callers : expiring[s][c].stage = "done" =>
           \A k \in expiring[s][c].leases : entry[k] # s

\* A service that is asked to stop stops, and so does one that has lost a lease,
\* even to another holder, which its monitor does not notice: no order of
\* refreshes, deletes and failures leaves the service task in its loop
\* (refresh_loop, shutdown, join).
LostTo(s, k) == lease[s][k] # "none" /\ entry[k] # s
ServiceEnds ==
  \A s \in Services :
    (asked[s] \/ (task[s] = "loop" /\ \E k \in Keys : LostTo(s, k))) ~>
      ((main[s] = "stopped" /\ task[s] = "ended") \/ ~up[s])
=============================================================================
