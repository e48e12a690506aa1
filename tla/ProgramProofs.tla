----------------------------- MODULE ProgramProofs -----------------------------
(***************************************************************************)
(* Proofs about Program: types, one session at a time, work only for the   *)
(* enabled controller, and what a stop confirms.                           *)
(*                                                                         *)
(* ProgramInv is inductive: who has an update queued, who holds the        *)
(* control lock, how far the current session is, and which sessions have   *)
(* ended. The properties follow from it.                                   *)
(***************************************************************************)
EXTENDS Program, SequenceTheorems, TLAPS

\* What an update is for, the updates of a queue, and that none is made twice at a time.
Owner(u) == <<u.by, u.id>>
Members(s) == {s[i] : i \in DOMAIN s}
OneEach(s) == \A i, j \in DOMAIN s : Owner(s[i]) = Owner(s[j]) => i = j

\* Whoever makes an update waits for it, where the update says.
Start(u) ==
  /\ u.key = "active" /\ u.value.active /\ u.only = None
  /\ pc[u.id] = "activating" /\ target[u.id] = taskLoop /\ taskLoop # None
  /\ loop[taskLoop].producer = "none"
Report(u) ==
  /\ u.key = "tasking" /\ u.value = u.id /\ u.only = u.id
  /\ loop[u.id].producer \in {"reporting", "announcing"}
Stop(u) == u.key = "active" /\ u.value.active /\ u.only # None /\ pc[u.id] = "publishing"
Enable(u) == u.key = "enable" /\ u.only = None /\ pc[u.id] = "enabling"
Retry(u) ==
  /\ u.key = "tasking" /\ u.value = u.id /\ u.only = u.id
  /\ loop[u.id].finalizer = "retrying"
Clear(u) ==
  /\ u.key = "tasking" /\ u.value = None /\ u.only = None
  /\ loop[u.id].finalizer = "clearing"
Deactivate(u) ==
  /\ u.key = "active" /\ ~u.value.active /\ u.only = None
  /\ loop[u.id].finalizer = "ending"

Waits(u) ==
  /\ u.by = "start" => Start(u)
  /\ u.by = "report" => Report(u)
  /\ u.by = "stop" => Stop(u)
  /\ u.by = "enable" => Enable(u)
  /\ u.by = "retry" => Retry(u)
  /\ u.by = "clear" => Clear(u)
  /\ u.by = "inactive" => Deactivate(u)

\* The update that is written is for the current session, if for any, and stored.
Written ==
  LET u == Head(updates)
  IN  /\ updates # <<>> /\ u.only \in {None, taskLoop}
      /\ u.key = "enable" => enable = u.value
      /\ u.key = "active" => active = u.value
      /\ u.key = "tasking" => tasking = u.value

Queued ==
  /\ OneEach(updates)
  /\ \A u \in Members(updates) : Waits(u)
  /\ writing => Written

\* The control lock is granted in order of arrival, so there are as many sessions as starts.
Fair ==
  /\ sessions <= arrived /\ holder <= arrived
  /\ \A i \in DOMAIN waiting :
       pc[waiting[i]] = "locking" /\ holder < waiting[i] /\ sessions < waiting[i]
  /\ \A i, j \in DOMAIN waiting : i < j => waiting[i] < waiting[j]

Kind(h) == request[h].kind
Stops(h) == Kind(h) \in {"stop", "abort"}
Ends(h) == pc[h] \in {"publishing", "awaiting"} /\ Kind(h) = "enable"

\* Where the handlers are, by their requests, and which of them hold the control lock.
Handled(h) ==
  /\ h > arrived => pc[h] = "none" /\ Kind(h) = "none"
  /\ pc[h] \in {"locking", "locked"} => Kind(h) \in {"start", "enable"}
  /\ pc[h] \in {"activating", "starting", "finalizing"} => Kind(h) = "start"
  /\ pc[h] = "enabling" => Kind(h) = "enable"
  /\ pc[h] = "accepted" => Stops(h)
  /\ pc[h] \in {"publishing", "awaiting"} => Stops(h) \/ Kind(h) = "enable"
  /\ pc[h] \in {"locked", "activating", "starting", "finalizing", "enabling"} \/ Ends(h) =>
       holder = h
  /\ pc[h] \in {"locked", "finalizing"} => sessions < h
  /\ pc[h] = "finalizing" \/ Ends(h) => target[h] # None /\ taskLoop \in {None, target[h]}
  /\ pc[h] = "enabling" => taskLoop = None

Controlled == Fair /\ \A h \in Handlers : Handled(h)

\* A session is to come, is the current one, or has ended.
Sequenced ==
  /\ taskLoop <= sessions
  /\ \A k \in Sessions :
       /\ k > sessions => loop[k] = NoLoop
       /\ k <= sessions /\ k # taskLoop =>
            loop[k].finalizer = "done" /\ loop[k].producer = "done" /\ loop[k].work = "none"
  /\ taskLoop # None => loop[taskLoop].finalizer \notin {"none", "done"}

\* How far the current session is, and what is stored and published of it.
Sound(l) ==
  /\ l.finalizer # "waiting" => l.producer = "done" /\ l.work \notin {"sending", "running"}
  /\ l.producer = "none" => l.work = "none"
  /\ l.producer # "none" /\ l.finalizer # "ending" => active.active
  /\ l.producer # "none" => seen.active \/ l.stopping
  /\ l.finalizer \in {"cleared", "ending"} => tasking = None /\ seen.tasking = None
  /\ enable.enabled /\ enable.controller = l.controller

Published ==
  /\ taskLoop = None => ~active.active /\ ~seen.active
  /\ tasking \in {None, taskLoop} /\ seen.tasking \in {None, taskLoop}
  /\ seen.tasking # None => loop[taskLoop].producer # "none"
  /\ taskLoop # None => Sound(loop[taskLoop])

\* What a stop names is its target, or has ended.
Named(h) ==
  Stops(h) /\ request[h].session # None =>
    /\ request[h].session <= sessions
    /\ target[h] \in {None, request[h].session}
    /\ target[h] = None => request[h].session # taskLoop
    /\ pc[h] = "succeeded" => loop[request[h].session].finalizer = "done"

Confirmed == \A h \in Handlers : Named(h)

ProgramInv == TypeOK /\ Queued /\ Controlled /\ Sequenced /\ Published /\ Confirmed

-----------------------------------------------------------------------------
(* Queues of updates *)

\* The caller of _update_state joins the end of the lock's queue.
LEMMA AppendKeeps ==
  ASSUME NEW S, NEW s \in Seq(S), NEW u \in S,
         OneEach(s), \A v \in Members(s) : Owner(v) # Owner(u)
  PROVE  /\ Append(s, u) \in Seq(S) /\ Append(s, u) # <<>>
         /\ OneEach(Append(s, u))
         /\ Members(Append(s, u)) = Members(s) \cup {u}
         /\ Head(Append(s, u)) = IF s = <<>> THEN u ELSE Head(s)
<1> DEFINE t == Append(s, u)
<1>1. t \in Seq(S) /\ Len(t) = Len(s) + 1 /\ Len(s) \in Nat
  BY AppendProperties, LenProperties
<1>2. DOMAIN s = 1..Len(s) /\ DOMAIN t = 1..(Len(s) + 1)
  BY <1>1, LenProperties
<1>3. \A i \in 1..Len(s) : t[i] = s[i]
  BY AppendProperties
<1>4. t[Len(s) + 1] = u
  BY AppendProperties
<1>5. t # <<>>
  BY <1>1, EmptySeq
<1>6. Head(t) = IF s = <<>> THEN u ELSE Head(s)
  <2>1. CASE s = <<>>
    BY <2>1, <1>1, <1>4, EmptySeq, <1>5
  <2>2. CASE s # <<>>
    <3>1. Len(s) \in Nat \ {0}
      BY <2>2, EmptySeq
    <3> QED BY <3>1, <1>1, <1>3, <1>5, <2>2
  <2> QED BY <2>1, <2>2
<1> HIDE DEF t
<1>7. Members(t) = Members(s) \cup {u}
  BY <1>1, <1>2, <1>3, <1>4 DEF Members
<1>8. OneEach(t)
  <2> SUFFICES ASSUME NEW i \in 1..(Len(s) + 1), NEW j \in 1..(Len(s) + 1),
                      Owner(t[i]) = Owner(t[j])
               PROVE  i = j
    BY <1>2 DEF OneEach
  <2>1. \A m \in 1..Len(s) : t[m] = s[m] /\ Owner(s[m]) # Owner(u)
    BY <1>2, <1>3 DEF Members
  <2>2. CASE i \in 1..Len(s) /\ j \in 1..Len(s)
    BY <2>1, <2>2, <1>2 DEF OneEach
  <2>3. CASE i = Len(s) + 1 \/ j = Len(s) + 1
    BY <2>1, <2>3, <1>1, <1>4
  <2> QED BY <2>2, <2>3, <1>1
<1> QED BY <1>1, <1>5, <1>6, <1>7, <1>8 DEF t

\* The head gives up the lock: no later update is its caller's.
LEMMA TailKeeps ==
  ASSUME NEW S, NEW s \in Seq(S), s # <<>>, OneEach(s)
  PROVE  /\ Tail(s) \in Seq(S) /\ OneEach(Tail(s)) /\ Head(s) \in Members(s)
         /\ \A u \in Members(Tail(s)) : u \in Members(s) /\ Owner(u) # Owner(Head(s))
<1> DEFINE t == Tail(s)
<1>1. t \in Seq(S) /\ Len(t) = Len(s) - 1 /\ Len(s) \in Nat \ {0}
  BY HeadTailProperties, EmptySeq
<1>2. DOMAIN s = 1..Len(s) /\ DOMAIN t = 1..(Len(s) - 1)
  BY <1>1, LenProperties
<1>3. \A i \in 1..(Len(s) - 1) : t[i] = s[i + 1]
  BY <1>1, HeadTailProperties
<1>4. Head(s) = s[1]
  BY <1>1
<1> HIDE DEF t
<1>5. \A i \in 1..(Len(s) - 1) : i + 1 \in 1..Len(s) /\ i + 1 # 1
  BY <1>1
<1>6. \A i \in 1..(Len(s) - 1) : Owner(t[i]) # Owner(s[1])
  BY <1>1, <1>2, <1>3, <1>5 DEF OneEach
<1>7. OneEach(t)
  <2> SUFFICES ASSUME NEW i \in 1..(Len(s) - 1), NEW j \in 1..(Len(s) - 1),
                      Owner(t[i]) = Owner(t[j])
               PROVE  i = j
    BY <1>2 DEF OneEach
  <2>1. i + 1 = j + 1
    BY <1>2, <1>3, <1>5 DEF OneEach
  <2> QED BY <2>1
<1>8. Head(s) \in Members(s)
  BY <1>1, <1>2, <1>4 DEF Members
<1>9. \A u \in Members(t) : u \in Members(s) /\ Owner(u) # Owner(Head(s))
  BY <1>2, <1>3, <1>4, <1>5, <1>6 DEF Members
<1> QED BY <1>1, <1>7, <1>8, <1>9 DEF t

\* A caller that is cancelled leaves the queue, and the others keep their order.
LEMMA WithoutKeeps ==
  ASSUME NEW S, NEW s \in Seq(S), NEW n \in DOMAIN s, OneEach(s)
  PROVE  /\ Without(s, n) \in Seq(S) /\ OneEach(Without(s, n))
         /\ \A u \in Members(Without(s, n)) : u \in Members(s) /\ Owner(u) # Owner(s[n])
         /\ n # 1 => Without(s, n) # <<>> /\ Head(Without(s, n)) = Head(s)
<1> DEFINE t == Without(s, n)
           from(i) == IF i < n THEN i ELSE i + 1
<1>1. Len(s) \in Nat /\ DOMAIN s = 1..Len(s) /\ n \in 1..Len(s)
  BY LenProperties
<1>2. t = [i \in 1..(Len(s) - 1) |-> s[from(i)]]
  BY DEF Without
<1>3. \A i \in 1..(Len(s) - 1) : from(i) \in 1..Len(s) /\ from(i) # n
  BY <1>1
<1>4. \A i, j \in 1..(Len(s) - 1) : from(i) = from(j) => i = j
  BY <1>1
<1>4a. from(1) = 1 \/ n = 1
  BY <1>1
<1> HIDE DEF from
<1>5. \A i \in 1..(Len(s) - 1) : s[from(i)] \in S
  BY <1>1, <1>3, ElementOfSeq
<1>6. t \in Seq(S) /\ DOMAIN t = 1..(Len(s) - 1) /\ \A i \in DOMAIN t : t[i] = s[from(i)]
  <2>1. Len(s) - 1 \in Nat
    BY <1>1
  <2>2. t \in Seq(S)
    BY <2>1, <1>2, <1>5, IsASeq
  <2> QED BY <2>2, <1>2
<1> HIDE DEF t
<1>7. OneEach(t)
  BY <1>1, <1>3, <1>4, <1>6 DEF OneEach
<1>8. \A u \in Members(t) : u \in Members(s) /\ Owner(u) # Owner(s[n])
  BY <1>1, <1>3, <1>6 DEF Members, OneEach
<1>9. n # 1 => t # <<>> /\ Head(t) = Head(s)
  <2> SUFFICES ASSUME n # 1
               PROVE  t # <<>> /\ Head(t) = Head(s)
    OBVIOUS
  <2>1. 1 \in 1..(Len(s) - 1) /\ t[1] = s[1]
    BY <1>1, <1>4a, <1>6
  <2>2. t # <<>> /\ s # <<>>
    BY <2>1, <1>1, <1>6, EmptySeq
  <2> QED BY <2>1, <2>2
<1> QED BY <1>6, <1>7, <1>8, <1>9 DEF t

-----------------------------------------------------------------------------
(* What the invariant says of the queue and of the sessions *)

\* Who an update belongs to, by the type of _update_state's arguments.
LEMMA UpdateFacts ==
  ASSUME NEW u \in Updates
  PROVE  /\ u.id \in Handlers /\ u.only \in {None} \cup Sessions
         /\ u.by \in {"start", "report", "stop", "enable", "retry", "clear", "inactive"}
         /\ u.key = "enable" => u.value \in EnableStates
         /\ u.key = "active" => u.value \in ActiveStates
         /\ u.key = "tasking" => u.value \in {None} \cup Sessions
         /\ u.key \in {"enable", "active", "tasking"}
BY DEF Updates

\* The arguments of _update_state make an update.
LEMMA UpdateTyped ==
  ASSUME NEW by \in {"start", "report", "stop", "enable", "retry", "clear", "inactive"},
         NEW id \in Handlers, NEW only \in {None} \cup Sessions, NEW key, NEW value,
         \/ key = "enable" /\ value \in EnableStates
         \/ key = "active" /\ value \in ActiveStates
         \/ key = "tasking" /\ value \in {None} \cup Sessions
  PROVE  LET u == Update(by, id, key, value, only)
         IN  /\ u \in Updates
             /\ u.by = by /\ u.id = id /\ u.key = key /\ u.value = value /\ u.only = only
<1>1. CASE key = "enable" /\ value \in EnableStates
  BY <1>1 DEF Update, Updates
<1>2. CASE key = "active" /\ value \in ActiveStates
  BY <1>2 DEF Update, Updates
<1>3. CASE key = "tasking" /\ value \in {None} \cup Sessions
  BY <1>3 DEF Update, Updates
<1> QED BY <1>1, <1>2, <1>3

\* A queued update is one that its caller waits for.
LEMMA QueueFacts ==
  ASSUME TypeOK, Queued
  PROVE  /\ \A u \in Members(updates) : u \in Updates /\ Waits(u)
         /\ updates # <<>> => Head(updates) \in Members(updates)
         /\ writing => updates # <<>>
<1>1. updates \in Seq(Updates)
  BY DEF TypeOK
<1>2. \A u \in Members(updates) : u \in Updates
  BY <1>1, LenProperties, ElementOfSeq DEF Members
<1>3. updates # <<>> => Head(updates) \in Members(updates)
  BY <1>1, TailKeeps DEF Queued
<1> QED BY <1>2, <1>3 DEF Queued, Written

\* Only the current session has anything under way: TaskingLoop objects that ended, or are
\* to come, are at rest.
LEMMA CurrentOnly ==
  ASSUME TypeOK, Sequenced, NEW k \in Sessions, k # taskLoop
  PROVE  /\ loop[k].producer \in {"none", "done"} /\ loop[k].work = "none"
         /\ loop[k].finalizer \in {"none", "done"}
         /\ k <= sessions <=> loop[k].finalizer = "done"
         /\ k > sessions <=> loop[k].finalizer = "none"
<1>1. k \in Nat /\ sessions \in Nat
  BY ProgramAssumption DEF TypeOK, Sessions
<1>2. k <= sessions \/ k > sessions
  BY <1>1
<1>3. CASE k <= sessions
  BY <1>1, <1>3 DEF Sequenced
<1>4. CASE k > sessions
  BY <1>1, <1>4 DEF Sequenced, NoLoop
<1> QED BY <1>2, <1>3, <1>4

\* Joining the queue: the value is stored at once if the lock is free.
LEMMA EnqueueKeeps ==
  ASSUME TypeOK, Queued, NEW u \in Updates, Enqueue(u), Waits(u)',
         \A v \in Members(updates) : Owner(v) # Owner(u) /\ Waits(v)',
         u.only \in {None, taskLoop'}, taskLoop \in {None, taskLoop'}
  PROVE  /\ updates' \in Seq(Updates) /\ writing' \in BOOLEAN /\ Queued'
         /\ enable' \in EnableStates /\ active' \in ActiveStates
         /\ tasking' \in {None} \cup Sessions /\ seen' = seen
         /\ enable' = IF u.key = "enable" /\ updates = <<>> THEN u.value ELSE enable
         /\ active' = IF u.key = "active" /\ updates = <<>> THEN u.value ELSE active
         /\ tasking' = IF u.key = "tasking" /\ updates = <<>> THEN u.value ELSE tasking
<1>1. updates \in Seq(Updates) /\ OneEach(updates)
  BY DEF TypeOK, Queued
<1>2. updates' = Append(updates, u) /\ seen' = seen
  BY DEF Enqueue
<1>3. /\ updates' \in Seq(Updates) /\ updates' # <<>> /\ OneEach(updates')
      /\ Members(updates') = Members(updates) \cup {u}
      /\ Head(updates') = IF updates = <<>> THEN u ELSE Head(updates)
  BY <1>1, <1>2, AppendKeeps
<1>4. CASE updates = <<>>
  <2>1. writing' = TRUE /\ Store(u)
    BY <1>4 DEF Enqueue
  <2>2. Written'
    BY <2>1, <1>3, <1>4, UpdateFacts DEF Written, Store
  <2> QED BY <2>1, <2>2, <1>2, <1>3, <1>4, UpdateFacts DEF Store, Queued, TypeOK
<1>5. CASE updates # <<>>
  <2>1. UNCHANGED <<writing, enable, active, tasking>>
    BY <1>5 DEF Enqueue
  <2>2. writing => Written'
    BY <2>1, <1>3, <1>5 DEF Queued, Written
  <2> QED BY <2>1, <2>2, <1>2, <1>3, <1>5 DEF Queued, TypeOK
<1> QED BY <1>4, <1>5

\* Leaving the queue.
LEMMA ReleaseKeeps ==
  ASSUME TypeOK, Queued, updates # <<>>, Release,
         \A v \in Members(updates) : Owner(v) # Owner(Head(updates)) => Waits(v)'
  PROVE  updates' \in Seq(Updates) /\ writing' = FALSE /\ Queued'
<1>1. updates \in Seq(Updates) /\ OneEach(updates)
  BY DEF TypeOK, Queued
<1>2. updates' = Tail(updates) /\ writing' = FALSE
  BY DEF Release
<1>3. /\ updates' \in Seq(Updates) /\ OneEach(updates')
      /\ \A v \in Members(updates') : v \in Members(updates) /\ Owner(v) # Owner(Head(updates))
  BY <1>1, <1>2, TailKeeps
<1> QED BY <1>2, <1>3 DEF Queued

\* Handlers and sessions are numbered in the order they appear.
LEMMA Numbers ==
  ASSUME TypeOK
  PROVE  /\ Handlers = Sessions /\ None = 0 /\ None \notin Sessions
         /\ \A h \in Handlers : h \in Nat /\ h > 0
         /\ sessions \in Nat /\ arrived \in Nat /\ taskLoop \in Nat /\ holder \in Nat
BY ProgramAssumption DEF TypeOK, Handlers, Sessions, None

\* What a request says, by its kind.
LEMMA RequestFacts ==
  ASSUME TypeOK, NEW h \in Handlers
  PROVE  /\ Kind(h) = "start" => request[h].ctx \in Contexts
         /\ Stops(h) => request[h].session \in {None} \cup Sessions
         /\ Kind(h) = "enable" =>
              [enabled |-> request[h].enabled, controller |-> request[h].controller] \in EnableStates
<1> DEFINE r == request[h]
<1>1. \/ r \in [kind : {"start"}, ctx : Contexts]
      \/ r \in [kind : {"stop", "abort"}, session : {None} \cup Sessions]
      \/ r \in [kind : {"enable"}, enabled : {TRUE}, controller : Controllers]
      \/ r \in [kind : {"enable"}, enabled : {FALSE}, controller : {NoController}]
      \/ r \in {[kind |-> "none"]}
  BY DEF TypeOK, Requests
<1> HIDE DEF r
<1>2. \/ r.kind = "start" /\ r.ctx \in Contexts
      \/ r.kind \in {"stop", "abort"} /\ r.session \in {None} \cup Sessions
      \/ r.kind = "enable" /\ r.enabled = TRUE /\ r.controller \in Controllers
      \/ r.kind = "enable" /\ r.enabled = FALSE /\ r.controller = NoController
      \/ r.kind = "none"
  <2>1. CASE r \in [kind : {"start"}, ctx : Contexts]
    BY <2>1
  <2>2. CASE r \in [kind : {"stop", "abort"}, session : {None} \cup Sessions]
    BY <2>2
  <2>3. CASE r \in [kind : {"enable"}, enabled : {TRUE}, controller : Controllers]
    BY <2>3
  <2>4. CASE r \in [kind : {"enable"}, enabled : {FALSE}, controller : {NoController}]
    BY <2>4
  <2>5. CASE r \in {[kind |-> "none"]}
    BY <2>5
  <2> QED BY <1>1, <2>1, <2>2, <2>3, <2>4, <2>5
<1>3. r.kind = "enable" =>
        [enabled |-> r.enabled, controller |-> r.controller] \in EnableStates
  BY <1>2 DEF EnableStates
<1> QED BY <1>2, <1>3 DEF r, Kind, Stops

\* A step that moves no handler and no lock, and creates no session.
LEMMA ControlledFrame ==
  ASSUME Controlled, UNCHANGED <<lockVars, handlerVars, sessions>>, taskLoop' \in {None, taskLoop}
  PROVE  Controlled'
<1>1. /\ holder' = holder /\ waiting' = waiting /\ sessions' = sessions
      /\ request' = request /\ pc' = pc /\ target' = target /\ arrived' = arrived
  BY DEF lockVars, handlerVars
<1>2. Fair'
  BY <1>1 DEF Controlled, Fair
<1>3. ASSUME NEW h \in Handlers PROVE Handled(h)'
  <2>1. Handled(h)
    BY DEF Controlled
  <2> QED BY <1>1, <2>1 DEF Handled, Kind, Stops, Ends
<1> QED BY <1>2, <1>3 DEF Controlled

\* A step that moves no handler: what ended stays ended.
LEMMA ConfirmedFrame ==
  ASSUME TypeOK, Confirmed, UNCHANGED <<handlerVars, sessions>>, taskLoop' \in {None, taskLoop},
         \A k \in Sessions : loop[k].finalizer = "done" => loop'[k].finalizer = "done"
  PROVE  Confirmed'
<1> SUFFICES ASSUME NEW h \in Handlers
             PROVE  Named(h)'
  BY DEF Confirmed
<1>1. Named(h) /\ (Stops(h) => request[h].session \in {None} \cup Sessions)
  BY RequestFacts DEF Confirmed
<1>2. request' = request /\ pc' = pc /\ target' = target
  BY DEF handlerVars
<1> QED BY <1>1, <1>2 DEF Named, Stops, Kind, None

-----------------------------------------------------------------------------
(* Steps of the producer and of its task calls *)

\* A step of the current session that only moves its producer or its work.
LEMMA WorkStep ==
  ASSUME ProgramInv, NEW k \in Sessions, NEW l \in Loops, k = taskLoop, Set(k, l),
         UNCHANGED <<stateVars, lockVars, handlerVars, taskLoop, sessions, faults>>,
         tasks' \in 0..MaxTasks,
         \/ l.finalizer = loop[k].finalizer
         \/ loop[k].finalizer = "waiting" /\ l.finalizer = "settled",
         l.controller = loop[k].controller, loop[k].stopping => l.stopping,
         l.producer = "none" <=> loop[k].producer = "none",
         l.producer = "none" => l.work = "none",
         loop[k].producer \in {"reporting", "announcing"} => l.producer = loop[k].producer,
         l.finalizer # "waiting" => l.producer = "done" /\ l.work \notin {"sending", "running"}
  PROVE  ProgramInv'
<1> USE DEF ProgramInv
<1>1. loop' = [loop EXCEPT ![k] = l] /\ loop \in [Sessions -> Loops]
  BY DEF Set, TypeOK
<1>2. loop'[k] = l /\ \A j \in Sessions : j # k => loop'[j] = loop[j]
  BY <1>1
<1>3. TypeOK'
  BY <1>1 DEF TypeOK, stateVars, lockVars, handlerVars
<1>4. Queued'
  <2>1. \A u \in Members(updates) : Waits(u)'
    <3> SUFFICES ASSUME NEW u \in Members(updates)
                 PROVE  Waits(u)'
      OBVIOUS
    <3>1. u \in Updates /\ Waits(u) /\ u.id \in Sessions
      BY QueueFacts, UpdateFacts DEF Handlers, Sessions
    <3> QED BY <3>1, <1>2 DEF Waits, Start, Report, Stop, Enable, Retry, Clear, Deactivate,
                              handlerVars
  <2> QED BY <2>1 DEF Queued, Written, Members, stateVars
<1>5. Controlled'
  BY ControlledFrame
<1>6. Sequenced'
  BY <1>2, Numbers DEF Sequenced
<1>7. Published'
  BY <1>2 DEF Published, Sound, stateVars
<1>8. Confirmed'
  BY <1>2, ConfirmedFrame
<1> QED BY <1>3, <1>4, <1>5, <1>6, <1>7, <1>8

\* A session whose producer or execution goes on is the current one, and not finalized.
LEMMA AtWork ==
  ASSUME ProgramInv, NEW k \in Sessions,
         loop[k].producer \notin {"none", "done"} \/ loop[k].work \in {"sending", "running"}
  PROVE  /\ k = taskLoop /\ loop[k] \in Loops /\ loop[k].finalizer = "waiting"
         /\ loop[k].producer # "none"
<1>1. k = taskLoop
  BY CurrentOnly DEF ProgramInv
<1>2. Sound(loop[k])
  BY <1>1, Numbers DEF ProgramInv, Published
<1> QED BY <1>1, <1>2 DEF ProgramInv, Sound, TypeOK

\* Records of a session: what EndWork and a fault leave as it was.
LEMMA EndWorkFacts ==
  ASSUME NEW l \in Loops
  PROVE  /\ EndWork(l) \in Loops
         /\ EndWork(l).producer = l.producer /\ EndWork(l).work = l.work
         /\ EndWork(l).finalizer = l.finalizer /\ EndWork(l).controller = l.controller
         /\ EndWork(l).stopping = l.stopping /\ EndWork(l).reported = l.reported
         /\ EndWork(l).ctx = l.ctx
<1> DEFINE x == l.producer \notin {"none", "done"}
           y == l.aborting \/ l.work # "none"
<1>1. EndWork(l) = [l EXCEPT !.cancelled = x, !.aborting = y]
  BY Zenon DEF EndWork
<1>2. x \in BOOLEAN /\ y \in BOOLEAN
  BY DEF Loops
<1> HIDE DEF x, y
<1>3. [l EXCEPT !.cancelled = x, !.aborting = y] \in Loops
  BY <1>2 DEF Loops
<1>4. EndWork(l) \in Loops
  BY <1>1, <1>3
<1> QED
  BY <1>1, <1>4 DEF Loops

\* The producer ends or goes on, sends a task, and follows it; the execution ends.
LEMMA ProducerKeeps ==
  ASSUME ProgramInv, NEW k \in Sessions,
         \/ ProducerStops(k) \/ ProducerFails(k) \/ LeavesOperate(k) \/ Sends(k)
         \/ \E reply \in {"accepted", "rejected", "lost"} : Replied(k, reply)
         \/ \E how \in {"ended", "failed", "unknown"} : WorkEnds(k, how)
         \/ Follows(k) \/ TaskExpires(k)
  PROVE  ProgramInv'
<1> USE DEF OnlyLoop
<1>1. tasks \in 0..MaxTasks
  BY DEF ProgramInv, TypeOK
<1>2. CASE ProducerStops(k)
  <2> DEFINE l == [loop[k] EXCEPT !.producer = "done"]
  <2>1. /\ Set(k, l) /\ loop[k].producer \notin {"none", "done"}
        /\ loop[k].producer \notin {"reporting", "announcing"}
    BY <1>2 DEF ProducerStops
  <2>2. l \in Loops /\ l.producer # "none" /\ l.finalizer = "waiting"
        /\ l.controller = loop[k].controller /\ l.stopping = loop[k].stopping
    <3>1. loop[k] \in Loops /\ loop[k].producer # "none" /\ loop[k].finalizer = "waiting"
      BY <2>1, AtWork
    <3>2. l \in Loops
      BY <3>1 DEF Loops
    <3> QED
      BY <3>1, <3>2, <2>1 DEF Loops
  <2> HIDE DEF l
  <2>3. UNCHANGED <<stateVars, lockVars, handlerVars, taskLoop, sessions, faults>>
        /\ tasks' \in 0..MaxTasks
    BY <1>2, <1>1, ProgramAssumption DEF ProducerStops
  <2> QED BY <2>1, <2>2, <2>3, AtWork, WorkStep
<1>3. CASE ProducerFails(k)
  <2> DEFINE l == [loop[k] EXCEPT !.producer = "done", !.fault = TRUE]
  <2>1. /\ Set(k, l) /\ loop[k].producer \notin {"none", "done"}
        /\ loop[k].producer \notin {"reporting", "announcing"}
    BY <1>3 DEF ProducerFails, Fault
  <2>2. l \in Loops /\ l.producer # "none" /\ l.finalizer = "waiting"
        /\ l.controller = loop[k].controller /\ l.stopping = loop[k].stopping
    <3>1. loop[k] \in Loops /\ loop[k].producer # "none" /\ loop[k].finalizer = "waiting"
      BY <2>1, AtWork
    <3>2. l \in Loops
      BY <3>1 DEF Loops
    <3> QED
      BY <3>1, <3>2, <2>1 DEF Loops
  <2> HIDE DEF l
  <2>3. UNCHANGED <<stateVars, lockVars, handlerVars, taskLoop, sessions, faults>>
        /\ tasks' \in 0..MaxTasks
    BY <1>3, <1>1, ProgramAssumption DEF ProducerFails, Fault
  <2> QED BY <2>1, <2>2, <2>3, AtWork, WorkStep
<1>4. CASE Sends(k)
  <2> DEFINE l == [loop[k] EXCEPT !.producer = "sending", !.work = "sending", !.aborting = FALSE]
  <2>1. /\ Set(k, l) /\ loop[k].producer \notin {"none", "done"}
        /\ loop[k].producer \notin {"reporting", "announcing"}
    BY <1>4 DEF Sends
  <2>2. l \in Loops /\ l.producer # "none" /\ l.finalizer = "waiting"
        /\ l.controller = loop[k].controller /\ l.stopping = loop[k].stopping
    <3>1. loop[k] \in Loops /\ loop[k].producer # "none" /\ loop[k].finalizer = "waiting"
      BY <2>1, AtWork
    <3>2. l \in Loops
      BY <3>1 DEF Loops
    <3> QED
      BY <3>1, <3>2, <2>1 DEF Loops
  <2> HIDE DEF l
  <2>3. UNCHANGED <<stateVars, lockVars, handlerVars, taskLoop, sessions, faults>>
        /\ tasks' \in 0..MaxTasks
    BY <1>4, <1>1, ProgramAssumption DEF Sends
  <2> QED BY <2>1, <2>2, <2>3, AtWork, WorkStep
<1>5. CASE TaskExpires(k)
  <2> DEFINE l == [loop[k] EXCEPT !.producer = "done", !.fault = TRUE, !.aborting = TRUE]
  <2>1. /\ Set(k, l) /\ loop[k].producer \notin {"none", "done"}
        /\ loop[k].producer \notin {"reporting", "announcing"}
    BY <1>5 DEF TaskExpires, Fault
  <2>2. l \in Loops /\ l.producer # "none" /\ l.finalizer = "waiting"
        /\ l.controller = loop[k].controller /\ l.stopping = loop[k].stopping
    <3>1. loop[k] \in Loops /\ loop[k].producer # "none" /\ loop[k].finalizer = "waiting"
      BY <2>1, AtWork
    <3>2. l \in Loops
      BY <3>1 DEF Loops
    <3> QED
      BY <3>1, <3>2, <2>1 DEF Loops
  <2> HIDE DEF l
  <2>3. UNCHANGED <<stateVars, lockVars, handlerVars, taskLoop, sessions, faults>>
        /\ tasks' \in 0..MaxTasks
    BY <1>5, <1>1, ProgramAssumption DEF TaskExpires, Fault
  <2> QED BY <2>1, <2>2, <2>3, AtWork, WorkStep
<1>6. CASE LeavesOperate(k)
  <2> DEFINE m == [loop[k] EXCEPT !.fault = TRUE]
             l == EndWork(m)
  <2>1. Set(k, l) /\ loop[k].producer \notin {"none", "done"}
    BY <1>6 DEF LeavesOperate
  <2>2. m \in Loops /\ m.producer = loop[k].producer /\ m.finalizer = "waiting"
        /\ m.controller = loop[k].controller /\ m.stopping = loop[k].stopping
    <3>1. loop[k] \in Loops /\ loop[k].finalizer = "waiting"
      BY <2>1, AtWork
    <3>2. m \in Loops
      BY <3>1 DEF Loops
    <3> QED
      BY <3>1, <3>2 DEF Loops
  <2> HIDE DEF m
  <2>3. l \in Loops /\ l.producer = loop[k].producer /\ l.finalizer = "waiting"
        /\ l.controller = loop[k].controller /\ l.stopping = loop[k].stopping
    BY <2>2, EndWorkFacts
  <2> HIDE DEF l
  <2>4. UNCHANGED <<stateVars, lockVars, handlerVars, taskLoop, sessions, faults>>
        /\ tasks' \in 0..MaxTasks
    BY <1>6, <1>1 DEF LeavesOperate
  <2> QED BY <2>1, <2>3, <2>4, AtWork, WorkStep
<1>7. CASE \E reply \in {"accepted", "rejected", "lost"} : Replied(k, reply)
  <2>1. PICK reply \in {"accepted", "rejected", "lost"} : Replied(k, reply)
    BY <1>7
  <2>2. PICK w \in {"running", "ended", "unknown"}, p \in {"following", "done"},
             b \in BOOLEAN, f \in BOOLEAN :
          Set(k, [loop[k] EXCEPT !.work = w, !.producer = p, !.aborting = b, !.fault = f])
    <3>1. loop[k] \in Loops
      BY DEF ProgramInv, TypeOK
    <3>2. [loop[k] EXCEPT !.work = "running", !.producer = "following"] =
            [loop[k] EXCEPT !.work = "running", !.producer = "following",
                            !.aborting = loop[k].aborting, !.fault = loop[k].fault]
      BY <3>1 DEF Loops
    <3>3. [loop[k] EXCEPT !.work = "running", !.producer = "done", !.aborting = TRUE] =
            [loop[k] EXCEPT !.work = "running", !.producer = "done",
                            !.aborting = TRUE, !.fault = loop[k].fault]
      BY <3>1 DEF Loops
    <3>4. ASSUME NEW w \in {"ended", "unknown"}
          PROVE  [loop[k] EXCEPT !.work = w, !.producer = "done", !.fault = TRUE] =
                   [loop[k] EXCEPT !.work = w, !.producer = "done",
                                   !.aborting = loop[k].aborting, !.fault = TRUE]
      BY <3>1 DEF Loops
    <3>5. loop[k].aborting \in BOOLEAN /\ loop[k].fault \in BOOLEAN /\ loop[k].cancelled \in BOOLEAN
      BY <3>1 DEF Loops
    <3>6. CASE reply = "accepted" /\ ~loop[k].cancelled
      BY <2>1, <3>2, <3>5, <3>6 DEF Replied
    <3>7. CASE reply = "accepted" /\ loop[k].cancelled
      BY <2>1, <3>3, <3>5, <3>7 DEF Replied
    <3>8. CASE reply = "rejected"
      BY <2>1, <3>4, <3>5, <3>8 DEF Replied
    <3>9. CASE reply = "lost"
      BY <2>1, <3>4, <3>5, <3>9 DEF Replied
    <3> QED BY <3>5, <3>6, <3>7, <3>8, <3>9
  <2> DEFINE l == [loop[k] EXCEPT !.work = w, !.producer = p, !.aborting = b, !.fault = f]
  <2>3. loop[k].producer = "sending"
    BY <2>1 DEF Replied
  <2>4. l \in Loops /\ l.producer # "none" /\ l.finalizer = "waiting"
        /\ l.controller = loop[k].controller /\ l.stopping = loop[k].stopping
    <3>1. loop[k] \in Loops /\ loop[k].producer # "none" /\ loop[k].finalizer = "waiting"
      BY <2>3, AtWork
    <3>2. l \in Loops
      BY <3>1 DEF Loops
    <3> QED
      BY <3>1, <3>2, <2>3 DEF Loops
  <2>5. Set(k, l)
    BY <2>2
  <2> HIDE DEF l
  <2>6. UNCHANGED <<stateVars, lockVars, handlerVars, taskLoop, sessions, faults>>
        /\ tasks' \in 0..MaxTasks
    BY <2>1, <1>1 DEF Replied
  <2> QED BY <2>3, <2>4, <2>5, <2>6, AtWork, WorkStep
<1>8. CASE \E how \in {"ended", "failed", "unknown"} : WorkEnds(k, how)
  <2>1. PICK how \in {"ended", "failed", "unknown"} : WorkEnds(k, how)
    BY <1>8
  <2> DEFINE l == [loop[k] EXCEPT !.work = how,
                     !.fault = @ \/ how = "unknown" \/ (how = "failed" /\ ~loop[k].aborting)]
  <2>2. Set(k, l) /\ loop[k].work = "running"
    BY <2>1 DEF WorkEnds
  <2>3. l \in Loops /\ l.producer = loop[k].producer /\ l.finalizer = "waiting"
        /\ l.controller = loop[k].controller /\ l.stopping = loop[k].stopping
    <3>1. loop[k] \in Loops /\ loop[k].producer # "none" /\ loop[k].finalizer = "waiting"
      BY <2>2, AtWork
    <3>2. l \in Loops
      BY <3>1 DEF Loops
    <3> QED
      BY <3>1, <3>2, <2>2 DEF Loops
  <2> HIDE DEF l
  <2>4. UNCHANGED <<stateVars, lockVars, handlerVars, taskLoop, sessions, faults>>
        /\ tasks' \in 0..MaxTasks
    BY <2>1, <1>1 DEF WorkEnds
  <2> QED BY <2>2, <2>3, <2>4, AtWork, WorkStep
<1>9. CASE Follows(k)
  <2>1. loop[k].producer = "following"
    BY <1>9 DEF Follows
  <2>2. UNCHANGED <<stateVars, lockVars, handlerVars, taskLoop, sessions, faults>>
        /\ tasks' \in 0..MaxTasks
    BY <1>9, <1>1 DEF Follows
  <2>3. CASE Set(k, [loop[k] EXCEPT !.producer = "idle", !.work = "none"])
    <3> DEFINE l == [loop[k] EXCEPT !.producer = "idle", !.work = "none"]
    <3>1. l \in Loops /\ l.producer # "none" /\ l.finalizer = "waiting"
          /\ l.controller = loop[k].controller /\ l.stopping = loop[k].stopping
      <4>1. loop[k] \in Loops /\ loop[k].producer # "none" /\ loop[k].finalizer = "waiting"
        BY <2>1, AtWork
      <4>2. l \in Loops
        BY <4>1 DEF Loops
      <4> QED
        BY <4>1, <4>2, <2>1 DEF Loops
    <3> HIDE DEF l
    <3>2. Set(k, l)
      BY <2>3 DEF l
    <3> QED BY <2>1, <2>2, <3>1, <3>2, AtWork, WorkStep
  <2>4. CASE Set(k, [loop[k] EXCEPT !.producer = "done", !.aborting = TRUE])
    <3> DEFINE l == [loop[k] EXCEPT !.producer = "done", !.aborting = TRUE]
    <3>1. l \in Loops /\ l.producer # "none" /\ l.finalizer = "waiting"
          /\ l.controller = loop[k].controller /\ l.stopping = loop[k].stopping
      <4>1. loop[k] \in Loops /\ loop[k].producer # "none" /\ loop[k].finalizer = "waiting"
        BY <2>1, AtWork
      <4>2. l \in Loops
        BY <4>1 DEF Loops
      <4> QED
        BY <4>1, <4>2, <2>1 DEF Loops
    <3> HIDE DEF l
    <3>2. Set(k, l)
      BY <2>4 DEF l
    <3> QED BY <2>1, <2>2, <3>1, <3>2, AtWork, WorkStep
  <2> QED BY <1>9, <2>3, <2>4 DEF Follows
<1> QED BY <1>2, <1>3, <1>4, <1>5, <1>6, <1>7, <1>8, <1>9

-----------------------------------------------------------------------------
(* Steps that queue an update of the current session *)

\* The callers that wait go on waiting when the session is where they left it.
LEMMA WaitsIfKept ==
  ASSUME ProgramInv, NEW k \in Sessions, NEW l \in Loops, Set(k, l),
         UNCHANGED <<handlerVars, taskLoop>>,
         loop[k].producer = "none" => l.producer = "none",
         NEW u \in Members(updates),
         u.id = k /\ u.by = "report" => l.producer = loop[k].producer,
         u.id = k /\ u.by \in {"retry", "clear", "inactive"} => l.finalizer = loop[k].finalizer
  PROVE  Waits(u)'
<1>1. u \in Updates /\ Waits(u) /\ u.id \in Sessions
  BY QueueFacts, UpdateFacts, Numbers DEF ProgramInv
<1>2. loop'[k] = l /\ \A j \in Sessions : j # k => loop'[j] = loop[j]
  BY DEF Set, ProgramInv, TypeOK
<1>3. pc' = pc /\ target' = target /\ taskLoop' = taskLoop /\ taskLoop \in {None} \cup Sessions
  BY DEF handlerVars, ProgramInv, TypeOK
<1> QED BY <1>1, <1>2, <1>3 DEF Waits, Start, Report, Stop, Enable, Retry, Clear, Deactivate

\* All of them, when it is where any of them may have left it.
LEMMA WaitsKept ==
  ASSUME ProgramInv, NEW k \in Sessions, NEW l \in Loops, Set(k, l),
         UNCHANGED <<handlerVars, taskLoop>>,
         loop[k].producer = "none" => l.producer = "none",
         loop[k].producer \in {"reporting", "announcing"} => l.producer = loop[k].producer,
         loop[k].finalizer \in {"retrying", "clearing", "ending"} =>
           l.finalizer = loop[k].finalizer
  PROVE  \A u \in Members(updates) : Waits(u)'
<1> SUFFICES ASSUME NEW u \in Members(updates)
             PROVE  Waits(u)'
  OBVIOUS
<1>1. Waits(u)
  BY QueueFacts DEF ProgramInv
<1>2. u.id = k /\ u.by = "report" => l.producer = loop[k].producer
  BY <1>1 DEF Waits, Report
<1>3. u.id = k /\ u.by \in {"retry", "clear", "inactive"} => l.finalizer = loop[k].finalizer
  BY <1>1 DEF Waits, Retry, Clear, Deactivate
<1> QED BY <1>2, <1>3, WaitsIfKept

\* An update of the current session is queued while the session moves on.
LEMMA SessionQueues ==
  ASSUME ProgramInv, NEW k \in Sessions, k = taskLoop, NEW l \in Loops, Set(k, l),
         NEW u \in Updates, Enqueue(u), u.only \in {None, k}, UNCHANGED <<taskLoop, sessions>>,
         Waits(u)', \A v \in Members(updates) : Owner(v) # Owner(u) /\ Waits(v)',
         l.controller = loop[k].controller, loop[k].stopping => l.stopping,
         l.producer = "none" <=> loop[k].producer = "none",
         l.producer = "none" => l.work = "none",
         l.finalizer # "waiting" => l.producer = "done" /\ l.work \notin {"sending", "running"},
         l.finalizer \notin {"none", "done"},
         loop[k].finalizer = "ending" => l.finalizer = "ending",
         l.finalizer \in {"cleared", "ending"} => loop[k].finalizer \in {"cleared", "ending"},
         u.key # "enable",
         u.key = "active" => u.value.active \/ l.finalizer = "ending",
         u.key = "tasking" => u.value \in {None, k},
         u.key = "tasking" /\ u.value # None =>
           l.producer # "none" /\ l.finalizer \notin {"cleared", "ending"}
  PROVE  /\ Queued' /\ Sequenced' /\ Published' /\ loop' \in [Sessions -> Loops]
         /\ enable' \in EnableStates /\ active' \in ActiveStates
         /\ tasking' \in {None} \cup Sessions /\ seen' = seen
         /\ updates' \in Seq(Updates) /\ writing' \in BOOLEAN
<1>1. loop' = [loop EXCEPT ![k] = l] /\ loop \in [Sessions -> Loops]
  BY DEF Set, ProgramInv, TypeOK
<1>2. loop'[k] = l /\ \A j \in Sessions : j # k => loop'[j] = loop[j]
  BY <1>1
<1>3. /\ updates' \in Seq(Updates) /\ writing' \in BOOLEAN /\ Queued'
      /\ enable' \in EnableStates /\ active' \in ActiveStates
      /\ tasking' \in {None} \cup Sessions /\ seen' = seen
      /\ enable' = enable
      /\ active' = active \/ (u.key = "active" /\ active' = u.value)
      /\ tasking' = tasking \/ (u.key = "tasking" /\ tasking' = u.value)
  BY EnqueueKeeps DEF ProgramInv
<1>4. Sequenced'
  BY <1>2, Numbers DEF Sequenced, ProgramInv
<1>5. Sound(loop[k]) /\ k # None /\ tasking \in {None, k} /\ seen.tasking \in {None, k}
  BY Numbers DEF Published, ProgramInv
<1>6. Sound(l)'
  <2>1. enable.enabled /\ enable.controller = l.controller
    BY <1>5 DEF Sound
  <2>2. l.producer # "none" => seen.active \/ l.stopping
    BY <1>5 DEF Sound
  <2>3. l.producer # "none" /\ l.finalizer # "ending" => active'.active
    BY <1>3, <1>5 DEF Sound
  <2>4. l.finalizer \in {"cleared", "ending"} => tasking' = None /\ seen.tasking = None
    BY <1>3, <1>5 DEF Sound
  <2> QED BY <1>3, <2>1, <2>2, <2>3, <2>4 DEF Sound
<1>7. Published'
  <2>1. tasking' \in {None, k} /\ (seen.tasking # None => l.producer # "none")
    BY <1>3, <1>5 DEF Published, ProgramInv
  <2> QED BY <1>2, <1>3, <1>5, <1>6, <2>1 DEF Published
<1> QED BY <1>1, <1>3, <1>4, <1>7

\* The same when no handler is concerned.
LEMMA SessionQueuesAlone ==
  ASSUME ProgramInv, Queued', Sequenced', Published', loop' \in [Sessions -> Loops],
         enable' \in EnableStates, active' \in ActiveStates,
         tasking' \in {None} \cup Sessions,
         seen' \in [active : BOOLEAN, tasking : {None} \cup Sessions],
         updates' \in Seq(Updates), writing' \in BOOLEAN,
         UNCHANGED <<lockVars, handlerVars, taskLoop, sessions, tasks, faults>>,
         \A k \in Sessions : loop[k].finalizer = "done" => loop'[k].finalizer = "done"
  PROVE  ProgramInv'
<1>1. TypeOK'
  BY DEF ProgramInv, TypeOK, lockVars, handlerVars
<1>2. Controlled'
  BY ControlledFrame DEF ProgramInv
<1>3. Confirmed'
  BY ConfirmedFrame DEF ProgramInv
<1> QED BY <1>1, <1>2, <1>3 DEF ProgramInv

\* _publish_tasking_state is called by the producer.
LEMMA ReportsKeeps ==
  ASSUME ProgramInv, NEW k \in Sessions, Reports(k)
  PROVE  ProgramInv'
<1>1. PICK p \in {"reporting", "announcing"} :
        loop[k].producer \in {"created", "idle"} /\ Set(k, [loop[k] EXCEPT !.producer = p])
  BY DEF Reports, Set
<1> DEFINE l == [loop[k] EXCEPT !.producer = p]
           u == Update("report", k, "tasking", k, k)
<1>2. l \in Loops /\ l.producer = p /\ l.finalizer = "waiting"
      /\ l.controller = loop[k].controller /\ l.stopping = loop[k].stopping
  <2>1. loop[k] \in Loops /\ loop[k].producer # "none" /\ loop[k].finalizer = "waiting"
    BY <1>1, AtWork
  <2>2. l \in Loops
    BY <2>1 DEF Loops
  <2> QED
    BY <2>1, <2>2, <1>1 DEF Loops
<1>3. Set(k, l) /\ k = taskLoop /\ loop[k].finalizer = "waiting"
  BY <1>1, AtWork
<1>4. u \in Updates /\ u.key = "tasking" /\ u.value = k /\ u.only = k /\ Owner(u) = <<"report", k>>
      /\ u.by = "report" /\ u.id = k
  BY Numbers, UpdateTyped DEF Owner, ProgramInv
<1> HIDE DEF l, u
<1>5. loop'[k] = l
  BY <1>3 DEF Set, ProgramInv, TypeOK
<1>6. Waits(u)'
  BY <1>2, <1>4, <1>5 DEF Waits, Report
<1>7. Enqueue(u) /\ UNCHANGED <<lockVars, handlerVars, taskLoop, sessions, tasks, faults>>
  BY DEF Reports, u
<1>8. \A v \in Members(updates) : Waits(v)'
  BY <1>1, <1>2, <1>3, <1>7, WaitsKept
<1>9. ASSUME NEW v \in Members(updates), Owner(v) = Owner(u) PROVE FALSE
  <2>1. v.by = "report" /\ v.id = k
    BY <1>4, <1>9 DEF Owner
  <2>2. Waits(v)
    BY QueueFacts DEF ProgramInv
  <2> QED BY <2>1, <2>2, <1>1 DEF Waits, Report
<1>10. k # None
  BY Numbers DEF ProgramInv
<1>11. /\ Queued' /\ Sequenced' /\ Published' /\ loop' \in [Sessions -> Loops]
       /\ enable' \in EnableStates /\ active' \in ActiveStates
       /\ tasking' \in {None} \cup Sessions /\ seen' = seen
       /\ updates' \in Seq(Updates) /\ writing' \in BOOLEAN
  BY <1>1, <1>2, <1>3, <1>4, <1>6, <1>7, <1>8, <1>9, <1>10, SessionQueues
<1>12. \A j \in Sessions : loop[j].finalizer = "done" => loop'[j].finalizer = "done"
  BY <1>3, <1>5 DEF Set, ProgramInv, TypeOK
<1> QED BY <1>7, <1>11, <1>12, SessionQueuesAlone DEF ProgramInv, TypeOK

\* The retry, the clearing and the last update of _finalize_loop.
LEMMA FinalizerKeeps ==
  ASSUME ProgramInv, NEW k \in Sessions, FinalizerStep(k)
  PROVE  ProgramInv'
<1>1. loop[k].finalizer \in {"waiting", "settled", "cleared"}
  BY DEF FinalizerStep, FinalizerWakes, FinalizerClears, FinalizerDeactivates
<1>2. /\ k = taskLoop /\ k # None /\ loop[k] \in Loops /\ Sound(loop[k])
      /\ loop \in [Sessions -> Loops]
  BY <1>1, CurrentOnly, Numbers DEF ProgramInv, Published, TypeOK
<1>3. /\ FinalizerWakes(k) => loop[k].producer = "done"
                              /\ loop[k].work \notin {"sending", "running"}
      /\ loop[k].finalizer # "waiting" => loop[k].producer = "done"
                                         /\ loop[k].work \notin {"sending", "running"}
  BY <1>2 DEF FinalizerWakes, Working, Sound
<1>4. UNCHANGED <<lockVars, handlerVars, taskLoop, sessions, tasks, faults>>
  BY DEF FinalizerStep, FinalizerWakes, FinalizerClears, FinalizerDeactivates, OnlyUpdate
<1>5. ASSUME NEW l \in Loops, NEW u \in Updates, Set(k, l), Enqueue(u), u.id = k,
             u.by \in {"retry", "clear", "inactive"}, u.only \in {None, k}, Waits(u)',
             loop[k].producer = "done", l.producer = "done",
             l.work \notin {"sending", "running"},
             l.controller = loop[k].controller, l.stopping = loop[k].stopping,
             l.finalizer \in {"retrying", "clearing", "ending"},
             l.finalizer = "ending" => loop[k].finalizer = "cleared",
             u.key # "enable",
             u.key = "active" => l.finalizer = "ending",
             u.key = "tasking" => u.value \in {None, k},
             u.key = "tasking" /\ u.value # None => l.finalizer = "retrying"
      PROVE  ProgramInv'
  <2>1. ASSUME NEW v \in Members(updates)
        PROVE  Owner(v) # Owner(u) /\ Waits(v)'
    <3>1. Waits(v)
      BY QueueFacts DEF ProgramInv
    <3>2. v.id = k => v.by \notin {"report", "retry", "clear", "inactive"}
      BY <1>1, <1>5, <3>1 DEF Waits, Report, Retry, Clear, Deactivate
    <3>3. Owner(v) # Owner(u)
      BY <3>2, <1>5 DEF Owner
    <3>4. Waits(v)'
      BY <3>2, <1>4, <1>5, WaitsIfKept
    <3> QED BY <3>3, <3>4
  <2>2. /\ Queued' /\ Sequenced' /\ Published' /\ loop' \in [Sessions -> Loops]
        /\ enable' \in EnableStates /\ active' \in ActiveStates
        /\ tasking' \in {None} \cup Sessions /\ seen' = seen
        /\ updates' \in Seq(Updates) /\ writing' \in BOOLEAN
    BY <1>1, <1>2, <1>4, <1>5, <2>1, SessionQueues
  <2>3. \A j \in Sessions : loop[j].finalizer = "done" => loop'[j].finalizer = "done"
    BY <1>1, <1>2, <1>5 DEF Set
  <2> QED BY <1>4, <2>2, <2>3, SessionQueuesAlone DEF ProgramInv, TypeOK
<1>6. CASE FinalizerWakes(k) /\ loop[k].reported /\ UNCHANGED stateVars
  <2> DEFINE b == loop[k].work = "unknown"
             l == [loop[k] EXCEPT !.finalizer = "settled", !.finalized = TRUE, !.unresolved = b]
  <2>1. Set(k, l) /\ b \in BOOLEAN
    BY <1>6, <1>3 DEF FinalizerWakes
  <2> HIDE DEF b
  <2>2. /\ l \in Loops /\ l.producer = "done" /\ l.work = loop[k].work
        /\ l.finalizer = "settled" /\ l.controller = loop[k].controller
        /\ l.stopping = loop[k].stopping
    <3>1. loop[k] \in Loops /\ loop[k].producer = "done"
      BY <1>2, <1>3, <1>6
    <3>2. l \in Loops
      BY <2>1, <3>1 DEF Loops
    <3> QED
      BY <2>1, <3>1, <3>2 DEF Loops
  <2> HIDE DEF l
  <2>3. loop[k].finalizer = "waiting" /\ tasks' \in 0..MaxTasks /\ UNCHANGED faults
    BY <1>6, <1>4 DEF FinalizerWakes, ProgramInv, TypeOK
  <2> QED BY <1>2, <1>3, <1>4, <1>6, <2>1, <2>2, <2>3, WorkStep
<1>7. CASE FinalizerWakes(k) /\ ~loop[k].reported
  <2> DEFINE b == loop[k].work = "unknown"
             l == [loop[k] EXCEPT !.finalizer = "retrying", !.unresolved = b]
             u == Update("retry", k, "tasking", k, k)
  <2>1. Set(k, l) /\ Enqueue(u) /\ b \in BOOLEAN
    BY <1>7 DEF FinalizerWakes
  <2> HIDE DEF b
  <2>2. /\ l \in Loops /\ l.producer = "done" /\ l.work = loop[k].work
        /\ l.finalizer = "retrying" /\ l.controller = loop[k].controller
        /\ l.stopping = loop[k].stopping
    <3>1. loop[k] \in Loops /\ loop[k].producer = "done"
      BY <1>2, <1>3, <1>7
    <3>2. l \in Loops
      BY <2>1, <3>1 DEF Loops
    <3> QED
      BY <2>1, <3>1, <3>2 DEF Loops
  <2>3. /\ u \in Updates /\ u.by = "retry" /\ u.id = k /\ u.key = "tasking" /\ u.value = k
        /\ u.only = k
    BY Numbers, UpdateTyped DEF ProgramInv
  <2> HIDE DEF l, u
  <2>4. loop'[k] = l
    BY <1>2, <2>1 DEF Set
  <2>5. Waits(u)'
    BY <2>2, <2>3, <2>4 DEF Waits, Retry
  <2> QED BY <1>3, <1>5, <1>7, <2>1, <2>2, <2>3, <2>5
<1>8. CASE FinalizerClears(k)
  <2> DEFINE l == [loop[k] EXCEPT !.finalizer = "clearing"]
             u == Update("clear", k, "tasking", None, None)
  <2>1. Set(k, l) /\ Enqueue(u) /\ loop[k].finalizer = "settled"
    BY <1>8 DEF FinalizerClears
  <2>2. /\ l \in Loops /\ l.producer = "done" /\ l.work = loop[k].work
        /\ l.finalizer = "clearing" /\ l.controller = loop[k].controller
        /\ l.stopping = loop[k].stopping
    BY <1>2, <1>3, <2>1 DEF Loops
  <2>3. /\ u \in Updates /\ u.by = "clear" /\ u.id = k /\ u.key = "tasking" /\ u.value = None
        /\ u.only = None
    BY Numbers, UpdateTyped DEF ProgramInv
  <2> HIDE DEF l, u
  <2>4. loop'[k] = l
    BY <1>2, <2>1 DEF Set
  <2>5. Waits(u)'
    BY <2>2, <2>3, <2>4 DEF Waits, Clear
  <2> QED BY <1>3, <1>5, <2>1, <2>2, <2>3, <2>5
<1>9. CASE FinalizerDeactivates(k)
  <2>0. PICK origin \in {"request", "error"} :
          Enqueue(Update("inactive", k, "active", Inactive(origin), None))
    BY <1>9 DEF FinalizerDeactivates
  <2> DEFINE l == [loop[k] EXCEPT !.finalizer = "ending"]
             a == Inactive(origin)
             u == Update("inactive", k, "active", a, None)
  <2>1. Set(k, l) /\ Enqueue(u) /\ loop[k].finalizer = "cleared"
    BY <1>9, <2>0 DEF FinalizerDeactivates
  <2>2. /\ l \in Loops /\ l.producer = "done" /\ l.work = loop[k].work
        /\ l.finalizer = "ending" /\ l.controller = loop[k].controller
        /\ l.stopping = loop[k].stopping
    BY <1>2, <1>3, <2>1 DEF Loops
  <2>3. a \in ActiveStates /\ a.active = FALSE
    BY DEF ActiveStates, Inactive
  <2> HIDE DEF a
  <2>4. /\ u \in Updates /\ u.by = "inactive" /\ u.id = k /\ u.key = "active" /\ u.value = a
        /\ u.only = None
    BY <2>3, Numbers, UpdateTyped DEF ProgramInv
  <2> HIDE DEF l, u
  <2>5. loop'[k] = l
    BY <1>2, <2>1 DEF Set
  <2>6. Waits(u)'
    BY <2>2, <2>3, <2>4, <2>5 DEF Waits, Deactivate
  <2> QED BY <1>3, <1>5, <2>1, <2>2, <2>4, <2>6
<1>10. FinalizerWakes(k) => UNCHANGED stateVars \/ ~loop[k].reported
  BY DEF FinalizerWakes
<1> QED BY <1>6, <1>7, <1>8, <1>9, <1>10, <1>2 DEF FinalizerStep, FinalizerWakes

-----------------------------------------------------------------------------
(* Steps that give up the state lock *)

\* The current session moves on as an update of it ends: what the update published is what
\* was published, or what is stored.
LEMMA SessionMoves ==
  ASSUME ProgramInv, NEW k \in Sessions, k = taskLoop, NEW l \in Loops, Set(k, l),
         UNCHANGED <<enable, active, tasking, taskLoop, sessions>>,
         seen'.active = seen.active \/ seen'.active = active.active,
         seen'.tasking \in {seen.tasking, tasking},
         l.controller = loop[k].controller, l.finalizer \notin {"none", "done"},
         l.finalizer # "waiting" => l.producer = "done" /\ l.work \notin {"sending", "running"},
         l.producer = "none" => l.work = "none" /\ seen'.tasking = None,
         l.producer # "none" /\ l.finalizer # "ending" => active.active,
         l.producer # "none" => seen'.active \/ l.stopping,
         l.finalizer \in {"cleared", "ending"} => tasking = None /\ seen'.tasking = None
  PROVE  Sequenced' /\ Published' /\ loop' \in [Sessions -> Loops]
<1>1. loop' = [loop EXCEPT ![k] = l] /\ loop \in [Sessions -> Loops]
  BY DEF Set, ProgramInv, TypeOK
<1>2. loop'[k] = l /\ \A j \in Sessions : j # k => loop'[j] = loop[j]
  BY <1>1
<1>3. Sequenced'
  BY <1>2, Numbers DEF Sequenced, ProgramInv
<1>4. Sound(loop[k]) /\ k # None /\ tasking \in {None, k} /\ seen.tasking \in {None, k}
  BY Numbers DEF Published, ProgramInv
<1>5. Sound(l)'
  BY <1>4 DEF Sound
<1>6. Published'
  <2>1. seen'.tasking \in {None, k} /\ (seen'.tasking # None => l.producer # "none")
    BY <1>4
  <2> QED BY <1>2, <1>4, <1>5, <2>1 DEF Published
<1> QED BY <1>1, <1>3, <1>6

\* What the subscribers have seen after an emission.
LEMMA EmittedFacts ==
  ASSUME TypeOK, NEW u \in Updates, Emitted(u)
  PROVE  /\ seen' \in [active : BOOLEAN, tasking : {None} \cup Sessions]
         /\ seen'.active = IF u.key = "active" THEN active.active ELSE seen.active
         /\ seen'.tasking = IF u.key = "tasking" THEN tasking ELSE seen.tasking
<1>1. active.active \in BOOLEAN
  BY DEF TypeOK, ActiveStates
<1> QED BY <1>1 DEF Emitted, TypeOK

\* A report that is cancelled leaves the queue, wherever it is.
LEMMA ReportCancelledKeeps ==
  ASSUME ProgramInv, NEW k \in Sessions, ReportCancelled(k)
  PROVE  ProgramInv'
<1> DEFINE l == [loop[k] EXCEPT !.producer = "done"]
           mine(u) == u.by = "report" /\ u.id = k
<1>1. Set(k, l) /\ loop[k].producer \in {"reporting", "announcing"}
  BY DEF ReportCancelled
<1>2. /\ k = taskLoop /\ k # None /\ loop[k].finalizer = "waiting" /\ loop[k] \in Loops
      /\ Sound(loop[k])
  BY <1>1, AtWork, Numbers DEF ProgramInv, Published
<1>3. /\ l \in Loops /\ l.producer = "done" /\ l.finalizer = "waiting"
      /\ l.controller = loop[k].controller /\ l.stopping = loop[k].stopping
  BY <1>2 DEF Loops
<1> HIDE DEF l
<1>4. UNCHANGED <<lockVars, handlerVars, taskLoop, sessions, tasks, faults>>
  BY DEF ReportCancelled
<1>5. ASSUME NEW v \in Members(updates), ~mine(v)
      PROVE  Waits(v)'
  BY <1>1, <1>2, <1>3, <1>4, <1>5, WaitsIfKept
<1>6. updates \in Seq(Updates) /\ OneEach(updates)
  BY DEF ProgramInv, TypeOK, Queued
<1>7. \A j \in Sessions : loop[j].finalizer = "done" => loop'[j].finalizer = "done"
  BY <1>1, <1>2, <1>3 DEF Set, ProgramInv, TypeOK
<1>8. ASSUME /\ UNCHANGED <<enable, active, tasking>> /\ Queued'
             /\ updates' \in Seq(Updates) /\ writing' \in BOOLEAN
             /\ seen' \in [active : BOOLEAN, tasking : {None} \cup Sessions]
             /\ seen'.active = seen.active /\ seen'.tasking \in {seen.tasking, tasking}
      PROVE  ProgramInv'
  <2>1. active.active /\ (seen.active \/ loop[k].stopping)
    BY <1>1, <1>2 DEF Sound
  <2>2. Sequenced' /\ Published' /\ loop' \in [Sessions -> Loops]
    BY <1>1, <1>2, <1>3, <1>4, <1>8, <2>1, SessionMoves
  <2> QED BY <1>4, <1>7, <1>8, <2>2, SessionQueuesAlone DEF ProgramInv, TypeOK
<1>9. CASE writing /\ mine(Head(updates))
  <2>1. updates # <<>> /\ Head(updates) \in Members(updates) /\ Head(updates) \in Updates
        /\ Waits(Head(updates))
    BY <1>9, QueueFacts DEF ProgramInv
  <2>2. Release /\ (Emitted(Head(updates)) \/ UNCHANGED seen)
    BY <1>9 DEF ReportCancelled
  <2>3. \A v \in Members(updates) : Owner(v) # Owner(Head(updates)) => Waits(v)'
    BY <1>5, <1>9 DEF Owner, mine
  <2>4. updates' \in Seq(Updates) /\ writing' = FALSE /\ Queued'
    BY <2>1, <2>2, <2>3, ReleaseKeeps DEF ProgramInv
  <2>5. Head(updates).key = "tasking"
    BY <2>1, <1>9 DEF Waits, Report, mine
  <2>6. /\ seen' \in [active : BOOLEAN, tasking : {None} \cup Sessions]
        /\ seen'.active = seen.active /\ seen'.tasking \in {seen.tasking, tasking}
    BY <2>1, <2>2, <2>5, EmittedFacts DEF ProgramInv, TypeOK
  <2> QED BY <1>8, <2>2, <2>4, <2>6 DEF Release
<1>10. CASE ~(writing /\ mine(Head(updates)))
  <2>1. PICK i \in DOMAIN updates : mine(updates[i]) /\ updates' = Without(updates, i)
    BY <1>10 DEF ReportCancelled
  <2>2. UNCHANGED <<enable, active, tasking, seen, writing>>
    BY <1>10 DEF ReportCancelled
  <2>3. /\ updates' \in Seq(Updates) /\ OneEach(updates')
        /\ \A u \in Members(updates') : u \in Members(updates) /\ Owner(u) # Owner(updates[i])
        /\ i # 1 => updates' # <<>> /\ Head(updates') = Head(updates)
    BY <1>6, <2>1, WithoutKeeps
  <2>4. \A u \in Members(updates') : Waits(u)'
    BY <1>5, <2>1, <2>3 DEF Owner, mine
  <2>5. writing => i # 1
    BY <1>10, <2>1 DEF mine
  <2>6. writing' => Written'
    BY <1>4, <2>2, <2>3, <2>5 DEF ProgramInv, Queued, Written
  <2>7. Queued'
    BY <2>3, <2>4, <2>6 DEF Queued
  <2> QED BY <1>8, <2>2, <2>3, <2>7 DEF ProgramInv, TypeOK
<1> QED BY <1>9, <1>10

-----------------------------------------------------------------------------
(* What a step of a handler leaves alone *)

\* A handler that moves keeps the queue for the control lock in order, and whoever holds it.
LEMMA HandlerControls ==
  ASSUME ProgramInv, NEW h \in Handlers, NEW how, pc' = [pc EXCEPT ![h] = how],
         pc[h] # "locking",
         holder' = holder \/ (holder = h /\ holder' = None),
         UNCHANGED <<waiting, request, arrived>>,
         \A g \in Handlers : g # h => target'[g] = target[g],
         \/ UNCHANGED <<taskLoop, sessions>>
         \/ holder = h /\ sessions' = sessions + 1 /\ sessions < h /\ h <= arrived,
         Handled(h)'
  PROVE  Controlled'
<1>1. /\ \A g \in Handlers : g \in Nat /\ g > 0
      /\ sessions \in Nat /\ arrived \in Nat /\ holder \in Nat /\ None = 0
  BY Numbers DEF ProgramInv
<1>2. pc \in [Handlers -> {"none", "locking", "locked", "accepted", "activating", "starting",
                           "finalizing", "enabling", "publishing", "awaiting", "succeeded",
                           "failed", "rejected"}]
  BY DEF ProgramInv, TypeOK
<1>3. \A g \in Handlers : g # h => pc'[g] = pc[g]
  BY <1>2
<1>4. \A i \in DOMAIN waiting : waiting[i] \in Handlers
  BY LenProperties, ElementOfSeq DEF ProgramInv, TypeOK
<1>5. Fair'
  <2>1. \A i \in DOMAIN waiting : pc[waiting[i]] = "locking" /\ holder < waiting[i]
                                   /\ sessions < waiting[i] /\ waiting[i] # h
    BY DEF ProgramInv, Controlled, Fair
  <2>2. sessions' <= arrived' /\ \A i \in DOMAIN waiting : sessions' < waiting[i]
    <3>1. CASE sessions' = sessions
      BY <3>1, <2>1 DEF ProgramInv, Controlled, Fair
    <3>2. CASE holder = h /\ sessions' = sessions + 1 /\ sessions < h /\ h <= arrived
      <4>1. h \in Nat /\ sessions' <= h /\ arrived' = arrived
        BY <3>2, <1>1
      <4>2. ASSUME NEW i \in DOMAIN waiting
            PROVE  sessions' < waiting[i]
        <5>1. waiting[i] \in Nat /\ h < waiting[i]
          BY <3>2, <2>1, <1>1, <1>4
        <5> QED BY <4>1, <5>1, <3>2, <1>1
      <4> QED BY <4>1, <4>2, <3>2, <1>1
    <3> QED BY <3>1, <3>2
  <2>3. \A i \in DOMAIN waiting : pc'[waiting[i]] = "locking" /\ holder' < waiting[i]
    BY <1>1, <1>3, <1>4, <2>1
  <2>4. holder' <= arrived'
    BY <1>1 DEF Fair, ProgramInv, Controlled
  <2> QED BY <2>2, <2>3, <2>4 DEF Fair, ProgramInv, Controlled
<1>6. ASSUME NEW g \in Handlers, g # h
      PROVE  Handled(g)'
  <2>1. Handled(g)
    BY DEF ProgramInv, Controlled
  <2>2. pc'[g] = pc[g] /\ target'[g] = target[g] /\ request' = request /\ arrived' = arrived
    BY <1>3, <1>6
  <2>3. CASE holder = g
    BY <2>1, <2>2, <2>3, <1>1, <1>6 DEF Handled, Kind, Stops, Ends
  <2>4. CASE holder # g
    BY <2>1, <2>2, <2>4, <1>1, <1>6 DEF Handled, Kind, Stops, Ends
  <2> QED BY <2>3, <2>4
<1> QED BY <1>5, <1>6 DEF Controlled

\* A handler that moves does not change what the others' stops name.
LEMMA HandlerConfirms ==
  ASSUME ProgramInv, NEW h \in Handlers, NEW how, pc' = [pc EXCEPT ![h] = how],
         UNCHANGED request, \A g \in Handlers : g # h => target'[g] = target[g],
         \/ sessions' = sessions /\ taskLoop' = taskLoop
         \/ sessions' = sessions + 1 /\ taskLoop' = sessions + 1,
         \A k \in Sessions : loop[k].finalizer = "done" => loop'[k].finalizer = "done",
         Named(h)'
  PROVE  Confirmed'
<1> SUFFICES ASSUME NEW g \in Handlers, g # h
             PROVE  Named(g)'
  BY DEF Confirmed
<1>1. Named(g) /\ (Stops(g) => request[g].session \in {None} \cup Sessions)
  BY RequestFacts DEF ProgramInv, Confirmed
<1>2. pc'[g] = pc[g] /\ target'[g] = target[g] /\ request' = request
  BY DEF ProgramInv, TypeOK
<1>3. sessions \in Nat /\ \A k \in Sessions : k \in Nat
  BY Numbers DEF ProgramInv
<1> QED BY <1>1, <1>2, <1>3 DEF Named, Stops, Kind

-----------------------------------------------------------------------------
(* What follows an update *)

\* The head of the queue is done with: written and published, failed, or dropped.
Released(u, ok) ==
  /\ updates # <<>> /\ u = Head(updates) /\ Release /\ After(u, ok)
  /\ \/ writing /\ Emitted(u)
     \/ writing /\ ~ok /\ UNCHANGED seen
     \/ u.by = "stop" /\ UNCHANGED seen
  /\ ~ok => u.by \in {"start", "report", "retry", "stop", "enable"}
  /\ UNCHANGED <<waiting, request, target, arrived, sessions, tasks>>
  /\ faults' \in 0..MaxFaults

\* What was written is stored and, unless its publication failed, seen.
LEMMA ReleasedFacts ==
  ASSUME ProgramInv, NEW ok \in BOOLEAN, NEW u, Released(u, ok)
  PROVE  /\ u \in Updates /\ u \in Members(updates) /\ Waits(u) /\ u.id \in Sessions
         /\ UNCHANGED <<enable, active, tasking>>
         /\ seen' \in [active : BOOLEAN, tasking : {None} \cup Sessions]
         /\ seen'.active = seen.active \/ (u.key = "active" /\ seen'.active = active.active)
         /\ seen'.tasking = seen.tasking \/ (u.key = "tasking" /\ seen'.tasking = tasking)
         /\ u.by # "stop" => u.only \in {None, taskLoop}
         /\ u.by # "stop" /\ u.key = "active" => active = u.value
         /\ u.by # "stop" /\ u.key = "tasking" => tasking = u.value
         /\ u.by # "stop" /\ u.key = "active" /\ ok => seen'.active = active.active
         /\ u.by # "stop" /\ u.key = "tasking" /\ ok => seen'.tasking = tasking
         /\ u.key = "active" /\ seen'.active # seen.active => active = u.value
<1>1. u \in Members(updates) /\ u \in Updates /\ Waits(u)
  BY QueueFacts DEF Released, ProgramInv
<1>2. u.id \in Sessions
  BY <1>1, UpdateFacts, Numbers DEF ProgramInv
<1>3. UNCHANGED <<enable, active, tasking>>
  BY DEF Released, Release
<1>4. writing => Written
  BY DEF ProgramInv, Queued
<1>5. Emitted(u) \/ UNCHANGED seen
  BY DEF Released
<1>6. /\ seen' \in [active : BOOLEAN, tasking : {None} \cup Sessions]
      /\ seen'.active = seen.active \/ (u.key = "active" /\ seen'.active = active.active)
      /\ seen'.tasking = seen.tasking \/ (u.key = "tasking" /\ seen'.tasking = tasking)
  BY <1>1, <1>5, EmittedFacts DEF ProgramInv, TypeOK
<1>7. u.by # "stop" => writing /\ (ok => Emitted(u))
  BY DEF Released
<1>8. /\ u.by # "stop" => u.only \in {None, taskLoop}
      /\ u.by # "stop" /\ u.key = "active" => active = u.value
      /\ u.by # "stop" /\ u.key = "tasking" => tasking = u.value
      /\ u.key = "active" /\ seen'.active # seen.active => active = u.value
  BY <1>4, <1>7 DEF Written, Released
<1>9. /\ u.by # "stop" /\ u.key = "active" /\ ok => seen'.active = active.active
      /\ u.by # "stop" /\ u.key = "tasking" /\ ok => seen'.tasking = tasking
  BY <1>1, <1>7, EmittedFacts DEF ProgramInv
<1> QED BY <1>1, <1>2, <1>3, <1>6, <1>8, <1>9

\* The queue after it, if the others are where they were.
LEMMA ReleasedQueue ==
  ASSUME ProgramInv, NEW ok \in BOOLEAN, NEW u, Released(u, ok),
         \A v \in Members(updates) : Owner(v) # Owner(u) => Waits(v)'
  PROVE  updates' \in Seq(Updates) /\ writing' \in BOOLEAN /\ Queued'
BY ReleaseKeeps DEF Released, ProgramInv

\* An update of the producer or the finalizer, which goes on.
LEMMA SessionReleases ==
  ASSUME ProgramInv, NEW ok \in BOOLEAN, NEW u, Released(u, ok),
         NEW k \in Sessions, k = u.id, k = taskLoop, NEW l \in Loops, Set(k, l),
         u.by \in {"report", "retry", "clear"}, UNCHANGED <<pc, holder, taskLoop>>,
         l.controller = loop[k].controller, l.stopping = loop[k].stopping,
         loop[k].producer # "none", l.producer # "none", l.work = loop[k].work,
         u.by = "report" => l.finalizer = loop[k].finalizer,
         u.by # "report" => l.producer = loop[k].producer,
         u.by = "retry" => l.finalizer = "settled",
         u.by = "clear" => l.finalizer = "cleared"
  PROVE  ProgramInv'
<1>1. /\ u \in Updates /\ u \in Members(updates) /\ Waits(u) /\ UNCHANGED <<enable, active, tasking>>
      /\ seen' \in [active : BOOLEAN, tasking : {None} \cup Sessions]
      /\ seen'.active = seen.active \/ (u.key = "active" /\ seen'.active = active.active)
      /\ seen'.tasking = seen.tasking \/ (u.key = "tasking" /\ seen'.tasking = tasking)
      /\ u.key = "tasking" => tasking = u.value
      /\ u.key = "tasking" /\ ok => seen'.tasking = tasking
  BY ReleasedFacts
<1>2. /\ k # None /\ loop[k] \in Loops /\ Sound(loop[k]) /\ loop[k].finalizer \notin {"none", "done"}
  BY Numbers DEF ProgramInv, Published, Sequenced, TypeOK
<1>3. /\ u.key = "tasking"
      /\ u.by = "report" => loop[k].producer \in {"reporting", "announcing"}
                            /\ loop[k].finalizer = "waiting"
      /\ u.by = "retry" => loop[k].finalizer = "retrying"
      /\ u.by = "clear" => loop[k].finalizer = "clearing" /\ u.value = None /\ ok
  BY <1>1, <1>2 DEF Waits, Report, Retry, Clear, Sound, Released
<1>4. ASSUME NEW v \in Members(updates), Owner(v) # Owner(u)
      PROVE  Waits(v)'
  <2>1. Waits(v)
    BY QueueFacts DEF ProgramInv
  <2>2. v.id = k /\ v.by = "report" => l.producer = loop[k].producer
    BY <1>3, <1>4 DEF Owner
  <2>3. v.id = k /\ v.by \in {"retry", "clear", "inactive"} => l.finalizer = loop[k].finalizer
    BY <1>3, <1>4, <2>1 DEF Owner, Waits, Retry, Clear, Deactivate
  <2>4. UNCHANGED <<handlerVars, taskLoop>>
    BY DEF Released, handlerVars
  <2> QED BY <2>2, <2>3, <2>4, WaitsIfKept
<1>5. updates' \in Seq(Updates) /\ writing' \in BOOLEAN /\ Queued'
  BY <1>4, ReleasedQueue
<1>6. Sequenced' /\ Published' /\ loop' \in [Sessions -> Loops]
  <2>1. l.finalizer # "waiting" => l.producer = "done" /\ l.work \notin {"sending", "running"}
    BY <1>2, <1>3 DEF Sound
  <2>2. active.active /\ (seen.active \/ l.stopping) /\ l.finalizer \notin {"none", "done", "ending"}
    BY <1>2, <1>3 DEF Sound
  <2>3. l.finalizer = "cleared" => tasking = None /\ seen'.tasking = None
    BY <1>1, <1>3
  <2> QED BY <1>1, <1>3, <2>1, <2>2, <2>3, SessionMoves DEF Released
<1>7. UNCHANGED <<lockVars, handlerVars, taskLoop, sessions, tasks>> /\ faults' \in 0..MaxFaults
  BY DEF Released, lockVars, handlerVars
<1>8. \A j \in Sessions : loop[j].finalizer = "done" => loop'[j].finalizer = "done"
  BY <1>2 DEF Set, ProgramInv, TypeOK
<1>9. TypeOK'
  BY <1>1, <1>5, <1>6, <1>7 DEF ProgramInv, TypeOK, lockVars, handlerVars
<1>10. Controlled' /\ Confirmed'
  BY <1>7, <1>8, ControlledFrame, ConfirmedFrame DEF ProgramInv
<1> QED BY <1>5, <1>6, <1>9, <1>10 DEF ProgramInv

\* _publish_tasking_state returns to the producer, whether it could publish or not.
LEMMA AfterReportKeeps ==
  ASSUME ProgramInv, NEW ok \in BOOLEAN, NEW u, Released(u, ok), u.by = "report"
  PROVE  ProgramInv'
<1> DEFINE k == u.id
<1>1. u.id \in Sessions /\ Waits(u)
  BY ReleasedFacts
<1>2. loop[k].producer \in {"reporting", "announcing"}
  BY <1>1 DEF Waits, Report
<1>3. /\ k = taskLoop /\ loop[k] \in Loops /\ loop[k].finalizer = "waiting"
      /\ loop \in [Sessions -> Loops]
  BY <1>1, <1>2, AtWork DEF ProgramInv, TypeOK
<1>4. AfterReport(k, ok)
  BY DEF Released, After
<1>5. PICK p \in {"idle", "factory"}, b \in BOOLEAN :
        Set(k, [loop[k] EXCEPT !.producer = p, !.reported = b])
  <2>1. loop[k].reported \/ ok \in BOOLEAN
    OBVIOUS
  <2> QED BY <1>4, <2>1, <1>3 DEF AfterReport, Set
<1> DEFINE l == [loop[k] EXCEPT !.producer = p, !.reported = b]
<1>6. /\ l \in Loops /\ l.producer \in {"idle", "factory"} /\ l.finalizer = loop[k].finalizer
      /\ l.controller = loop[k].controller /\ l.stopping = loop[k].stopping
      /\ l.work = loop[k].work
  BY <1>3 DEF Loops
<1>7. Set(k, l)
  BY <1>5
<1> HIDE DEF l
<1>8. UNCHANGED <<pc, holder, taskLoop>>
  BY <1>4 DEF AfterReport
<1> QED BY <1>1, <1>2, <1>3, <1>6, <1>7, <1>8, SessionReleases

\* The finalizer goes on after its retry, and after the tasking state was cleared.
LEMMA AfterFinalKeeps ==
  ASSUME ProgramInv, NEW ok \in BOOLEAN, NEW u, Released(u, ok), u.by \in {"retry", "clear"}
  PROVE  ProgramInv'
<1> DEFINE k == u.id
           stage == IF u.by = "retry" THEN "settled" ELSE "cleared"
<1>1. u.id \in Sessions /\ Waits(u)
  BY ReleasedFacts
<1>2. loop[k].finalizer \in {"retrying", "clearing"}
  BY <1>1 DEF Waits, Retry, Clear
<1>3. /\ k = taskLoop /\ k # None /\ loop[k] \in Loops /\ loop \in [Sessions -> Loops]
  BY <1>1, <1>2, CurrentOnly, Numbers DEF ProgramInv, TypeOK
<1>4. loop[k].producer = "done"
  BY <1>2, <1>3 DEF ProgramInv, Published, Sound
<1>5. PICK published \in BOOLEAN : AfterFinal(k, stage, published)
  BY DEF Released, After
<1>6. PICK b \in BOOLEAN :
        Set(k, [loop[k] EXCEPT !.finalizer = stage, !.reported = b, !.finalized = TRUE])
  <2>1. loop[k].reported \/ published \in BOOLEAN
    OBVIOUS
  <2> QED BY <1>5, <2>1, <1>3 DEF AfterFinal, Set
<1>7. UNCHANGED <<pc, holder, taskLoop>>
  BY <1>5 DEF AfterFinal
<1> DEFINE l == [loop[k] EXCEPT !.finalizer = stage, !.reported = b, !.finalized = TRUE]
<1>8. /\ l \in Loops /\ l.producer = loop[k].producer /\ l.finalizer = stage
      /\ l.controller = loop[k].controller /\ l.stopping = loop[k].stopping
      /\ l.work = loop[k].work
  BY <1>3 DEF Loops
<1>9. Set(k, l)
  BY <1>6
<1> HIDE DEF l
<1> QED BY <1>1, <1>3, <1>4, <1>7, <1>8, <1>9, SessionReleases

\* The last update of _finalize_loop: the session is forgotten, and no other is current.
LEMMA AfterLastKeeps ==
  ASSUME ProgramInv, NEW ok \in BOOLEAN, NEW u, Released(u, ok), u.by = "inactive"
  PROVE  ProgramInv'
<1> DEFINE k == u.id
           l == [NoLoop EXCEPT !.producer = "done", !.reported = loop[k].reported,
                               !.unresolved = loop[k].unresolved, !.finalized = TRUE,
                               !.finalizer = "done"]
<1>1. /\ u \in Updates /\ u \in Members(updates) /\ u.id \in Sessions /\ Waits(u) /\ ok
      /\ UNCHANGED <<enable, active, tasking>>
      /\ seen' \in [active : BOOLEAN, tasking : {None} \cup Sessions]
      /\ u.key = "active" => active = u.value /\ seen'.active = active.active
      /\ u.key = "active" => seen'.tasking = seen.tasking
  BY ReleasedFacts, UpdateFacts DEF Released
<1>2. loop[k].finalizer = "ending" /\ u.key = "active" /\ ~u.value.active
  BY <1>1 DEF Waits, Deactivate
<1>3. /\ k = taskLoop /\ k # None /\ loop[k] \in Loops /\ loop \in [Sessions -> Loops]
      /\ Sound(loop[k])
  <2>1. k \in Sessions /\ TypeOK /\ Sequenced
    BY <1>1 DEF ProgramInv
  <2>2. k = taskLoop
    BY <1>2, <2>1, CurrentOnly
  <2>3. k # None
    BY <2>1, Numbers
  <2>4. loop \in [Sessions -> Loops]
    BY <2>1 DEF TypeOK
  <2>5. Sound(loop[k])
    BY <2>2, <2>3 DEF ProgramInv, Published
  <2> HIDE DEF k, l
  <2> QED
    BY <2>1, <2>2, <2>3, <2>4, <2>5
<1>4. AfterFinal(k, "done", FALSE)
  BY DEF Released, After
<1>5. taskLoop' = None /\ Set(k, l) /\ UNCHANGED <<pc, holder>>
  BY <1>4 DEF AfterFinal, Set
<1>6. l \in Loops /\ l.producer = "done" /\ l.work = "none" /\ l.finalizer = "done"
  <2>1. loop[k].reported \in BOOLEAN /\ loop[k].unresolved \in BOOLEAN
    BY <1>3 DEF Loops
  <2>2. NoLoop \in Loops /\ NoLoop.work = "none"
    BY DEF Loops, NoLoop
  <2> HIDE DEF k
  <2>3. l \in Loops
    BY <2>1, <2>2 DEF Loops
  <2> QED
    BY <2>2, <2>3 DEF Loops
<1> HIDE DEF l
<1>7. loop'[k] = l /\ \A j \in Sessions : j # k => loop'[j] = loop[j]
  BY <1>1, <1>3, <1>5 DEF Set
<1>8. ~active.active /\ ~seen'.active /\ tasking = None /\ seen'.tasking = None
  BY <1>1, <1>2, <1>3 DEF Sound
<1>9. ASSUME NEW v \in Members(updates), Owner(v) # Owner(u)
      PROVE  Waits(v)'
  <2>1. Waits(v) /\ v \in Updates /\ v.id \in Sessions
    BY QueueFacts, UpdateFacts, Numbers DEF ProgramInv
  <2>2. loop[k].producer = "done"
    BY <1>2, <1>3 DEF Sound
  <2>3. v.by # "start"
    BY <2>1, <2>2, <1>3 DEF Waits, Start
  <2>4. v.id # k \/ v.by \in {"stop", "enable"}
    BY <1>2, <1>9, <2>1, <2>2, <2>3, UpdateFacts
       DEF Owner, Waits, Report, Retry, Clear, Deactivate
  <2>5. pc' = pc
    BY <1>5
  <2> QED BY <1>7, <2>1, <2>3, <2>4, <2>5
          DEF Waits, Start, Report, Stop, Enable, Retry, Clear, Deactivate
<1>10. updates' \in Seq(Updates) /\ writing' \in BOOLEAN /\ Queued'
  BY <1>9, ReleasedQueue
<1>11. UNCHANGED <<lockVars, handlerVars, sessions, tasks>> /\ faults' \in 0..MaxFaults
  BY <1>5 DEF Released, lockVars, handlerVars
<1>12. Sequenced'
  BY <1>3, <1>5, <1>6, <1>7, <1>11, Numbers DEF ProgramInv, Sequenced
<1>13. Published'
  BY <1>1, <1>5, <1>8 DEF Published
<1>14. TypeOK'
  BY <1>1, <1>3, <1>5, <1>6, <1>10, <1>11 DEF ProgramInv, TypeOK, Set, lockVars, handlerVars
<1>15. Controlled' /\ Confirmed'
  <2>1. \A j \in Sessions : loop[j].finalizer = "done" => loop'[j].finalizer = "done"
    BY <1>6, <1>7
  <2> QED BY <1>5, <1>11, <2>1, ControlledFrame, ConfirmedFrame DEF ProgramInv
<1> QED BY <1>10, <1>12, <1>13, <1>14, <1>15 DEF ProgramInv

\* A handler's update ends, and the handler goes on: the others wait where they were.
LEMMA HandlerReleases ==
  ASSUME ProgramInv, NEW ok \in BOOLEAN, NEW u, Released(u, ok), NEW how, NEW l \in Loops,
         u.by \in {"start", "stop", "enable"}, pc' = [pc EXCEPT ![u.id] = how],
         how \in {"starting", "awaiting", "succeeded", "failed"},
         NEW k \in Sessions, Set(k, l), UNCHANGED taskLoop,
         u.by = "start" => k = target[u.id] /\ l.finalizer = loop[k].finalizer,
         u.by # "start" => l = loop[k]
  PROVE  \A v \in Members(updates) : Owner(v) # Owner(u) => Waits(v)'
<1> SUFFICES ASSUME NEW v \in Members(updates), Owner(v) # Owner(u)
             PROVE  Waits(v)'
  OBVIOUS
<1>1. /\ Waits(v) /\ v \in Updates /\ v.id \in Sessions /\ v.id \in Handlers
      /\ Waits(u) /\ u.id \in Sessions /\ u.id \in Handlers
  BY QueueFacts, UpdateFacts, Numbers, ReleasedFacts DEF ProgramInv
<1>2. loop'[k] = l /\ \A j \in Sessions : j # k => loop'[j] = loop[j]
  BY DEF Set, ProgramInv, TypeOK
<1>3. pc'[u.id] = how /\ \A g \in Handlers : g # u.id => pc'[g] = pc[g]
  BY <1>1 DEF ProgramInv, TypeOK
<1>4. target' = target /\ taskLoop' = taskLoop
  BY DEF Released
<1>5. v.by \in {"start", "stop", "enable"} => v.id # u.id
  BY <1>1 DEF Owner, Waits, Start, Stop, Enable
<1>6. CASE u.by = "start"
  <2>1. k = taskLoop /\ loop[k].producer = "none" /\ pc[u.id] = "activating"
    BY <1>1, <1>6 DEF Waits, Start
  <2>2. v.by # "start"
    <3>1. v.by = "start" => pc[v.id] = "activating" /\ holder = v.id
      BY <1>1 DEF Waits, Start, ProgramInv, Controlled, Handled
    <3>2. holder = u.id
      BY <1>1, <2>1 DEF ProgramInv, Controlled, Handled
    <3> QED BY <1>5, <3>1, <3>2
  <2> QED BY <1>1, <1>2, <1>3, <1>4, <1>5, <1>6, <2>1, <2>2
          DEF Waits, Start, Report, Stop, Enable, Retry, Clear, Deactivate
<1>7. CASE u.by # "start"
  <2>1. \A j \in Sessions : loop'[j] = loop[j]
    BY <1>2, <1>7
  <2>2. v.by = "start" => taskLoop \in Sessions
    BY <1>1 DEF Waits, Start, ProgramInv, TypeOK
  <2> QED BY <1>1, <1>3, <1>4, <1>5, <2>1, <2>2
          DEF Waits, Start, Report, Stop, Enable, Retry, Clear, Deactivate
<1> QED BY <1>6, <1>7

\* _start_loop starts the producer; a failed publication has it aborted first.
LEMMA AfterStartKeeps ==
  ASSUME ProgramInv, NEW ok \in BOOLEAN, NEW u, Released(u, ok), u.by = "start"
  PROVE  ProgramInv'
<1> DEFINE h == u.id
           k == target[h]
           m == IF ok THEN loop[k] ELSE EndWork([loop[k] EXCEPT !.stopping = TRUE])
           l == [m EXCEPT !.producer = "created"]
           how == IF ok THEN "starting" ELSE "failed"
<1>1. /\ u \in Updates /\ u \in Members(updates) /\ h \in Handlers /\ Waits(u)
      /\ UNCHANGED <<enable, active, tasking>>
      /\ seen' \in [active : BOOLEAN, tasking : {None} \cup Sessions]
      /\ u.key = "active" => active = u.value /\ seen'.tasking = seen.tasking
      /\ u.key = "active" => seen'.active = seen.active \/ seen'.active = active.active
      /\ u.key = "active" /\ ok => seen'.active = active.active
  BY ReleasedFacts, UpdateFacts
<1>2. /\ u.key = "active" /\ u.value.active /\ pc[h] = "activating" /\ k = taskLoop
      /\ loop[k].producer = "none"
  BY <1>1 DEF Waits, Start
<1>3. /\ k \in Sessions /\ k # None /\ loop[k] \in Loops /\ loop \in [Sessions -> Loops]
      /\ Sound(loop[k]) /\ loop[k].finalizer \notin {"none", "done"}
  BY <1>1, <1>2, Numbers DEF Waits, Start, ProgramInv, TypeOK, Published, Sequenced
<1>4. loop[k].finalizer = "waiting" /\ loop[k].work = "none"
  BY <1>2, <1>3 DEF Sound
<1>5. AfterStart(h, ok)
  BY DEF Released, After
<1>6. /\ Set(k, l) /\ pc' = [pc EXCEPT ![h] = how] /\ UNCHANGED taskLoop
      /\ IF ok THEN holder' = holder ELSE holder' = None
  BY <1>5 DEF AfterStart, Set, Answer, FreeControl
<1>7. /\ m \in Loops /\ m.finalizer = "waiting" /\ m.work = "none"
      /\ m.controller = loop[k].controller /\ (~ok => m.stopping)
  <2>1. CASE ok
    BY <2>1, <1>3, <1>4
  <2>2. CASE ~ok
    <3> DEFINE n == [loop[k] EXCEPT !.stopping = TRUE]
    <3>1. /\ n \in Loops /\ n.finalizer = "waiting" /\ n.work = "none"
          /\ n.controller = loop[k].controller /\ n.stopping
      BY <1>3, <1>4 DEF Loops
    <3> HIDE DEF n
    <3>2. m = EndWork(n)
      BY <2>2 DEF n
    <3> HIDE DEF m
    <3> QED BY <3>1, <3>2, EndWorkFacts
  <2> QED BY <2>1, <2>2
<1> HIDE DEF m
<1>8. /\ l \in Loops /\ l.producer = "created" /\ l.finalizer = "waiting" /\ l.work = "none"
      /\ l.controller = loop[k].controller /\ (~ok => l.stopping)
  BY <1>7 DEF Loops
<1> HIDE DEF l
<1>9. how \in {"starting", "failed"}
  OBVIOUS
<1>10. \A v \in Members(updates) : Owner(v) # Owner(u) => Waits(v)'
  BY <1>3, <1>4, <1>6, <1>8, <1>9, HandlerReleases
<1>11. updates' \in Seq(Updates) /\ writing' \in BOOLEAN /\ Queued'
  BY <1>10, ReleasedQueue
<1>12. UNCHANGED <<waiting, request, target, arrived, sessions, tasks>> /\ faults' \in 0..MaxFaults
  BY DEF Released
<1>13. Sequenced' /\ Published' /\ loop' \in [Sessions -> Loops]
  <2>1. active.active /\ (seen'.active \/ l.stopping)
    BY <1>1, <1>2, <1>8
  <2> QED BY <1>1, <1>2, <1>3, <1>6, <1>8, <1>12, <2>1, SessionMoves
<1>14. pc'[h] = how /\ holder = h /\ Kind(h) = "start" /\ h <= arrived
  <2>1. Handled(h)
    BY <1>1 DEF ProgramInv, Controlled
  <2>2. pc'[h] = how /\ h \in Nat /\ arrived \in Nat
    BY <1>1, <1>6, Numbers DEF ProgramInv, TypeOK
  <2> QED BY <1>2, <2>1, <2>2 DEF Handled
<1>15. Handled(h)'
  BY <1>6, <1>9, <1>12, <1>14, <1>1, Numbers DEF ProgramInv, Handled, Kind, Stops, Ends
<1>16. Controlled'
  BY <1>1, <1>2, <1>6, <1>12, <1>14, <1>15, HandlerControls
<1>17. Confirmed'
  <2>1. \A j \in Sessions : loop[j].finalizer = "done" => loop'[j].finalizer = "done"
    BY <1>3, <1>4, <1>6 DEF Set
  <2>2. Named(h)'
    BY <1>12, <1>14 DEF Named, Stops, Kind
  <2> QED BY <1>1, <1>6, <1>12, <2>1, <2>2, HandlerConfirms
<1>18. TypeOK'
  BY <1>1, <1>6, <1>9, <1>11, <1>12, <1>13 DEF ProgramInv, TypeOK
<1> QED BY <1>11, <1>13, <1>16, <1>17, <1>18 DEF ProgramInv

\* A step that leaves the sessions alone, and publishes nothing but that one is active.
LEMMA SessionsStay ==
  ASSUME ProgramInv, UNCHANGED <<enable, active, tasking, loop, taskLoop, sessions>>,
         seen'.active = seen.active \/ (seen'.active /\ taskLoop # None),
         seen'.tasking = seen.tasking
  PROVE  Sequenced' /\ Published'
<1>1. Sequenced'
  BY DEF ProgramInv, Sequenced
<1>2. taskLoop # None => Sound(loop[taskLoop])'
  BY DEF ProgramInv, Published, Sound
<1>3. Published'
  BY <1>2 DEF ProgramInv, Published
<1> QED BY <1>1, <1>3

\* _stop_loop waits for the finalizer, or raises, and _set_enable_state returns.
LEMMA AfterHandlerKeeps ==
  ASSUME ProgramInv, NEW ok \in BOOLEAN, NEW u, Released(u, ok), u.by \in {"stop", "enable"}
  PROVE  ProgramInv'
<1> DEFINE h == u.id
<1>1. /\ u \in Updates /\ u \in Members(updates) /\ h \in Handlers /\ h \in Sessions /\ Waits(u)
      /\ UNCHANGED <<enable, active, tasking>>
      /\ seen' \in [active : BOOLEAN, tasking : {None} \cup Sessions]
      /\ seen'.active = seen.active \/ (u.key = "active" /\ seen'.active = active.active)
      /\ seen'.tasking = seen.tasking \/ (u.key = "tasking" /\ seen'.tasking = tasking)
      /\ u.key = "active" /\ seen'.active # seen.active => active = u.value
  BY ReleasedFacts, UpdateFacts
<1>2. /\ u.by = "stop" => u.key = "active" /\ u.value.active /\ pc[h] = "publishing"
      /\ u.by = "enable" => u.key = "enable" /\ pc[h] = "enabling"
  BY <1>1 DEF Waits, Stop, Enable
<1>3. UNCHANGED <<waiting, request, target, arrived, sessions, tasks>> /\ faults' \in 0..MaxFaults
  BY DEF Released
<1>4. PICK how \in {"awaiting", "succeeded", "failed"} :
        /\ pc' = [pc EXCEPT ![h] = how] /\ UNCHANGED <<loop, taskLoop>>
        /\ how = "succeeded" => u.by = "enable"
        /\ how = "awaiting" => u.by = "stop" /\ holder' = holder
        /\ holder' = holder \/ (holder = h /\ holder' = None)
        /\ holder' = holder => holder # h \/ how = "awaiting"
  <2>1. CASE u.by = "stop"
    <3>1. AfterStop(h, ok)
      BY <2>1 DEF Released, After
    <3>2. CASE ok
      BY <3>1, <3>2, <2>1 DEF AfterStop, Answer
    <3>3. CASE ~ok
      BY <3>1, <3>3, <2>1, <1>1, Numbers DEF ProgramInv, AfterStop, Answer, FreeControl
    <3> QED BY <3>2, <3>3
  <2>2. CASE u.by = "enable"
    <3>1. AfterEnable(h, ok)
      BY <2>2 DEF Released, After
    <3>2. holder = h
      BY <1>1, <1>2, <2>2 DEF ProgramInv, Controlled, Handled
    <3> QED BY <3>1, <3>2, <2>2, <1>1, Numbers DEF ProgramInv, AfterEnable, Answer, FreeControl
  <2> QED BY <2>1, <2>2
<1>5. loop \in [Sessions -> Loops] /\ loop[h] \in Loops
  BY <1>1 DEF ProgramInv, TypeOK
<1>6. Set(h, loop[h])
  BY <1>4, <1>5 DEF Set
<1>7. \A v \in Members(updates) : Owner(v) # Owner(u) => Waits(v)'
  BY <1>1, <1>4, <1>5, <1>6, HandlerReleases
<1>8. updates' \in Seq(Updates) /\ writing' \in BOOLEAN /\ Queued'
  BY <1>7, ReleasedQueue
<1>9. Sequenced' /\ Published'
  <2>1. seen'.tasking = seen.tasking
    BY <1>1, <1>2
  <2>2. seen'.active # seen.active => seen'.active /\ taskLoop # None
    BY <1>1, <1>2 DEF ProgramInv, Published
  <2> QED BY <1>1, <1>3, <1>4, <2>1, <2>2, SessionsStay
<1>10. pc'[h] = how /\ Handled(h) /\ h <= arrived /\ h \in Nat /\ arrived \in Nat
  <2>1. Handled(h) /\ pc'[h] = how /\ h \in Nat /\ arrived \in Nat
    BY <1>1, <1>4, Numbers DEF ProgramInv, TypeOK, Controlled
  <2> QED BY <1>2, <2>1 DEF Handled
<1>11. Handled(h)'
  <2>1. CASE how = "awaiting"
    BY <1>2, <1>3, <1>4, <1>10, <2>1 DEF Handled, Kind, Stops, Ends
  <2>2. CASE how # "awaiting"
    BY <1>3, <1>4, <1>10, <2>2 DEF Handled, Kind, Stops, Ends
  <2> QED BY <2>1, <2>2
<1>12. Controlled'
  BY <1>1, <1>2, <1>3, <1>4, <1>11, HandlerControls
<1>13. Named(h)'
  <2>1. Named(h)
    BY <1>1 DEF ProgramInv, Confirmed
  <2>2. how = "succeeded" => ~Stops(h)
    BY <1>2, <1>4, <1>10 DEF Handled, Stops, Kind
  <2> QED BY <1>3, <1>4, <1>10, <2>1, <2>2 DEF Named, Stops, Kind
<1>14. Confirmed'
  BY <1>1, <1>3, <1>4, <1>13, HandlerConfirms
<1>15. TypeOK'
  BY <1>1, <1>3, <1>4, <1>8 DEF ProgramInv, TypeOK
<1> QED BY <1>8, <1>9, <1>12, <1>14, <1>15 DEF ProgramInv

\* Whatever follows an update keeps the invariant.
LEMMA ReleasedKeeps ==
  ASSUME ProgramInv, NEW ok \in BOOLEAN, NEW u, Released(u, ok)
  PROVE  ProgramInv'
<1>1. u \in Updates
  BY ReleasedFacts
<1> QED BY <1>1, UpdateFacts, AfterReportKeeps, AfterFinalKeeps, AfterLastKeeps, AfterStartKeeps,
           AfterHandlerKeeps

\* Only a stop can find its session replaced: other conditional updates are of a session
\* that has not ended.
LEMMA OnlyStopsAreSkipped ==
  ASSUME ProgramInv, updates # <<>>, Skipped(Head(updates))
  PROVE  Head(updates).by = "stop"
<1> DEFINE u == Head(updates)
<1>1. u \in Updates /\ Waits(u) /\ u.id \in Sessions
  BY QueueFacts, UpdateFacts, Numbers DEF ProgramInv
<1> HIDE DEF u
<1>2. u.by = "report" => u.only = taskLoop
  BY <1>1, AtWork DEF Waits, Report
<1>3. u.by = "retry" => u.only = taskLoop
  BY <1>1, CurrentOnly DEF ProgramInv, Waits, Retry
<1>4. u.by \in {"start", "enable", "clear", "inactive"} => u.only = None
  BY <1>1 DEF Waits, Start, Enable, Clear, Deactivate
<1> QED BY <1>1, <1>2, <1>3, <1>4, UpdateFacts DEF Skipped, u

\* The lock is granted, and the value stored or the update dropped.
LEMMA UpdateLocksKeeps ==
  ASSUME ProgramInv, UpdateLocks
  PROVE  ProgramInv'
<1> DEFINE u == Head(updates)
<1>1. updates # <<>> /\ u \in Updates /\ Waits(u) /\ u.id \in Sessions
  BY QueueFacts, UpdateFacts, Numbers DEF UpdateLocks, ProgramInv
<1>2. CASE Skipped(u)
  <2>1. u.by = "stop"
    BY <1>1, <1>2, OnlyStopsAreSkipped
  <2>2. Released(u, TRUE)
    BY <1>1, <1>2, <2>1 DEF UpdateLocks, Released, ProgramInv, TypeOK
  <2>3. \A v : Released(v, TRUE) => ProgramInv'
    BY ReleasedKeeps
  <2> QED BY <2>2, <2>3
<1>3. CASE ~Skipped(u)
  <2>1. /\ writing' = TRUE /\ Store(u)
        /\ UNCHANGED <<updates, pc, holder, loop, taskLoop, seen, waiting, request, target,
                       arrived, sessions, tasks, faults>>
    BY <1>3 DEF UpdateLocks
  <2>2. u.only \in {None, taskLoop}
    BY <1>3 DEF Skipped
  <2>3. /\ enable' \in EnableStates /\ active' \in ActiveStates /\ tasking' \in {None} \cup Sessions
        /\ u.key # "enable" => enable' = enable
        /\ u.key # "active" => active' = active
        /\ u.key # "tasking" => tasking' = tasking
        /\ u.key = "enable" => enable' = u.value
        /\ u.key = "active" => active' = u.value
        /\ u.key = "tasking" => tasking' = u.value
    BY <1>1, <2>1, UpdateFacts DEF Store, ProgramInv, TypeOK
  <2>4. TypeOK'
    BY <2>1, <2>3 DEF ProgramInv, TypeOK
  <2>5. Queued'
    <3>1. Written'
      BY <1>1, <2>1, <2>2, <2>3 DEF Written
    <3>2. \A v \in Members(updates) : Waits(v)'
      BY <2>1 DEF ProgramInv, Queued, Waits, Start, Report, Stop, Enable, Retry, Clear, Deactivate
    <3> QED BY <2>1, <3>1, <3>2 DEF ProgramInv, Queued
  <2>6. Controlled' /\ Confirmed'
    BY <2>1, ControlledFrame, ConfirmedFrame DEF ProgramInv, lockVars, handlerVars
  <2>7. Sequenced'
    BY <2>1 DEF ProgramInv, Sequenced
  <2>8. Published'
    <3> HIDE DEF u
    <3>1. taskLoop = None => ~active'.active
      BY <1>1, <2>2, <2>3, UpdateFacts
         DEF ProgramInv, Published, Waits, Start, Stop, Deactivate, Report, Enable, Retry, Clear
    <3>2. tasking' \in {None, taskLoop}
      BY <1>1, <2>2, <2>3, UpdateFacts
         DEF ProgramInv, Published, Waits, Start, Stop, Deactivate, Report, Enable, Retry, Clear
    <3>3. taskLoop # None => Sound(loop[taskLoop])'
      <4> SUFFICES ASSUME taskLoop # None
                   PROVE  Sound(loop[taskLoop])'
        OBVIOUS
      <4>1. Sound(loop[taskLoop]) /\ taskLoop \in Sessions
        BY DEF ProgramInv, Published, TypeOK
      <4>2. u.key # "enable"
        <5>1. u.key = "enable" => u.by = "enable"
          BY <1>1, UpdateFacts DEF Waits, Start, Stop, Deactivate, Report, Retry, Clear
        <5>2. u.by = "enable" => taskLoop = None
          BY <1>1, Numbers DEF Waits, Enable, ProgramInv, Controlled, Handled
        <5> QED BY <5>1, <5>2
      <4>3. u.key = "active" /\ ~u.value.active => loop[taskLoop].finalizer = "ending"
        <5>1. u.key = "active" /\ ~u.value.active => u.by = "inactive"
          BY <1>1, UpdateFacts DEF Waits, Start, Stop, Report, Enable, Retry, Clear
        <5>2. u.by = "inactive" => loop[u.id].finalizer = "ending" /\ u.id = taskLoop
          BY <1>1, CurrentOnly DEF ProgramInv, Waits, Deactivate
        <5> QED BY <5>1, <5>2
      <4>4. u.key = "tasking" /\ u.value # None =>
              loop[taskLoop].finalizer \notin {"cleared", "ending"}
        <5>1. u.key = "tasking" /\ u.value # None => u.by \in {"report", "retry"}
          BY <1>1, UpdateFacts DEF Waits, Start, Stop, Enable, Clear, Deactivate
        <5>2. u.by = "report" => loop[u.id].finalizer = "waiting" /\ u.id = taskLoop
          BY <1>1, AtWork DEF Waits, Report
        <5>3. u.by = "retry" => loop[u.id].finalizer = "retrying" /\ u.id = taskLoop
          BY <1>1, CurrentOnly DEF ProgramInv, Waits, Retry
        <5> QED BY <5>1, <5>2, <5>3
      <4> QED BY <2>1, <2>3, <4>1, <4>2, <4>3, <4>4 DEF Sound
    <3> QED BY <2>1, <3>1, <3>2, <3>3 DEF ProgramInv, Published
  <2> QED BY <2>4, <2>5, <2>6, <2>7, <2>8 DEF ProgramInv
<1> QED BY <1>2, <1>3

\* A publication returns, or raises.
LEMMA UpdateReturnsKeeps ==
  ASSUME ProgramInv, UpdateEnds \/ UpdateFails
  PROVE  ProgramInv'
<1>1. writing /\ updates # <<>>
  BY QueueFacts DEF UpdateEnds, UpdateFails, ProgramInv
<1>2. faults \in 0..MaxFaults /\ MaxFaults \in Nat
  BY ProgramAssumption DEF ProgramInv, TypeOK
<1>3. CASE UpdateEnds
  <2>1. Released(Head(updates), TRUE)
    BY <1>1, <1>2, <1>3 DEF UpdateEnds, Released
  <2>2. \A v : Released(v, TRUE) => ProgramInv'
    BY ReleasedKeeps
  <2> QED BY <2>1, <2>2
<1>4. CASE UpdateFails
  <2>1. faults' \in 0..MaxFaults
    BY <1>2, <1>4 DEF UpdateFails
  <2>2. Released(Head(updates), FALSE)
    BY <1>1, <1>4, <2>1, Zenon DEF UpdateFails, Released
  <2>3. \A v : Released(v, FALSE) => ProgramInv'
    BY ReleasedKeeps
  <2> QED BY <2>2, <2>3
<1> QED BY <1>3, <1>4

-----------------------------------------------------------------------------
(* Steps of the handlers *)

\* A handler that moves, while the program's state and its sessions stay as they are.
LEMMA MovesKeep ==
  ASSUME ProgramInv, NEW h \in Handlers,
         NEW how \in {"finalizing", "awaiting", "succeeded", "failed", "rejected"},
         pc' = [pc EXCEPT ![h] = how],
         pc[h] \notin {"locking", "activating", "enabling", "publishing"},
         UNCHANGED <<stateVars, loopVars, waiting, request, arrived, tasks, faults>>,
         holder' = holder \/ (holder = h /\ holder' = None),
         target' \in [Handlers -> {None} \cup Sessions],
         \A g \in Handlers : g # h => target'[g] = target[g],
         Handled(h)', Named(h)'
  PROVE  ProgramInv'
<1>1. /\ UNCHANGED <<enable, active, tasking, seen, updates, writing, loop, taskLoop, sessions>>
      /\ UNCHANGED <<waiting, request, arrived, tasks, faults>>
  BY DEF stateVars, loopVars
<1>2. \A g \in Handlers : g # h => pc'[g] = pc[g]
  BY DEF ProgramInv, TypeOK
<1>3. Queued'
  <2>1. ASSUME NEW u \in Members(updates)
        PROVE  Waits(u)'
    <3>1. u \in Updates /\ Waits(u) /\ u.id \in Handlers
      BY QueueFacts, UpdateFacts DEF ProgramInv
    <3>2. u.by \in {"start", "stop", "enable"} => u.id # h
      BY <3>1 DEF Waits, Start, Stop, Enable
    <3> QED BY <1>1, <1>2, <3>1, <3>2
            DEF Waits, Start, Report, Stop, Enable, Retry, Clear, Deactivate
  <2>2. Written = Written'
    BY <1>1 DEF Written
  <2> QED BY <1>1, <2>1, <2>2 DEF ProgramInv, Queued
<1>4. Sequenced' /\ Published'
  BY <1>1, SessionsStay
<1>5. Controlled'
  BY <1>1, HandlerControls
<1>6. Confirmed'
  BY <1>1, HandlerConfirms
<1>7. TypeOK'
  <2>1. holder' \in {None} \cup Handlers
    BY DEF ProgramInv, TypeOK
  <2> QED BY <1>1, <2>1 DEF ProgramInv, TypeOK
<1> QED BY <1>3, <1>4, <1>5, <1>6, <1>7 DEF ProgramInv

\* A handler that answers and frees the control lock.
LEMMA LeavesKeep ==
  ASSUME ProgramInv, NEW h \in Handlers, NEW how \in {"succeeded", "failed", "rejected"},
         Kind(h) \in {"start", "enable"},
         pc[h] \in {"locked", "finalizing", "starting", "awaiting"},
         Leave(h, how), UNCHANGED <<waiting, request, arrived, tasks, faults>>
  PROVE  ProgramInv'
<1>1. /\ pc' = [pc EXCEPT ![h] = how] /\ holder' = None
      /\ UNCHANGED <<stateVars, target, loopVars>>
  BY DEF Leave, Answer, FreeControl
<1>2. Handled(h) /\ holder = h /\ h <= arrived /\ h \in Nat /\ arrived \in Nat
  <2>1. Handled(h) /\ h \in Nat /\ arrived \in Nat
    BY Numbers DEF ProgramInv, Controlled
  <2>2. pc[h] = "awaiting" => Ends(h)
    BY <2>1 DEF Handled, Ends, Stops, Kind
  <2> QED BY <2>1, <2>2 DEF Handled
<1>3. pc'[h] = how
  BY <1>1 DEF ProgramInv, TypeOK
<1>4. Handled(h)' /\ Named(h)'
  BY <1>1, <1>2, <1>3 DEF Handled, Named, Kind, Stops, Ends
<1>5. target' \in [Handlers -> {None} \cup Sessions]
  BY <1>1 DEF ProgramInv, TypeOK
<1> QED BY <1>1, <1>2, <1>4, <1>5, MovesKeep

\* The control lock goes to the handler that waited longest.
LEMMA ControlLocksKeeps ==
  ASSUME ProgramInv, ControlLocks
  PROVE  ProgramInv'
<1>0. waiting \in Seq(Handlers) /\ waiting # <<>> /\ Head(waiting) \in Handlers
  <2>1. waiting \in Seq(Handlers) /\ waiting # <<>>
    BY DEF ControlLocks, ProgramInv, TypeOK
  <2> QED BY <2>1, HeadTailProperties
<1> PICK h \in Handlers : h = Head(waiting)
  BY <1>0
<1>1. /\ waiting \in Seq(Handlers) /\ waiting # <<>> /\ holder = None /\ holder' = h
      /\ waiting' = Tail(waiting) /\ pc' = [pc EXCEPT ![h] = "locked"]
      /\ UNCHANGED <<stateVars, request, target, arrived, loopVars, tasks, faults>>
  BY DEF ProgramInv, TypeOK, ControlLocks, Answer
<1>2. /\ waiting' \in Seq(Handlers) /\ DOMAIN waiting' = 1..(Len(waiting) - 1)
      /\ Len(waiting) \in Nat \ {0} /\ DOMAIN waiting = 1..Len(waiting)
      /\ \A i \in 1..(Len(waiting) - 1) : waiting'[i] = waiting[i + 1] /\ i + 1 \in DOMAIN waiting
      /\ h = waiting[1] /\ 1 \in DOMAIN waiting
  <2>1. /\ waiting' \in Seq(Handlers) /\ Len(waiting') = Len(waiting) - 1
        /\ Len(waiting) \in Nat \ {0}
    BY <1>1, HeadTailProperties, EmptySeq
  <2>2. DOMAIN waiting = 1..Len(waiting) /\ DOMAIN waiting' = 1..(Len(waiting) - 1)
    BY <1>1, <2>1, LenProperties
  <2>3. \A i \in 1..(Len(waiting) - 1) : waiting'[i] = waiting[i + 1]
    BY <1>1, <2>1, HeadTailProperties
  <2>4. h = waiting[1]
    BY <2>1
  <2>5. \A i \in 1..(Len(waiting) - 1) : i + 1 \in 1..Len(waiting)
    BY <2>1
  <2> QED BY <2>1, <2>2, <2>3, <2>4, <2>5
<1>3. /\ h \in Handlers /\ h \in Nat /\ pc[h] = "locking" /\ sessions < h
      /\ \A i \in DOMAIN waiting : /\ waiting[i] \in Handlers /\ waiting[i] \in Nat
                                   /\ pc[waiting[i]] = "locking" /\ sessions < waiting[i]
                                   /\ i # 1 => h < waiting[i]
      /\ \A i, j \in DOMAIN waiting : i < j => waiting[i] < waiting[j]
  <2>1. \A i \in DOMAIN waiting : waiting[i] \in Handlers /\ waiting[i] \in Nat
    BY <1>1, LenProperties, ElementOfSeq, Numbers DEF ProgramInv
  <2>2. \A i \in DOMAIN waiting : i # 1 => 1 < i
    BY <1>2
  <2> QED BY <1>2, <2>1, <2>2 DEF ProgramInv, Controlled, Fair
<1>4. pc'[h] = "locked" /\ \A g \in Handlers : g # h => pc'[g] = pc[g]
  BY <1>1, <1>3 DEF ProgramInv, TypeOK
<1>5. UNCHANGED <<enable, active, tasking, seen, updates, writing, loop, taskLoop, sessions>>
  BY <1>1 DEF stateVars, loopVars
<1>6. Queued'
  <2>1. ASSUME NEW u \in Members(updates)
        PROVE  Waits(u)'
    <3>1. u \in Updates /\ Waits(u) /\ u.id \in Handlers
      BY QueueFacts, UpdateFacts DEF ProgramInv
    <3>2. u.by \in {"start", "stop", "enable"} => u.id # h
      BY <1>3, <3>1 DEF Waits, Start, Stop, Enable
    <3> QED BY <1>1, <1>4, <1>5, <3>1, <3>2
            DEF Waits, Start, Report, Stop, Enable, Retry, Clear, Deactivate
  <2>2. Written = Written'
    BY <1>5 DEF Written
  <2> QED BY <1>5, <2>1, <2>2 DEF ProgramInv, Queued
<1>7. Sequenced' /\ Published'
  BY <1>5, SessionsStay
<1>8. Fair'
  <2>1. sessions' <= arrived' /\ holder' <= arrived'
    <3>1. Handled(h) /\ arrived \in Nat
      BY Numbers DEF ProgramInv, Controlled
    <3> QED BY <1>1, <1>3, <1>5, <3>1 DEF ProgramInv, Controlled, Fair, Handled
  <2>2. ASSUME NEW i \in DOMAIN waiting'
        PROVE  pc'[waiting'[i]] = "locking" /\ holder' < waiting'[i] /\ sessions' < waiting'[i]
    <3>1. i \in 1..(Len(waiting) - 1) /\ i + 1 # 1
      BY <1>2
    <3>2. waiting'[i] = waiting[i + 1] /\ i + 1 \in DOMAIN waiting
      BY <1>2, <3>1
    <3>3. h < waiting'[i] /\ waiting'[i] \in Handlers /\ waiting'[i] \in Nat
      BY <1>3, <3>1, <3>2
    <3> QED BY <1>1, <1>3, <1>4, <1>5, <3>2, <3>3
  <2>3. ASSUME NEW i \in DOMAIN waiting', NEW j \in DOMAIN waiting', i < j
        PROVE  waiting'[i] < waiting'[j]
    <3>1. i + 1 < j + 1
      BY <1>2, <2>3
    <3>2. /\ waiting'[i] = waiting[i + 1] /\ i + 1 \in DOMAIN waiting
          /\ waiting'[j] = waiting[j + 1] /\ j + 1 \in DOMAIN waiting
      BY <1>2
    <3> QED BY <1>3, <3>1, <3>2
  <2> QED BY <2>1, <2>2, <2>3 DEF Fair
<1>9. Controlled'
  <2>1. ASSUME NEW g \in Handlers
        PROVE  Handled(g)'
    <3>1. Handled(g) /\ g \in Nat /\ arrived \in Nat /\ g # None
      BY Numbers DEF ProgramInv, Controlled
    <3>2. CASE g = h
      BY <1>1, <1>3, <1>4, <1>5, <3>1, <3>2 DEF Handled, Kind, Stops, Ends
    <3>3. CASE g # h
      BY <1>1, <1>3, <1>4, <1>5, <3>1, <3>3 DEF Handled, Kind, Stops, Ends
    <3> QED BY <3>2, <3>3
  <2> QED BY <1>8, <2>1 DEF Controlled
<1>10. Confirmed'
  <2>1. UNCHANGED <<request, target, loop, taskLoop, sessions>>
    BY <1>1, <1>5
  <2>2. Handled(h)
    BY <1>3 DEF ProgramInv, Controlled
  <2>3. Named(h)'
    BY <1>3, <2>1, <2>2 DEF Handled, Named, Kind, Stops
  <2>4. pc' = [pc EXCEPT ![h] = "locked"] /\ h \in Handlers
    BY <1>1, <1>3
  <2> QED BY <2>1, <2>3, <2>4, HandlerConfirms
<1>11. TypeOK'
  BY <1>1, <1>2, <1>3, <1>5 DEF ProgramInv, TypeOK
<1> QED BY <1>6, <1>7, <1>9, <1>10, <1>11 DEF ProgramInv

\* A request arrives, and waits for the control lock unless it is refused or is a stop.
LEMMA ArriveKeeps ==
  ASSUME ProgramInv, NEW r \in Requests, Arrive(r)
  PROVE  ProgramInv'
<1>0. arrived + 1 \in Handlers
  BY ProgramAssumption DEF Arrive, ProgramInv, TypeOK, Handlers
<1> PICK h \in Handlers : h = arrived + 1
  BY <1>0
<1> DEFINE stop == r.kind \in {"stop", "abort"}
           refused == r.kind = "start" /\ holder # None
           how == IF refused THEN "rejected" ELSE IF stop THEN "accepted" ELSE "locking"
           goal == IF stop THEN Targeted(r.session) ELSE None
<1>1. /\ arrived' = h /\ request' = [request EXCEPT ![h] = r]
      /\ target' = [target EXCEPT ![h] = goal] /\ pc' = [pc EXCEPT ![h] = how]
      /\ waiting' = IF refused \/ stop THEN waiting ELSE Append(waiting, h)
      /\ UNCHANGED <<stateVars, holder, loopVars, tasks, faults>>
      /\ stop => r.session <= sessions
  BY DEF Arrive, Answer
<1>2. r.kind \in {"start", "stop", "abort", "enable"} /\ (stop => r.session \in {None} \cup Sessions)
  BY DEF Requests
<1>3. UNCHANGED <<enable, active, tasking, seen, updates, writing, loop, taskLoop, sessions>>
  BY <1>1 DEF stateVars, loopVars
<1>4. /\ h \in Nat /\ arrived \in Nat /\ h > arrived /\ h # None /\ sessions \in Nat
      /\ holder \in Nat /\ \A g \in Handlers : g \in Nat /\ (g > h => g > arrived)
  BY Numbers DEF ProgramInv
<1>5. pc[h] = "none" /\ Kind(h) = "none" /\ holder # h
  BY <1>4 DEF ProgramInv, Controlled, Handled, Fair
<1>6. goal \in {None} \cup Sessions /\ how \in {"rejected", "accepted", "locking"}
  <2>1. taskLoop \in {None} \cup Sessions
    BY DEF ProgramInv, TypeOK
  <2> QED BY <2>1 DEF Targeted
<1>7. /\ pc'[h] = how /\ target'[h] = goal /\ request'[h] = r
      /\ \A g \in Handlers : g # h => pc'[g] = pc[g] /\ target'[g] = target[g]
                                      /\ request'[g] = request[g]
  BY <1>1 DEF ProgramInv, TypeOK
<1>8. /\ refused => r.kind = "start"
      /\ how = "accepted" <=> stop
      /\ how = "locking" => r.kind \in {"start", "enable"}
      /\ how = "locking" <=> ~(refused \/ stop)
  BY <1>2
<1>9. stop /\ r.session # None =>
        goal \in {None, r.session} /\ (goal = None => r.session # taskLoop)
  BY DEF Targeted
<1> HIDE DEF goal, how, refused, stop
<1>10. Queued'
  <2>1. ASSUME NEW u \in Members(updates)
        PROVE  Waits(u)'
    <3>1. u \in Updates /\ Waits(u) /\ u.id \in Handlers
      BY QueueFacts, UpdateFacts DEF ProgramInv
    <3>2. u.by \in {"start", "stop", "enable"} => u.id # h
      BY <1>5, <3>1 DEF Waits, Start, Stop, Enable
    <3> QED BY <1>3, <1>7, <3>1, <3>2
            DEF Waits, Start, Report, Stop, Enable, Retry, Clear, Deactivate
  <2>2. Written = Written'
    BY <1>3 DEF Written
  <2> QED BY <1>3, <2>1, <2>2 DEF ProgramInv, Queued
<1>11. Sequenced' /\ Published'
  BY <1>3, SessionsStay
<1>12. waiting \in Seq(Handlers) /\ \A i \in DOMAIN waiting : waiting[i] \in Handlers /\ waiting[i] <= arrived
  <2>1. waiting \in Seq(Handlers)
    BY DEF ProgramInv, TypeOK
  <2>2. \A i \in DOMAIN waiting : waiting[i] \in Handlers /\ pc[waiting[i]] = "locking"
    BY <2>1, LenProperties, ElementOfSeq DEF ProgramInv, Controlled, Fair
  <2>3. \A g \in Handlers : pc[g] = "locking" => g <= arrived
    BY <1>4 DEF ProgramInv, Controlled, Handled
  <2> QED BY <2>1, <2>2, <2>3
<1>13. Fair' /\ waiting' \in Seq(Handlers)
  <2>1. sessions' <= arrived' /\ holder' <= arrived' /\ sessions < h /\ holder < h
    BY <1>1, <1>3, <1>4 DEF ProgramInv, Controlled, Fair
  <2>2. \A i \in DOMAIN waiting : /\ pc'[waiting[i]] = "locking" /\ holder' < waiting[i]
                                  /\ sessions' < waiting[i]
    BY <1>1, <1>3, <1>5, <1>7, <1>12 DEF ProgramInv, Controlled, Fair
  <2>3. CASE waiting' = waiting
    BY <2>1, <2>2, <2>3, <1>12 DEF ProgramInv, Controlled, Fair
  <2>4. CASE waiting' = Append(waiting, h) /\ how = "locking"
    <3>1. /\ waiting' \in Seq(Handlers) /\ DOMAIN waiting = 1..Len(waiting)
          /\ DOMAIN waiting' = 1..(Len(waiting) + 1) /\ Len(waiting) \in Nat
          /\ waiting'[Len(waiting) + 1] = h
          /\ \A i \in 1..Len(waiting) : waiting'[i] = waiting[i]
      BY <2>4, <1>12, AppendProperties, LenProperties
    <3>2. ASSUME NEW i \in DOMAIN waiting'
          PROVE  /\ pc'[waiting'[i]] = "locking" /\ holder' < waiting'[i]
                 /\ sessions' < waiting'[i]
      <4>1. CASE i \in DOMAIN waiting
        BY <3>1, <4>1, <2>2
      <4>2. CASE i = Len(waiting) + 1
        BY <3>1, <4>2, <2>1, <2>4, <1>1, <1>3, <1>7
      <4> QED BY <3>1, <4>1, <4>2
    <3>3. ASSUME NEW i \in DOMAIN waiting', NEW j \in DOMAIN waiting', i < j
          PROVE  waiting'[i] < waiting'[j]
      <4>1. i \in DOMAIN waiting
        <5>1. i \in 1..(Len(waiting) + 1) /\ j \in 1..(Len(waiting) + 1)
          BY <3>1
        <5>2. i \in 1..Len(waiting)
          BY <3>1, <3>3, <5>1
        <5> QED BY <3>1, <5>2
      <4>2. CASE j \in DOMAIN waiting
        <5>1. waiting'[i] = waiting[i] /\ waiting'[j] = waiting[j]
          BY <3>1, <4>1, <4>2
        <5>2. waiting[i] < waiting[j]
          BY <3>3, <4>1, <4>2 DEF ProgramInv, Controlled, Fair
        <5> QED BY <5>1, <5>2
      <4>3. CASE j = Len(waiting) + 1
        <5>1. waiting'[i] = waiting[i] /\ waiting'[j] = h
          BY <3>1, <4>1, <4>3
        <5>2. waiting[i] \in Nat /\ waiting[i] <= arrived
          BY <4>1, <1>4, <1>12
        <5> QED BY <5>1, <5>2, <1>4
      <4> QED BY <3>1, <4>2, <4>3
    <3> QED BY <2>1, <3>1, <3>2, <3>3 DEF Fair
  <2> QED BY <2>3, <2>4, <1>1, <1>8
<1>14. Controlled'
  <2>1. ASSUME NEW g \in Handlers
        PROVE  Handled(g)'
    <3>1. Handled(g)
      BY DEF ProgramInv, Controlled
    <3>2. CASE g = h
      BY <1>1, <1>2, <1>4, <1>6, <1>7, <1>8, <3>2 DEF Handled, Kind, Stops, Ends, stop
    <3>3. CASE g # h
      <4>1. g > arrived' => g > arrived
        BY <1>1, <1>4
      <4> QED BY <1>1, <1>3, <1>7, <3>1, <3>3, <4>1 DEF Handled, Kind, Stops, Ends
    <3> QED BY <3>2, <3>3
  <2> QED BY <1>13, <2>1 DEF Controlled
<1>15. Confirmed'
  <2>1. ASSUME NEW g \in Handlers
        PROVE  Named(g)'
    <3>1. Named(g)
      BY DEF ProgramInv, Confirmed
    <3>2. CASE g = h
      BY <1>1, <1>3, <1>6, <1>7, <1>9, <3>2 DEF Named, Kind, Stops, stop
    <3>3. CASE g # h
      BY <1>3, <1>7, <3>1, <3>3 DEF Named, Kind, Stops
    <3> QED BY <3>2, <3>3
  <2> QED BY <2>1 DEF Confirmed
<1>16. TypeOK'
  <2>1. arrived' \in 0..MaxRequests
    BY <1>1, <1>4, ProgramAssumption DEF Handlers
  <2>2. request' \in [Handlers -> Requests \cup {[kind |-> "none"]}]
    BY <1>1 DEF ProgramInv, TypeOK
  <2>3. target' \in [Handlers -> {None} \cup Sessions]
    BY <1>1, <1>6 DEF ProgramInv, TypeOK
  <2> QED BY <1>1, <1>3, <1>6, <1>13, <2>1, <2>2, <2>3 DEF ProgramInv, TypeOK
<1> QED BY <1>10, <1>11, <1>14, <1>15, <1>16 DEF ProgramInv

\* A stop that waited for its session answers.
LEMMA StopEndsKeeps ==
  ASSUME ProgramInv, NEW h \in Handlers, StopEnds(h)
  PROVE  ProgramInv'
<1>1. PICK how \in {"succeeded", "failed"} : pc' = [pc EXCEPT ![h] = how]
  BY DEF StopEnds, Answer
<1>2. /\ pc[h] = "awaiting" /\ Stops(h) /\ Finalized(h)
      /\ UNCHANGED <<stateVars, lockVars, request, target, arrived, loopVars, tasks, faults>>
  BY DEF StopEnds, Stops, Kind
<1>3. Handled(h) /\ Named(h) /\ request[h].session \in {None} \cup Sessions /\ sessions \in Nat
  BY <1>2, RequestFacts, Numbers DEF ProgramInv, Controlled, Confirmed
<1>4. pc'[h] = how
  BY <1>1 DEF ProgramInv, TypeOK
<1>5. h <= arrived
  BY <1>2, <1>3, Numbers DEF Handled, ProgramInv
<1>6. Handled(h)'
  BY <1>2, <1>4, <1>5, <1>3, Numbers DEF Handled, Kind, Stops, Ends, ProgramInv, lockVars
<1>7. Named(h)'
  <2>1. request[h].session # None => loop[request[h].session].finalizer = "done"
    <3>1. CASE target[h] = request[h].session
      BY <1>2, <3>1 DEF Finalized
    <3>2. CASE target[h] = None /\ request[h].session # None
      BY <1>2, <1>3, <3>2, CurrentOnly DEF Named, ProgramInv
    <3> QED BY <1>2, <1>3, <3>1, <3>2 DEF Named
  <2> QED BY <1>2, <1>3, <2>1 DEF Named, Kind, Stops, loopVars
<1>8. target' \in [Handlers -> {None} \cup Sessions]
  BY <1>2 DEF ProgramInv, TypeOK
<1> QED BY <1>1, <1>2, <1>6, <1>7, <1>8, MovesKeep DEF lockVars

\* A stop whose session is gone has nothing to publish.
LEMMA StopFindsNone ==
  ASSUME ProgramInv, NEW h \in Handlers, pc[h] = "accepted",
         Answer(h, "awaiting"), UNCHANGED <<stateVars, loopVars>>,
         UNCHANGED <<lockVars, request, target, arrived, tasks, faults>>
  PROVE  ProgramInv'
<1>1. pc' = [pc EXCEPT ![h] = "awaiting"] /\ pc'[h] = "awaiting"
  BY DEF Answer, ProgramInv, TypeOK
<1>2. Handled(h) /\ Named(h)
  BY DEF ProgramInv, Controlled, Confirmed
<1>3. h <= arrived /\ Stops(h)
  BY <1>2, Numbers DEF Handled, ProgramInv
<1>4. Handled(h)'
  BY <1>1, <1>2, <1>3, Numbers DEF Handled, Kind, Stops, Ends, ProgramInv, lockVars
<1>5. Named(h)'
  BY <1>1, <1>2, <1>3 DEF Named, Kind, Stops, loopVars
<1>6. target' \in [Handlers -> {None} \cup Sessions]
  BY DEF ProgramInv, TypeOK
<1> QED BY <1>1, <1>4, <1>5, <1>6, MovesKeep DEF lockVars

\* What a stop leaves of its session.
LEMMA StoppedFacts ==
  ASSUME NEW l \in Loops, NEW abort \in BOOLEAN
  PROVE  LET m == Stopped(l, abort)
         IN  /\ m \in Loops /\ m.producer = l.producer /\ m.work = l.work /\ m.stopping
             /\ m.finalizer = l.finalizer /\ m.controller = l.controller
<1> DEFINE n == [l EXCEPT !.stopping = TRUE]
<1>1. /\ n \in Loops /\ n.producer = l.producer /\ n.work = l.work /\ n.stopping
      /\ n.finalizer = l.finalizer /\ n.controller = l.controller
  BY DEF Loops
<1>2. Stopped(l, abort) = IF abort THEN EndWork(n) ELSE n
  BY DEF Stopped
<1> HIDE DEF n
<1> QED BY <1>1, <1>2, EndWorkFacts

\* _stop_loop stops the current session and joins the queue of the state lock.
LEMMA BeginStopKeeps ==
  ASSUME ProgramInv, NEW h \in Handlers, NEW k \in Sessions, k = taskLoop,
         NEW abort \in BOOLEAN, BeginStop(h, k, abort),
         pc[h] \in {"accepted", "locked"}, Answer(h, "publishing"),
         UNCHANGED <<lockVars, request, arrived, taskLoop, sessions, tasks, faults>>,
         target' \in [Handlers -> {None} \cup Sessions],
         \A g \in Handlers : g # h => target'[g] = target[g],
         Handled(h)', Named(h)'
  PROVE  ProgramInv'
<1>0. active.origin \in {"init", "request", "error"} /\ active.ctx \in {NoContexts} \cup Contexts
  BY DEF ProgramInv, TypeOK, ActiveStates
<1> PICK o \in {"init", "request", "error"}, c \in {NoContexts} \cup Contexts :
      o = active.origin /\ c = active.ctx
  BY <1>0
<1> DEFINE value == [active |-> TRUE, origin |-> o, stopping |-> TRUE, ctx |-> c]
           u == Update("stop", h, "active", value, k)
           l == Stopped(loop[k], abort)
<1>1. value \in ActiveStates /\ value.active
  BY DEF ActiveStates
<1>2. loop' = [loop EXCEPT ![k] = l] /\ Enqueue(u)
  BY DEF BeginStop
<1> HIDE DEF value
<1>3. u \in Updates /\ u.by = "stop" /\ u.id = h /\ u.key = "active" /\ u.value = value /\ u.only = k
  BY <1>1, UpdateTyped
<1>4. Owner(u) = <<"stop", h>>
  BY <1>3 DEF Owner
<1> HIDE DEF u
<1>5. /\ loop[k] \in Loops /\ loop \in [Sessions -> Loops] /\ k # None
      /\ Sound(loop[k]) /\ loop[k].finalizer \notin {"none", "done"}
  BY Numbers DEF ProgramInv, TypeOK, Published, Sequenced
<1>6. /\ l \in Loops /\ l.producer = loop[k].producer /\ l.work = loop[k].work /\ l.stopping
      /\ l.finalizer = loop[k].finalizer /\ l.controller = loop[k].controller
  BY <1>5, StoppedFacts
<1> HIDE DEF l
<1>7. Set(k, l)
  BY <1>2 DEF Set
<1>8. pc'[h] = "publishing" /\ \A g \in Handlers : g # h => pc'[g] = pc[g]
  BY DEF Answer, ProgramInv, TypeOK
<1>9. Waits(u)'
  BY <1>1, <1>3, <1>5, <1>8 DEF Waits, Stop
<1>10. ASSUME NEW v \in Members(updates)
       PROVE  Owner(v) # Owner(u) /\ Waits(v)'
  <2>1. v \in Updates /\ Waits(v) /\ v.id \in Handlers /\ v.id \in Sessions
    BY QueueFacts, UpdateFacts, Numbers DEF ProgramInv
  <2>2. v.by \in {"start", "stop", "enable"} => v.id # h
    BY <2>1 DEF Waits, Start, Stop, Enable
  <2>3. Owner(v) # Owner(u)
    BY <1>4, <2>2 DEF Owner
  <2>4. \A j \in Sessions : /\ loop'[j].producer = loop[j].producer
                            /\ loop'[j].finalizer = loop[j].finalizer
    BY <1>2, <1>5, <1>6
  <2> QED BY <1>8, <2>1, <2>2, <2>3, <2>4, <1>5
          DEF Waits, Start, Report, Stop, Enable, Retry, Clear, Deactivate
<1>11. l.producer = "none" => l.work = "none"
  BY <1>5, <1>6 DEF Sound
<1>12. l.finalizer # "waiting" => l.producer = "done" /\ l.work \notin {"sending", "running"}
  BY <1>5, <1>6 DEF Sound
<1>13. /\ Queued' /\ Sequenced' /\ Published' /\ loop' \in [Sessions -> Loops]
       /\ enable' \in EnableStates /\ active' \in ActiveStates
       /\ tasking' \in {None} \cup Sessions /\ seen' = seen
       /\ updates' \in Seq(Updates) /\ writing' \in BOOLEAN
  BY <1>1, <1>2, <1>3, <1>5, <1>6, <1>7, <1>9, <1>10, <1>11, <1>12, SessionQueues
<1>14. pc' = [pc EXCEPT ![h] = "publishing"]
       /\ UNCHANGED <<holder, waiting, request, arrived, taskLoop, sessions, tasks, faults>>
  BY DEF Answer, lockVars
<1>15. Controlled'
  BY <1>14, HandlerControls
<1>16. Confirmed'
  <2>1. \A j \in Sessions : loop[j].finalizer = "done" => loop'[j].finalizer = "done"
    BY <1>2, <1>5, <1>6
  <2> QED BY <1>14, <2>1, HandlerConfirms
<1>17. TypeOK'
  BY <1>13, <1>14 DEF ProgramInv, TypeOK
<1> QED BY <1>13, <1>15, <1>16, <1>17 DEF ProgramInv

\* A stop reaches its session, or finds none.
LEMMA StopBeginsKeeps ==
  ASSUME ProgramInv, NEW h \in Handlers, StopBegins(h)
  PROVE  ProgramInv'
<1>1. /\ pc[h] = "accepted"
      /\ UNCHANGED <<lockVars, request, target, arrived, taskLoop, sessions, tasks, faults>>
  BY DEF StopBegins
<1>2. CASE /\ target[h] # None /\ target[h] = taskLoop
           /\ BeginStop(h, taskLoop, request[h].kind = "abort") /\ Answer(h, "publishing")
  <2>1. taskLoop \in Sessions /\ (request[h].kind = "abort") \in BOOLEAN
    BY <1>2 DEF ProgramInv, TypeOK
  <2> PICK k \in Sessions, abort \in BOOLEAN : k = taskLoop /\ abort = (request[h].kind = "abort")
    BY <2>1
  <2>2. BeginStop(h, k, abort)
    BY <1>2
  <2>3. Handled(h) /\ Named(h) /\ pc'[h] = "publishing"
    BY <1>2 DEF ProgramInv, TypeOK, Controlled, Confirmed, Answer
  <2>4. Handled(h)'
    BY <1>1, <2>3, Numbers DEF Handled, Kind, Stops, Ends, ProgramInv, lockVars
  <2>5. Named(h)'
    BY <1>1, <2>3 DEF Named, Kind, Stops
  <2>6. target' \in [Handlers -> {None} \cup Sessions]
    BY <1>1 DEF ProgramInv, TypeOK
  <2> QED BY <1>1, <1>2, <2>2, <2>4, <2>5, <2>6, BeginStopKeeps
<1>3. CASE Answer(h, "awaiting") /\ UNCHANGED <<stateVars, loop>>
  <2>1. UNCHANGED loopVars
    BY <1>1, <1>3 DEF loopVars
  <2> QED BY <1>1, <1>3, <2>1, StopFindsNone
<1> QED BY <1>2, <1>3 DEF StopBegins

\* The enablement is written once no session is left.
LEMMA WriteEnableKeeps ==
  ASSUME ProgramInv, NEW h \in Handlers, Kind(h) = "enable", pc[h] \in {"locked", "awaiting"},
         taskLoop = None, WriteEnable(h),
         UNCHANGED <<holder, target, loopVars, waiting, request, arrived, tasks, faults>>
  PROVE  ProgramInv'
<1>1. [enabled |-> request[h].enabled, controller |-> request[h].controller] \in EnableStates
  BY RequestFacts DEF ProgramInv
<1> PICK value \in EnableStates :
      value = [enabled |-> request[h].enabled, controller |-> request[h].controller]
  BY <1>1
<1> DEFINE u == Update("enable", h, "enable", value, None)
<1>2. Enqueue(u) /\ pc' = [pc EXCEPT ![h] = "enabling"]
  BY DEF WriteEnable, Answer
<1>3. u \in Updates /\ u.by = "enable" /\ u.id = h /\ u.key = "enable" /\ u.only = None
  BY UpdateTyped
<1>4. Owner(u) = <<"enable", h>>
  BY <1>3 DEF Owner
<1> HIDE DEF u
<1>5. UNCHANGED <<loop, taskLoop, sessions, target, holder, waiting, request, arrived, tasks, faults>>
  BY DEF loopVars
<1>6. pc'[h] = "enabling" /\ \A g \in Handlers : g # h => pc'[g] = pc[g]
  BY <1>2 DEF ProgramInv, TypeOK
<1>7. Waits(u)'
  BY <1>3, <1>6 DEF Waits, Enable
<1>8. ASSUME NEW v \in Members(updates)
      PROVE  Owner(v) # Owner(u) /\ Waits(v)'
  <2>1. v \in Updates /\ Waits(v) /\ v.id \in Handlers
    BY QueueFacts, UpdateFacts DEF ProgramInv
  <2>2. v.by \in {"start", "stop", "enable"} => v.id # h
    BY <2>1 DEF Waits, Start, Stop, Enable
  <2>3. Owner(v) # Owner(u)
    BY <1>4, <2>2 DEF Owner
  <2> QED BY <1>5, <1>6, <2>1, <2>2, <2>3
          DEF Waits, Start, Report, Stop, Enable, Retry, Clear, Deactivate
<1>9. /\ updates' \in Seq(Updates) /\ writing' \in BOOLEAN /\ Queued'
      /\ enable' \in EnableStates /\ active' = active /\ tasking' = tasking /\ seen' = seen
  BY <1>2, <1>3, <1>5, <1>7, <1>8, EnqueueKeeps DEF ProgramInv
<1>10. Sequenced'
  BY <1>5 DEF ProgramInv, Sequenced
<1>11. Published'
  BY <1>5, <1>9 DEF ProgramInv, Published
<1>12. Handled(h) /\ holder = h /\ h <= arrived /\ h \in Nat /\ arrived \in Nat
  <2>1. Handled(h) /\ h \in Nat /\ arrived \in Nat
    BY Numbers DEF ProgramInv, Controlled
  <2> QED BY <2>1 DEF Handled, Ends
<1>13. Handled(h)' /\ Named(h)'
  BY <1>5, <1>6, <1>12 DEF Handled, Named, Kind, Stops, Ends
<1>14. Controlled'
  BY <1>2, <1>5, <1>13, HandlerControls
<1>15. Confirmed'
  BY <1>2, <1>5, <1>13, HandlerConfirms
<1>16. TypeOK'
  BY <1>2, <1>5, <1>9 DEF ProgramInv, TypeOK
<1> QED BY <1>9, <1>10, <1>11, <1>14, <1>15, <1>16 DEF ProgramInv

\* _set_enable_state after the session it aborted has ended.
LEMMA EnableStoppedKeeps ==
  ASSUME ProgramInv, NEW h \in Handlers, EnableStopped(h)
  PROVE  ProgramInv'
<1>1. /\ pc[h] = "awaiting" /\ Kind(h) = "enable" /\ Finalized(h)
      /\ UNCHANGED <<waiting, request, arrived, tasks, faults>>
  BY DEF EnableStopped, Kind
<1>2. CASE Leave(h, "failed")
  BY <1>1, <1>2, LeavesKeep
<1>3. CASE WriteEnable(h) /\ UNCHANGED <<holder, target, loopVars>>
  <2>1. Ends(h) /\ Handled(h)
    BY <1>1 DEF Ends, ProgramInv, Controlled
  <2>2. target[h] # None /\ taskLoop \in {None, target[h]} /\ loop[target[h]].finalizer = "done"
    BY <1>1, <2>1 DEF Handled, Finalized
  <2>3. taskLoop = None
    BY <2>2 DEF ProgramInv, Sequenced
  <2> QED BY <1>1, <1>3, <2>3, WriteEnableKeeps
<1> QED BY <1>2, <1>3 DEF EnableStopped

\* _set_enable_state: nothing to do, a session to end first, or the new enablement.
LEMMA EnableChecksKeeps ==
  ASSUME ProgramInv, NEW h \in Handlers, EnableChecks(h)
  PROVE  ProgramInv'
<1>1. /\ pc[h] = "locked" /\ Kind(h) = "enable"
      /\ UNCHANGED <<waiting, request, arrived, tasks, faults>>
  BY DEF EnableChecks, Kind
<1>2. Handled(h) /\ holder = h /\ h <= arrived
  <2>1. Handled(h) /\ h \in Nat /\ arrived \in Nat
    BY Numbers DEF ProgramInv, Controlled
  <2> QED BY <1>1, <2>1 DEF Handled
<1>3. CASE Leave(h, "succeeded")
  BY <1>1, <1>3, LeavesKeep
<1>4. CASE /\ taskLoop # None /\ target' = [target EXCEPT ![h] = taskLoop]
           /\ BeginStop(h, taskLoop, TRUE) /\ Answer(h, "publishing")
           /\ UNCHANGED <<holder, taskLoop, sessions>>
  <2>1. taskLoop \in Sessions /\ TRUE \in BOOLEAN
    BY <1>4 DEF ProgramInv, TypeOK
  <2> PICK k \in Sessions : k = taskLoop
    BY <2>1
  <2>2. /\ pc'[h] = "publishing" /\ target'[h] = k
        /\ target' \in [Handlers -> {None} \cup Sessions]
        /\ \A g \in Handlers : g # h => target'[g] = target[g]
    BY <1>4 DEF ProgramInv, TypeOK, Answer
  <2>3. Handled(h)' /\ Named(h)'
    BY <1>1, <1>2, <1>4, <2>2, Numbers DEF Handled, Named, Kind, Stops, Ends, ProgramInv
  <2>4. BeginStop(h, k, TRUE) /\ UNCHANGED lockVars
    BY <1>1, <1>4 DEF lockVars
  <2> QED BY <1>1, <1>4, <2>1, <2>2, <2>3, <2>4, BeginStopKeeps
<1>5. CASE /\ request[h].enabled # enable.enabled \/ request[h].controller # enable.controller
           /\ \/ request[h].enabled /\ request[h].controller = enable.controller
              \/ taskLoop = None
           /\ WriteEnable(h) /\ UNCHANGED <<holder, target, loopVars>>
  <2>1. taskLoop = None
    <3> SUFFICES ASSUME request[h].enabled, request[h].controller = enable.controller
                 PROVE  FALSE
      BY <1>5
    <3>1. PICK e \in EnableStates :
            e = [enabled |-> request[h].enabled, controller |-> request[h].controller]
      BY <1>1, RequestFacts DEF ProgramInv
    <3>2. e.enabled = request[h].enabled /\ e.controller = request[h].controller
      BY <3>1
    <3>3. \A d \in EnableStates : /\ d.enabled \in BOOLEAN
                                  /\ d.enabled => d.controller \in Controllers
                                  /\ ~d.enabled => d.controller = NoController
      BY DEF EnableStates
    <3>4. e.controller \in Controllers /\ e.enabled = TRUE
      BY <3>2, <3>3
    <3>5. enable \in EnableStates /\ ~enable.enabled
      BY <1>5, <3>2, <3>3, <3>4 DEF ProgramInv, TypeOK
    <3> QED BY <3>2, <3>3, <3>4, <3>5, ProgramAssumption
  <2> QED BY <1>1, <1>5, <2>1, WriteEnableKeeps
<1> QED BY <1>3, <1>4, <1>5 DEF EnableChecks

\* _start_loop creates a session, when there is none.
LEMMA CreatesKeep ==
  ASSUME ProgramInv, NEW h \in Handlers, Kind(h) = "start", pc[h] \in {"locked", "finalizing"},
         taskLoop = None, enable.enabled,
         sessions' = sessions + 1, taskLoop' = sessions + 1,
         target' = [target EXCEPT ![h] = sessions + 1],
         loop' = [loop EXCEPT ![sessions + 1] = NewLoop(request[h].ctx, enable.controller)],
         Enqueue(Update("start", h, "active",
                        [active |-> TRUE, origin |-> "request", stopping |-> FALSE,
                         ctx |-> request[h].ctx], None)),
         Answer(h, "activating"), UNCHANGED <<holder, waiting, request, arrived, tasks, faults>>
  PROVE  ProgramInv'
<1>1. /\ holder = h /\ sessions < h /\ h <= arrived /\ h \in Nat /\ sessions \in Nat
      /\ arrived \in Nat /\ arrived \in 0..MaxRequests /\ MaxRequests \in Nat
  <2>1. Handled(h) /\ h \in Nat /\ arrived \in Nat /\ sessions \in Nat
    BY Numbers DEF ProgramInv, Controlled
  <2>2. arrived \in 0..MaxRequests /\ MaxRequests \in Nat
    BY ProgramAssumption DEF ProgramInv, TypeOK
  <2> QED BY <2>1, <2>2 DEF Handled
<1>2. sessions + 1 \in Sessions /\ request[h].ctx \in Contexts
  <2>1. sessions + 1 \in Sessions
    BY <1>1 DEF Sessions, Handlers
  <2> QED BY <2>1, RequestFacts DEF ProgramInv
<1> PICK k \in Sessions, c \in Contexts : k = sessions + 1 /\ c = request[h].ctx
  BY <1>2
<1>3. enable.controller \in {NoController} \cup Controllers
  BY DEF ProgramInv, TypeOK, EnableStates
<1> PICK controller \in {NoController} \cup Controllers : controller = enable.controller
  BY <1>3
<1> DEFINE value == [active |-> TRUE, origin |-> "request", stopping |-> FALSE, ctx |-> c]
           u == Update("start", h, "active", value, None)
           l == NewLoop(c, controller)
<1>4. value \in ActiveStates /\ value.active
  BY DEF ActiveStates
<1>5. Enqueue(u) /\ loop' = [loop EXCEPT ![k] = l]
  OBVIOUS
<1> HIDE DEF value
<1>6. u \in Updates /\ u.by = "start" /\ u.id = h /\ u.key = "active" /\ u.value = value
      /\ u.only = None
  BY <1>4, UpdateTyped
<1>7. Owner(u) = <<"start", h>>
  BY <1>6 DEF Owner
<1> HIDE DEF u
<1>8. /\ l \in Loops /\ l.producer = "none" /\ l.work = "none" /\ l.finalizer = "waiting"
      /\ l.controller = enable.controller
  BY DEF NewLoop, NoLoop, Loops
<1> HIDE DEF l
<1>9. /\ loop'[k] = l /\ loop' \in [Sessions -> Loops]
      /\ \A j \in Sessions : j # k => loop'[j] = loop[j]
  BY <1>5, <1>8 DEF ProgramInv, TypeOK
<1>10. /\ pc'[h] = "activating" /\ target'[h] = k
       /\ \A g \in Handlers : g # h => pc'[g] = pc[g] /\ target'[g] = target[g]
       /\ target' \in [Handlers -> {None} \cup Sessions]
  BY DEF Answer, ProgramInv, TypeOK
<1>11. taskLoop' = k /\ k # None /\ k = sessions + 1
  BY Numbers DEF ProgramInv
<1>12. Waits(u)'
  BY <1>4, <1>6, <1>8, <1>9, <1>10, <1>11 DEF Waits, Start
<1>13. ASSUME NEW v \in Members(updates)
       PROVE  Owner(v) # Owner(u) /\ Waits(v)'
  <2>1. v \in Updates /\ Waits(v) /\ v.id \in Handlers /\ v.id \in Sessions
    BY QueueFacts, UpdateFacts, Numbers DEF ProgramInv
  <2>2. v.by \in {"start", "stop", "enable"} => v.id # h
    BY <2>1 DEF Waits, Start, Stop, Enable
  <2>3. Owner(v) # Owner(u)
    BY <1>7, <2>2 DEF Owner
  <2>4. v.id # taskLoop
    BY <2>1, Numbers DEF ProgramInv
  <2>5. v.by \in {"stop", "enable"}
    <3>1. loop[v.id].producer \in {"none", "done"} /\ loop[v.id].finalizer \in {"none", "done"}
      BY <2>1, <2>4, CurrentOnly DEF ProgramInv
    <3>2. v.by \notin {"report", "retry", "clear", "inactive"}
      BY <2>1, <3>1 DEF Waits, Report, Retry, Clear, Deactivate
    <3>3. v.by # "start"
      BY <2>1 DEF Waits, Start
    <3> QED BY <2>1, <3>2, <3>3, UpdateFacts
  <2> QED BY <1>10, <2>1, <2>2, <2>3, <2>5 DEF Waits, Stop, Enable
<1>14. /\ updates' \in Seq(Updates) /\ writing' \in BOOLEAN /\ Queued'
       /\ enable' = enable /\ active' \in ActiveStates /\ tasking' = tasking /\ seen' = seen
  BY <1>5, <1>6, <1>11, <1>12, <1>13, EnqueueKeeps DEF ProgramInv
<1>15. Sequenced'
  <2>1. taskLoop' <= sessions'
    BY <1>1, <1>11
  <2>2. ASSUME NEW j \in Sessions, j # k
        PROVE  /\ j > sessions' => loop'[j] = NoLoop
               /\ j <= sessions' => /\ loop'[j].finalizer = "done" /\ loop'[j].producer = "done"
                                    /\ loop'[j].work = "none"
    <3>1. j \in Nat /\ j # taskLoop /\ loop'[j] = loop[j]
      BY <2>2, <1>9, Numbers DEF ProgramInv
    <3>2. /\ j > sessions' => j > sessions
          /\ j <= sessions' => j <= sessions
      BY <1>1, <1>11, <2>2, <3>1
    <3> QED BY <3>1, <3>2 DEF ProgramInv, Sequenced
  <2>3. ~(k > sessions')
    BY <1>1, <1>11
  <2> QED BY <1>8, <1>9, <1>11, <2>1, <2>2, <2>3 DEF Sequenced
<1>16. Published'
  <2>1. tasking = None /\ seen.tasking = None
    BY DEF ProgramInv, Published
  <2>2. Sound(l)'
    BY <1>8, <1>14 DEF Sound
  <2> QED BY <1>9, <1>11, <1>14, <2>1, <2>2 DEF Published
<1>17. Handled(h)' /\ Named(h)'
  BY <1>1, <1>10 DEF Handled, Named, Kind, Stops, Ends
<1>18. pc' = [pc EXCEPT ![h] = "activating"]
  BY DEF Answer
<1>19. Controlled'
  BY <1>1, <1>10, <1>17, <1>18, HandlerControls
<1>20. Confirmed'
  <2>1. \A j \in Sessions : loop[j].finalizer = "done" => loop'[j].finalizer = "done"
    <3>1. loop[k].finalizer # "done"
      <4>1. k > sessions
        BY <1>1, <1>11
      <4> QED BY <4>1 DEF ProgramInv, Sequenced, NoLoop
    <3> QED BY <1>9, <3>1
  <2> QED BY <1>10, <1>17, <1>18, <2>1, HandlerConfirms
<1>21. TypeOK'
  <2>1. sessions' \in 0..MaxRequests /\ taskLoop' \in {None} \cup Sessions
    BY <1>1, <1>11
  <2> QED BY <1>9, <1>10, <1>14, <1>18, <2>1 DEF ProgramInv, TypeOK
<1> QED BY <1>14, <1>15, <1>16, <1>19, <1>20, <1>21 DEF ProgramInv

\* _start_tasking, at the checks of enablement: with no session ending, an inactive program
\* has none.
LEMMA ActivateKeeps ==
  ASSUME ProgramInv, NEW h \in Handlers, Activate(h), Kind(h) = "start",
         pc[h] \in {"locked", "finalizing"}, ~Ending \/ taskLoop = None,
         UNCHANGED <<waiting, request, arrived, tasks, faults>>
  PROVE  ProgramInv'
<1>1. CASE Leave(h, "rejected")
  BY <1>1, LeavesKeep
<1>2. CASE Leave(h, "succeeded")
  BY <1>2, LeavesKeep
<1>3. CASE ~(Leave(h, "rejected") \/ Leave(h, "succeeded"))
  <2>1. ~active.active /\ enable.enabled
    BY <1>3 DEF Activate
  <2>2. taskLoop = None
    <3> SUFFICES ASSUME taskLoop # None
                 PROVE  FALSE
      OBVIOUS
    <3>1. loop[taskLoop].producer \notin {"none", "done"}
      BY DEF Ending, Running, ProducerDone
    <3> QED BY <2>1, <3>1 DEF ProgramInv, Published, Sound
  <2> QED BY <1>3, <2>1, <2>2, CreatesKeep DEF Activate
<1> QED BY <1>1, <1>2, <1>3

\* A start: refused, made to wait for the session that ends, or let through.
LEMMA StartsKeep ==
  ASSUME ProgramInv, NEW h \in Handlers,
         StartChecks(h) \/ StartFinalized(h) \/ StartReported(h)
  PROVE  ProgramInv'
<1>1. UNCHANGED <<waiting, request, arrived, tasks, faults>>
  BY DEF StartChecks, StartFinalized, StartReported
<1>2. Handled(h) /\ h \in Nat /\ arrived \in Nat
  BY Numbers DEF ProgramInv, Controlled
<1>3. CASE StartChecks(h)
  <2>1. pc[h] = "locked" /\ Kind(h) = "start" /\ holder = h /\ sessions < h /\ h <= arrived
    BY <1>2, <1>3 DEF StartChecks, Kind, Handled
  <2>2. CASE Leave(h, "rejected")
    BY <1>1, <2>1, <2>2, LeavesKeep
  <2>3. CASE /\ Ending /\ Answer(h, "finalizing") /\ target' = [target EXCEPT ![h] = taskLoop]
             /\ UNCHANGED <<stateVars, holder, loopVars>>
    <3>1. taskLoop \in Sessions /\ taskLoop # None
      BY <2>3 DEF Ending, ProgramInv, TypeOK
    <3>2. /\ pc' = [pc EXCEPT ![h] = "finalizing"] /\ pc'[h] = "finalizing"
          /\ target'[h] = taskLoop /\ target' \in [Handlers -> {None} \cup Sessions]
          /\ \A g \in Handlers : g # h => target'[g] = target[g]
      BY <2>3, <3>1 DEF Answer, ProgramInv, TypeOK
    <3>3. UNCHANGED <<taskLoop, sessions>>
      BY <2>3 DEF loopVars
    <3>4. Handled(h)' /\ Named(h)'
      BY <1>1, <1>2, <2>1, <2>3, <3>1, <3>2, <3>3 DEF Handled, Named, Kind, Stops, Ends
    <3> QED BY <1>1, <2>1, <2>3, <3>2, <3>4, MovesKeep
  <2>4. CASE ~Ending /\ Activate(h)
    BY <1>1, <2>1, <2>4, ActivateKeeps
  <2> QED BY <1>3, <2>2, <2>3, <2>4 DEF StartChecks
<1>4. CASE StartFinalized(h)
  <2>1. pc[h] = "finalizing" /\ Activate(h) /\ loop[target[h]].finalizer = "done"
    BY <1>4 DEF StartFinalized
  <2>2. Kind(h) = "start" /\ taskLoop \in {None, target[h]}
    BY <1>2, <2>1 DEF Handled
  <2>3. taskLoop = None
    BY <2>1, <2>2 DEF ProgramInv, Sequenced
  <2> QED BY <1>1, <2>1, <2>2, <2>3, ActivateKeeps
<1>5. CASE StartReported(h)
  <2>1. /\ pc[h] = "starting"
        /\ Leave(h, IF loop[target[h]].reported THEN "succeeded" ELSE "failed")
    BY <1>5 DEF StartReported
  <2>2. Kind(h) = "start"
    BY <1>2, <2>1 DEF Handled
  <2>3. CASE loop[target[h]].reported
    BY <1>1, <2>1, <2>2, <2>3, LeavesKeep
  <2>4. CASE ~loop[target[h]].reported
    BY <1>1, <2>1, <2>2, <2>4, LeavesKeep
  <2> QED BY <2>3, <2>4
<1> QED BY <1>3, <1>4, <1>5

-----------------------------------------------------------------------------
(* The specification *)

\* A program that starts is inactive: no session, no request, nothing queued.
LEMMA InitInv ==
  ASSUME Init
  PROVE  ProgramInv
<1>1. MaxRequests \in Nat /\ MaxTasks \in Nat /\ MaxFaults \in Nat
  BY ProgramAssumption
<1>2. NoLoop \in Loops /\ Inactive("init") \in ActiveStates /\ ~Inactive("init").active
  BY DEF NoLoop, Loops, Inactive, ActiveStates
<1>3. updates \in Seq(Updates) /\ waiting \in Seq(Handlers)
      /\ DOMAIN updates = {} /\ DOMAIN waiting = {}
  BY DEF Init
<1>4. TypeOK
  <2>1. request \in [Handlers -> Requests \cup {[kind |-> "none"]}]
    BY DEF Init
  <2>2. loop \in [Sessions -> Loops] /\ active \in ActiveStates
    BY <1>2 DEF Init
  <2>3. /\ tasking \in {None} \cup Sessions /\ writing \in BOOLEAN /\ enable \in EnableStates
        /\ holder \in {None} \cup Handlers /\ taskLoop \in {None} \cup Sessions
        /\ target \in [Handlers -> {None} \cup Sessions]
    BY DEF Init
  <2>4. seen \in [active : BOOLEAN, tasking : {None} \cup Sessions]
    BY DEF Init
  <2>5. /\ arrived \in 0..MaxRequests /\ sessions \in 0..MaxRequests
        /\ tasks \in 0..MaxTasks /\ faults \in 0..MaxFaults
    BY <1>1 DEF Init
  <2>6. pc \in [Handlers -> {"none"}]
    BY DEF Init
  <2> QED BY <1>3, <2>1, <2>2, <2>3, <2>4, <2>5, <2>6 DEF TypeOK
<1>5. Queued
  BY <1>3 DEF Init, Queued, OneEach, Members
<1>6. Controlled
  <2>1. Fair
    BY <1>3 DEF Init, Fair, None
  <2>2. \A h \in Handlers : pc[h] = "none" /\ Kind(h) = "none"
    BY DEF Init, Kind
  <2> QED BY <2>1, <2>2 DEF Controlled, Handled, Stops, Ends
<1>7. Sequenced
  <2>1. \A k \in Sessions : loop[k] = NoLoop /\ ~(k <= sessions) /\ taskLoop = None
    BY <1>1 DEF Init, Sessions
  <2> QED BY <2>1 DEF Init, Sequenced, None
<1>8. Published
  BY <1>2 DEF Init, Published
<1>9. Confirmed
  <2>1. \A h \in Handlers : Kind(h) = "none"
    BY DEF Init, Kind
  <2> QED BY <2>1 DEF Confirmed, Named, Stops
<1> QED BY <1>4, <1>5, <1>6, <1>7, <1>8, <1>9 DEF ProgramInv

\* A step that changes nothing.
LEMMA StutterKeeps ==
  ASSUME ProgramInv, UNCHANGED vars
  PROVE  ProgramInv'
<1>1. /\ UNCHANGED <<enable, active, tasking, seen, updates, writing, holder, waiting>>
      /\ UNCHANGED <<request, pc, target, arrived, loop, taskLoop, sessions, tasks, faults>>
  BY DEF vars, stateVars, lockVars, handlerVars, loopVars
<1>2. TypeOK'
  BY <1>1 DEF ProgramInv, TypeOK
<1>3. Queued'
  BY <1>1 DEF ProgramInv, Queued, Written, Waits, Start, Report, Stop, Enable, Retry, Clear,
              Deactivate
<1>4. Controlled' /\ Confirmed'
  BY <1>1, ControlledFrame, ConfirmedFrame DEF ProgramInv, lockVars, handlerVars
<1>5. Sequenced' /\ Published'
  BY <1>1, SessionsStay
<1> QED BY <1>2, <1>3, <1>4, <1>5 DEF ProgramInv

\* Every step of the program's server keeps the invariant.
LEMMA NextKeeps ==
  ASSUME ProgramInv, [Next]_vars
  PROVE  ProgramInv'
<1>1. ASSUME NEW r \in Requests, Arrive(r) PROVE ProgramInv'
  BY <1>1, ArriveKeeps
<1>2. CASE ControlLocks
  BY <1>2, ControlLocksKeeps
<1>3. CASE UpdateLocks
  BY <1>3, UpdateLocksKeeps
<1>4. CASE UpdateEnds \/ UpdateFails
  BY <1>4, UpdateReturnsKeeps
<1>5. ASSUME NEW h \in Handlers, HandlerStep(h) PROVE ProgramInv'
  <2>1. CASE StartChecks(h) \/ StartFinalized(h) \/ StartReported(h)
    BY <2>1, StartsKeep
  <2>2. CASE StopBegins(h)
    BY <2>2, StopBeginsKeeps
  <2>3. CASE StopEnds(h)
    BY <2>3, StopEndsKeeps
  <2>4. CASE EnableChecks(h)
    BY <2>4, EnableChecksKeeps
  <2>5. CASE EnableStopped(h)
    BY <2>5, EnableStoppedKeeps
  <2> QED BY <1>5, <2>1, <2>2, <2>3, <2>4, <2>5 DEF HandlerStep
<1>6. ASSUME NEW k \in Sessions, ProducerStep(k) PROVE ProgramInv'
  <2>1. CASE Reports(k)
    BY <2>1, ReportsKeeps
  <2>2. CASE ReportCancelled(k)
    BY <2>2, ReportCancelledKeeps
  <2>3. CASE ProducerStops(k) \/ Follows(k)
    BY <2>3, ProducerKeeps
  <2> QED BY <1>6, <2>1, <2>2, <2>3 DEF ProducerStep
<1>7. ASSUME NEW k \in Sessions, ControllerStep(k) PROVE ProgramInv'
  BY <1>7, ProducerKeeps DEF ControllerStep
<1>8. ASSUME NEW k \in Sessions, FinalizerStep(k) PROVE ProgramInv'
  BY <1>8, FinalizerKeeps
<1>9. ASSUME NEW k \in Sessions,
             ProducerFails(k) \/ LeavesOperate(k) \/ Sends(k) \/ TaskExpires(k)
      PROVE  ProgramInv'
  BY <1>9, ProducerKeeps
<1>10. CASE UNCHANGED vars
  BY <1>10, StutterKeeps
<1> QED BY <1>1, <1>2, <1>3, <1>4, <1>5, <1>6, <1>7, <1>8, <1>9, <1>10 DEF Next, Internal

\* The inductive invariant of the program's server (core/impl/program.py and the sessions of
\* core/executor.py): the owners of queued updates, the holder of the control lock, the order
\* of the sessions and what is stored and published of the current one.
THEOREM ProgramInvariant == Spec => []ProgramInv
<1>1. Init => ProgramInv
  BY InitInv
<1>2. ProgramInv /\ [Next]_vars => ProgramInv'
  BY NextKeeps
<1> QED BY <1>1, <1>2, PTL DEF Spec

\* The value of every variable stays in its type: a session number names a session that was
\* created, and a queued update carries a value of its key (ProgramState of
\* core/impl/program.py).
THEOREM TypeCorrect == Spec => []TypeOK
<1>1. ProgramInv => TypeOK
  BY DEF ProgramInv
<1> QED BY <1>1, ProgramInvariant, PTL

\* Whatever the requests and the order in which the locks are granted, only the current
\* session produces or runs work; without one the program is stored and published inactive,
\* and a published session is the current one (_start_tasking, _finalize_loop).
THEOREM SessionsAreSerial == Spec => []OneSession
<1>1. ASSUME ProgramInv PROVE OneSession
  <2>1. ASSUME NEW k \in Sessions, Working(k) PROVE k = taskLoop
    BY <1>1, <2>1, CurrentOnly DEF ProgramInv, Working
  <2>2. taskLoop = None => ~active.active /\ tasking = None /\ ~seen.active
    BY <1>1 DEF ProgramInv, Published
  <2>3. seen.tasking # None =>
          seen.tasking = taskLoop /\ (seen.active \/ loop[taskLoop].stopping)
    BY <1>1 DEF ProgramInv, Published, Sound
  <2> QED BY <2>1, <2>2, <2>3 DEF OneSession
<1>2. ProgramInv => OneSession
  BY <1>1
<1> QED BY <1>2, ProgramInvariant, PTL

\* Work is only produced or run for the controller the program is enabled for: a disable or
\* a change of controller is stored after the session it ends, and the control lock keeps a
\* start from slipping in between (_set_enable_state, _start_tasking).
THEOREM WorkNeedsEnablement == Spec => []WorkIsEnabled
<1>1. ASSUME ProgramInv, NEW k \in Sessions, Working(k)
      PROVE  enable.enabled /\ enable.controller = loop[k].controller
  <2>1. k = taskLoop /\ k # None
    BY <1>1, CurrentOnly, Numbers DEF ProgramInv, Working
  <2> QED BY <1>1, <2>1 DEF ProgramInv, Published, Sound
<1>2. ProgramInv => WorkIsEnabled
  BY <1>1 DEF WorkIsEnabled
<1> QED BY <1>2, ProgramInvariant, PTL

\* A stop that succeeds has ended the session it names, and it reaches no other: not even
\* when the session ends, and another starts, while the stop waits (_targeted_loop, _stop_loop).
THEOREM StopsAreConfirmed == Spec => []StopIsConfirmed
<1>1. ProgramInv => StopIsConfirmed
  BY DEF ProgramInv, Confirmed, Named, Stops, Kind, StopIsConfirmed
<1> QED BY <1>1, ProgramInvariant, PTL
=============================================================================
