---------------------------- MODULE WorkflowProofs ----------------------------
(***************************************************************************)
(* Proofs about Workflow, for all plans without cycles, any number of      *)
(* nodes, cleanup graphs and cancellations.                                *)
(***************************************************************************)
EXTENDS Workflow, FiniteSetTheorems, WellFoundedInduction, TLAPS

-----------------------------------------------------------------------------
(* Counting up to a bound.                                                 *)

\* A non-empty set of numbers up to a bound has a least member.
LEMMA LeastMember ==
  ASSUME NEW N \in Nat, NEW S \in SUBSET (0..N), S # {}
  PROVE  \E m \in S : \A k \in S : m =< k
<1> DEFINE T == {0..k : k \in S}
<1>1. /\ IsWellFoundedOn(StrictSubsetOrdering(0..N), FiniteSubsetsOf(0..N))
      /\ IsFiniteSet(0..N)
  BY FS_StrictSubsetOrderingWellFounded, FS_Interval
<1>2. T \subseteq FiniteSubsetsOf(0..N) /\ T # {}
  <2>1. \A k \in S : 0..k \in SUBSET (0..N)
    OBVIOUS
  <2>2. FiniteSubsetsOf(0..N) = SUBSET (0..N)
    BY <1>1, FS_FiniteSubsetsOfFinite
  <2>3. \A k \in S : 0..k \in FiniteSubsetsOf(0..N)
    BY <2>1, <2>2
  <2> QED
    BY <2>3, Zenon
<1> HIDE DEF T
<1>3. PICK x \in T : \A y \in T : ~(<<y, x>> \in StrictSubsetOrdering(0..N))
  BY <1>1, <1>2, WFMin
<1>4. PICK m \in S : x = 0..m
  BY DEF T
<1>5. ASSUME NEW k \in S, ~(m =< k) PROVE FALSE
  <2>1. 0..k \subseteq 0..m /\ m \in 0..m /\ m \notin 0..k
    BY <1>5
  <2>2. <<0..k, 0..m>> \in StrictSubsetOrdering(0..N)
    BY <2>1, 0..k \in SUBSET (0..N), 0..m \in SUBSET (0..N) DEF StrictSubsetOrdering
  <2> QED
    BY <1>3, <1>4, <2>2 DEF T
<1> QED
  BY <1>5

\* Induction over the numbers up to a bound: a set with 0 that a step never leaves.
LEMMA UpToInduction ==
  ASSUME NEW N \in Nat, NEW S, 0 \in S, \A n \in 1..N : n - 1 \in S => n \in S
  PROVE  0..N \subseteq S
<1> DEFINE R == (0..N) \ S
<1>1. SUFFICES ASSUME R # {} PROVE FALSE
  OBVIOUS
<1>2. PICK m \in R : \A k \in R : m =< k
  BY <1>1, LeastMember
<1>3. m \in 1..N
  BY <1>2
<1>4. m - 1 \notin R /\ m - 1 \in 0..N
  BY <1>2, <1>3
<1> QED
  BY <1>2, <1>3, <1>4

\* f computes each of its values from the one before.
Computes(f, N, X, x, F) ==
  /\ f \in [0..N -> X] /\ f[0] = x
  /\ \A n \in 1..N : f[n] = F[n][f[n - 1]]

\* Such a function exists.
LEMMA Iteration ==
  ASSUME NEW N \in Nat, NEW X, NEW x \in X, NEW F \in [1..N -> [X -> X]]
  PROVE  \E f : Computes(f, N, X, x, F)
<1> DEFINE S == {k \in 0..N : \E f : Computes(f, k, X, x, F)}
<1>1. 0 \in S
  <2>1. Computes([i \in 0..0 |-> x], 0, X, x, F)
    BY DEF Computes
  <2> QED
    BY <2>1
<1>2. ASSUME NEW k \in 1..N, k - 1 \in S PROVE k \in S
  <2>1. PICK f : Computes(f, k - 1, X, x, F)
    BY <1>2
  <2> DEFINE g == [i \in 0..k |-> IF i = k THEN F[k][f[k - 1]] ELSE f[i]]
  <2>2. f \in [0..(k - 1) -> X] /\ f[0] = x /\ \A n \in 1..(k - 1) : f[n] = F[n][f[n - 1]]
    BY <2>1 DEF Computes
  <2>3. f[k - 1] \in X /\ F[k][f[k - 1]] \in X
    BY <2>2
  <2>4. g \in [0..k -> X] /\ g[0] = x
    BY <2>2, <2>3
  <2>5. ASSUME NEW n \in 1..k PROVE g[n] = F[n][g[n - 1]]
    <3>1. CASE n = k
      BY <3>1
    <3>2. CASE n # k
      <4>1. n \in 1..(k - 1) /\ n - 1 \in 0..k /\ n - 1 # k /\ n \in 0..k
        BY <3>2
      <4>2. g[n] = f[n] /\ g[n - 1] = f[n - 1]
        BY <4>1, <3>2
      <4> QED
        BY <4>1, <4>2, <2>2
    <3> QED
      BY <3>1, <3>2
  <2>6. Computes(g, k, X, x, F)
    BY <2>4, <2>5 DEF Computes
  <2> QED
    BY <2>6
<1> HIDE DEF S
<1>3. 0..N \subseteq S
  BY <1>1, <1>2, UpToInduction
<1>4. N \in S
  BY <1>3
<1> QED
  BY <1>4 DEF S

\* What each step of such a computation keeps, its last value has.
LEMMA IterationStays ==
  ASSUME NEW N \in Nat, NEW X, NEW x \in X, NEW g, g[0] = x,
         \A n \in 1..N : g[n - 1] \in X => g[n] \in X
  PROVE  \A n \in 0..N : g[n] \in X
<1> DEFINE S == {n \in 0..N : g[n] \in X}
<1>1. 0 \in S
  OBVIOUS
<1>2. ASSUME NEW n \in 1..N, n - 1 \in S PROVE n \in S
  BY <1>2
<1> HIDE DEF S
<1>3. 0..N \subseteq S
  BY <1>1, <1>2, UpToInduction
<1> QED
  BY <1>3 DEF S

-----------------------------------------------------------------------------
(* The passes of RunState.                                                 *)

\* A pass over the nodes takes them one by one, as long as each leaves a set of run states.
LEMMA SkipPassRuns ==
  ASSUME NEW X, NEW rs \in X, \A s \in X : \A n \in Nodes : SkipOne(s, n) \in X
  PROVE  \E g : /\ g[0] = rs /\ SkipPass(rs) = g[NNodes]
                /\ \A k \in 1..NNodes : g[k] = SkipOne(g[k - 1], k)
<1> DEFINE Steps(f) == f = [k \in 0..NNodes |-> IF k = 0 THEN rs ELSE SkipOne(f[k - 1], k)]
           F == [k \in 1..NNodes |-> [s \in X |-> SkipOne(s, k)]]
<1>1. F \in [1..NNodes -> [X -> X]] /\ NNodes \in Nat
  BY BoundsAssumption DEF Nodes
<1>2. \A k \in 1..NNodes : \A s \in X : F[k][s] = SkipOne(s, k)
  OBVIOUS
<1> HIDE DEF F
<1>3. \E f : Steps(f)
  <2>1. PICK f : Computes(f, NNodes, X, rs, F)
    BY <1>1, Iteration
  <2>2. \A k \in 1..NNodes : f[k] = SkipOne(f[k - 1], k)
    BY <2>1, <1>1, <1>2 DEF Computes
  <2> QED
    BY <2>1, <2>2, <1>1 DEF Computes
<1> DEFINE g == CHOOSE f : Steps(f)
<1>4. Steps(g)
  BY <1>3
<1>5. SkipPass(rs) = g[NNodes]
  BY DEF SkipPass
<1> HIDE DEF g
<1>6. g[0] = rs /\ \A k \in 1..NNodes : g[k] = SkipOne(g[k - 1], k)
  BY <1>4, BoundsAssumption
<1> QED
  BY <1>5, <1>6

\* So a set that no node leaves is not left by a pass.
LEMMA SkipPassStays ==
  ASSUME NEW X, NEW rs \in X, \A s \in X : \A n \in Nodes : SkipOne(s, n) \in X
  PROVE  SkipPass(rs) \in X
<1>1. PICK g : /\ g[0] = rs /\ SkipPass(rs) = g[NNodes]
                 /\ \A k \in 1..NNodes : g[k] = SkipOne(g[k - 1], k)
  BY SkipPassRuns
<1>2. \A k \in 1..NNodes : g[k - 1] \in X => g[k] \in X
  BY <1>1 DEF Nodes
<1>3. \A k \in 0..NNodes : g[k] \in X
  BY <1>1, <1>2, BoundsAssumption, IterationStays
<1> QED
  BY <1>1, <1>3, BoundsAssumption

\* The same of the overrides.
LEMMA OverridePassRuns ==
  ASSUME NEW X, NEW rs \in X, \A s \in X : \A n \in Nodes : OverrideOne(s, n) \in X
  PROVE  \E g : /\ g[0] = rs /\ OverridePass(rs) = g[NNodes]
                /\ \A k \in 1..NNodes : g[k] = OverrideOne(g[k - 1], k)
<1> DEFINE Steps(f) == f = [k \in 0..NNodes |-> IF k = 0 THEN rs ELSE OverrideOne(f[k - 1], k)]
           F == [k \in 1..NNodes |-> [s \in X |-> OverrideOne(s, k)]]
<1>1. F \in [1..NNodes -> [X -> X]] /\ NNodes \in Nat
  BY BoundsAssumption DEF Nodes
<1>2. \A k \in 1..NNodes : \A s \in X : F[k][s] = OverrideOne(s, k)
  OBVIOUS
<1> HIDE DEF F
<1>3. \E f : Steps(f)
  <2>1. PICK f : Computes(f, NNodes, X, rs, F)
    BY <1>1, Iteration
  <2>2. \A k \in 1..NNodes : f[k] = OverrideOne(f[k - 1], k)
    BY <2>1, <1>1, <1>2 DEF Computes
  <2> QED
    BY <2>1, <2>2, <1>1 DEF Computes
<1> DEFINE g == CHOOSE f : Steps(f)
<1>4. Steps(g)
  BY <1>3
<1>5. OverridePass(rs) = g[NNodes]
  BY DEF OverridePass
<1> HIDE DEF g
<1>6. g[0] = rs /\ \A k \in 1..NNodes : g[k] = OverrideOne(g[k - 1], k)
  BY <1>4, BoundsAssumption
<1> QED
  BY <1>5, <1>6

LEMMA OverridePassStays ==
  ASSUME NEW X, NEW rs \in X, \A s \in X : \A n \in Nodes : OverrideOne(s, n) \in X
  PROVE  OverridePass(rs) \in X
<1>1. PICK g : /\ g[0] = rs /\ OverridePass(rs) = g[NNodes]
                 /\ \A k \in 1..NNodes : g[k] = OverrideOne(g[k - 1], k)
  BY OverridePassRuns
<1>2. \A k \in 1..NNodes : g[k - 1] \in X => g[k] \in X
  BY <1>1 DEF Nodes
<1>3. \A k \in 0..NNodes : g[k] \in X
  BY <1>1, <1>2, BoundsAssumption, IterationStays
<1> QED
  BY <1>1, <1>3, BoundsAssumption

\* The loops take their passes one by one.
LEMMA ResolveSkipsRuns ==
  ASSUME NEW X, NEW rs \in X, \A s \in X : SkipPass(s) \in X
  PROVE  \E g : /\ g[0] = rs /\ ResolveSkips(rs) = g[NNodes]
                /\ \A k \in 1..NNodes : g[k] = SkipPass(g[k - 1])
<1> DEFINE Steps(f) == f = [k \in 0..NNodes |-> IF k = 0 THEN rs ELSE SkipPass(f[k - 1])]
           F == [k \in 1..NNodes |-> [s \in X |-> SkipPass(s)]]
<1>1. F \in [1..NNodes -> [X -> X]] /\ NNodes \in Nat
  BY BoundsAssumption
<1>2. \A k \in 1..NNodes : \A s \in X : F[k][s] = SkipPass(s)
  OBVIOUS
<1> HIDE DEF F
<1>3. \E f : Steps(f)
  <2>1. PICK f : Computes(f, NNodes, X, rs, F)
    BY <1>1, Iteration
  <2>2. \A k \in 1..NNodes : f[k] = SkipPass(f[k - 1])
    BY <2>1, <1>1, <1>2 DEF Computes
  <2> QED
    BY <2>1, <2>2, <1>1 DEF Computes
<1> DEFINE g == CHOOSE f : Steps(f)
<1>4. Steps(g)
  BY <1>3
<1>5. ResolveSkips(rs) = g[NNodes]
  BY DEF ResolveSkips
<1> HIDE DEF g
<1>6. g[0] = rs /\ \A k \in 1..NNodes : g[k] = SkipPass(g[k - 1])
  BY <1>4, BoundsAssumption
<1> QED
  BY <1>5, <1>6

LEMMA ResolveSkipsStays ==
  ASSUME NEW X, NEW rs \in X, \A s \in X : \A n \in Nodes : SkipOne(s, n) \in X
  PROVE  ResolveSkips(rs) \in X
<1>1. \A s \in X : SkipPass(s) \in X
  BY SkipPassStays
<1>2. PICK g : /\ g[0] = rs /\ ResolveSkips(rs) = g[NNodes]
                 /\ \A k \in 1..NNodes : g[k] = SkipPass(g[k - 1])
  BY <1>1, ResolveSkipsRuns
<1>3. \A k \in 1..NNodes : g[k - 1] \in X => g[k] \in X
  BY <1>1, <1>2
<1>4. \A k \in 0..NNodes : g[k] \in X
  BY <1>2, <1>3, BoundsAssumption, IterationStays
<1> QED
  BY <1>2, <1>4, BoundsAssumption

LEMMA SettleRuns ==
  ASSUME NEW X, NEW rs \in X, \A s \in X : SettlePass(s) \in X
  PROVE  \E g : /\ g[0] = rs /\ Settle(rs) = g[NNodes]
                /\ \A k \in 1..NNodes : g[k] = SettlePass(g[k - 1])
<1> DEFINE Steps(f) == f = [k \in 0..NNodes |-> IF k = 0 THEN rs ELSE SettlePass(f[k - 1])]
           F == [k \in 1..NNodes |-> [s \in X |-> SettlePass(s)]]
<1>1. F \in [1..NNodes -> [X -> X]] /\ NNodes \in Nat
  BY BoundsAssumption
<1>2. \A k \in 1..NNodes : \A s \in X : F[k][s] = SettlePass(s)
  OBVIOUS
<1> HIDE DEF F
<1>3. \E f : Steps(f)
  <2>1. PICK f : Computes(f, NNodes, X, rs, F)
    BY <1>1, Iteration
  <2>2. \A k \in 1..NNodes : f[k] = SettlePass(f[k - 1])
    BY <2>1, <1>1, <1>2 DEF Computes
  <2> QED
    BY <2>1, <2>2, <1>1 DEF Computes
<1> DEFINE g == CHOOSE f : Steps(f)
<1>4. Steps(g)
  BY <1>3
<1>5. Settle(rs) = g[NNodes]
  BY DEF Settle
<1> HIDE DEF g
<1>6. g[0] = rs /\ \A k \in 1..NNodes : g[k] = SettlePass(g[k - 1])
  BY <1>4, BoundsAssumption
<1> QED
  BY <1>5, <1>6

\* A set that no node leaves is not left by settling.
LEMMA SettleStays ==
  ASSUME NEW X, NEW rs \in X,
         \A s \in X : \A n \in Nodes : SkipOne(s, n) \in X /\ OverrideOne(s, n) \in X
  PROVE  Settle(rs) \in X
<1>1. \A s \in X : SettlePass(s) \in X
  BY SkipPassStays, OverridePassStays DEF SettlePass
<1>2. PICK g : /\ g[0] = rs /\ Settle(rs) = g[NNodes]
                 /\ \A k \in 1..NNodes : g[k] = SettlePass(g[k - 1])
  BY <1>1, SettleRuns
<1>3. \A k \in 1..NNodes : g[k - 1] \in X => g[k] \in X
  BY <1>1, <1>2
<1>4. \A k \in 0..NNodes : g[k] \in X
  BY <1>2, <1>3, BoundsAssumption, IterationStays
<1> QED
  BY <1>2, <1>4, BoundsAssumption

-----------------------------------------------------------------------------
(* The inductive invariant.                                                *)

\* A device call is made by a task that has begun, and is pending only while it waits.
CallsHaveTasks ==
  \A n \in Nodes : /\ task[n] \in {"none", "created"} => call[n] = "none"
                   /\ call[n] = "pending" => task[n] \in {"calling", "dropping"}

\* The nodes alive belong to the graph being run, and graphs yet to run are untouched.
Alive == \A n \in Live : plan.home[n] = cur /\ mode \in {"running", "draining"}
Fresh ==
  \A n \in Nodes : task[n] # "none" =>
    plan.home[n] < cur \/ (plan.home[n] = cur /\ mode # "idle")

\* The outcome is settled when the last runner is over; the main one settles it or goes on.
Over ==
  /\ outcome # "none" => mode = "over"
  /\ cur = 0 /\ mode = "over" => outcome # "none"

\* What _bounded keeps concerns cleanup graphs.
MainUnbounded == cur = 0 => ~nudged /\ ~stopping /\ ~overran /\ cleaned = {} /\ late = {}

\* Until a cancellation arrives the main graph has none of its traces.
Untouched ==
  cur = 0 /\ mode \in {"idle", "running"} =>
    /\ arrived = {} /\ ~aborted
    /\ \A n \in Nodes : ~told[n] /\ ~held[n] /\ task[n] # "cancelled" /\ result[n] # "cancelled"

\* What arrived is counted, and a declined cancellation is remembered.
Counted == (hard <=> "hard" \in arrived) /\ (cancels = 0 <=> arrived = {})

\* A cancellation that arrived is in the main report, or stops the cleanup under way.
Acknowledged == cur # 0 /\ outcome = "none" /\ arrived # {} => aborted \/ stopping

\* A cleanup runner that dispatches although its run is to stop is about to see it.
Notified ==
  cur # 0 /\ outcome = "none" /\ mode \in {"idle", "running"} /\ (stopping \/ hard) => nudged

\* A node that has sent nothing when the drain begins will send nothing.
DrainTold == mode = "draining" => \A n \in Nodes : task[n] = "created" => told[n]

\* A call is dropped only by a cancellation perform holds or by its timeout.
DropsHaveCause ==
  \A n \in Nodes : task[n] = "dropping" \/ call[n] = "cancelled" => held[n] \/ lapsed[n]

\* Only an override excuses, and it neither fails nor cancels.
ExcusesAreOverrides ==
  \A n \in Nodes : result[n] \in {"none", "failed", "cancelled"} => ~excused[n]

\* The main run is stopped only by a failure that says so.
StopHasCause ==
  cur = 0 /\ mode \in {"idle", "running"} /\ stop =>
    \E n \in In(0) : result[n] = "failed" /\ plan.policy[n] = "stop"

\* The cleanup graphs before the current one are done if they are owed, and only then.
InOrder ==
  cur # 0 /\ outcome = "none" => cleaned = {k \in Owed : k < cur} /\ cur \in Owed

\* A main graph that ended without a failure or an abort did its required work.
MainWhole ==
  /\ cur # 0 \/ outcome \in {"completed", "aborted", "error"}
  /\ ~aborted /\ Failures(RunState, 0) = {}
  => RequiredDone \/ StoppedByOptional
CompletedIsClean == outcome = "completed" => ~aborted /\ Failures(RunState, 0) = {}

WorkflowInv ==
  /\ TypeOK
  /\ CallsHaveTasks /\ Alive /\ Fresh /\ Over /\ DrainTold /\ DropsHaveCause
  /\ MainUnbounded /\ Untouched /\ Counted /\ Acknowledged /\ Notified /\ HardIsFinal
  /\ ExcusesAreOverrides /\ StopHasCause /\ MainWhole /\ CompletedIsClean
  /\ InOrder /\ CleanupOwed

-----------------------------------------------------------------------------
(* What settling, recording and cancelling do to a run state.              *)

RunStates == [result : [Nodes -> Statuses], excused : [Nodes -> BOOLEAN], stop : BOOLEAN]

\* Nothing outside the current graph is resolved, and only overrides excuse.
Sound(rs) ==
  /\ rs \in RunStates
  /\ \A n \in Nodes \ In(cur) : rs.result[n] = result[n] /\ rs.excused[n] = excused[n]
  /\ \A n \in Nodes : rs.result[n] \in {"none", "failed", "cancelled"} => ~rs.excused[n]

\* The states of a main run that no cancellation has reached.
Healthy(rs) ==
  /\ \A n \in Nodes : rs.result[n] # "cancelled"
  /\ rs.stop => \E n \in In(0) : rs.result[n] = "failed" /\ plan.policy[n] = "stop"

\* Every task of the current graph that has ended is recorded.
Recorded(rs) == \A n \in In(cur) : task[n] \in EndedTask => rs.result[n] # "none"

\* What is assumed of the plan at hand.
LEMMA PlanFacts ==
  ASSUME plan \in Plans
  PROVE  /\ plan \in PlanType
         /\ \A n \in Nodes : \A d \in Deps(n) : plan.home[d] = plan.home[n]
         /\ \A S \in SUBSET Nodes : S # {} => \E n \in S : Deps(n) \cap S = {}
         /\ \A k \in Cleanups : \A n \in plan.armed[k] \ {Always} : plan.home[n] = 0
  BY PlanAssumption DEF Deps

\* The fields of a plan.
LEMMA PlanFields ==
  ASSUME plan \in Plans
  PROVE  /\ plan.home \in [Nodes -> Graphs]
         /\ plan.soft \in [Nodes -> SUBSET Nodes] /\ plan.hard \in [Nodes -> SUBSET Nodes]
         /\ plan.policy \in [Nodes -> Policies] /\ plan.override \in [Nodes -> Overrides]
         /\ plan.optional \subseteq Nodes
         /\ plan.when \in [Cleanups -> Selectors]
         /\ plan.armed \in [Cleanups -> SUBSET (Nodes \cup {Always})]
  BY PlanFacts DEF PlanType

\* A node is resolved once, as skipped or as its override says.
LEMMA ResolveOne ==
  ASSUME plan \in Plans, NEW rs \in RunStates, NEW n \in Nodes,
         NEW s \in {SkipOne(rs, n), OverrideOne(rs, n)}
  PROVE  \/ s = rs
         \/ /\ n \in Pending(rs)
            /\ s \in RunStates
            /\ s.result[n] \in {"ok", "skipped"} /\ s.stop = rs.stop
            /\ \A m \in Nodes \ {n} : s.result[m] = rs.result[m] /\ s.excused[m] = rs.excused[m]
<1>1. plan.override[n] # "none" => plan.override[n] \in {"ok", "skipped"}
  BY PlanFields DEF Overrides
<1>2. \A status \in {"ok", "skipped"} : \A excuse \in BOOLEAN :
        LET t == Resolve(rs, n, status, excuse) IN
          /\ t \in RunStates
          /\ t.result[n] = status /\ t.stop = rs.stop
          /\ \A m \in Nodes \ {n} : t.result[m] = rs.result[m] /\ t.excused[m] = rs.excused[m]
  BY DEF Resolve, RunStates, Statuses
<1>3. CASE s = SkipOne(rs, n)
  BY <1>2, <1>3 DEF SkipOne
<1>4. CASE s = OverrideOne(rs, n)
  BY <1>1, <1>2, <1>4 DEF OverrideOne
<1> QED
  BY <1>3, <1>4

\* What settling a run state keeps.
LEMMA SettleKeeps ==
  ASSUME plan \in Plans, NEW rs, Sound(rs), NEW t \in {Settle(rs), ResolveSkips(rs)}
  PROVE  /\ Sound(t) /\ t.stop = rs.stop
         /\ \A n \in Nodes : rs.result[n] # "none" =>
              t.result[n] = rs.result[n] /\ t.excused[n] = rs.excused[n]
         /\ Healthy(rs) => Healthy(t)
         /\ Recorded(rs) => Recorded(t)
         /\ Pending(rs) = {} => t = rs
<1> DEFINE Keeps(s) ==
      /\ Sound(s) /\ s.stop = rs.stop
      /\ \A n \in Nodes : rs.result[n] # "none" =>
           s.result[n] = rs.result[n] /\ s.excused[n] = rs.excused[n]
      /\ \A n \in Nodes : s.result[n] # rs.result[n] => s.result[n] \in {"ok", "skipped"}
      /\ Pending(rs) = {} => s = rs
           X == {s \in RunStates : Keeps(s)}
<1>1. rs \in X
  BY DEF Sound
<1>2. ASSUME NEW s \in X, NEW n \in Nodes, NEW u \in {SkipOne(s, n), OverrideOne(s, n)}
      PROVE  u \in X
  <2>1. CASE u = s
    BY <2>1
  <2>2. CASE u # s
    <3>1. /\ n \in Pending(s) /\ u \in RunStates
          /\ u.result[n] \in {"ok", "skipped"} /\ u.stop = s.stop
          /\ \A m \in Nodes \ {n} : u.result[m] = s.result[m] /\ u.excused[m] = s.excused[m]
      BY <1>2, <2>2, ResolveOne
    <3>2. n \in In(cur) /\ s.result[n] = "none" /\ task[n] = "none" /\ Keeps(s)
      BY <3>1 DEF Pending
    <3>3. Sound(u)
      BY <3>1, <3>2 DEF Sound
    <3>4. rs.result[n] = "none" /\ n \in Pending(rs)
      BY <3>2 DEF Pending
    <3> QED
      BY <3>1, <3>2, <3>3, <3>4
  <2> QED
    BY <2>1, <2>2
<1> HIDE DEF X
<1>3. \A s \in X : \A n \in Nodes : SkipOne(s, n) \in X /\ OverrideOne(s, n) \in X
  BY <1>2
<1>4. t \in X
  BY <1>1, <1>3, SettleStays, ResolveSkipsStays
<1>5. Keeps(t) /\ rs \in RunStates /\ t \in RunStates
  BY <1>4 DEF X, Sound
<1>6. ASSUME Healthy(rs) PROVE Healthy(t)
  BY <1>5, <1>6 DEF Healthy, In
<1>7. ASSUME Recorded(rs) PROVE Recorded(t)
  BY <1>5, <1>7 DEF Recorded, In
<1> QED
  BY <1>5, <1>6, <1>7

\* Cancelling what is pending settles the rest of the run state.
LEMMA CancelKeeps ==
  ASSUME NEW rs, Sound(rs)
  PROVE  /\ Sound(CancelPending(rs)) /\ CancelPending(rs).stop = rs.stop
         /\ CancelPending(rs).excused = rs.excused
         /\ \A n \in Nodes :
              CancelPending(rs).result[n] = IF n \in Pending(rs) THEN "cancelled" ELSE rs.result[n]
<1>1. rs \in RunStates
  BY DEF Sound
<1>2. /\ CancelPending(rs).stop = rs.stop
      /\ CancelPending(rs).excused = rs.excused
      /\ CancelPending(rs) \in RunStates
      /\ \A n \in Nodes :
              CancelPending(rs).result[n] = IF n \in Pending(rs) THEN "cancelled" ELSE rs.result[n]
  BY <1>1 DEF CancelPending, RunStates, Statuses
<1>3. \A n \in Pending(rs) : n \in In(cur) /\ rs.result[n] = "none"
  BY DEF Pending
<1> QED
  BY <1>2, <1>3 DEF Sound

\* The run state at hand, and the one in which the tasks that ended are recorded.
LEMMA RecordKeeps ==
  ASSUME TypeOK, ExcusesAreOverrides
  PROVE  /\ Sound(RunState) /\ Sound(Record(RunState))
         /\ Recorded(Record(RunState))
         /\ \A n \in Nodes : Record(RunState).result[n] =
              IF n \in Unrecorded THEN task[n] ELSE result[n]
         /\ Record(RunState).stop =
              (stop \/ \E n \in Unrecorded : task[n] = "failed" /\ plan.policy[n] = "stop")
<1>1. RunState \in RunStates /\ Record(RunState) \in RunStates
  BY DEF RunState, Record, RunStates, TypeOK, Unrecorded, EndedTask, Statuses
<1>2. /\ \A n \in Nodes : Record(RunState).result[n] =
           IF n \in Unrecorded THEN task[n] ELSE result[n]
      /\ Record(RunState).excused = excused
      /\ Record(RunState).stop =
           (stop \/ \E n \in Unrecorded : task[n] = "failed" /\ plan.policy[n] = "stop")
  BY DEF Record, RunState
<1>3. Sound(RunState)
  BY <1>1 DEF Sound, RunState, ExcusesAreOverrides
<1>4. Sound(Record(RunState))
  BY <1>1, <1>2 DEF Sound, ExcusesAreOverrides, Unrecorded
<1>5. Recorded(Record(RunState))
  BY <1>2 DEF Recorded, Unrecorded, In, EndedTask
<1> QED
  BY <1>2, <1>3, <1>4, <1>5

\* While no cancellation has reached the main graph its run state is healthy.
LEMMA MainHealthy ==
  ASSUME TypeOK, Untouched, StopHasCause, cur = 0, mode \in {"idle", "running"}
  PROVE  Healthy(RunState) /\ Healthy(Record(RunState))
<1>1. Healthy(RunState)
  BY DEF Healthy, RunState, Untouched, StopHasCause
<1>2. /\ \A n \in Nodes : Record(RunState).result[n] =
           IF n \in Unrecorded THEN task[n] ELSE result[n]
      /\ Record(RunState).stop =
           (stop \/ \E n \in Unrecorded : task[n] = "failed" /\ plan.policy[n] = "stop")
  BY DEF Record, RunState
<1>3. \A n \in Nodes : Record(RunState).result[n] # "cancelled"
  BY <1>2 DEF Untouched
<1>4. \A n \in Unrecorded : n \in In(0) /\ n \in Nodes /\ result[n] = "none"
  BY DEF Unrecorded, In
<1>5. ASSUME NEW n \in In(0), result[n] = "failed" PROVE Record(RunState).result[n] = "failed"
  BY <1>2, <1>5, <1>4 DEF In
<1>6. ASSUME Record(RunState).stop
      PROVE  \E n \in In(0) : Record(RunState).result[n] = "failed" /\ plan.policy[n] = "stop"
  BY <1>2, <1>4, <1>5, <1>6 DEF StopHasCause
<1> QED
  BY <1>1, <1>3, <1>6 DEF Healthy

\* Nodes do not wait for one another: when a run that was not stopped has no node in flight
\* and none that is ready, none is left, because what is left has a node that needs no other.
LEMMA NothingWaits ==
  ASSUME TypeOK, NEW rs, Sound(rs), Recorded(rs), Live = {}, ~rs.stop, TakeReady(rs) = {}
  PROVE  Pending(rs) = {}
<1>1. SUFFICES ASSUME Pending(rs) # {} PROVE FALSE
  OBVIOUS
<1>2. plan \in Plans /\ Pending(rs) \in SUBSET Nodes
  BY DEF TypeOK, Pending, In
<1>3. PICK n \in Pending(rs) : Deps(n) \cap Pending(rs) = {}
  BY <1>1, <1>2, PlanFacts
<1>4. PICK d \in Deps(n) : rs.result[d] = "none"
  BY <1>3 DEF TakeReady, Ready
<1>5. n \in Nodes /\ plan.home[n] = cur
  BY <1>3 DEF Pending, In
<1>6. d \in Nodes
  BY <1>2, <1>5, PlanFields DEF Deps
<1>7. plan.home[d] = cur
  BY <1>2, <1>5, PlanFacts
<1>8. task[d] \notin EndedTask /\ task[d] \notin LiveTask
  BY <1>4, <1>6, <1>7 DEF Recorded, Live, In
<1>9. task[d] = "none"
  BY <1>6, <1>8 DEF TypeOK
<1> QED
  BY <1>3, <1>4, <1>6, <1>7, <1>9 DEF Pending, In

\* What the runner of an uncancelled graph reports.
Finished(rs) == CancelPending(ResolveSkips(Settle(rs)))

\* A main graph that ends on its own without failures did what was required of it, or an
\* optional fail-fast node stopped it.
LEMMA FinishedWhole ==
  ASSUME TypeOK, cur = 0, Live = {},
         NEW rs, Sound(rs), Recorded(rs), Healthy(rs),
         TakeReady(Settle(rs)) = {}, Failures(Finished(rs), 0) = {}
  PROVE  \/ \A n \in In(0) \ plan.optional :
              Finished(rs).result[n] = "ok" \/ Finished(rs).excused[n]
         \/ \E n \in In(0) \cap plan.optional :
              Finished(rs).result[n] = "failed" /\ plan.policy[n] = "stop"
<1> DEFINE s == Settle(rs)
           t == ResolveSkips(s)
           f == CancelPending(t)
<1>0. plan \in Plans
  BY DEF TypeOK
<1>1. Sound(s) /\ Healthy(s) /\ Recorded(s)
  BY <1>0, SettleKeeps
<1>2. Sound(t) /\ Healthy(t) /\ Recorded(t) /\ t.stop = s.stop /\ (Pending(s) = {} => t = s)
  BY <1>0, <1>1, SettleKeeps
<1> HIDE DEF s, t
<1>3. /\ Sound(f) /\ f.excused = t.excused
      /\ \A n \in Nodes : f.result[n] = IF n \in Pending(t) THEN "cancelled" ELSE t.result[n]
  BY <1>2, CancelKeeps
<1>4. f = Finished(rs)
  BY DEF Finished, s, t
<1>5. Failures(f, 0) = {} /\ TakeReady(s) = {}
  BY <1>4 DEF s
<1> HIDE DEF f
<1>6. CASE t.stop
  <2>1. PICK n \in In(0) : t.result[n] = "failed" /\ plan.policy[n] = "stop"
    BY <1>2, <1>6 DEF Healthy
  <2>2. n \in Nodes /\ f.result[n] = "failed"
    BY <2>1, <1>3 DEF Pending, In
  <2>3. ~f.excused[n]
    BY <1>3, <2>2 DEF Sound
  <2>4. n \in plan.optional
    BY <1>5, <2>1, <2>2, <2>3 DEF Failures
  <2> QED
    BY <1>4, <2>1, <2>2, <2>4
<1>7. CASE ~t.stop
  <2>1. Pending(s) = {}
    BY <1>1, <1>2, <1>5, <1>7, NothingWaits
  <2>2. t = s
    BY <1>2, <2>1
  <2>3. ASSUME NEW n \in In(0) \ plan.optional, ~f.excused[n] PROVE f.result[n] = "ok"
    <3>1. n \in Nodes /\ n \in In(cur)
      BY <2>3 DEF In
    <3>2. f.result[n] = s.result[n]
      BY <1>3, <2>1, <2>2, <3>1
    <3>3. s.result[n] # "cancelled"
      BY <1>1, <3>1 DEF Healthy
    <3>4. s.result[n] # "none"
      <4>1. CASE task[n] = "none"
        BY <2>1, <3>1, <4>1 DEF Pending
      <4>2. CASE task[n] # "none"
        <5>1. task[n] \in EndedTask
          BY <4>2, <3>1 DEF TypeOK, Live
        <5> QED
          BY <1>1, <3>1, <5>1 DEF Recorded
      <4> QED
        BY <4>1, <4>2
    <3>5. f.result[n] \notin {"failed", "skipped"}
      BY <1>5, <2>3 DEF Failures
    <3>6. s.result[n] \in Statuses
      BY <1>1, <3>1 DEF Sound, RunStates
    <3> QED
      BY <3>2, <3>3, <3>4, <3>5, <3>6 DEF Statuses
  <2> QED
    BY <1>4, <2>3
<1> QED
  BY <1>6, <1>7

\* The run states an execution installs are sound.
LEMMA InstalledSound ==
  ASSUME TypeOK, ExcusesAreOverrides
  PROVE  /\ Sound(RunState) /\ Sound(Drained)
         /\ \A rs \in {RunState, Record(RunState)} : Sound(Settle(rs)) /\ Sound(Finished(rs))
<1>1. plan \in Plans
  BY DEF TypeOK
<1>2. Sound(RunState) /\ Sound(Record(RunState))
  BY RecordKeeps
<1>3. Sound(Drained)
  BY <1>2, CancelKeeps DEF Drained
<1>4. ASSUME NEW rs \in {RunState, Record(RunState)} PROVE Sound(Settle(rs)) /\ Sound(Finished(rs))
  <2>1. Sound(Settle(rs))
    BY <1>1, <1>2, SettleKeeps
  <2>2. Sound(ResolveSkips(Settle(rs)))
    BY <1>1, <2>1, SettleKeeps
  <2> QED
    BY <2>1, <2>2, CancelKeeps DEF Finished
<1> QED
  BY <1>2, <1>3, <1>4

-----------------------------------------------------------------------------
(* Settling comes to an end: no pass moves what it leaves.                 *)

\* u is s with more nodes resolved.
Grows(s, u) ==
  /\ u \in RunStates /\ u.stop = s.stop
  /\ \A n \in Nodes : s.result[n] # "none" => u.result[n] = s.result[n]

\* Then u has fewer nodes pending, more blockers and more nodes that are ready.
LEMMA GrowthFacts ==
  ASSUME plan \in Plans, NEW s \in RunStates, NEW u, Grows(s, u)
  PROVE  /\ Pending(u) \subseteq Pending(s)
         /\ \A n \in Nodes : Blockers(s, n) \subseteq Blockers(u, n)
         /\ \A n \in Nodes : Ready(s, n) => Ready(u, n)
<1>1. \A n \in Nodes : plan.hard[n] \subseteq Nodes /\ Deps(n) \subseteq Nodes
  BY PlanFields DEF Deps
<1>2. Pending(u) \subseteq Pending(s)
  BY DEF Grows, Pending, In
<1>3. \A n \in Nodes : Blockers(s, n) \subseteq Blockers(u, n)
  BY <1>1 DEF Grows, Blockers
<1>4. \A n \in Nodes : Ready(s, n) => Ready(u, n)
  BY <1>1 DEF Grows, Ready
<1> QED
  BY <1>2, <1>3, <1>4

\* One node: nothing moves, or the node is no longer pending.
LEMMA OneGrows ==
  ASSUME plan \in Plans, NEW s \in RunStates, NEW n \in Nodes,
         NEW u \in {SkipOne(s, n), OverrideOne(s, n)}
  PROVE  Grows(s, u) /\ (u = s \/ (n \in Pending(s) /\ n \notin Pending(u)))
<1>1. CASE u = s
  BY <1>1 DEF Grows
<1>2. CASE u # s
  <2>1. /\ n \in Pending(s) /\ u \in RunStates
        /\ u.result[n] \in {"ok", "skipped"} /\ u.stop = s.stop
        /\ \A m \in Nodes \ {n} : u.result[m] = s.result[m] /\ u.excused[m] = s.excused[m]
    BY <1>2, ResolveOne
  <2>2. s.result[n] = "none" /\ n \notin Pending(u)
    BY <2>1 DEF Pending
  <2> QED
    BY <2>1, <2>2 DEF Grows
<1> QED
  BY <1>1, <1>2

\* A pass moves nothing, or it takes a node from those pending.
LEMMA PassGrows ==
  ASSUME plan \in Plans, NEW s \in RunStates,
         NEW u \in {SkipPass(s), OverridePass(s), SettlePass(s)}
  PROVE  Grows(s, u) /\ (u = s \/ Pending(u) # Pending(s))
<1> DEFINE X(r) == {v \in RunStates : Grows(r, v) /\ (v = r \/ Pending(v) # Pending(r))}
<1>1. ASSUME NEW r \in RunStates PROVE r \in X(r)
  BY DEF Grows
<1>2. ASSUME NEW r \in RunStates, NEW v \in X(r), NEW n \in Nodes,
             NEW w \in {SkipOne(v, n), OverrideOne(v, n)}
      PROVE  w \in X(r)
  <2>1. Grows(v, w) /\ (w = v \/ (n \in Pending(v) /\ n \notin Pending(w)))
    BY <1>2, OneGrows
  <2>2. Grows(r, w)
    BY <1>2, <2>1 DEF Grows
  <2>3. Pending(v) \subseteq Pending(r) /\ Pending(w) \subseteq Pending(v)
    BY <1>2, <2>1, GrowthFacts
  <2>4. w = r \/ Pending(w) # Pending(r)
    BY <1>2, <2>1, <2>3
  <2> QED
    BY <2>2, <2>4 DEF Grows
<1> HIDE DEF X
<1>3. \A r \in RunStates : SkipPass(r) \in X(r) /\ OverridePass(r) \in X(r)
  BY <1>1, <1>2, SkipPassStays, OverridePassStays
<1>4. SettlePass(s) \in {SkipPass(s), OverridePass(s)}
  BY DEF SettlePass
<1>5. u \in X(s)
  BY <1>3, <1>4
<1> QED
  BY <1>5 DEF X

\* A pass over the nodes reaches every node it can resolve.
LEMMA SkipPassReaches ==
  ASSUME plan \in Plans, NEW s \in RunStates, NEW n \in Pending(s), Blockers(s, n) # {}
  PROVE  n \notin Pending(SkipPass(s))
<1>1. \A r \in RunStates : \A m \in Nodes : SkipOne(r, m) \in RunStates
  BY OneGrows DEF Grows
<1>2. PICK g : /\ g[0] = s /\ SkipPass(s) = g[NNodes]
               /\ \A k \in 1..NNodes : g[k] = SkipOne(g[k - 1], k)
  BY <1>1, SkipPassRuns
<1> DEFINE S == {k \in 0..NNodes : Grows(s, g[k]) /\ (n =< k => n \notin Pending(g[k]))}
<1>3. n \in Nodes /\ n \in 1..NNodes /\ NNodes \in Nat
  BY BoundsAssumption DEF Pending, In, Nodes
<1>4. 0 \in S
  BY <1>2, <1>3 DEF Grows
<1>5. ASSUME NEW k \in 1..NNodes, k - 1 \in S PROVE k \in S
  <2>1. Grows(s, g[k - 1]) /\ g[k - 1] \in RunStates /\ k \in Nodes
    BY <1>5 DEF Grows, Nodes
  <2>2. g[k] = SkipOne(g[k - 1], k) /\ Grows(g[k - 1], g[k])
    BY <1>2, <2>1, OneGrows
  <2>3. Grows(s, g[k])
    BY <2>1, <2>2 DEF Grows
  <2>4. CASE n = k
    <3>1. Blockers(g[k - 1], n) # {}
      BY <1>3, <2>1, GrowthFacts
    <3>2. CASE n \in Pending(g[k - 1])
      <4>1. g[k].result[n] = "skipped"
        BY <1>3, <2>1, <2>2, <2>4, <3>1, <3>2 DEF SkipOne, Resolve, RunStates
      <4> QED
        BY <2>3, <2>4, <4>1 DEF Pending
    <3>3. CASE n \notin Pending(g[k - 1])
      BY <1>3, <2>1, <2>2, <2>3, <3>3, GrowthFacts
    <3> QED
      BY <3>2, <3>3
  <2>5. CASE n # k
    <3>1. n =< k => n =< k - 1
      BY <1>3, <2>5
    <3>2. Pending(g[k]) \subseteq Pending(g[k - 1])
      BY <2>1, <2>2, GrowthFacts
    <3> QED
      BY <1>5, <2>3, <3>1, <3>2
  <2> QED
    BY <2>4, <2>5
<1> HIDE DEF S
<1>6. 0..NNodes \subseteq S
  BY <1>3, <1>4, <1>5, UpToInduction
<1>7. NNodes \in S /\ n =< NNodes
  BY <1>3, <1>6
<1> QED
  BY <1>2, <1>7 DEF S

LEMMA OverridePassReaches ==
  ASSUME plan \in Plans, NEW s \in RunStates, NEW n \in Pending(s),
         Ready(s, n), plan.override[n] # "none"
  PROVE  n \notin Pending(OverridePass(s))
<1>1. \A r \in RunStates : \A m \in Nodes : OverrideOne(r, m) \in RunStates
  BY OneGrows DEF Grows
<1>2. PICK g : /\ g[0] = s /\ OverridePass(s) = g[NNodes]
               /\ \A k \in 1..NNodes : g[k] = OverrideOne(g[k - 1], k)
  BY <1>1, OverridePassRuns
<1> DEFINE S == {k \in 0..NNodes : Grows(s, g[k]) /\ (n =< k => n \notin Pending(g[k]))}
<1>3. n \in Nodes /\ n \in 1..NNodes /\ NNodes \in Nat
  BY BoundsAssumption DEF Pending, In, Nodes
<1>4. 0 \in S
  BY <1>2, <1>3 DEF Grows
<1>5. ASSUME NEW k \in 1..NNodes, k - 1 \in S PROVE k \in S
  <2>1. Grows(s, g[k - 1]) /\ g[k - 1] \in RunStates /\ k \in Nodes
    BY <1>5 DEF Grows, Nodes
  <2>2. g[k] = OverrideOne(g[k - 1], k) /\ Grows(g[k - 1], g[k])
    BY <1>2, <2>1, OneGrows
  <2>3. Grows(s, g[k])
    BY <2>1, <2>2 DEF Grows
  <2>4. CASE n = k
    <3>1. Ready(g[k - 1], n)
      BY <1>3, <2>1, GrowthFacts
    <3>2. CASE n \in Pending(g[k - 1])
      <4>1. g[k].result[n] = plan.override[n]
        BY <1>3, <2>1, <2>2, <2>4, <3>1, <3>2 DEF OverrideOne, Resolve, RunStates
      <4> QED
        BY <2>3, <2>4, <4>1 DEF Pending
    <3>3. CASE n \notin Pending(g[k - 1])
      BY <1>3, <2>1, <2>2, <2>3, <3>3, GrowthFacts
    <3> QED
      BY <3>2, <3>3
  <2>5. CASE n # k
    <3>1. n =< k => n =< k - 1
      BY <1>3, <2>5
    <3>2. Pending(g[k]) \subseteq Pending(g[k - 1])
      BY <2>1, <2>2, GrowthFacts
    <3> QED
      BY <1>5, <2>3, <3>1, <3>2
  <2> QED
    BY <2>4, <2>5
<1> HIDE DEF S
<1>6. 0..NNodes \subseteq S
  BY <1>3, <1>4, <1>5, UpToInduction
<1>7. NNodes \in S /\ n =< NNodes
  BY <1>3, <1>6
<1> QED
  BY <1>2, <1>7 DEF S

\* A step that resolves a node whenever it moves stops moving within NNodes steps.
LEMMA FixpointReached ==
  ASSUME NEW F \in [RunStates -> RunStates],
         \A s \in RunStates :
           F[s] = s \/ (Pending(F[s]) \subseteq Pending(s) /\ Pending(F[s]) # Pending(s)),
         NEW g, g[0] \in RunStates, \A k \in 1..NNodes : g[k] = F[g[k - 1]]
  PROVE  g[NNodes] \in RunStates /\ F[g[NNodes]] = g[NNodes]
<1> DEFINE C(k) == Cardinality(Pending(g[k]))
           S == {k \in 0..NNodes : /\ g[k] \in RunStates
                                   /\ F[g[k]] = g[k] \/ C(k) + k =< NNodes}
<1>1. NNodes \in Nat /\ IsFiniteSet(Nodes) /\ Cardinality(Nodes) = NNodes
  BY BoundsAssumption, FS_Interval DEF Nodes
<1>2. \A s : /\ IsFiniteSet(Pending(s)) /\ Cardinality(Pending(s)) \in Nat
             /\ Cardinality(Pending(s)) =< NNodes
  <2>1. \A s : Pending(s) \in SUBSET Nodes
    BY DEF Pending, In
  <2>2. \A s : IsFiniteSet(Pending(s)) /\ Cardinality(Pending(s)) =< NNodes
    BY <1>1, <2>1, FS_Subset
  <2> QED
    BY <2>2, FS_CardinalityType
<1>3. 0 \in S
  BY <1>1, <1>2
<1>4. ASSUME NEW k \in 1..NNodes, k - 1 \in S PROVE k \in S
  <2>1. g[k - 1] \in RunStates /\ g[k] = F[g[k - 1]] /\ g[k] \in RunStates
    BY <1>4
  <2>2. CASE F[g[k - 1]] = g[k - 1]
    BY <2>1, <2>2
  <2>3. CASE F[g[k - 1]] # g[k - 1]
    <3>1. Pending(g[k]) \in SUBSET Pending(g[k - 1]) /\ Pending(g[k]) # Pending(g[k - 1])
      BY <2>1, <2>3
    <3>2. C(k) =< C(k - 1) /\ C(k) # C(k - 1)
      BY <1>2, <3>1, FS_Subset
    <3>3. C(k - 1) + (k - 1) =< NNodes
      BY <1>4, <2>3
    <3>4. C(k) \in Nat /\ C(k - 1) \in Nat
      BY <1>2
    <3> HIDE DEF C
    <3>5. C(k) + k =< NNodes
      BY <1>1, <3>2, <3>3, <3>4
    <3> QED
      BY <2>1, <3>5
  <2> QED
    BY <2>2, <2>3
<1>5. 0..NNodes \subseteq S
  <2> HIDE DEF S
  <2> QED
    BY <1>1, <1>3, <1>4, UpToInduction
<1>6. g[NNodes] \in RunStates /\ (F[g[NNodes]] = g[NNodes] \/ C(NNodes) + NNodes =< NNodes)
  BY <1>1, <1>5
<1>7. CASE C(NNodes) + NNodes =< NNodes
  <2>1. C(NNodes) = 0
    BY <1>1, <1>2, <1>7
  <2>2. Pending(g[NNodes]) = {}
    BY <1>2, <2>1, FS_EmptySet
  <2> QED
    BY <1>6, <2>2
<1> QED
  BY <1>6, <1>7

\* The passes stop moving within the bound the definitions give them.
LEMMA PassesEnd ==
  ASSUME plan \in Plans, NEW rs \in RunStates
  PROVE  /\ ResolveSkips(rs) \in RunStates /\ SkipPass(ResolveSkips(rs)) = ResolveSkips(rs)
         /\ Settle(rs) \in RunStates /\ SettlePass(Settle(rs)) = Settle(rs)
<1>1. \A s \in RunStates : \A u \in {SkipPass(s), SettlePass(s)} :
        /\ u \in RunStates
        /\ u = s \/ (Pending(u) \subseteq Pending(s) /\ Pending(u) # Pending(s))
  <2>1. ASSUME NEW s \in RunStates, NEW u \in {SkipPass(s), SettlePass(s)}
        PROVE  Grows(s, u) /\ (u = s \/ Pending(u) # Pending(s))
    BY <2>1, PassGrows
  <2> QED
    BY <2>1, GrowthFacts DEF Grows
<1>2. ResolveSkips(rs) \in RunStates /\ SkipPass(ResolveSkips(rs)) = ResolveSkips(rs)
  <2> DEFINE F == [s \in RunStates |-> SkipPass(s)]
  <2>1. PICK g : /\ g[0] = rs /\ ResolveSkips(rs) = g[NNodes]
                 /\ \A k \in 1..NNodes : g[k] = SkipPass(g[k - 1])
    BY <1>1, ResolveSkipsRuns
  <2>2. \A k \in 0..NNodes : g[k] \in RunStates
    BY <1>1, <2>1, BoundsAssumption, IterationStays
  <2>3. \A k \in 1..NNodes : g[k] = F[g[k - 1]]
    BY <2>1, <2>2, BoundsAssumption
  <2>4. F \in [RunStates -> RunStates] /\ \A s \in RunStates : F[s] = SkipPass(s)
    BY <1>1
  <2> HIDE DEF F
  <2>5. g[NNodes] \in RunStates /\ F[g[NNodes]] = g[NNodes]
    BY <1>1, <2>1, <2>3, <2>4, FixpointReached
  <2> QED
    BY <2>1, <2>4, <2>5
<1>3. Settle(rs) \in RunStates /\ SettlePass(Settle(rs)) = Settle(rs)
  <2> DEFINE F == [s \in RunStates |-> SettlePass(s)]
  <2>1. PICK g : /\ g[0] = rs /\ Settle(rs) = g[NNodes]
                 /\ \A k \in 1..NNodes : g[k] = SettlePass(g[k - 1])
    BY <1>1, SettleRuns
  <2>2. \A k \in 0..NNodes : g[k] \in RunStates
    BY <1>1, <2>1, BoundsAssumption, IterationStays
  <2>3. \A k \in 1..NNodes : g[k] = F[g[k - 1]]
    BY <2>1, <2>2, BoundsAssumption
  <2>4. F \in [RunStates -> RunStates] /\ \A s \in RunStates : F[s] = SettlePass(s)
    BY <1>1
  <2> HIDE DEF F
  <2>5. g[NNodes] \in RunStates /\ F[g[NNodes]] = g[NNodes]
    BY <1>1, <2>1, <2>3, <2>4, FixpointReached
  <2> QED
    BY <2>1, <2>4, <2>5
<1> QED
  BY <1>2, <1>3

\* "Resolve everything that resolves without dispatching" (RunState.settle): no pending node
\* is blocked by what settle leaves, and unless the run is stopped none that is ready has an
\* override. The bounded iterations of the model therefore compute what the loops do.
THEOREM SettleIsComplete ==
  ASSUME plan \in Plans, NEW rs \in RunStates, NEW n \in Pending(Settle(rs))
  PROVE  /\ Blockers(Settle(rs), n) = {}
         /\ ~rs.stop /\ Ready(Settle(rs), n) => plan.override[n] = "none"
<1> DEFINE s == Settle(rs)
<1>1. s \in RunStates /\ SettlePass(s) = s
  BY PassesEnd
<1>2. s.stop = rs.stop
  <2> DEFINE X == {u \in RunStates : u.stop = rs.stop}
  <2>1. \A u \in X : \A m \in Nodes : SkipOne(u, m) \in X /\ OverrideOne(u, m) \in X
    BY OneGrows DEF Grows
  <2>2. rs \in X
    OBVIOUS
  <2> HIDE DEF X
  <2>3. Settle(rs) \in X
    BY <2>1, <2>2, SettleStays
  <2> QED
    BY <2>3 DEF X
<1> HIDE DEF s
<1>3. SkipPass(s) = s /\ (~s.stop => OverridePass(s) = s)
  BY <1>1 DEF SettlePass
<1>4. n \in Pending(s)
  BY DEF s
<1>5. Blockers(s, n) = {}
  BY <1>1, <1>3, <1>4, SkipPassReaches
<1>6. ASSUME ~s.stop, Ready(s, n), plan.override[n] # "none" PROVE FALSE
  BY <1>1, <1>3, <1>4, <1>6, OverridePassReaches
<1> QED
  BY <1>2, <1>5, <1>6 DEF s

-----------------------------------------------------------------------------
(* The kinds of steps an execution takes.                                  *)

\* A runner takes a turn, from the run state in which what ended is recorded.
Turning(rs) ==
  /\ ~nudged /\ outcome = "none"
  /\ \/ mode = "idle" /\ rs = RunState
     \/ mode = "running" /\ rs = Record(RunState)

Dispatches(rs) ==
  /\ Install(Settle(rs)) /\ mode' = "running"
  /\ task' = [n \in Nodes |-> IF n \in TakeReady(Settle(rs)) THEN "created" ELSE task[n]]
  /\ UNCHANGED <<plan, call, told, held, lapsed, interruption, aborted, cancelVars>> /\ Stay

MainEnds(rs) ==
  /\ cur = 0 /\ Live = {} /\ TakeReady(Settle(rs)) = {}
  /\ GoOn(0, Finished(rs), aborted, cleaned, late)
  /\ UNCHANGED <<plan, nodeVars, aborted, cancelVars>>

\* The main graph has been cancelled, and none of its nodes is alive.
MainStopped ==
  /\ cur = 0 /\ Live = {} /\ outcome = "none" /\ UNCHANGED <<plan, nodeVars>>
  /\ \/ mode = "draining" /\ UNCHANGED cancelVars
     \/ mode \in {"running", "draining"} /\ \E kind \in Kinds : Arrive(kind)

MainAborts ==
  MainStopped /\ ~hard' /\ aborted' = TRUE /\ GoOn(0, Drained, TRUE, cleaned, late)

MainRaises == MainStopped /\ hard' /\ Raise(Drained) /\ UNCHANGED aborted

\* The runner of a cleanup graph returns its report.
RunnerReturns(rs) ==
  /\ cur # 0 /\ mode \in {"idle", "running", "draining"} /\ Live = {} /\ outcome = "none"
  /\ mode' = "over" /\ Install(rs) /\ nudged' \in {nudged, FALSE}
  /\ UNCHANGED <<plan, nodeVars, cur, stopping, overran, aborted, cleaned, late, outcome,
                 cancelVars>>

Drains ==
  /\ mode \in {"running", "draining"} /\ outcome = "none" /\ mode' = "draining" /\ TellAll
  /\ \/ cur = 0 /\ UNCHANGED nudged /\ \E kind \in Kinds : Arrive(kind)
     \/ cur # 0 /\ nudged' = FALSE /\ UNCHANGED cancelVars
  /\ UNCHANGED <<plan, graphVars, task, call, held, lapsed, interruption, cur, stopping, overran,
                 aborted, cleaned, late, outcome>>

\* _bounded learns that it is to end the cleanup.
Nudges ==
  /\ cur # 0 /\ mode # "over" /\ outcome = "none" /\ nudged' = TRUE
  /\ \/ stopping' = TRUE /\ UNCHANGED overran /\ \E kind \in Kinds : Arrive(kind)
     \/ overran' = TRUE /\ UNCHANGED <<stopping, cancelVars>>
  /\ UNCHANGED <<plan, graphVars, nodeVars, cur, mode, aborted, cleaned, late, outcome>>

\* The report of a cleanup graph is stored, and the run goes on or is cut short.
CleanupEnds(cancelled) ==
  /\ cur # 0 /\ mode = "over" /\ outcome = "none"
  /\ \/ cancelled = stopping /\ UNCHANGED cancelVars
     \/ cancelled = TRUE /\ \E kind \in Kinds : Arrive(kind)
  /\ EndCleanup(hard', cancelled)

\* A turn dispatches, or the runner is through.
LEMMA TurnKinds ==
  ASSUME TypeOK, Over, NEW rs, Turning(rs), Turn(rs),
         UNCHANGED <<plan, call, told, held, lapsed, interruption, cancelVars>>
  PROVE  Dispatches(rs) \/ MainEnds(rs) \/ RunnerReturns(Finished(rs))
<1> DEFINE s == Settle(rs)
<1>1. /\ task' = [n \in Nodes |-> IF n \in TakeReady(s) THEN "created" ELSE task[n]]
      /\ \/ /\ mode' = "running" /\ Install(s) /\ Stay /\ UNCHANGED aborted
         \/ /\ Live \cup TakeReady(s) = {}
            /\ Report(CancelPending(ResolveSkips(s)), aborted)
  BY Zenon DEF Turn
<1>2. CASE mode' = "running" /\ Install(s) /\ Stay /\ UNCHANGED aborted
  BY <1>1, <1>2 DEF Dispatches
<1>3. CASE Live \cup TakeReady(s) = {} /\ Report(Finished(rs), aborted)
  <2>1. task' = task
    BY <1>1, <1>3 DEF TypeOK
  <2>2. \/ cur = 0 /\ aborted' = aborted /\ GoOn(0, Finished(rs), aborted, cleaned, late)
        \/ cur # 0 /\ mode' = "over" /\ Install(Finished(rs)) /\ Stay /\ UNCHANGED aborted
    BY <1>3 DEF Report
  <2> QED
    BY <1>3, <2>1, <2>2 DEF MainEnds, RunnerReturns, Turning, nodeVars, Stay, boundVars
<1> QED
  BY <1>1, <1>2, <1>3 DEF Finished

\* Every step of the specification is of one of these kinds.
LEMMA StepKinds ==
  ASSUME WorkflowInv, Next
  PROVE  \/ \E rs \in {RunState, Record(RunState)} :
              Turning(rs) /\ (Dispatches(rs) \/ MainEnds(rs) \/ RunnerReturns(Finished(rs)))
         \/ MainAborts \/ MainRaises
         \/ RunnerReturns(RunState) \/ RunnerReturns(Drained)
         \/ Drains \/ Nudges
         \/ \E cancelled \in BOOLEAN : CleanupEnds(cancelled)
         \/ \E n \in Nodes : NodeStep(n)
<1> USE DEF WorkflowInv
<1>1. CASE RunnerStarts
  <2>1. Turning(RunState) /\ Turn(RunState)
    BY <1>1, Zenon DEF RunnerStarts, Turning
  <2> QED
    BY <1>1, <2>1, TurnKinds DEF RunnerStarts
<1>2. CASE RunnerWakes
  <2>1. outcome = "none"
    BY <1>2 DEF RunnerWakes, Over
  <2>2. Turning(Record(RunState)) /\ Turn(Record(RunState))
    BY <1>2, <2>1, Zenon DEF RunnerWakes, Turning
  <2> QED
    BY <1>2, <2>2, TurnKinds DEF RunnerWakes
<1>3. ASSUME EndMain(hard'), MainStopped PROVE MainAborts \/ MainRaises
  BY <1>3 DEF EndMain, MainStopped, MainAborts, MainRaises, Report, TypeOK
<1>4. CASE MainDrains
  <2>1. MainStopped /\ EndMain(hard')
    BY <1>4 DEF MainDrains, MainStopped, cancelVars, Over
  <2> QED
    BY <1>3, <2>1
<1>5. CASE CleanupRunnerCancelled
  <2>1. cur # 0
    BY <1>5 DEF CleanupRunnerCancelled, MainUnbounded
  <2>2. outcome = "none"
    BY <1>5 DEF CleanupRunnerCancelled, Over
  <2>3. CASE mode = "idle" /\ mode' = "over" /\ UNCHANGED <<graphVars, told>>
    <3>1. Live = {}
      BY <2>3 DEF Alive
    <3>2. Install(RunState)
      BY <2>3 DEF Install, RunState, graphVars
    <3> QED
      BY <1>5, <2>1, <2>2, <2>3, <3>1, <3>2 DEF CleanupRunnerCancelled, RunnerReturns, nodeVars
  <2>4. CASE mode # "idle" /\ mode' = "draining" /\ TellAll /\ UNCHANGED graphVars
    BY <1>5, <2>1, <2>2, <2>4 DEF CleanupRunnerCancelled, Drains
  <2>5. CASE mode # "idle" /\ Live = {} /\ mode' = "over" /\ Install(Drained) /\ UNCHANGED told
    BY <1>5, <2>1, <2>2, <2>5 DEF CleanupRunnerCancelled, RunnerReturns, nodeVars
  <2> QED
    BY <1>5, <2>3, <2>4, <2>5 DEF CleanupRunnerCancelled
<1>6. CASE CleanupDrains
  <2>1. cur # 0 /\ mode' = "over" /\ Install(Drained) /\ Stay /\ UNCHANGED aborted
    BY <1>6 DEF CleanupDrains, Report
  <2>2. outcome = "none"
    BY <1>6 DEF CleanupDrains, Over
  <2> QED
    BY <1>6, <2>1, <2>2 DEF CleanupDrains, RunnerReturns, Stay, boundVars
<1>7. CASE CleanupReturns
  <2>1. CleanupEnds(stopping) /\ stopping \in BOOLEAN
    BY <1>7 DEF CleanupReturns, CleanupEnds, cancelVars, TypeOK
  <2> QED
    BY <2>1
<1>8. CASE CleanupExpires
  BY <1>8 DEF CleanupExpires, Nudges
<1>9. ASSUME NEW kind \in Kinds, CancelMain(kind)
      PROVE  Drains \/ MainAborts \/ MainRaises
  <2>1. cur = 0 /\ mode \in {"running", "draining"} /\ outcome = "none"
    BY <1>9 DEF CancelMain, Arrive
  <2>2. CASE mode' = "draining" /\ TellAll /\ UNCHANGED <<graphVars, aborted>> /\ Stay
    BY <1>9, <2>1, <2>2 DEF CancelMain, Drains, Stay, boundVars
  <2>3. CASE Live = {} /\ EndMain(hard') /\ UNCHANGED told
    <3>1. MainStopped
      BY <1>9, <2>1, <2>3 DEF CancelMain, MainStopped, nodeVars
    <3> QED
      BY <1>3, <2>3, <3>1
  <2> QED
    BY <1>9, <2>2, <2>3 DEF CancelMain
<1>10. ASSUME NEW kind \in Kinds, CancelCleanup(kind)
       PROVE  Nudges \/ CleanupEnds(TRUE)
  <2>1. cur # 0 /\ outcome = "none" /\ Arrive(kind)
    BY <1>10 DEF CancelCleanup, Arrive
  <2>2. CASE mode = "over" /\ EndCleanup(hard', TRUE)
    BY <2>1, <2>2 DEF CleanupEnds
  <2>3. CASE mode # "over"
    BY <1>10, <2>1, <2>3 DEF CancelCleanup, Nudges
  <2> QED
    BY <1>10, <2>2, <2>3 DEF CancelCleanup
<1> QED
  BY <1>1, <1>2, <1>4, <1>5, <1>6, <1>7, <1>8, <1>9, <1>10 DEF Next, ExecutorStep

-----------------------------------------------------------------------------
(* Facts the kinds of steps share.                                         *)

\* A cancellation that arrives is counted, and remembered if it was declined.
LEMMA ArriveFacts ==
  ASSUME TypeOK, Counted, NEW kind \in Kinds, Arrive(kind)
  PROVE  /\ hard' \in BOOLEAN /\ cancels' \in 0..MaxCancels /\ arrived' \subseteq Kinds
         /\ Counted' /\ arrived' # {} /\ outcome = "none"
<1>1. hard' = (hard \/ kind = "hard") /\ arrived' = arrived \cup {kind}
  BY DEF Arrive
<1>2. hard' \in BOOLEAN /\ arrived' \subseteq Kinds /\ arrived' # {}
  BY <1>1 DEF TypeOK
<1>3. cancels' \in 0..MaxCancels /\ cancels' # 0 /\ outcome = "none"
  BY BoundsAssumption DEF TypeOK, Arrive
<1>4. hard' <=> "hard" \in arrived'
  BY <1>1, Zenon DEF Counted
<1> QED
  BY <1>2, <1>3, <1>4 DEF Counted

\* What the executor concludes, and when it calls the run completed.
LEMMA ConclusionFacts ==
  ASSUME NEW rs, NEW ab \in BOOLEAN, NEW done, NEW overdue
  PROVE  /\ Conclusion(rs, ab, done, overdue) \in {"completed", "aborted", "error"}
         /\ Conclusion(rs, ab, done, overdue) = "completed" => ~ab /\ Failures(rs, 0) = {}
  BY DEF Conclusion

\* Where the executor goes from graph g.
LEMMA GoOnCases ==
  ASSUME NEW g \in Graphs, NEW rs \in RunStates, NEW ab, NEW done, NEW overdue,
         GoOn(g, rs, ab, done, overdue)
  PROVE  /\ cleaned' = done /\ late' = overdue
         /\ nudged' = FALSE /\ stopping' = FALSE /\ overran' = FALSE
         /\ result' = rs.result /\ excused' = rs.excused /\ stop' \in {FALSE, rs.stop}
         /\ \/ /\ cur' \in Cleanups /\ g < cur' /\ Eligible(cur', rs, ab)
               /\ \A k \in Cleanups : g < k /\ Eligible(k, rs, ab) => cur' =< k
               /\ mode' = "idle" /\ outcome' = outcome
            \/ /\ \A k \in Cleanups : g < k => ~Eligible(k, rs, ab)
               /\ cur' = cur /\ mode' = "over"
               /\ outcome' = Conclusion(rs, ab, done, overdue)
<1> DEFINE next == {k \in Cleanups : k > g /\ Eligible(k, rs, ab)}
<1>1. /\ cleaned' = done /\ late' = overdue
      /\ nudged' = FALSE /\ stopping' = FALSE /\ overran' = FALSE
      /\ \/ /\ next # {}
            /\ cur' = CHOOSE k \in next : \A j \in next : k =< j
            /\ mode' = "idle" /\ outcome' = outcome
            /\ Install([rs EXCEPT !.stop = FALSE])
         \/ /\ next = {}
            /\ cur' = cur /\ mode' = "over"
            /\ outcome' = Conclusion(rs, ab, done, overdue)
            /\ Install(rs)
  BY Zenon DEF GoOn
<1>2. ASSUME next # {}, cur' = CHOOSE k \in next : \A j \in next : k =< j
      PROVE  cur' \in next /\ \A j \in next : cur' =< j
  <2>1. next \in SUBSET (0..NCleanups) /\ NCleanups \in Nat
    BY BoundsAssumption DEF Cleanups
  <2>2. \E k \in next : \A j \in next : k =< j
    BY <1>2, <2>1, LeastMember
  <2> QED
    BY <1>2, <2>2
<1>3. \A k \in Cleanups : k > g <=> g < k
  BY BoundsAssumption DEF Cleanups, Graphs
<1>4. CASE next # {} /\ cur' = (CHOOSE k \in next : \A j \in next : k =< j)
             /\ mode' = "idle" /\ outcome' = outcome /\ Install([rs EXCEPT !.stop = FALSE])
  <2>1. result' = rs.result /\ excused' = rs.excused /\ stop' = FALSE
    BY <1>4 DEF Install, RunStates
  <2>2. cur' \in next /\ \A j \in next : cur' =< j
    BY <1>2, <1>4
  <2> QED
    BY <1>1, <1>3, <1>4, <2>1, <2>2
<1>5. CASE next = {} /\ cur' = cur /\ mode' = "over"
             /\ outcome' = Conclusion(rs, ab, done, overdue) /\ Install(rs)
  BY <1>1, <1>3, <1>5 DEF Install
<1> QED
  BY <1>1, <1>4, <1>5

\* The failures and the debts of the main graph are those of the run state installed.
LEMMA InstalledFacts ==
  ASSUME NEW rs \in RunStates, result' = rs.result, excused' = rs.excused,
         plan' = plan, call' = call
  PROVE  /\ Failures(RunState, 0)' = Failures(rs, 0)
         /\ plan \in Plans => Owed' = {k \in Cleanups : Eligible(k, rs, aborted')}
<1>1. Failures(RunState, 0)' = Failures(rs, 0)
  BY DEF Failures, RunState, In
<1>2. ASSUME plan \in Plans, NEW k \in Cleanups
      PROVE  /\ Selected(k, Failures(rs, 0) # {}, aborted') <=>
                  \/ plan.when[k] = "always"
                  \/ /\ plan.when[k] \in {"failure", "failure_or_cancelled"}
                     /\ Failures(rs, 0) # {}
                  \/ plan.when[k] \in {"cancelled", "failure_or_cancelled"} /\ aborted'
             /\ Armed(k) <=> Always \in plan.armed[k] \/ \E n \in plan.armed[k] : call[n] # "none"
  <2>1. plan.when[k] \in Selectors /\ plan.armed[k] \subseteq Nodes \cup {Always}
    BY <1>2, PlanFields
  <2>2. Always \notin Nodes
    BY BoundsAssumption DEF Always, Nodes
  <2> QED
    BY <2>1, <2>2 DEF Selected, Selectors, Armed, Attempted
<1>3. ASSUME plan \in Plans PROVE Owed' = {k \in Cleanups : Eligible(k, rs, aborted')}
  <2>1. \A k \in Cleanups : k \in Owed' <=>
          /\ \/ plan.when[k] = "always"
             \/ /\ plan.when[k] \in {"failure", "failure_or_cancelled"}
                /\ Failures(rs, 0) # {}
             \/ plan.when[k] \in {"cancelled", "failure_or_cancelled"} /\ aborted'
          /\ Always \in plan.armed[k] \/ \E n \in plan.armed[k] : call[n] # "none"
    BY <1>1 DEF Owed
  <2>2. Owed' \subseteq Cleanups
    BY DEF Owed
  <2>3. \A k \in Cleanups : k \in Owed' <=> Eligible(k, rs, aborted')
    BY <1>2, <1>3, <2>1 DEF Eligible
  <2> QED
    BY <2>2, <2>3
<1> QED
  BY <1>1, <1>3

\* While cleanup graphs run, what the main graph did and owes does not change.
LEMMA MainKept ==
  ASSUME TypeOK, cur # 0, NEW rs, Sound(rs), result' = rs.result, excused' = rs.excused,
         plan' = plan, aborted' = aborted,
         \A n \in In(0) : call'[n] = "none" <=> call[n] = "none"
  PROVE  /\ Failures(RunState, 0)' = Failures(RunState, 0)
         /\ Owed' = Owed
         /\ (RequiredDone \/ StoppedByOptional) => (RequiredDone \/ StoppedByOptional)'
<1>1. \A n \in In(0) : n \in Nodes /\ result'[n] = result[n] /\ excused'[n] = excused[n]
  BY DEF Sound, In
<1>2. In(0)' = In(0)
  BY DEF In
<1>3. Failures(RunState, 0)' = Failures(RunState, 0)
  BY <1>1, <1>2 DEF Failures, RunState
<1>4. \A k \in Cleanups : \A n \in plan.armed[k] :
        n = Always \/ (call'[n] = "none" <=> call[n] = "none")
  <2>1. plan \in Plans
    BY DEF TypeOK
  <2>2. \A k \in Cleanups : \A n \in plan.armed[k] \ {Always} : n \in In(0)
    BY <2>1, PlanFacts, PlanFields DEF In
  <2> QED
    BY <2>2
<1>5. Owed' = Owed
  BY <1>3, <1>4 DEF Owed
<1>6. (RequiredDone \/ StoppedByOptional) => (RequiredDone \/ StoppedByOptional)'
  BY <1>1, <1>2 DEF RequiredDone, StoppedByOptional
<1> QED
  BY <1>3, <1>5, <1>6

\* What the main graph did and what is owed stands while the current graph is at work.
LEMMA Meanwhile ==
  ASSUME WorkflowInv, NEW rs, Sound(rs), result' = rs.result, excused' = rs.excused,
         UNCHANGED <<plan, aborted, cur, outcome, cleaned>>, outcome = "none",
         cur # 0 => \A n \in In(0) : call'[n] = "none" <=> call[n] = "none"
  PROVE  /\ ExcusesAreOverrides' /\ MainWhole' /\ CompletedIsClean' /\ InOrder' /\ CleanupOwed'
         /\ HardIsFinal'
<1> USE DEF WorkflowInv
<1>1. ExcusesAreOverrides'
  BY DEF ExcusesAreOverrides, Sound
<1>2. CompletedIsClean' /\ HardIsFinal'
  BY DEF CompletedIsClean, HardIsFinal
<1>3. CASE cur = 0
  <2>1. MainWhole' /\ InOrder'
    BY <1>3 DEF MainWhole, InOrder
  <2>2. CleanupOwed'
    BY <1>3 DEF CleanupOwed, MainUnbounded
  <2> QED
    BY <1>1, <1>2, <2>1, <2>2
<1>4. CASE cur # 0
  <2>1. /\ Failures(RunState, 0)' = Failures(RunState, 0) /\ Owed' = Owed
        /\ (RequiredDone \/ StoppedByOptional) => (RequiredDone \/ StoppedByOptional)'
    BY <1>4, MainKept
  <2>2. MainWhole'
    BY <1>4, <2>1 DEF MainWhole
  <2>3. CleanupOwed'
    BY <2>1 DEF CleanupOwed
  <2>4. InOrder'
    <3>1. cleaned = {k \in Owed : k < cur} /\ cur \in Owed
      BY <1>4 DEF InOrder
    <3>2. {k \in Owed : k < cur}' = {k \in Owed : k < cur}
      BY <2>1
    <3> QED
      BY <2>1, <3>1, <3>2 DEF InOrder
  <2> QED
    BY <1>1, <1>2, <2>2, <2>3, <2>4
<1> QED
  BY <1>1, <1>2, <1>3, <1>4

\* A turn that dispatches what is ready keeps the invariant.
LEMMA DispatchesKeeps ==
  ASSUME WorkflowInv, NEW rs \in {RunState, Record(RunState)}, Turning(rs), Dispatches(rs)
  PROVE  WorkflowInv'
<1> DEFINE s == Settle(rs)
           ready == TakeReady(s)
<1> USE DEF WorkflowInv
<1>1. /\ Sound(s) /\ Sound(rs)
      /\ mode \in {"idle", "running"} /\ ~nudged /\ outcome = "none"
  BY InstalledSound, RecordKeeps DEF Turning
<1>2. /\ result' = s.result /\ excused' = s.excused /\ stop' = s.stop /\ mode' = "running"
      /\ task' = [n \in Nodes |-> IF n \in ready THEN "created" ELSE task[n]]
      /\ UNCHANGED <<plan, call, told, held, lapsed, interruption, aborted, hard, cancels, arrived,
                     cur, nudged, stopping, overran, cleaned, late, outcome>>
  BY DEF Dispatches, Install, Stay, boundVars, cancelVars
<1>3. \A n \in ready : n \in Nodes /\ plan.home[n] = cur /\ task[n] = "none"
  BY DEF TakeReady, Pending, In
<1>4. cur = 0 => Healthy(s)
  BY <1>1, MainHealthy, SettleKeeps DEF TypeOK
<1> HIDE DEF s, ready
<1>5. TypeOK'
  BY <1>1, <1>2 DEF TypeOK, Sound, RunStates, LiveTask
<1>6. CallsHaveTasks' /\ DropsHaveCause'
  BY <1>2, <1>3 DEF CallsHaveTasks, DropsHaveCause, TypeOK
<1>7. Alive' /\ Fresh'
  <2>1. ASSUME NEW n \in Nodes, task'[n] # "none" PROVE n \in ready \/ task'[n] = task[n]
    BY <1>2
  <2>2. Fresh'
    BY <1>2, <1>3, <2>1 DEF Fresh
  <2>3. \A n \in Live' : n \in ready \/ n \in Live
    BY <1>2 DEF Live
  <2> QED
    BY <1>2, <1>3, <2>2, <2>3 DEF Alive, Live
<1>8. Over' /\ DrainTold' /\ MainUnbounded'
  BY <1>1, <1>2 DEF Over, DrainTold, MainUnbounded
<1>9. Untouched' /\ StopHasCause'
  <2>1. CASE cur = 0
    BY <1>1, <1>2, <1>4, <2>1 DEF Untouched, StopHasCause, Healthy, In
  <2>2. CASE cur # 0
    BY <1>2, <2>2 DEF Untouched, StopHasCause
  <2> QED
    BY <2>1, <2>2
<1>10. Counted' /\ Acknowledged' /\ Notified'
  BY <1>1, <1>2 DEF Counted, Acknowledged, Notified
<1>11. /\ ExcusesAreOverrides' /\ MainWhole' /\ CompletedIsClean' /\ InOrder' /\ CleanupOwed'
       /\ HardIsFinal'
  BY <1>1, <1>2, Meanwhile
<1> QED
  BY <1>5, <1>6, <1>7, <1>8, <1>9, <1>10, <1>11

\* The report of a cleanup runner keeps the invariant.
LEMMA RunnerReturnsKeeps ==
  ASSUME WorkflowInv, NEW rs, Sound(rs), RunnerReturns(rs)
  PROVE  WorkflowInv'
<1> USE DEF WorkflowInv
<1>1. /\ result' = rs.result /\ excused' = rs.excused /\ stop' = rs.stop /\ mode' = "over"
      /\ cur # 0 /\ Live = {} /\ outcome = "none" /\ nudged' \in {nudged, FALSE}
      /\ UNCHANGED <<plan, task, call, told, held, lapsed, interruption, aborted, hard, cancels,
                     arrived, cur, stopping, overran, cleaned, late, outcome>>
  BY DEF RunnerReturns, Install, nodeVars, cancelVars
<1>2. TypeOK'
  BY <1>1 DEF TypeOK, Sound, RunStates
<1>3. CallsHaveTasks' /\ DropsHaveCause'
  BY <1>1 DEF CallsHaveTasks, DropsHaveCause
<1>4. Alive' /\ Fresh'
  BY <1>1 DEF Alive, Fresh, Live
<1>5. Over' /\ DrainTold' /\ MainUnbounded' /\ Untouched' /\ StopHasCause'
  BY <1>1 DEF Over, DrainTold, MainUnbounded, Untouched, StopHasCause
<1>6. Counted' /\ Acknowledged' /\ Notified'
  BY <1>1 DEF Counted, Acknowledged, Notified
<1>7. /\ ExcusesAreOverrides' /\ MainWhole' /\ CompletedIsClean' /\ InOrder' /\ CleanupOwed'
      /\ HardIsFinal'
  BY <1>1, Meanwhile
<1> QED
  BY <1>2, <1>3, <1>4, <1>5, <1>6, <1>7

\* A drain that begins, or that another cancellation reaches, keeps the invariant.
LEMMA DrainsKeeps ==
  ASSUME WorkflowInv, Drains
  PROVE  WorkflowInv'
<1> USE DEF WorkflowInv
<1>1. /\ mode \in {"running", "draining"} /\ mode' = "draining" /\ outcome = "none"
      /\ told' = [n \in Nodes |-> told[n] \/ n \in Live] /\ nudged' \in {nudged, FALSE}
      /\ cur = 0 => UNCHANGED nudged
      /\ cur # 0 => UNCHANGED <<hard, cancels, arrived>>
      /\ UNCHANGED <<plan, result, excused, stop, task, call, held, lapsed, interruption, aborted,
                     cur, stopping, overran, cleaned, late, outcome>>
  BY DEF Drains, TellAll, graphVars, cancelVars
<1>2. /\ hard' \in BOOLEAN /\ cancels' \in 0..MaxCancels /\ arrived' \subseteq Kinds
      /\ Counted'
  <2>1. CASE \E kind \in Kinds : Arrive(kind)
    BY <2>1, ArriveFacts
  <2>2. CASE UNCHANGED <<hard, cancels, arrived>>
    BY <2>2 DEF TypeOK, Counted
  <2> QED
    BY <2>1, <2>2 DEF Drains, cancelVars
<1>3. told' \in [Nodes -> BOOLEAN]
  BY <1>1, Zenon DEF TypeOK
<1>4. TypeOK'
  BY <1>1, <1>2, <1>3 DEF TypeOK
<1>5. CallsHaveTasks' /\ DropsHaveCause' /\ Alive' /\ Fresh'
  BY <1>1 DEF CallsHaveTasks, DropsHaveCause, Alive, Fresh, Live
<1>6. DrainTold'
  <2>1. \A n \in Nodes : task[n] = "created" => n \in Live
    BY DEF Live, LiveTask
  <2> QED
    BY <1>1, <2>1 DEF DrainTold
<1>7. Over' /\ MainUnbounded' /\ Untouched' /\ StopHasCause' /\ Acknowledged' /\ Notified'
  BY <1>1 DEF Over, MainUnbounded, Untouched, StopHasCause, Acknowledged, Notified
<1>8. Sound(RunState) /\ result' = RunState.result /\ excused' = RunState.excused
  BY <1>1, RecordKeeps DEF RunState
<1>9. /\ ExcusesAreOverrides' /\ MainWhole' /\ CompletedIsClean' /\ InOrder' /\ CleanupOwed'
      /\ HardIsFinal'
  BY <1>1, <1>8, Meanwhile
<1> QED
  BY <1>2, <1>4, <1>5, <1>6, <1>7, <1>9

\* So does telling _bounded to end the cleanup.
LEMMA NudgesKeeps ==
  ASSUME WorkflowInv, Nudges
  PROVE  WorkflowInv'
<1> USE DEF WorkflowInv
<1>1. /\ cur # 0 /\ mode # "over" /\ outcome = "none" /\ nudged' = TRUE
      /\ stopping' \in {stopping, TRUE} /\ overran' \in {overran, TRUE}
      /\ stopping' = TRUE \/ UNCHANGED <<stopping, hard, cancels, arrived>>
      /\ UNCHANGED <<plan, result, excused, stop, task, call, told, held, lapsed, interruption,
                     cur, mode, aborted, cleaned, late, outcome>>
  BY DEF Nudges, graphVars, nodeVars, cancelVars
<1>2. /\ hard' \in BOOLEAN /\ cancels' \in 0..MaxCancels /\ arrived' \subseteq Kinds
      /\ Counted'
  <2>1. CASE \E kind \in Kinds : Arrive(kind)
    BY <2>1, ArriveFacts
  <2>2. CASE UNCHANGED <<hard, cancels, arrived>>
    BY <2>2 DEF TypeOK, Counted
  <2> QED
    BY <2>1, <2>2 DEF Nudges, cancelVars
<1>3. TypeOK'
  BY <1>1, <1>2 DEF TypeOK
<1>4. CallsHaveTasks' /\ DropsHaveCause' /\ Alive' /\ Fresh' /\ DrainTold'
  BY <1>1 DEF CallsHaveTasks, DropsHaveCause, Alive, Fresh, Live, DrainTold
<1>5. Over' /\ MainUnbounded' /\ Untouched' /\ StopHasCause' /\ Acknowledged' /\ Notified'
  BY <1>1 DEF Over, MainUnbounded, Untouched, StopHasCause, Acknowledged, Notified
<1>6. Sound(RunState) /\ result' = RunState.result /\ excused' = RunState.excused
  BY <1>1, RecordKeeps DEF RunState
<1>7. /\ ExcusesAreOverrides' /\ MainWhole' /\ CompletedIsClean' /\ InOrder' /\ CleanupOwed'
      /\ HardIsFinal'
  BY <1>1, <1>6, Meanwhile
<1> QED
  BY <1>2, <1>3, <1>4, <1>5, <1>7

\* A graph that is over leaves the invariant to the next one, or to the outcome.
LEMMA OnwardKeeps ==
  ASSUME WorkflowInv, Live = {}, outcome = "none", UNCHANGED <<plan, nodeVars>>,
         NEW rs, Sound(rs), NEW done \in SUBSET Cleanups, NEW overdue \in SUBSET done,
         NEW ab \in BOOLEAN, aborted' = ab, GoOn(cur, rs, ab, done, overdue),
         hard' = FALSE, cancels' \in 0..MaxCancels, arrived' \subseteq Kinds,
         Counted', arrived' # {} => aborted',
         done = {k \in Owed' : k =< cur},
         ~aborted' /\ Failures(RunState, 0)' = {} => (RequiredDone \/ StoppedByOptional)'
  PROVE  WorkflowInv'
<1> USE DEF WorkflowInv
<1>1. cur \in Graphs /\ rs \in RunStates /\ plan \in Plans
  BY DEF TypeOK, Sound
<1>2. /\ cleaned' = done /\ late' = overdue
      /\ nudged' = FALSE /\ stopping' = FALSE /\ overran' = FALSE
      /\ result' = rs.result /\ excused' = rs.excused /\ stop' \in {FALSE, rs.stop}
      /\ \/ /\ cur' \in Cleanups /\ cur < cur' /\ Eligible(cur', rs, ab)
            /\ \A k \in Cleanups : cur < k /\ Eligible(k, rs, ab) => cur' =< k
            /\ mode' = "idle" /\ outcome' = "none"
         \/ /\ \A k \in Cleanups : cur < k => ~Eligible(k, rs, ab)
            /\ cur' = cur /\ mode' = "over"
            /\ outcome' = Conclusion(rs, ab, done, overdue)
  <2>1. outcome = "none" /\ GoOn(cur, rs, ab, done, overdue)
    OBVIOUS
  <2>2. /\ cleaned' = done /\ late' = overdue
        /\ nudged' = FALSE /\ stopping' = FALSE /\ overran' = FALSE
        /\ result' = rs.result /\ excused' = rs.excused /\ stop' \in {FALSE, rs.stop}
    BY <1>1, <2>1, GoOnCases
  <2>3. \/ /\ cur' \in Cleanups /\ cur < cur' /\ Eligible(cur', rs, ab)
           /\ \A k \in Cleanups : cur < k /\ Eligible(k, rs, ab) => cur' =< k
           /\ mode' = "idle" /\ outcome' = outcome
        \/ /\ \A k \in Cleanups : cur < k => ~Eligible(k, rs, ab)
           /\ cur' = cur /\ mode' = "over"
           /\ outcome' = Conclusion(rs, ab, done, overdue)
    BY <1>1, <2>1, GoOnCases
  <2> QED
    BY <2>1, <2>2, <2>3
<1>3. UNCHANGED <<plan, task, call, told, held, lapsed, interruption>>
  BY DEF nodeVars
<1>4. /\ Failures(RunState, 0)' = Failures(rs, 0)
      /\ Owed' = {k \in Cleanups : Eligible(k, rs, ab)}
  BY <1>1, <1>2, <1>3, InstalledFacts
<1>5. /\ Cleanups \subseteq Graphs /\ Cleanups \subseteq Nat /\ Graphs \subseteq Nat
      /\ 0 \notin Cleanups
  BY BoundsAssumption DEF Cleanups, Graphs
<1>6. mode' = "over" => /\ outcome' \in {"completed", "aborted", "error"}
                        /\ outcome' = "completed" => ~ab /\ Failures(rs, 0) = {}
  BY <1>2, ConclusionFacts
<1>7. TypeOK'
  BY <1>1, <1>2, <1>3, <1>5, <1>6 DEF TypeOK, Sound, RunStates
<1>8. CallsHaveTasks' /\ DropsHaveCause'
  BY <1>3 DEF CallsHaveTasks, DropsHaveCause
<1>9. Alive' /\ DrainTold'
  BY <1>2, <1>3 DEF Alive, Live, DrainTold
<1>10. Fresh'
  <2>1. \A n \in Nodes : plan.home[n] \in Nat
    BY <1>1, <1>5, PlanFields
  <2>2. \A n \in Nodes : task[n] # "none" => plan.home[n] =< cur
    BY <1>1, <1>5, <2>1 DEF Fresh
  <2>3. CASE mode' = "idle"
    <3>1. cur' \in Nat /\ cur \in Nat /\ cur < cur'
      BY <1>1, <1>2, <1>5, <2>3
    <3>2. \A n \in Nodes : task[n] # "none" => plan.home[n] < cur'
      BY <2>1, <2>2, <3>1
    <3> QED
      BY <1>3, <3>2 DEF Fresh
  <2>4. CASE mode' = "over" /\ cur' = cur
    BY <1>3, <2>4 DEF Fresh
  <2> QED
    BY <1>2, <2>3, <2>4
<1>11. Over' /\ Untouched' /\ StopHasCause' /\ Counted' /\ Acknowledged' /\ Notified'
  BY <1>2, <1>5, <1>6 DEF Over, Untouched, StopHasCause, Acknowledged, Notified
<1>12. MainUnbounded'
  <2>1. cur' = 0 => cur = 0
    BY <1>1, <1>2, <1>5
  <2>2. Owed' \subseteq Cleanups /\ \A k \in Cleanups : ~(k =< 0)
    BY <1>4, BoundsAssumption DEF Cleanups
  <2>3. cur' = 0 => done = {} /\ overdue = {}
    BY <2>1, <2>2
  <2> QED
    BY <1>2, <2>3 DEF MainUnbounded
<1>13. HardIsFinal'
  BY <1>2, <1>6 DEF HardIsFinal, Counted
<1>14. ExcusesAreOverrides' /\ MainWhole' /\ CompletedIsClean'
  BY <1>2, <1>4, <1>6 DEF ExcusesAreOverrides, Sound, MainWhole, CompletedIsClean
<1>15. InOrder'
  <2>1. SUFFICES ASSUME mode' = "idle" PROVE InOrder'
    BY <1>2, <1>6 DEF InOrder
  <2>2. cur' \in Owed' /\ \A k \in Owed' : k =< cur <=> k < cur'
    <3>1. /\ cur' \in Cleanups /\ cur < cur' /\ Eligible(cur', rs, ab)
          /\ \A k \in Cleanups : cur < k /\ Eligible(k, rs, ab) => cur' =< k
      BY <1>2, <2>1
    <3>2. cur \in Nat /\ cur' \in Nat /\ \A k \in Cleanups : k \in Nat
      BY <1>1, <1>5, <3>1
    <3>3. \A k \in Owed' : k \in Cleanups /\ Eligible(k, rs, ab)
      BY <1>4
    <3>4. \A k \in Owed' : cur < k => cur' =< k
      BY <3>1, <3>3
    <3> QED
      BY <1>4, <3>1, <3>2, <3>3, <3>4
  <2>3. cleaned' = {k \in Owed' : k < cur'}
    BY <1>2, <2>2
  <2> QED
    BY <2>2, <2>3 DEF InOrder
<1>16. CleanupOwed'
  <2>1. cleaned' \subseteq Owed'
    BY <1>2
  <2>2. ASSUME mode' = "over" PROVE cleaned' = Owed'
    <3>1. \A k \in Owed' : k =< cur
      BY <1>1, <1>2, <1>4, <1>5, <2>2
    <3> QED
      BY <1>2, <3>1
  <2> QED
    BY <1>2, <2>1, <2>2 DEF CleanupOwed
<1> QED
  BY <1>7, <1>8, <1>9, <1>10, <1>11, <1>12, <1>13, <1>14, <1>15, <1>16

\* Before the first cleanup graph nothing is done.
LEMMA NothingDone ==
  ASSUME WorkflowInv, cur = 0, plan' = plan
  PROVE  cleaned = {} /\ late = {} /\ cleaned = {k \in Owed' : k =< cur}
<1>1. \A k \in Cleanups : ~(k =< 0)
  BY BoundsAssumption DEF Cleanups
<1>2. Owed' \subseteq Cleanups
  BY DEF Owed
<1> QED
  BY <1>1, <1>2 DEF WorkflowInv, MainUnbounded

\* A main graph that ends on its own keeps the invariant.
LEMMA MainEndsKeeps ==
  ASSUME WorkflowInv, NEW rs \in {RunState, Record(RunState)}, Turning(rs), MainEnds(rs)
  PROVE  WorkflowInv'
<1> USE DEF WorkflowInv
<1>1. /\ cur = 0 /\ Live = {} /\ outcome = "none" /\ mode \in {"idle", "running"}
      /\ TakeReady(Settle(rs)) = {}
      /\ GoOn(cur, Finished(rs), aborted, cleaned, late)
      /\ UNCHANGED <<plan, nodeVars, aborted, hard, cancels, arrived>>
  BY DEF MainEnds, Turning, cancelVars
<1>2. arrived = {} /\ ~aborted /\ ~hard
  BY <1>1 DEF Untouched, Counted
<1>3. Sound(rs) /\ Sound(Finished(rs)) /\ Healthy(rs)
  BY <1>1, InstalledSound, RecordKeeps, MainHealthy
<1>4. Recorded(rs)
  <2>1. CASE rs = Record(RunState)
    BY <2>1, RecordKeeps
  <2>2. CASE rs = RunState /\ mode = "idle"
    <3>1. \A n \in In(cur) : task[n] = "none"
      <4>1. \A n \in Nodes : ~(plan.home[n] < 0)
        BY BoundsAssumption, PlanFields DEF TypeOK, Graphs
      <4> QED
        BY <1>1, <2>2, <4>1 DEF Fresh, In
    <3> QED
      BY <3>1 DEF Recorded, EndedTask
  <2> QED
    BY <2>1, <2>2 DEF Turning
<1>5. result' = Finished(rs).result /\ excused' = Finished(rs).excused
  <2>1. cur \in Graphs /\ Finished(rs) \in RunStates
    BY <1>3 DEF TypeOK, Sound
  <2> QED
    BY <1>1, <2>1, GoOnCases
<1>6. Failures(RunState, 0)' = Failures(Finished(rs), 0)
  BY <1>1, <1>3, <1>5, InstalledFacts DEF Sound, nodeVars
<1>7. Failures(RunState, 0)' = {} => (RequiredDone \/ StoppedByOptional)'
  BY <1>1, <1>3, <1>4, <1>5, <1>6, FinishedWhole DEF RequiredDone, StoppedByOptional, In
<1>8. cleaned \in SUBSET Cleanups /\ late \in SUBSET cleaned
  BY DEF TypeOK
<1>9. cleaned = {k \in Owed' : k =< cur}
  BY <1>1, NothingDone
<1>10. /\ aborted \in BOOLEAN /\ hard' = FALSE /\ cancels' \in 0..MaxCancels
       /\ arrived' \subseteq Kinds /\ Counted' /\ (arrived' # {} => aborted')
  BY <1>1, <1>2 DEF TypeOK, Counted
<1> QED
  BY <1>1, <1>3, <1>7, <1>8, <1>9, <1>10, OnwardKeeps

\* What a cancellation of the main graph does to the books.
LEMMA MainStoppedFacts ==
  ASSUME WorkflowInv, MainStopped
  PROVE  /\ hard' \in BOOLEAN /\ cancels' \in 0..MaxCancels /\ arrived' \subseteq Kinds /\ Counted'
<1> USE DEF WorkflowInv
<1>1. CASE UNCHANGED <<hard, cancels, arrived>>
  BY <1>1 DEF TypeOK, Counted
<1>2. CASE \E kind \in Kinds : Arrive(kind)
  BY <1>2, ArriveFacts
<1> QED
  BY <1>1, <1>2 DEF MainStopped, cancelVars

\* A main graph that was aborted keeps the invariant, and goes on to its cleanup.
LEMMA MainAbortsKeeps ==
  ASSUME WorkflowInv, MainAborts
  PROVE  WorkflowInv'
<1> USE DEF WorkflowInv
<1>1. /\ cur = 0 /\ Live = {} /\ outcome = "none" /\ UNCHANGED <<plan, nodeVars>>
      /\ ~hard' /\ aborted' = TRUE /\ GoOn(cur, Drained, TRUE, cleaned, late)
  BY DEF MainAborts, MainStopped
<1>2. /\ hard' = FALSE /\ cancels' \in 0..MaxCancels /\ arrived' \subseteq Kinds /\ Counted'
  BY <1>1, MainStoppedFacts DEF MainAborts
<1>3. Sound(Drained)
  BY InstalledSound
<1>4. cleaned \in SUBSET Cleanups /\ late \in SUBSET cleaned
  BY DEF TypeOK
<1>5. cleaned = {k \in Owed' : k =< cur}
  BY <1>1, NothingDone
<1> QED
  BY <1>1, <1>2, <1>3, <1>4, <1>5, OnwardKeeps

\* A main graph whose cancellation was declined keeps the invariant.
LEMMA MainRaisesKeeps ==
  ASSUME WorkflowInv, MainRaises
  PROVE  WorkflowInv'
<1> USE DEF WorkflowInv
<1>1. /\ cur = 0 /\ Live = {} /\ outcome = "none" /\ hard'
      /\ outcome' = "cancelled" /\ mode' = "over"
      /\ result' = Drained.result /\ excused' = Drained.excused /\ stop' = Drained.stop
      /\ UNCHANGED <<plan, task, call, told, held, lapsed, interruption, aborted,
                     cur, nudged, stopping, overran, cleaned, late>>
  BY DEF MainRaises, MainStopped, Raise, Install, nodeVars, boundVars
<1>2. /\ hard' \in BOOLEAN /\ cancels' \in 0..MaxCancels /\ arrived' \subseteq Kinds /\ Counted'
  BY MainStoppedFacts DEF MainRaises
<1>3. Sound(Drained)
  BY InstalledSound
<1>4. TypeOK'
  BY <1>1, <1>2, <1>3 DEF TypeOK, Sound, RunStates
<1>5. CallsHaveTasks' /\ DropsHaveCause'
  BY <1>1 DEF CallsHaveTasks, DropsHaveCause
<1>6. Alive' /\ Fresh' /\ Over' /\ DrainTold'
  BY <1>1 DEF Alive, Fresh, Live, Over, DrainTold
<1>7. MainUnbounded' /\ Untouched' /\ StopHasCause' /\ Acknowledged' /\ Notified'
  BY <1>1 DEF MainUnbounded, Untouched, StopHasCause, Acknowledged, Notified
<1>8. HardIsFinal' /\ ExcusesAreOverrides'
  BY <1>1, <1>2, <1>3 DEF HardIsFinal, Counted, ExcusesAreOverrides, Sound
<1>9. MainWhole' /\ CompletedIsClean' /\ InOrder'
  BY <1>1 DEF MainWhole, CompletedIsClean, InOrder
<1>10. CleanupOwed'
  BY <1>1 DEF CleanupOwed, MainUnbounded
<1> QED
  BY <1>2, <1>4, <1>5, <1>6, <1>7, <1>8, <1>9, <1>10

\* The end of a cleanup graph keeps the invariant.
LEMMA CleanupEndsKeeps ==
  ASSUME WorkflowInv, NEW cancelled \in BOOLEAN, CleanupEnds(cancelled)
  PROVE  WorkflowInv'
<1> DEFINE done == cleaned \cup {cur}
           overdue == IF overran THEN late \cup {cur} ELSE late
<1> USE DEF WorkflowInv
<1>1. /\ cur # 0 /\ mode = "over" /\ outcome = "none" /\ Live = {}
      /\ UNCHANGED <<plan, task, call, told, held, lapsed, interruption, aborted>>
  BY DEF CleanupEnds, EndCleanup, nodeVars, Alive
<1>2. \/ hard' \/ cancelled
      \/ ~hard' /\ ~cancelled /\ ~stopping /\ UNCHANGED <<hard, cancels, arrived>>
  BY DEF CleanupEnds, cancelVars, TypeOK
<1>3. /\ hard' \in BOOLEAN /\ cancels' \in 0..MaxCancels /\ arrived' \subseteq Kinds /\ Counted'
  <2>1. CASE UNCHANGED <<hard, cancels, arrived>>
    BY <2>1 DEF TypeOK, Counted
  <2>2. CASE \E kind \in Kinds : Arrive(kind)
    BY <2>2, ArriveFacts
  <2> QED
    BY <2>1, <2>2 DEF CleanupEnds, cancelVars
<1>4. cur \in Cleanups /\ done \in SUBSET Cleanups /\ overdue \in SUBSET done
  BY <1>1, BoundsAssumption DEF TypeOK, Graphs, Cleanups
<1>5. done = {k \in Owed : k =< cur}
  <2>1. cleaned = {k \in Owed : k < cur} /\ cur \in Owed
    BY <1>1 DEF InOrder
  <2>2. \A k \in Owed : k =< cur <=> k < cur \/ k = cur
    BY <1>4, BoundsAssumption DEF Owed, Cleanups
  <2> QED
    BY <2>1, <2>2
<1>6. Sound(RunState) /\ RunState.result = result /\ RunState.excused = excused
  BY RecordKeeps DEF RunState
<1> HIDE DEF done, overdue
<1>7. CASE ~hard' /\ ~cancelled
  <2>1. GoOn(cur, RunState, aborted, done, overdue)
    BY <1>7, Zenon DEF CleanupEnds, EndCleanup, done, overdue
  <2>2. result' = result /\ excused' = excused
    <3>1. cur \in Graphs /\ RunState \in RunStates
      BY <1>6 DEF TypeOK, Sound
    <3> QED
      BY <2>1, <3>1, <1>6, GoOnCases
  <2>3. /\ Failures(RunState, 0)' = Failures(RunState, 0) /\ Owed' = Owed
        /\ (RequiredDone \/ StoppedByOptional) => (RequiredDone \/ StoppedByOptional)'
    BY <1>1, <1>6, <2>2, MainKept
  <2>4. ~aborted' /\ Failures(RunState, 0)' = {} => (RequiredDone \/ StoppedByOptional)'
    BY <1>1, <2>3 DEF MainWhole
  <2>5. arrived' # {} => aborted'
    BY <1>1, <1>2, <1>7 DEF Acknowledged
  <2>6. done = {k \in Owed' : k =< cur}
    BY <1>5, <2>3
  <2>7. aborted \in BOOLEAN /\ aborted' = aborted /\ UNCHANGED <<plan, nodeVars>> /\ hard' = FALSE
    BY <1>1, <1>3, <1>7 DEF TypeOK, nodeVars
  <2> QED
    BY <1>1, <1>3, <1>4, <1>6, <2>1, <2>4, <2>5, <2>6, <2>7, OnwardKeeps
<1>8. CASE hard' \/ cancelled
  <2>1. /\ outcome' = IF hard' THEN "cancelled" ELSE Conclusion(RunState, TRUE, done, overdue)
        /\ cleaned' = done /\ late' = overdue /\ stopping' = cancelled
        /\ UNCHANGED <<result, excused, stop, cur, mode, nudged, overran>>
    BY <1>8, Zenon DEF CleanupEnds, EndCleanup, done, overdue, graphVars
  <2>2. IF hard' THEN outcome' = "cancelled" ELSE outcome' \in {"aborted", "error"}
    <3>1. Conclusion(RunState, TRUE, done, overdue) \in {"aborted", "error"}
      BY ConclusionFacts
    <3> QED
      BY <2>1, <3>1
  <2>3. /\ Failures(RunState, 0)' = Failures(RunState, 0) /\ Owed' = Owed
        /\ (RequiredDone \/ StoppedByOptional) => (RequiredDone \/ StoppedByOptional)'
    BY <1>1, <1>6, <2>1, MainKept
  <2>4. TypeOK'
    BY <1>1, <1>3, <1>4, <2>1, <2>2 DEF TypeOK
  <2>5. CallsHaveTasks' /\ DropsHaveCause' /\ Alive' /\ Fresh' /\ Over' /\ DrainTold'
    BY <1>1, <2>1, <2>2 DEF CallsHaveTasks, DropsHaveCause, Alive, Fresh, Live, Over, DrainTold
  <2>6. MainUnbounded' /\ Untouched' /\ StopHasCause' /\ Acknowledged' /\ Notified'
    BY <1>1, <2>1, <2>2 DEF MainUnbounded, Untouched, StopHasCause, Acknowledged, Notified
  <2>7. HardIsFinal'
    BY <1>3, <2>2 DEF HardIsFinal, Counted
  <2>8. ExcusesAreOverrides' /\ CompletedIsClean' /\ InOrder'
    BY <1>1, <2>1, <2>2 DEF ExcusesAreOverrides, CompletedIsClean, InOrder
  <2>9. MainWhole'
    BY <1>1, <2>1, <2>3 DEF MainWhole
  <2>10. CleanupOwed'
    <3>1. outcome' \notin {"none", "cancelled"} => stopping'
      BY <1>8, <2>1, <2>2
    <3> QED
      BY <1>5, <2>1, <2>3, <3>1 DEF CleanupOwed
  <2> QED
    BY <1>3, <2>4, <2>5, <2>6, <2>7, <2>8, <2>9, <2>10
<1> QED
  BY <1>7, <1>8

\* What the task of a node may do in one step.
NodeMoves(n) ==
  /\ n \in Live
  /\ /\ task' \in [Nodes -> {"none"} \cup LiveTask \cup EndedTask]
     /\ call' \in [Nodes -> {"none", "pending"} \cup CallResults]
     /\ told' \in [Nodes -> BOOLEAN] /\ held' \in [Nodes -> BOOLEAN]
     /\ lapsed' \in [Nodes -> BOOLEAN]
     /\ interruption' \in [Nodes -> {"none", "unsupported"} \cup AbortResults]
  /\ \A m \in Nodes \ {n} :
       /\ task'[m] = task[m] /\ call'[m] = call[m] /\ told'[m] = told[m]
       /\ held'[m] = held[m] /\ lapsed'[m] = lapsed[m]
  /\ task'[n] \in LiveTask \cup EndedTask
  /\ task'[n] = "created" => task[n] = "created" /\ told'[n] = told[n] /\ call'[n] = call[n]
  /\ call'[n] = "pending" => task'[n] \in {"calling", "dropping"}
  /\ call[n] # "none" => call'[n] # "none"
  /\ call[n] = "none" /\ call'[n] # "none" => task[n] = "created" /\ ~told[n]
  /\ task'[n] = "dropping" \/ call'[n] = "cancelled" => held'[n] \/ lapsed'[n]
  /\ ~told[n] /\ ~held[n] => ~told'[n] /\ ~held'[n] /\ task'[n] # "cancelled"

LEMMA NodeStepMoves ==
  ASSUME TypeOK, CallsHaveTasks, DropsHaveCause, NEW n \in Nodes, NodeStep(n)
  PROVE  NodeMoves(n)
<1> USE DEF NodeMoves, TypeOK, CallsHaveTasks, DropsHaveCause, Live, LiveTask, EndedTask
<1>1. CASE EndsUnsent(n)
  BY <1>1 DEF EndsUnsent
<1>2. CASE EndsLocally(n)
  BY <1>2 DEF EndsLocally
<1>3. CASE Begins(n)
  BY <1>3 DEF Begins
<1>4. CASE Expires(n)
  BY <1>4 DEF Expires
<1>5. CASE Interrupted(n)
  BY <1>5 DEF Interrupted
<1>6. CASE CallDone(n)
  <2> DEFINE caught == held[n] \/ told[n]
  <2>1. /\ task[n] \in {"calling", "dropping"} /\ call[n] # "pending"
        /\ held' = [held EXCEPT ![n] = caught] /\ told' = [told EXCEPT ![n] = FALSE]
        /\ call' = call /\ lapsed' = lapsed
        /\ \/ task' = [task EXCEPT ![n] = "aborting"] /\ UNCHANGED interruption
           \/ /\ task' = [task EXCEPT ![n] = Concluded(n, caught)]
              /\ interruption' \in {interruption, [interruption EXCEPT ![n] = "unsupported"]}
    BY <1>6, Zenon DEF CallDone
  <2>2. caught \in BOOLEAN /\ (held[n] => caught)
    BY Zenon
  <2>3. Concluded(n, caught) \in EndedTask /\ (Concluded(n, caught) = "cancelled" =>
          caught \/ (call[n] = "cancelled" /\ ~lapsed[n]))
    BY Zenon DEF Concluded
  <2>4. ~told[n] /\ ~held[n] => ~caught
    BY Zenon
  <2> HIDE DEF caught
  <2>5. CASE task' = [task EXCEPT ![n] = "aborting"] /\ UNCHANGED interruption
    BY <2>1, <2>2, <2>4, <2>5
  <2>6. CASE /\ task' = [task EXCEPT ![n] = Concluded(n, caught)]
             /\ interruption' \in {interruption, [interruption EXCEPT ![n] = "unsupported"]}
    BY <2>1, <2>2, <2>3, <2>4, <2>6
  <2> QED
    BY <2>1, <2>5, <2>6
<1>7. ASSUME NEW how \in CallResults, CallEnds(n, how) PROVE NodeMoves(n)
  BY <1>7 DEF CallEnds, CallResults
<1>8. ASSUME NEW how \in AbortResults, AbortDone(n, how) PROVE NodeMoves(n)
  BY <1>8 DEF AbortDone, Concluded
<1> QED
  BY <1>1, <1>2, <1>3, <1>4, <1>5, <1>6, <1>7, <1>8 DEF NodeStep

\* The steps of a node keep the invariant.
LEMMA NodeStepKeeps ==
  ASSUME WorkflowInv, NEW n \in Nodes, NodeStep(n)
  PROVE  WorkflowInv'
<1> USE DEF WorkflowInv
<1>1. NodeMoves(n)
  BY NodeStepMoves
<1>2. UNCHANGED <<plan, result, excused, stop, nudged, stopping, overran, cur, mode, aborted,
                  cleaned, late, outcome, hard, cancels, arrived>>
  BY DEF NodeStep, OutsideNodes, graphVars, boundVars, cancelVars
<1>3. /\ n \in Live /\ plan.home[n] = cur /\ mode \in {"running", "draining"}
      /\ outcome = "none" /\ task[n] # "none"
  BY <1>1 DEF NodeMoves, Alive, Over, Live, LiveTask
<1>4. TypeOK'
  BY <1>1, <1>2 DEF NodeMoves, TypeOK
<1>5. CallsHaveTasks'
  BY <1>1 DEF NodeMoves, CallsHaveTasks, LiveTask, EndedTask
<1>6. Alive' /\ Fresh'
  <2>1. \A m \in Live' : m = n \/ m \in Live
    BY <1>1 DEF NodeMoves, Live
  <2>2. \A m \in Nodes : task'[m] # "none" => m = n \/ task[m] # "none"
    BY <1>1 DEF NodeMoves
  <2> QED
    BY <1>2, <1>3, <2>1, <2>2 DEF Alive, Fresh
<1>7. Over' /\ MainUnbounded' /\ StopHasCause' /\ Counted' /\ Acknowledged' /\ Notified'
  BY <1>2 DEF Over, MainUnbounded, StopHasCause, In, Counted, Acknowledged, Notified
<1>8. Untouched'
  BY <1>1, <1>2 DEF Untouched, NodeMoves
<1>9. DrainTold' /\ DropsHaveCause'
  BY <1>1, <1>2 DEF DrainTold, DropsHaveCause, NodeMoves
<1>10. Sound(RunState) /\ result' = RunState.result /\ excused' = RunState.excused
  BY <1>2, RecordKeeps DEF RunState
<1>11. cur # 0 => \A m \in In(0) : call'[m] = "none" <=> call[m] = "none"
  BY <1>1, <1>3 DEF NodeMoves, In
<1>12. /\ ExcusesAreOverrides' /\ MainWhole' /\ CompletedIsClean' /\ InOrder' /\ CleanupOwed'
       /\ HardIsFinal'
  BY <1>2, <1>3, <1>10, <1>11, Meanwhile
<1> QED
  BY <1>4, <1>5, <1>6, <1>7, <1>8, <1>9, <1>12

-----------------------------------------------------------------------------
(* The theorems.                                                           *)

LEMMA WorkflowInit ==
  ASSUME Init
  PROVE  WorkflowInv
<1> USE DEF Init
<1>1. TypeOK
  <2>1. cur \in Graphs /\ cancels \in 0..MaxCancels
    BY BoundsAssumption DEF Graphs
  <2>2. result \in [Nodes -> Statuses] /\ excused \in [Nodes -> BOOLEAN]
    BY DEF Statuses
  <2>3. /\ task \in [Nodes -> {"none"} \cup LiveTask \cup EndedTask]
        /\ call \in [Nodes -> {"none", "pending"} \cup CallResults]
        /\ told \in [Nodes -> BOOLEAN] /\ held \in [Nodes -> BOOLEAN]
        /\ lapsed \in [Nodes -> BOOLEAN]
        /\ interruption \in [Nodes -> {"none", "unsupported"} \cup AbortResults]
    OBVIOUS
  <2> QED
    BY <2>1, <2>2, <2>3 DEF TypeOK
<1>2. CallsHaveTasks /\ Alive /\ Fresh /\ Over /\ DrainTold /\ DropsHaveCause
  BY DEF CallsHaveTasks, Alive, Live, LiveTask, Fresh, Over, DrainTold, DropsHaveCause
<1>3. MainUnbounded /\ Untouched /\ Counted /\ Acknowledged /\ Notified /\ HardIsFinal
  BY DEF MainUnbounded, Untouched, Counted, Acknowledged, Notified, HardIsFinal
<1>4. ExcusesAreOverrides /\ StopHasCause /\ MainWhole /\ CompletedIsClean
  BY DEF ExcusesAreOverrides, StopHasCause, MainWhole, CompletedIsClean
<1>5. InOrder /\ CleanupOwed
  BY DEF InOrder, CleanupOwed
<1> QED
  BY <1>1, <1>2, <1>3, <1>4, <1>5 DEF WorkflowInv

LEMMA WorkflowStep ==
  ASSUME WorkflowInv, [Next]_vars
  PROVE  WorkflowInv'
<1>1. CASE Next
  <2>1. Sound(RunState) /\ Sound(Drained) /\ TypeOK /\ ExcusesAreOverrides
    BY InstalledSound DEF WorkflowInv
  <2>2. \A rs \in {RunState, Record(RunState)} : Sound(Finished(rs))
    BY <2>1, InstalledSound
  <2> QED
    BY <1>1, <2>1, <2>2, StepKinds, DispatchesKeeps, MainEndsKeeps, RunnerReturnsKeeps,
       MainAbortsKeeps, MainRaisesKeeps, DrainsKeeps, NudgesKeeps, CleanupEndsKeeps, NodeStepKeeps
<1>2. CASE UNCHANGED vars
  <2>1. UNCHANGED <<plan, result, excused, stop, task, call, told, held, lapsed, interruption, cur,
                    mode, aborted, hard, nudged, stopping, overran, cleaned, late, outcome,
                    cancels, arrived>>
    BY <1>2 DEF vars, graphVars, nodeVars, boundVars, cancelVars
  <2>2. Failures(RunState, 0)' = Failures(RunState, 0)
    BY <2>1 DEF Failures, RunState, In
  <2>3. Owed' = Owed
    BY <2>1, <2>2 DEF Owed
  <2>4. InOrder' /\ CleanupOwed'
    <3>1. {k \in Owed : k < cur}' = {k \in Owed : k < cur}
      BY <2>1, <2>3
    <3> QED
      BY <2>1, <2>3, <3>1 DEF WorkflowInv, InOrder, CleanupOwed
  <2>5. MainWhole' /\ CompletedIsClean'
    BY <2>1, <2>2 DEF WorkflowInv, MainWhole, RequiredDone, StoppedByOptional, In, CompletedIsClean
  <2>6. TypeOK'
    BY <2>1 DEF WorkflowInv, TypeOK
  <2>7. /\ CallsHaveTasks' /\ Alive' /\ Fresh' /\ Over' /\ DrainTold' /\ DropsHaveCause'
        /\ MainUnbounded' /\ Untouched' /\ Counted' /\ Acknowledged' /\ Notified'
        /\ HardIsFinal' /\ ExcusesAreOverrides' /\ StopHasCause'
    BY <2>1 DEF WorkflowInv, CallsHaveTasks, Alive, Live, Fresh, Over, DrainTold, DropsHaveCause,
         MainUnbounded, Untouched, Counted, Acknowledged, Notified, HardIsFinal,
         ExcusesAreOverrides, StopHasCause, In
  <2> QED
    BY <2>4, <2>5, <2>6, <2>7 DEF WorkflowInv
<1> QED
  BY <1>1, <1>2

\* The invariant the theorems about workflows rest on.
THEOREM WorkflowInvariant == Spec => []WorkflowInv
<1>1. Init => WorkflowInv
  BY WorkflowInit
<1>2. WorkflowInv /\ [Next]_vars => WorkflowInv'
  BY WorkflowStep
<1> QED
  BY <1>1, <1>2, PTL DEF Spec

\* The variables keep their types, for all plans and bounds (RunState, Dispatcher, _bounded).
THEOREM WorkflowTypes == Spec => []TypeOK
<1>1. WorkflowInv => TypeOK
  BY DEF WorkflowInv
<1> QED
  BY <1>1, WorkflowInvariant, PTL

\* However it is cancelled and whatever times out, a run ends only after all it started
\* (dag.py drain, dispatch.py _owned).
THEOREM WorkIsOwned == Spec => []OwnedUntilEnded
<1>1. WorkflowInv => OwnedUntilEnded
  <2> SUFFICES ASSUME WorkflowInv PROVE OwnedUntilEnded
    OBVIOUS
  <2>1. \A n \in Live : plan.home[n] = cur /\ mode \in {"running", "draining"}
    BY DEF WorkflowInv, Alive
  <2>2. \A n \in Live : outcome = "none"
    BY <2>1 DEF WorkflowInv, Over
  <2>3. \A n \in Nodes : call[n] = "pending" => n \in Live
    BY DEF WorkflowInv, CallsHaveTasks, Live, LiveTask
  <2> QED
    BY <2>1, <2>2, <2>3 DEF OwnedUntilEnded
<1> QED
  BY <1>1, WorkflowInvariant, PTL

\* A cancellation the caller's predicate declined is what execute raises, and nothing else
\* is raised as one (execute, drain, _bounded).
THEOREM DeclinedIsFinal == Spec => []HardIsFinal
<1>1. WorkflowInv => HardIsFinal
  BY DEF WorkflowInv
<1> QED
  BY <1>1, WorkflowInvariant, PTL

\* The cleanup graphs that run are the ones the main graph owes, in order (_cleaned_up).
THEOREM CleanupIsOwed == Spec => []CleanupOwed
<1>1. WorkflowInv => CleanupOwed
  BY DEF WorkflowInv
<1> QED
  BY <1>1, WorkflowInvariant, PTL

\* A run that is reported as completed did its required work, or an optional fail-fast node
\* stopped it (RunReport.failures, execute).
THEOREM CompletedRunsAreWhole == Spec => []CompletedIsWhole
<1>1. WorkflowInv => CompletedIsWhole
  BY DEF WorkflowInv, CompletedIsWhole, CompletedIsClean, MainWhole
<1> QED
  BY <1>1, WorkflowInvariant, PTL

\* "unreachable: builder checks cycles" (DagRunner.execute, dag.py:517): a runner that takes
\* a turn with no node in flight, none ready and no stop has no node left to wait for.
TurningOn ==
  IF mode = "idle" THEN {RunState}
  ELSE IF mode = "running" THEN {Record(RunState)} ELSE {}
NoDependencyDeadlock ==
  \A rs \in TurningOn : \A settled \in {Settle(rs)} :
    Live = {} /\ ~settled.stop /\ TakeReady(settled) = {} => Pending(settled) = {}

\* "dependency deadlock" is never raised (DagRunner.execute): in every run of every plan
\* without a cycle, whatever is skipped, overridden or fails.
THEOREM DeadlockIsUnreachable == Spec => []NoDependencyDeadlock
<1>1. WorkflowInv => NoDependencyDeadlock
  <2> SUFFICES ASSUME WorkflowInv, NEW rs \in TurningOn, Live = {},
                      ~Settle(rs).stop, TakeReady(Settle(rs)) = {}
               PROVE  Pending(Settle(rs)) = {}
    BY DEF NoDependencyDeadlock
  <2> USE DEF WorkflowInv
  <2>1. plan \in Plans
    BY DEF TypeOK
  <2>2. Sound(RunState) /\ Sound(Record(RunState)) /\ Recorded(Record(RunState))
    BY RecordKeeps
  <2>3. CASE mode = "idle" /\ rs = RunState
    <3>1. cur \in Nat
      BY BoundsAssumption DEF TypeOK, Graphs
    <3>2. \A n \in In(cur) : task[n] = "none"
      BY <2>3, <3>1 DEF Fresh, In
    <3> QED
      BY <2>1, <2>2, <2>3, <3>2, SettleKeeps, NothingWaits DEF Recorded, EndedTask
  <2>4. CASE rs = Record(RunState)
    BY <2>1, <2>2, <2>4, SettleKeeps, NothingWaits
  <2> QED
    BY <2>3, <2>4 DEF TurningOn
<1> QED
  BY <1>1, WorkflowInvariant, PTL

-----------------------------------------------------------------------------
(* What a report says. A result is never taken back, and every step adds     *)
(* only results that are justified.                                          *)

\* t adds results to those of rs, of tasks that ended or nodes that never had one.
Adds(rs, t) ==
  /\ t \in RunStates
  /\ \A n \in Nodes : rs.result[n] # "none" =>
       t.result[n] = rs.result[n] /\ t.excused[n] = rs.excused[n]
  /\ \A n \in Nodes : t.result[n] # rs.result[n] =>
       /\ n \in In(cur)
       /\ task[n] = "none" \/ (task[n] \in EndedTask /\ t.result[n] = task[n])

Uncancelled(rs) == \A n \in In(cur) : rs.result[n] # "cancelled"

\* A skip has a reason, and one no override explains a failed or skipped node it needed;
\* what is said to be done or to have failed did so, or was overridden.
Causes(rs, n) ==
  {d \in plan.hard[n] : /\ plan.policy[d] # "continue" /\ ~rs.excused[d]
                        /\ rs.result[d] \in {"failed", "skipped"}}
Reason(rs, n) == plan.override[n] = "skipped" \/ Blockers(rs, n) # {}
Stated(rs, n) ==
  /\ rs.result[n] = "skipped" => Reason(rs, n)
  /\ rs.result[n] = "skipped" /\ ~rs.excused[n] => Causes(rs, n) # {}
  /\ rs.result[n] \in {"ok", "failed"} /\ task[n] = "none" =>
       rs.result[n] = "ok" /\ plan.override[n] = "ok"
Justified(rs) == \A n \in Nodes : Stated(rs, n)

\* Adding results keeps reasons and causes, and what was stated of a node stays so.
LEMMA CausesStay ==
  ASSUME plan \in Plans, NEW rs, NEW t, Adds(rs, t), NEW n \in Nodes
  PROVE  /\ Causes(rs, n) \subseteq Causes(t, n)
         /\ Blockers(rs, n) \subseteq Blockers(t, n)
<1>1. plan.hard[n] \subseteq Nodes
  BY PlanFields
<1>2. Causes(rs, n) \subseteq Causes(t, n)
  BY <1>1 DEF Causes, Adds
<1>3. Blockers(rs, n) \subseteq Blockers(t, n)
  BY <1>1 DEF Blockers, Adds
<1> QED
  BY <1>2, <1>3

LEMMA StatedStays ==
  ASSUME plan \in Plans, NEW rs, NEW t, Adds(rs, t), NEW n \in Nodes, Stated(rs, n),
         t.result[n] = rs.result[n], t.excused[n] = rs.excused[n]
  PROVE  Stated(t, n)
<1>1. Causes(rs, n) \subseteq Causes(t, n) /\ Blockers(rs, n) \subseteq Blockers(t, n)
  BY CausesStay
<1>2. Reason(rs, n) => Reason(t, n)
  BY <1>1 DEF Reason
<1> QED
  BY <1>1, <1>2 DEF Stated

\* Adding is transitive.
LEMMA AddsAgain ==
  ASSUME NEW rs, NEW s, Adds(rs, s), NEW t, Adds(s, t)
  PROVE  Adds(rs, t)
<1>1. ASSUME NEW n \in Nodes, rs.result[n] # "none"
      PROVE  t.result[n] = rs.result[n] /\ t.excused[n] = rs.excused[n]
  <2>1. s.result[n] = rs.result[n] /\ s.excused[n] = rs.excused[n]
    BY <1>1 DEF Adds
  <2> QED
    BY <1>1, <2>1 DEF Adds
<1>2. ASSUME NEW n \in Nodes, t.result[n] # rs.result[n]
      PROVE  /\ n \in In(cur)
             /\ task[n] = "none" \/ (task[n] \in EndedTask /\ t.result[n] = task[n])
  <2>1. CASE t.result[n] # s.result[n]
    BY <2>1 DEF Adds
  <2>2. CASE t.result[n] = s.result[n]
    BY <1>2, <2>2 DEF Adds
  <2> QED
    BY <2>1, <2>2
<1> QED
  BY <1>1, <1>2 DEF Adds

\* One node of a pass adds a justified result.
LEMMA OneAdds ==
  ASSUME plan \in Plans, NEW s \in RunStates, Uncancelled(s), Justified(s), NEW n \in Nodes,
         NEW u \in {SkipOne(s, n), OverrideOne(s, n)}
  PROVE  Adds(s, u) /\ Uncancelled(u) /\ Justified(u)
<1>1. CASE u = s
  BY <1>1 DEF Adds
<1>2. CASE u # s
  <2>1. /\ n \in Pending(s) /\ u \in RunStates /\ u.result[n] \in {"ok", "skipped"}
        /\ \A m \in Nodes \ {n} : u.result[m] = s.result[m] /\ u.excused[m] = s.excused[m]
    BY <1>2, ResolveOne
  <2>2. n \in In(cur) /\ s.result[n] = "none" /\ task[n] = "none"
    BY <2>1 DEF Pending
  <2>3. Adds(s, u)
    BY <2>1, <2>2 DEF Adds
  <2>4. Uncancelled(u)
    BY <2>1 DEF Uncancelled, In
  <2>5. \A m \in Nodes : Causes(s, m) \subseteq Causes(u, m)
    BY <2>3, CausesStay
  <2>6. ASSUME u.result[n] = "skipped", ~u.excused[n] PROVE Causes(u, n) # {}
    <3>1. u = SkipOne(s, n) /\ Blockers(s, n) # {}
          /\ u.excused[n] = (\A d \in Blockers(s, n) : s.excused[d])
      <4>1. CASE u = SkipOne(s, n)
        <5>1. /\ Blockers(s, n) # {}
              /\ u = Resolve(s, n, "skipped", \A d \in Blockers(s, n) : s.excused[d])
          BY <1>2, <4>1 DEF SkipOne
        <5> DEFINE e == \A d \in Blockers(s, n) : s.excused[d]
        <5>2. u = Resolve(s, n, "skipped", e)
          BY <5>1
        <5> HIDE DEF e
        <5>3. u.excused[n] = e
          BY <5>2 DEF Resolve, RunStates
        <5> QED
          BY <4>1, <5>1, <5>3 DEF e
      <4>2. CASE u = OverrideOne(s, n)
        <5>1. u = Resolve(s, n, plan.override[n], TRUE)
          BY <1>2, <4>2 DEF OverrideOne
        <5>2. u.excused[n]
          BY <5>1 DEF Resolve, RunStates
        <5> QED
          BY <2>6, <5>2
      <4> QED
        BY <4>1, <4>2
    <3>2. PICK d \in Blockers(s, n) : ~s.excused[d]
      BY <2>6, <3>1
    <3>3. d \in plan.hard[n] /\ s.result[d] \notin {"none", "ok"} /\ plan.policy[d] # "continue"
      BY <3>2 DEF Blockers
    <3>4. d \in In(cur)
      <4>1. d \in Nodes /\ d \in Deps(n)
        BY <3>3, PlanFields DEF Deps
      <4>2. plan.home[d] = plan.home[n]
        BY <4>1, PlanFacts
      <4> QED
        BY <2>2, <4>1, <4>2 DEF In
    <3>5. s.result[d] \in Statuses /\ s.result[d] # "cancelled"
      BY <3>4 DEF Uncancelled, In, RunStates
    <3>6. d \in Causes(s, n)
      BY <3>2, <3>3, <3>5 DEF Causes, Statuses
    <3> QED
      BY <2>5, <3>6
  <2>7. /\ u.result[n] = "ok" => plan.override[n] = "ok"
        /\ u.result[n] = "skipped" => Reason(s, n)
    <3>1. CASE u = SkipOne(s, n)
      <4>1. Blockers(s, n) # {} /\ u.result[n] = "skipped"
        BY <1>2, <3>1 DEF SkipOne, Resolve, RunStates
      <4> QED
        BY <4>1 DEF Reason
    <3>2. CASE u = OverrideOne(s, n)
      <4>1. u.result[n] = plan.override[n]
        BY <1>2, <3>2 DEF OverrideOne, Resolve, RunStates
      <4> QED
        BY <4>1 DEF Reason
    <3> QED
      BY <3>1, <3>2
  <2>8. Stated(u, n)
    <3>1. Blockers(s, n) \subseteq Blockers(u, n)
      BY <2>3, CausesStay
    <3>2. u.result[n] = "skipped" => Reason(u, n)
      BY <2>7, <3>1 DEF Reason
    <3> QED
      BY <2>1, <2>6, <2>7, <3>2 DEF Stated
  <2>9. ASSUME NEW m \in Nodes, m # n PROVE Stated(u, m)
    <3>1. u.result[m] = s.result[m] /\ u.excused[m] = s.excused[m]
      BY <2>1, <2>9
    <3> QED
      BY <2>3, <3>1, StatedStays DEF Justified
  <2>10. Justified(u)
    BY <2>8, <2>9 DEF Justified
  <2> QED
    BY <2>3, <2>4, <2>10
<1> QED
  BY <1>1, <1>2

\* So does settling.
LEMMA SettleAdds ==
  ASSUME plan \in Plans, NEW rs \in RunStates, Uncancelled(rs), Justified(rs),
         NEW t \in {Settle(rs), ResolveSkips(rs)}
  PROVE  Adds(rs, t) /\ Uncancelled(t) /\ Justified(t)
<1> DEFINE X == {s \in RunStates : Adds(rs, s) /\ Uncancelled(s) /\ Justified(s)}
<1>1. rs \in X
  BY DEF Adds
<1>2. ASSUME NEW s \in X, NEW n \in Nodes, NEW u \in {SkipOne(s, n), OverrideOne(s, n)}
      PROVE  u \in X
  <2>1. Adds(s, u) /\ Uncancelled(u) /\ Justified(u)
    BY <1>2, OneAdds
  <2>2. Adds(rs, u)
    BY <1>2, <2>1, AddsAgain
  <2>3. u \in RunStates
    BY <2>1 DEF Adds
  <2> QED
    BY <2>1, <2>2, <2>3
<1> HIDE DEF X
<1>3. t \in X
  BY <1>1, <1>2, SettleStays, ResolveSkipsStays
<1> QED
  BY <1>3 DEF X

\* And cancelling what is pending.
LEMMA CancelAdds ==
  ASSUME plan \in Plans, NEW rs, Sound(rs), Justified(rs)
  PROVE  Adds(rs, CancelPending(rs)) /\ Justified(CancelPending(rs))
<1> DEFINE t == CancelPending(rs)
<1>1. /\ t \in RunStates /\ t.excused = rs.excused
      /\ \A n \in Nodes : t.result[n] = IF n \in Pending(rs) THEN "cancelled" ELSE rs.result[n]
  BY CancelKeeps DEF Sound
<1> HIDE DEF t
<1>2. \A n \in Pending(rs) : rs.result[n] = "none" /\ task[n] = "none" /\ n \in In(cur)
  BY DEF Pending
<1>3. Adds(rs, t)
  BY <1>1, <1>2 DEF Adds
<1>4. ASSUME NEW n \in Nodes PROVE Stated(t, n)
  <2>1. CASE n \in Pending(rs)
    BY <1>1, <2>1 DEF Stated
  <2>2. CASE n \notin Pending(rs)
    <3>1. t.result[n] = rs.result[n] /\ t.excused[n] = rs.excused[n]
      BY <1>1, <2>2
    <3> QED
      BY <1>3, <3>1, StatedStays DEF Justified
  <2> QED
    BY <2>1, <2>2
<1>5. Justified(t)
  BY <1>4 DEF Justified
<1> QED
  BY <1>3, <1>5 DEF t

\* And recording the tasks that ended.
LEMMA RecordAdds ==
  ASSUME TypeOK, ExcusesAreOverrides, Justified(RunState)
  PROVE  Adds(RunState, Record(RunState)) /\ Justified(Record(RunState))
<1> DEFINE t == Record(RunState)
<1>1. /\ t \in RunStates /\ t.excused = excused
      /\ \A n \in Nodes : t.result[n] = IF n \in Unrecorded THEN task[n] ELSE result[n]
  BY RecordKeeps DEF Sound, Record, RunState
<1> HIDE DEF t
<1>2. \A n \in Unrecorded : n \in In(cur) /\ task[n] \in EndedTask /\ result[n] = "none"
  BY DEF Unrecorded
<1>3. RunState.result = result /\ RunState.excused = excused
  BY DEF RunState
<1>4. Adds(RunState, t)
  BY <1>1, <1>2, <1>3 DEF Adds
<1>5. ASSUME NEW n \in Nodes PROVE Stated(t, n)
  <2>1. CASE n \in Unrecorded
    BY <1>1, <1>2, <2>1 DEF EndedTask, Stated
  <2>2. CASE n \notin Unrecorded
    <3>1. t.result[n] = RunState.result[n] /\ t.excused[n] = RunState.excused[n]
      BY <1>1, <1>3, <2>2
    <3> QED
      BY <1>4, <3>1, StatedStays DEF Justified, TypeOK
  <2> QED
    BY <2>1, <2>2
<1>6. Justified(t)
  BY <1>5 DEF Justified
<1> QED
  BY <1>4, <1>6 DEF t

-----------------------------------------------------------------------------
(* The invariant of the results, kept by every kind of step.               *)

\* What n waits for has ended, nothing it needs kept it from running and no override decides it.
Due(n) == Ready(RunState, n) /\ Blockers(RunState, n) = {} /\ plan.override[n] = "none"

\* A node that has a task was due, and is still; its result is how the task ended.
Begun == \A n \in Nodes : task[n] # "none" => Due(n)
Agreed == \A n \in Nodes : result[n] # "none" /\ task[n] # "none" => result[n] = task[n]

\* Graphs yet to run have no results, and a runner that dispatches has no cancelled node.
Reached ==
  \A n \in Nodes : result[n] # "none" =>
    plan.home[n] < cur \/ (plan.home[n] = cur /\ mode # "idle")
Unhurt ==
  mode \in {"idle", "running"} => \A n \in In(cur) :
    ~told[n] /\ ~held[n] /\ task[n] # "cancelled" /\ result[n] # "cancelled"
Quiet == \A n \in Nodes : task[n] = "none" => ~told[n] /\ ~held[n]

\* A task ends well only if its call did or it orders others, and fails only if its call did not.
Honest ==
  \A n \in Nodes : /\ task[n] = "ok" => call[n] = "ok" \/ n \in plan.ordering
                   /\ task[n] = "failed" => call[n] # "ok"

ReportInv == Begun /\ Agreed /\ Reached /\ Unhurt /\ Quiet /\ Honest /\ Justified(RunState)

\* Nothing is taken back.
Kept == \A n \in Nodes : result[n] # "none" => result'[n] = result[n]

\* What was due stays due: the results it rests on are there, and stay.
LEMMA DueStays ==
  ASSUME plan \in Plans, plan' = plan, Kept, NEW n \in Nodes, Due(n)
  PROVE  Due(n)'
<1>1. plan.hard[n] \subseteq Deps(n) /\ Deps(n) \subseteq Nodes
  BY PlanFields DEF Deps
<1>2. \A d \in Deps(n) : result[d] # "none" /\ result'[d] = result[d]
  BY <1>1 DEF Due, Ready, RunState, Kept
<1>3. Deps(n)' = Deps(n)
  BY DEF Deps
<1>4. Ready(RunState, n)'
  BY <1>2, <1>3 DEF Ready, RunState
<1>5. Blockers(RunState, n)' = Blockers(RunState, n)
  BY <1>1, <1>2 DEF Blockers, RunState
<1> QED
  BY <1>4, <1>5 DEF Due

\* What is justified when it is installed is justified then.
LEMMA JustifiedNext ==
  ASSUME plan' = plan, NEW t, result' = t.result, excused' = t.excused, Justified(t),
         \A n \in Nodes : task'[n] = "none" => task[n] = "none"
  PROVE  Justified(RunState)'
<1>1. RunState'.result = t.result /\ RunState'.excused = t.excused
  BY DEF RunState
<1>2. \A n \in Nodes : Causes(RunState, n)' = Causes(t, n) /\ Reason(RunState, n)' = Reason(t, n)
  BY <1>1 DEF Causes, Reason, Blockers, RunState
<1>3. ASSUME NEW n \in Nodes PROVE Stated(RunState, n)'
  <2>1. Stated(t, n)
    BY DEF Justified
  <2> QED
    BY <1>1, <1>2, <2>1 DEF Stated, RunState
<1> QED
  BY <1>3 DEF Justified

\* A step of the executor that dispatches nothing installs t, and stays with its graph,
\* ends it or goes on to a later one.
Passes(t) ==
  /\ Adds(RunState, t) /\ Justified(t)
  /\ result' = t.result /\ excused' = t.excused
  /\ UNCHANGED <<plan, task, call, held>>
  /\ \A n \in Nodes : told'[n] # told[n] => task[n] # "none"
  /\ \/ cur' = cur /\ mode' \in {"draining", "over"}
     \/ cur' = cur /\ mode' = mode /\ told' = told /\ result' = result
     \/ cur' \in Cleanups /\ cur < cur' /\ mode' = "idle" /\ told' = told

LEMMA PassesKeeps ==
  ASSUME WorkflowInv, ReportInv, NEW t, Passes(t)
  PROVE  ReportInv' /\ Kept
<1>1. TypeOK /\ plan \in Plans /\ Fresh
  BY DEF WorkflowInv, TypeOK
<1>2. Kept
  BY DEF Passes, Adds, RunState, Kept
<1>3. Begun'
  BY <1>1, <1>2, DueStays DEF ReportInv, Begun, Passes
<1>4. Agreed'
  <2>1. ASSUME NEW n \in Nodes, result'[n] # "none", task[n] # "none" PROVE result'[n] = task[n]
    <3>1. CASE result[n] # "none"
      BY <1>2, <2>1, <3>1 DEF ReportInv, Agreed, Kept
    <3>2. CASE result[n] = "none"
      BY <2>1, <3>2 DEF Passes, Adds, RunState
    <3> QED
      BY <3>1, <3>2
  <2> QED
    BY <2>1 DEF Agreed, Passes
<1>5. \A n \in Nodes : result'[n] # "none" => result[n] # "none" \/ plan.home[n] = cur
  BY DEF Passes, Adds, RunState, In
<1>6. cur \in Nat /\ \A n \in Nodes : plan.home[n] \in Nat
  BY <1>1, BoundsAssumption, PlanFields DEF TypeOK, Graphs
<1>7. Reached'
  <2>1. ASSUME NEW n \in Nodes, result'[n] # "none"
        PROVE  plan.home[n] < cur' \/ (plan.home[n] = cur' /\ mode' # "idle")
    <3>1. plan.home[n] < cur \/ plan.home[n] = cur
      BY <1>5, <2>1 DEF ReportInv, Reached
    <3>2. CASE cur' = cur /\ mode' \in {"draining", "over"}
      BY <3>1, <3>2
    <3>3. CASE cur' = cur /\ mode' = mode /\ result' = result
      BY <2>1, <3>3 DEF ReportInv, Reached
    <3>4. CASE cur' \in Cleanups /\ cur < cur'
      <4>1. cur' \in Nat
        BY <3>4, BoundsAssumption DEF Cleanups
      <4> QED
        BY <1>6, <3>1, <3>4, <4>1
    <3> QED
      BY <3>2, <3>3, <3>4 DEF Passes
  <2> QED
    BY <2>1 DEF Reached, Passes
<1>8. Unhurt'
  <2>1. CASE cur' = cur /\ mode' \in {"draining", "over"}
    BY <2>1 DEF Unhurt
  <2>2. CASE cur' = cur /\ mode' = mode /\ told' = told /\ result' = result
    BY <2>2 DEF ReportInv, Unhurt, Passes, In
  <2>3. CASE cur' \in Cleanups /\ cur < cur' /\ told' = told
    <3>1. cur' \in Nat
      BY <2>3, BoundsAssumption DEF Cleanups
    <3>2. ASSUME NEW n \in Nodes, plan.home[n] = cur'
          PROVE  ~told[n] /\ ~held[n] /\ task[n] # "cancelled" /\ result'[n] # "cancelled"
      <4>1. ~(plan.home[n] < cur) /\ plan.home[n] # cur
        BY <1>6, <2>3, <3>1, <3>2
      <4>2. task[n] = "none"
        BY <1>1, <4>1 DEF Fresh
      <4>3. result'[n] = "none"
        BY <1>5, <4>1 DEF ReportInv, Reached
      <4> QED
        BY <4>2, <4>3 DEF ReportInv, Quiet
    <3> QED
      BY <2>3, <3>2 DEF Unhurt, Passes, In
  <2> QED
    BY <2>1, <2>2, <2>3 DEF Passes
<1>9. Quiet'
  BY DEF ReportInv, Quiet, Passes
<1>10. Justified(RunState)'
  BY JustifiedNext DEF Passes
<1>11. Honest'
  BY DEF ReportInv, Honest, Passes
<1> QED
  BY <1>2, <1>3, <1>4, <1>7, <1>8, <1>9, <1>10, <1>11 DEF ReportInv

\* A turn starts from a run state that is justified and has no cancelled node.
LEMMA TurnsAdd ==
  ASSUME WorkflowInv, ReportInv, NEW rs, Turning(rs)
  PROVE  /\ rs \in RunStates /\ Adds(RunState, rs) /\ Justified(rs) /\ Uncancelled(rs)
         /\ Adds(RunState, Settle(rs)) /\ Justified(Settle(rs)) /\ Uncancelled(Settle(rs))
         /\ Adds(RunState, Finished(rs)) /\ Justified(Finished(rs))
         /\ mode \in {"idle", "running"}
<1>1. TypeOK /\ plan \in Plans /\ ExcusesAreOverrides /\ Justified(RunState) /\ Unhurt
  BY DEF WorkflowInv, TypeOK, ReportInv
<1>2. mode \in {"idle", "running"} /\ rs \in {RunState, Record(RunState)}
  BY DEF Turning
<1>3. RunState \in RunStates /\ rs \in RunStates
  BY <1>1, <1>2, RecordKeeps DEF Sound
<1>4. Adds(RunState, rs) /\ Justified(rs)
  <2>1. Adds(RunState, RunState)
    BY <1>3 DEF Adds
  <2> QED
    BY <1>1, <1>2, <2>1, RecordAdds
<1>5. Uncancelled(rs)
  <2>1. ASSUME NEW n \in In(cur) PROVE rs.result[n] # "cancelled"
    <3>1. n \in Nodes /\ task[n] # "cancelled" /\ result[n] # "cancelled"
      BY <1>1, <1>2 DEF Unhurt, In
    <3>2. Record(RunState).result[n] = IF n \in Unrecorded THEN task[n] ELSE result[n]
      BY <1>1, <3>1, RecordKeeps
    <3> QED
      BY <1>2, <3>1, <3>2 DEF RunState
  <2> QED
    BY <2>1 DEF Uncancelled
<1> DEFINE s == Settle(rs)
           t == ResolveSkips(s)
<1>6. Adds(rs, s) /\ Uncancelled(s) /\ Justified(s)
  BY <1>1, <1>3, <1>4, <1>5, SettleAdds
<1>7. Adds(RunState, s) /\ s \in RunStates
  BY <1>4, <1>6, AddsAgain DEF Adds
<1>8. Sound(s)
  BY <1>1, <1>2, InstalledSound
<1> HIDE DEF s
<1>9. Adds(s, t) /\ Justified(t) /\ Sound(t)
  BY <1>1, <1>6, <1>7, <1>8, SettleAdds, SettleKeeps
<1>10. Adds(RunState, t)
  BY <1>7, <1>9, AddsAgain
<1>11. Finished(rs) = CancelPending(t)
  BY DEF Finished, s
<1> HIDE DEF t
<1>12. Adds(t, CancelPending(t)) /\ Justified(CancelPending(t))
  BY <1>1, <1>9, CancelAdds
<1>13. Adds(RunState, CancelPending(t))
  BY <1>10, <1>12, AddsAgain
<1> QED
  BY <1>2, <1>3, <1>4, <1>5, <1>6, <1>7, <1>11, <1>12, <1>13 DEF s

\* So does the end of a drain.
LEMMA DrainAdds ==
  ASSUME WorkflowInv, ReportInv
  PROVE  /\ RunState \in RunStates /\ Adds(RunState, RunState) /\ Justified(RunState)
         /\ Adds(RunState, Drained) /\ Justified(Drained) /\ Drained \in RunStates
<1>1. TypeOK /\ plan \in Plans /\ ExcusesAreOverrides /\ Justified(RunState)
  BY DEF WorkflowInv, TypeOK, ReportInv
<1>2. Sound(RunState) /\ Sound(Record(RunState)) /\ Sound(Drained)
  BY <1>1, RecordKeeps, InstalledSound
<1>3. Adds(RunState, Record(RunState)) /\ Justified(Record(RunState))
  BY <1>1, RecordAdds
<1>4. Adds(Record(RunState), Drained) /\ Justified(Drained)
  BY <1>1, <1>2, <1>3, CancelAdds DEF Drained
<1>5. Adds(RunState, Drained)
  BY <1>3, <1>4, AddsAgain
<1>6. RunState \in RunStates /\ Drained \in RunStates
  BY <1>2 DEF Sound
<1>7. Adds(RunState, RunState)
  BY <1>6 DEF Adds
<1> QED
  BY <1>1, <1>4, <1>5, <1>6, <1>7

\* What a turn dispatches is due.
LEMMA DispatchesReport ==
  ASSUME WorkflowInv, ReportInv, NEW rs, Turning(rs), Dispatches(rs)
  PROVE  ReportInv' /\ Kept
<1> DEFINE s == Settle(rs)
<1>1. plan \in Plans /\ rs \in RunStates
  BY TurnsAdd DEF WorkflowInv, TypeOK
<1>2. Adds(RunState, s) /\ Justified(s) /\ Uncancelled(s) /\ mode \in {"idle", "running"}
  BY TurnsAdd
<1>3. /\ result' = s.result /\ excused' = s.excused /\ stop' = s.stop
      /\ mode' = "running" /\ cur' = cur
      /\ plan' = plan /\ told' = told /\ held' = held
      /\ task' = [n \in Nodes |-> IF n \in TakeReady(s) THEN "created" ELSE task[n]]
  BY DEF Dispatches, Stay, Install
<1>4. RunState' = s
  <2>1. s \in RunStates
    BY <1>2 DEF Adds
  <2>2. s = [result |-> s.result, excused |-> s.excused, stop |-> s.stop]
    BY <2>1 DEF RunStates
  <2> QED
    BY <1>3, <2>2 DEF RunState
<1>5. \A n \in TakeReady(s) : /\ n \in Nodes /\ ~s.stop /\ n \in Pending(s) /\ Ready(s, n)
                              /\ s.result[n] = "none" /\ task[n] = "none" /\ n \in In(cur)
  BY DEF TakeReady, Pending, In
<1>6. ASSUME NEW n \in TakeReady(s) PROVE Due(n)'
  <2>1. rs.stop = s.stop
    <3>1. Sound(rs)
      BY RecordKeeps DEF Turning, WorkflowInv
    <3> QED
      BY <1>1, <3>1, SettleKeeps
  <2>2. Blockers(s, n) = {} /\ plan.override[n] = "none" /\ Ready(s, n)
    BY <1>1, <1>5, <2>1, SettleIsComplete
  <2>3. Ready(RunState, n)' /\ Blockers(RunState, n)' = {}
    <3>1. Deps(n)' = Deps(n)
      BY <1>3 DEF Deps
    <3>2. RunState'.result = s.result
      BY <1>4
    <3>3. Ready(RunState, n)'
      BY <2>2, <3>1, <3>2 DEF Ready
    <3>4. Blockers(RunState, n)' = Blockers(s, n)
      BY <1>3, <3>2 DEF Blockers
    <3> QED
      BY <2>2, <3>3, <3>4
  <2> QED
    BY <1>3, <2>2, <2>3 DEF Due
<1> HIDE DEF s
<1>7. Kept
  BY <1>2, <1>3 DEF Adds, RunState, Kept
<1>8. Begun'
  <2>1. ASSUME NEW n \in Nodes, task'[n] # "none" PROVE Due(n)'
    <3>1. CASE n \in TakeReady(s)
      BY <1>6, <3>1
    <3>2. CASE n \notin TakeReady(s)
      BY <1>1, <1>3, <1>7, <2>1, <3>2, DueStays DEF ReportInv, Begun
    <3> QED
      BY <3>1, <3>2
  <2> QED
    BY <2>1 DEF Begun
<1>9. Agreed'
  <2>1. ASSUME NEW n \in Nodes, result'[n] # "none", task'[n] # "none"
        PROVE  result'[n] = task'[n]
    <3>1. task'[n] = task[n]
      BY <1>3, <1>5, <2>1
    <3>2. CASE result[n] # "none"
      BY <1>7, <2>1, <3>1, <3>2 DEF ReportInv, Agreed, Kept
    <3>3. CASE result[n] = "none"
      BY <1>2, <1>3, <2>1, <3>1, <3>3 DEF Adds, RunState
    <3> QED
      BY <3>2, <3>3
  <2> QED
    BY <2>1 DEF Agreed
<1>10. Reached'
  BY <1>2, <1>3 DEF ReportInv, Reached, Adds, RunState, In
<1>11. Unhurt'
  <2>1. In(cur)' = In(cur)
    BY <1>3 DEF In
  <2>2. ASSUME NEW n \in In(cur)
        PROVE  ~told'[n] /\ ~held'[n] /\ task'[n] # "cancelled" /\ result'[n] # "cancelled"
    <3>1. n \in Nodes /\ ~told[n] /\ ~held[n] /\ task[n] # "cancelled"
      BY <1>2 DEF ReportInv, Unhurt, In
    <3> QED
      BY <1>2, <1>3, <3>1 DEF Uncancelled
  <2> QED
    BY <2>1, <2>2 DEF Unhurt
<1>12. Quiet'
  BY <1>3, <1>5 DEF ReportInv, Quiet
<1>13. Justified(RunState)'
  BY <1>2, <1>3, JustifiedNext
<1>14. Honest'
  <2>1. call' = call
    BY DEF Dispatches
  <2> QED
    BY <1>3, <1>5, <2>1 DEF ReportInv, Honest
<1> QED
  BY <1>7, <1>8, <1>9, <1>10, <1>11, <1>12, <1>13, <1>14 DEF ReportInv

\* A task concludes from how its call ended.
LEMMA NodeStepHonest ==
  ASSUME TypeOK, CallsHaveTasks, Honest, NEW n \in Nodes, NodeStep(n)
  PROVE  Honest'
<1> USE DEF TypeOK, CallsHaveTasks, Honest
<1>1. plan' = plan
  BY DEF NodeStep, OutsideNodes
<1>2. CASE EndsUnsent(n)
  BY <1>1, <1>2 DEF EndsUnsent
<1>3. CASE EndsLocally(n)
  BY <1>1, <1>3 DEF EndsLocally
<1>4. CASE Begins(n)
  BY <1>1, <1>4 DEF Begins
<1>5. CASE Expires(n)
  BY <1>1, <1>5 DEF Expires
<1>6. CASE Interrupted(n)
  BY <1>1, <1>6 DEF Interrupted
<1> DEFINE end == Concluded(n, held[n] \/ told[n])
<1>7. \A caught : /\ Concluded(n, caught) = "ok" => call[n] = "ok"
                  /\ Concluded(n, caught) = "failed" => call[n] # "ok"
  BY Zenon DEF Concluded
<1>8. (end = "ok" => call[n] = "ok") /\ (end = "failed" => call[n] # "ok")
  BY <1>7, Zenon
<1>9. ASSUME task' \in {[task EXCEPT ![n] = "aborting"], [task EXCEPT ![n] = end]}, call' = call
       PROVE  Honest'
  <2> HIDE DEF end
  <2> QED
    BY <1>1, <1>8, <1>9
<1> HIDE DEF Honest
<1>10. CASE CallDone(n)
  <2>1. call' = call
    BY <1>10 DEF CallDone
  <2>2. task' \in {[task EXCEPT ![n] = "aborting"], [task EXCEPT ![n] = end]}
    BY <1>10, Zenon DEF CallDone
  <2> QED
    BY <1>9, <2>1, <2>2
<1>11. ASSUME NEW how \in AbortResults, AbortDone(n, how) PROVE Honest'
  <2>1. call' = call /\ task' = [task EXCEPT ![n] = end]
    BY <1>11 DEF AbortDone
  <2> QED
    BY <1>9, <2>1
<1>12. ASSUME NEW how \in CallResults, CallEnds(n, how) PROVE Honest'
  BY <1>1, <1>12 DEF CallEnds, Honest
<1> QED
  BY <1>2, <1>3, <1>4, <1>5, <1>6, <1>10, <1>11, <1>12 DEF NodeStep

\* The steps of a node leave every result alone, and its own is not there yet.
LEMMA NodeStepReport ==
  ASSUME WorkflowInv, ReportInv, NEW n \in Nodes, NodeStep(n)
  PROVE  ReportInv' /\ Kept
<1>1. TypeOK /\ plan \in Plans
  BY DEF WorkflowInv, TypeOK
<1>2. NodeMoves(n)
  BY NodeStepMoves DEF WorkflowInv
<1>3. UNCHANGED <<plan, result, excused, stop, cur, mode>>
  BY DEF NodeStep, OutsideNodes, graphVars
<1>4. Kept
  BY <1>3 DEF Kept
<1>5. n \in Live /\ task[n] \in LiveTask /\ result[n] = "none"
  <2>1. task[n] \in LiveTask /\ n \in Live
    BY <1>2 DEF NodeMoves, Live
  <2>2. result[n] # task[n] /\ task[n] # "none"
    BY <1>1, <2>1 DEF TypeOK, Statuses, LiveTask
  <2> QED
    BY <2>1, <2>2 DEF ReportInv, Agreed
<1>6. /\ \A m \in Nodes \ {n} : task'[m] = task[m] /\ told'[m] = told[m] /\ held'[m] = held[m]
      /\ task'[n] \in LiveTask \cup EndedTask /\ task'[n] # "none" /\ task[n] # "none"
      /\ ~told[n] /\ ~held[n] => ~told'[n] /\ ~held'[n] /\ task'[n] # "cancelled"
  BY <1>2, <1>5 DEF NodeMoves, LiveTask, EndedTask
<1>7. Begun'
  <2>1. ASSUME NEW m \in Nodes, task'[m] # "none" PROVE Due(m)'
    <3>1. task[m] # "none"
      BY <1>6, <2>1
    <3>2. Due(m)
      BY <3>1 DEF ReportInv, Begun
    <3> QED
      BY <1>1, <1>3, <1>4, <3>2, DueStays
  <2> QED
    BY <2>1 DEF Begun
<1>8. Agreed'
  BY <1>3, <1>5, <1>6 DEF ReportInv, Agreed
<1>9. Reached'
  BY <1>3 DEF ReportInv, Reached
<1>10. Unhurt'
  <2>1. ASSUME NEW m \in In(cur), mode \in {"idle", "running"}
        PROVE  ~told'[m] /\ ~held'[m] /\ task'[m] # "cancelled" /\ result'[m] # "cancelled"
    <3>1. m \in Nodes /\ ~told[m] /\ ~held[m] /\ task[m] # "cancelled" /\ result[m] # "cancelled"
      BY <2>1 DEF ReportInv, Unhurt, In
    <3> QED
      BY <1>3, <1>6, <3>1
  <2>2. In(cur)' = In(cur)
    BY <1>3 DEF In
  <2> QED
    BY <1>3, <2>1, <2>2 DEF Unhurt
<1>11. Quiet'
  BY <1>6 DEF ReportInv, Quiet
<1>12. Justified(RunState)'
  <2>1. Justified(RunState) /\ result' = RunState.result /\ excused' = RunState.excused
    BY <1>3 DEF ReportInv, RunState
  <2> QED
    BY <1>3, <1>6, <2>1, JustifiedNext
<1>13. Honest'
  BY NodeStepHonest DEF ReportInv, WorkflowInv
<1> QED
  BY <1>4, <1>7, <1>8, <1>9, <1>10, <1>11, <1>12, <1>13 DEF ReportInv

\* Where the executor goes with a report, it goes on to a later graph or is over.
LEMMA GoesOnPasses ==
  ASSUME WorkflowInv, NEW t \in RunStates, Adds(RunState, t), Justified(t),
         NEW ab, NEW done, NEW overdue, GoOn(cur, t, ab, done, overdue),
         UNCHANGED <<plan, nodeVars>>
  PROVE  Passes(t)
<1>1. cur \in Graphs
  BY DEF WorkflowInv, TypeOK
<1>2. /\ result' = t.result /\ excused' = t.excused
      /\ \/ cur' \in Cleanups /\ cur < cur' /\ mode' = "idle"
         \/ cur' = cur /\ mode' = "over"
  BY <1>1, GoOnCases
<1>3. UNCHANGED <<plan, task, call, held, told>>
  BY DEF nodeVars
<1> QED
  BY <1>2, <1>3 DEF Passes

LEMMA MainPasses ==
  ASSUME WorkflowInv, ReportInv, MainAborts \/ MainRaises
  PROVE  Passes(Drained)
<1>1. Adds(RunState, Drained) /\ Justified(Drained) /\ Drained \in RunStates
  BY DrainAdds
<1>2. CASE MainAborts
  BY <1>1, <1>2, GoesOnPasses DEF MainAborts, MainStopped
<1>3. CASE MainRaises
  BY <1>1, <1>3 DEF MainRaises, MainStopped, Raise, Install, Passes, nodeVars
<1> QED
  BY <1>2, <1>3

LEMMA MainEndsPasses ==
  ASSUME WorkflowInv, ReportInv, NEW rs, Turning(rs), MainEnds(rs)
  PROVE  Passes(Finished(rs))
<1>1. Adds(RunState, Finished(rs)) /\ Justified(Finished(rs)) /\ Finished(rs) \in RunStates
  BY TurnsAdd DEF Adds
<1> QED
  BY <1>1, GoesOnPasses DEF MainEnds

LEMMA RunnerReturnsPasses ==
  ASSUME NEW t, Adds(RunState, t), Justified(t), RunnerReturns(t)
  PROVE  Passes(t)
  BY DEF RunnerReturns, Install, Passes, nodeVars

LEMMA RestPasses ==
  ASSUME WorkflowInv, ReportInv,
         Drains \/ Nudges \/ \E cancelled \in BOOLEAN : CleanupEnds(cancelled)
  PROVE  Passes(RunState)
<1>1. RunState \in RunStates /\ Adds(RunState, RunState) /\ Justified(RunState)
  BY DrainAdds
<1>2. RunState.result = result /\ RunState.excused = excused
  BY DEF RunState
<1>3. CASE Drains
  <2>1. \A n \in Nodes : told'[n] # told[n] => task[n] # "none"
    <3>1. \A n \in Nodes : told'[n] = (told[n] \/ n \in Live)
      BY <1>3 DEF Drains, TellAll
    <3>2. \A n \in Live : task[n] # "none"
      BY DEF Live, LiveTask
    <3>3. \A n \in Nodes : told[n] \in BOOLEAN
      BY DEF WorkflowInv, TypeOK
    <3> QED
      BY <3>1, <3>2, <3>3
  <2> QED
    BY <1>1, <1>2, <1>3, <2>1 DEF Drains, Passes, graphVars
<1>4. CASE Nudges
  BY <1>1, <1>2, <1>4 DEF Nudges, Passes, graphVars, nodeVars
<1>5. ASSUME NEW cancelled \in BOOLEAN, CleanupEnds(cancelled) PROVE Passes(RunState)
  <2> DEFINE done == cleaned \cup {cur}
             overdue == IF overran THEN late \cup {cur} ELSE late
  <2>1. /\ UNCHANGED <<plan, nodeVars>>
        /\ \/ UNCHANGED <<graphVars, cur, mode>>
           \/ GoOn(cur, RunState, aborted, done, overdue)
    BY <1>5 DEF CleanupEnds, EndCleanup
  <2>2. CASE UNCHANGED <<graphVars, cur, mode>>
    BY <1>1, <1>2, <2>1, <2>2 DEF Passes, graphVars, nodeVars
  <2>3. CASE GoOn(cur, RunState, aborted, done, overdue)
    BY <1>1, <2>1, <2>3, GoesOnPasses
  <2> QED
    BY <2>1, <2>2, <2>3
<1> QED
  BY <1>3, <1>4, <1>5

LEMMA ReportStep ==
  ASSUME WorkflowInv, ReportInv, [Next]_vars
  PROVE  ReportInv' /\ Kept
<1>1. ASSUME NEW t, Passes(t) PROVE ReportInv' /\ Kept
  BY <1>1, PassesKeeps
<1>2. ASSUME NEW rs, Turning(rs),
             Dispatches(rs) \/ MainEnds(rs) \/ RunnerReturns(Finished(rs))
      PROVE  ReportInv' /\ Kept
  <2>1. Adds(RunState, Finished(rs)) /\ Justified(Finished(rs))
    BY <1>2, TurnsAdd
  <2> QED
    BY <1>1, <1>2, <2>1, DispatchesReport, MainEndsPasses, RunnerReturnsPasses
<1>3. CASE MainAborts \/ MainRaises
  BY <1>1, <1>3, MainPasses
<1>4. CASE RunnerReturns(RunState) \/ RunnerReturns(Drained)
  BY <1>1, <1>4, DrainAdds, RunnerReturnsPasses
<1>5. CASE Drains \/ Nudges \/ \E cancelled \in BOOLEAN : CleanupEnds(cancelled)
  BY <1>1, <1>5, RestPasses
<1>6. ASSUME NEW n \in Nodes, NodeStep(n) PROVE ReportInv' /\ Kept
  BY <1>6, NodeStepReport
<1>7. CASE UNCHANGED vars
  <2>1. UNCHANGED <<plan, task, call, told, held, result, excused, cur, mode>>
    BY <1>7 DEF vars, graphVars, nodeVars
  <2>2. RunState.result = result /\ RunState.excused = excused
    BY DEF RunState
  <2>3. Passes(RunState)
    BY <2>1, <2>2, DrainAdds DEF Passes
  <2> QED
    BY <1>1, <2>3
<1>8. CASE Next
  BY <1>2, <1>3, <1>4, <1>5, <1>6, <1>8, StepKinds
<1> QED
  BY <1>7, <1>8

\* The invariant the theorems about the results rest on.
THEOREM ReportInvariant == Spec => [](WorkflowInv /\ ReportInv)
<1>1. Init => ReportInv
  <2> SUFFICES ASSUME Init PROVE ReportInv
    OBVIOUS
  <2>1. Begun /\ Agreed /\ Reached /\ Quiet /\ Honest
    BY DEF Init, Begun, Agreed, Reached, Quiet, Honest
  <2>2. Unhurt
    BY DEF Init, Unhurt, In
  <2>3. Justified(RunState)
    BY DEF Init, Justified, Stated, RunState
  <2> QED
    BY <2>1, <2>2, <2>3 DEF ReportInv
<1>2. WorkflowInv /\ ReportInv /\ [Next]_vars => ReportInv'
  BY ReportStep
<1> QED
  BY <1>1, <1>2, WorkflowInvariant, PTL DEF Spec

\* A device call is sent only when it is due, however the run got there: what its node
\* waits for has ended for good, nothing it needs has failed and no override decided it
\* (settle, take_ready). Once its runner has seen a cancellation a graph sends no further
\* call, not even for a node that waits in delay_s; a declined cancellation lets none start
\* but in the cleanup graph whose runner is yet to see it (drain, _bounded).
CallsAreDue ==
  [][\A n \in Nodes :
       call[n] = "none" /\ call'[n] # "none" =>
         /\ Due(n) /\ mode = "running" /\ plan.home[n] = cur
         /\ cancels > 0 => cur # 0
         /\ stopping \/ "hard" \in arrived => nudged]_vars

\* So it is in every run of every plan, wherever the cancellations arrive.
THEOREM CallsSentWhenDue == Spec => CallsAreDue
<1>1. ASSUME WorkflowInv, ReportInv, [Next]_vars, NEW n \in Nodes,
             call[n] = "none", call'[n] # "none"
      PROVE  /\ Due(n) /\ mode = "running" /\ plan.home[n] = cur
             /\ cancels > 0 => cur # 0
             /\ stopping \/ "hard" \in arrived => nudged
  <2> USE DEF WorkflowInv
  <2>1. PICK m \in Nodes : NodeStep(m)
    <3>1. Next
      BY <1>1 DEF vars, nodeVars
    <3>2. ~(\E rs \in {RunState, Record(RunState)} :
              Dispatches(rs) \/ MainEnds(rs) \/ RunnerReturns(Finished(rs)))
      BY <1>1 DEF Dispatches, MainEnds, RunnerReturns, nodeVars
    <3>3. ~MainAborts /\ ~MainRaises /\ ~RunnerReturns(RunState) /\ ~RunnerReturns(Drained)
      BY <1>1 DEF MainAborts, MainRaises, MainStopped, RunnerReturns, nodeVars
    <3>4. ~Drains /\ ~Nudges
      BY <1>1 DEF Drains, Nudges, nodeVars
    <3>5. \A cancelled \in BOOLEAN : ~CleanupEnds(cancelled)
      BY <1>1 DEF CleanupEnds, EndCleanup, nodeVars
    <3> QED
      BY <1>1, <3>1, <3>2, <3>3, <3>4, <3>5, StepKinds
  <2>2. NodeMoves(m)
    BY <1>1, <2>1, NodeStepMoves
  <2>3. m = n /\ task[n] = "created" /\ ~told[n]
    BY <1>1, <2>2 DEF NodeMoves
  <2>4. n \in Live /\ plan.home[n] = cur /\ mode = "running" /\ outcome = "none"
    BY <1>1, <2>2, <2>3 DEF NodeMoves, Alive, Over, DrainTold
  <2>5. cancels > 0 => cur # 0
    BY <1>1, <2>4 DEF Untouched, Counted
  <2>6. stopping \/ "hard" \in arrived => nudged
    BY <1>1, <2>4 DEF MainUnbounded, Untouched, Counted, Notified
  <2>7. Due(n)
    BY <1>1, <2>3 DEF ReportInv, Begun
  <2> QED
    BY <2>4, <2>5, <2>6, <2>7
<1>2. WorkflowInv /\ ReportInv /\ [Next]_vars =>
        [\A n \in Nodes :
           call[n] = "none" /\ call'[n] # "none" =>
             /\ Due(n) /\ mode = "running" /\ plan.home[n] = cur
             /\ cancels > 0 => cur # 0
             /\ stopping \/ "hard" \in arrived => nudged]_vars
  BY <1>1
<1> QED
  BY <1>2, ReportInvariant, PTL DEF Spec, CallsAreDue

\* What a report says of a node is never taken back, not by a drain, a cleanup graph or a
\* task that ends late (RunState.results).
ResultsAreFinal == [][Kept]_vars

THEOREM ResultsStand == Spec => ResultsAreFinal
<1>1. WorkflowInv /\ ReportInv /\ [Next]_vars => [Kept]_vars
  BY ReportStep
<1> QED
  BY <1>1, ReportInvariant, PTL DEF Spec, ResultsAreFinal

\* A node is reported as done only if its task was or an override says so, as failed only
\* if its task failed, and as skipped only if no call of its was ever sent (record,
\* skip_pass, override_pass).
ReportIsTrue ==
  \A n \in Nodes :
    /\ result[n] = "ok" => task[n] = "ok" \/ plan.override[n] = "ok"
    /\ result[n] = "failed" => task[n] = "failed"
    /\ result[n] = "skipped" => task[n] = "none" /\ call[n] = "none"

THEOREM ReportsAreTrue == Spec => []ReportIsTrue
<1>1. WorkflowInv /\ ReportInv => ReportIsTrue
  <2> SUFFICES ASSUME WorkflowInv, ReportInv, NEW n \in Nodes
               PROVE  /\ result[n] = "ok" => task[n] = "ok" \/ plan.override[n] = "ok"
                      /\ result[n] = "failed" => task[n] = "failed"
                      /\ result[n] = "skipped" => task[n] = "none" /\ call[n] = "none"
    BY DEF ReportIsTrue
  <2>1. result[n] # "none" /\ task[n] # "none" => result[n] = task[n]
    BY DEF ReportInv, Agreed
  <2>2. result[n] \in {"ok", "failed"} /\ task[n] = "none" =>
          result[n] = "ok" /\ plan.override[n] = "ok"
    BY DEF ReportInv, Justified, Stated, RunState
  <2>3. task[n] \in {"none"} \cup LiveTask \cup EndedTask
    BY DEF WorkflowInv, TypeOK
  <2>4. task[n] = "none" => call[n] = "none"
    BY DEF WorkflowInv, CallsHaveTasks
  <2> QED
    BY <2>1, <2>2, <2>3, <2>4 DEF LiveTask, EndedTask
<1> QED
  BY <1>1, ReportInvariant, PTL

\* "A node skips only when a hard dependency did not succeed, so the roots are exactly the
\* failed nodes" (RunReport.causes, dag.py:284): followed back along the needed nodes that
\* did not succeed, a skip that no override explains leads to a failure in the report.
SkipsHaveRoots ==
  \A n \in Nodes : result[n] = "skipped" /\ ~excused[n] =>
    \A S \in SUBSET Nodes :
      n \in S /\ (\A m \in S : Causes(RunState, m) \subseteq S) =>
        \E f \in S : result[f] = "failed"

THEOREM RootsAreFailures == Spec => []SkipsHaveRoots
<1>1. WorkflowInv /\ ReportInv => SkipsHaveRoots
  <2> SUFFICES ASSUME WorkflowInv, ReportInv,
                      NEW n \in Nodes, result[n] = "skipped", ~excused[n],
                      NEW S \in SUBSET Nodes, n \in S,
                      \A m \in S : Causes(RunState, m) \subseteq S
               PROVE  \E f \in S : result[f] = "failed"
    BY DEF SkipsHaveRoots
  <2> DEFINE T == {m \in S : result[m] = "skipped" /\ ~excused[m]}
  <2>1. T \in SUBSET Nodes /\ T # {}
    OBVIOUS
  <2>2. plan \in Plans
    BY DEF WorkflowInv, TypeOK
  <2>3. PICK m \in T : Deps(m) \cap T = {}
    BY <2>1, <2>2, PlanFacts
  <2>4. PICK d : d \in Causes(RunState, m)
    BY <2>3 DEF ReportInv, Justified, Stated, RunState
  <2>5. d \in S /\ d \in Deps(m) /\ ~excused[d] /\ result[d] \in {"failed", "skipped"}
    BY <2>3, <2>4 DEF Causes, Deps, RunState
  <2>6. d \notin T
    BY <2>3, <2>5
  <2> QED
    BY <2>5, <2>6
<1> QED
  BY <1>1, ReportInvariant, PTL

-----------------------------------------------------------------------------
(* Refinement of CommandRun.                                               *)

\* What a step adds to the report may be said.
LEMMA ReportsAreAllowed ==
  ASSUME WorkflowInv, ReportInv, NEW t, Adds(RunState, t), Justified(t), result' = t.result,
         NEW n \in Nodes, result'[n] # result[n]
  PROVE  Run!MayReport(n, result'[n])
<1>1. result[n] = "none" /\ result'[n] \in Statuses /\ result'[n] # "none"
  BY DEF Adds, RunState, RunStates
<1>2. /\ plan.home[n] = cur
      /\ task[n] = "none" \/ (task[n] \in EndedTask /\ result'[n] = task[n])
  BY DEF Adds, RunState, In
<1>3. call[n] # "pending" /\ (task[n] = "none" => call[n] = "none")
  BY <1>2 DEF WorkflowInv, CallsHaveTasks, EndedTask
<1>4. /\ task[n] = "ok" => call[n] = "ok" \/ n \in plan.ordering
      /\ task[n] = "failed" => call[n] # "ok"
  BY DEF ReportInv, Honest
<1>5. Stated(t, n)
  BY DEF Justified
<1>6. CASE result'[n] = "ok"
  BY <1>1, <1>2, <1>3, <1>4, <1>5, <1>6 DEF Run!MayReport, Stated
<1>7. CASE result'[n] = "failed"
  BY <1>1, <1>2, <1>3, <1>4, <1>5, <1>7 DEF Run!MayReport, Stated
<1>8. CASE result'[n] = "skipped"
  <2>1. task[n] = "none"
    BY <1>2, <1>8 DEF EndedTask
  <2>2. plan.override[n] = "skipped" \/ \E d \in plan.hard[n] :
          result'[d] \notin {"none", "ok"} /\ plan.policy[d] # "continue"
    BY <1>5, <1>8 DEF Stated, Reason, Blockers
  <2> QED
    BY <1>1, <1>2, <1>3, <1>8, <2>1, <2>2 DEF Run!MayReport
<1>9. CASE result'[n] = "cancelled"
  BY <1>1, <1>2, <1>3, <1>9 DEF Run!MayReport
<1> QED
  BY <1>1, <1>6, <1>7, <1>8, <1>9 DEF Statuses

\* Such a step is a step of CommandRun, wherever the executor goes.
LEMMA PassesRefine ==
  ASSUME WorkflowInv, ReportInv, WorkflowInv', NEW t, Passes(t),
         outcome = "none", arrived \subseteq arrived'
  PROVE  Run!Proceed
<1>1. \A n \in Nodes : result'[n] # result[n] => Run!MayReport(n, result'[n])
  BY ReportsAreAllowed DEF Passes
<1>2. Phase # "over" /\ (arrived # {} => arrived' # {})
  BY DEF Phase
<1>3. Phase' = IF outcome' # "none" THEN "over"
               ELSE IF mode' \in {"idle", "running"} THEN "open" ELSE "closed"
  BY DEF Phase
<1>4. cur' = 0 /\ arrived' # {} => Phase' # "open"
  BY <1>3 DEF WorkflowInv, Untouched
<1>5. (outcome' # "none" => mode' = "over") /\ plan' = plan /\ call' = call
  BY DEF WorkflowInv, Over, Passes
<1>6. mode' \in {"idle", "over"} => Run!Idle
  <2>1. ASSUME mode' \in {"idle", "over"} PROVE \A n \in Nodes : call'[n] # "pending"
    BY <2>1 DEF WorkflowInv, Alive, CallsHaveTasks, Live, LiveTask
  <2> QED
    BY <1>5, <2>1 DEF Run!Idle
<1>7. ~(cur < cur)
  BY BoundsAssumption DEF WorkflowInv, TypeOK, Graphs
<1>8. \/ cur' = cur /\ Phase' \in {Phase, "closed"}
      \/ Run!Idle /\ cur' = cur /\ Phase' = "over"
      \/ Run!Idle /\ cur' \in Graphs /\ cur < cur' /\ Phase' = "open"
  <2>1. CASE outcome' # "none"
    <3>1. cur' = cur
      BY <1>5, <2>1 DEF Passes
    <3> QED
      BY <1>3, <1>5, <1>6, <2>1, <3>1
  <2>2. CASE outcome' = "none" /\ cur' = cur
    <3>1. mode' \in {"draining", "over"} \/ mode' = mode
      BY <1>7, <2>2 DEF Passes
    <3>2. mode' = mode => Phase' = Phase
      BY <1>3, <2>2 DEF Phase
    <3>3. mode' \in {"draining", "over"} => Phase' = "closed"
      BY <1>3, <2>2
    <3> QED
      BY <2>2, <3>1, <3>2, <3>3
  <2>3. CASE outcome' = "none" /\ cur' # cur
    <3>1. cur' \in Cleanups /\ cur < cur' /\ mode' = "idle"
      BY <2>3 DEF Passes
    <3>2. cur' \in Graphs
      BY <3>1, BoundsAssumption DEF Cleanups, Graphs
    <3> QED
      BY <1>3, <1>6, <2>3, <3>1, <3>2
  <2> QED
    BY <2>1, <2>2, <2>3
<1> QED
  BY <1>1, <1>2, <1>4, <1>5, <1>8 DEF Run!Proceed

\* So is a dispatch: it settles some nodes, and the calls are sent later.
LEMMA DispatchesRefine ==
  ASSUME WorkflowInv, ReportInv, WorkflowInv', NEW rs, Turning(rs), Dispatches(rs)
  PROVE  Run!Proceed
<1> DEFINE s == Settle(rs)
<1>1. Adds(RunState, s) /\ Justified(s) /\ mode \in {"idle", "running"}
  BY TurnsAdd
<1>2. /\ result' = s.result /\ mode' = "running" /\ outcome = "none"
      /\ UNCHANGED <<plan, call, cur, outcome, arrived>>
  BY DEF Dispatches, Install, Stay, Turning, cancelVars
<1> HIDE DEF s
<1>3. \A n \in Nodes : result'[n] # result[n] => Run!MayReport(n, result'[n])
  BY <1>1, <1>2, ReportsAreAllowed
<1>4. Phase = "open" /\ Phase' = "open"
  BY <1>1, <1>2 DEF Phase
<1>5. cur' = 0 => arrived' = {}
  BY <1>2 DEF WorkflowInv, Untouched
<1> QED
  BY <1>2, <1>3, <1>4, <1>5 DEF Run!Proceed

\* A node calls its device, sees how the call ended, or does what CommandRun hides.
LEMMA NodeStepRefines ==
  ASSUME WorkflowInv, ReportInv, NEW n \in Nodes, NodeStep(n)
  PROVE  Run!Next \/ UNCHANGED Run!vars
<1>1. TypeOK /\ CallsHaveTasks
  BY DEF WorkflowInv
<1>2. UNCHANGED <<plan, result, cur, mode, outcome, arrived>>
  BY DEF NodeStep, OutsideNodes, graphVars, cancelVars
<1>3. Phase' = Phase /\ (arrived # {})' = (arrived # {})
  BY <1>2 DEF Phase
<1>4. CASE Begins(n)
  <2>1. /\ task[n] = "created" /\ ~told[n] /\ call[n] = "none" /\ n \in Live
        /\ call' = [call EXCEPT ![n] = "pending"]
    BY <1>1, <1>4 DEF Begins, CallsHaveTasks, Live, LiveTask
  <2>2. plan.home[n] = cur /\ mode = "running" /\ Phase = "open"
    BY <2>1 DEF WorkflowInv, Alive, Over, DrainTold, Phase
  <2>3. result[n] = "none"
    BY <1>1, <2>1 DEF ReportInv, Agreed, TypeOK, Statuses
  <2>4. Run!Due(n)
    <3>1. Due(n)
      BY <2>1 DEF ReportInv, Begun
    <3> QED
      BY <3>1 DEF Due, Ready, Blockers, Deps, RunState, Run!Due
  <2>5. Run!Call(n)
    BY <1>2, <1>3, <2>1, <2>2, <2>3, <2>4 DEF Run!Call
  <2> QED
    BY <2>5 DEF Run!Next
<1>5. ASSUME NEW how \in CallResults, CallEnds(n, how)
      PROVE  Run!Next \/ UNCHANGED Run!vars
  <2>1. call[n] = "pending" /\ call' = [call EXCEPT ![n] = how] /\ how \in Run!Answers
    BY <1>5 DEF CallEnds, CallResults, Run!Answers
  <2>2. Run!Answer(n)
    BY <1>2, <1>3, <2>1 DEF Run!Answer
  <2> QED
    BY <2>2 DEF Run!Next
<1>6. call' = call => UNCHANGED Run!vars
  BY <1>2, <1>3 DEF Run!vars
<1>7. ASSUME NEW how \in AbortResults, AbortDone(n, how) PROVE call' = call
  BY <1>7 DEF AbortDone
<1>8. EndsUnsent(n) \/ EndsLocally(n) \/ Expires(n) \/ Interrupted(n) \/ CallDone(n) => call' = call
  BY DEF EndsUnsent, EndsLocally, Expires, Interrupted, CallDone
<1> QED
  BY <1>4, <1>5, <1>6, <1>7, <1>8 DEF NodeStep

\* What arrived is not forgotten, and no step is taken after the outcome is known.
LEMMA KindsAreBefore ==
  ASSUME \/ \E rs : Turning(rs) /\ (MainEnds(rs) \/ RunnerReturns(Finished(rs)))
         \/ MainAborts \/ MainRaises
         \/ RunnerReturns(RunState) \/ RunnerReturns(Drained)
         \/ Drains \/ Nudges
         \/ \E cancelled \in BOOLEAN : CleanupEnds(cancelled)
  PROVE  outcome = "none" /\ arrived \subseteq arrived'
<1>1. (\E kind \in Kinds : Arrive(kind)) => arrived \subseteq arrived'
  BY DEF Arrive
<1>2. UNCHANGED cancelVars => arrived' = arrived
  BY DEF cancelVars
<1>3. CASE \E rs : Turning(rs) /\ (MainEnds(rs) \/ RunnerReturns(Finished(rs)))
  BY <1>2, <1>3 DEF Turning, MainEnds, RunnerReturns, cancelVars
<1>4. CASE MainAborts \/ MainRaises
  BY <1>1, <1>2, <1>4 DEF MainAborts, MainRaises, MainStopped
<1>5. CASE RunnerReturns(RunState) \/ RunnerReturns(Drained)
  BY <1>2, <1>5 DEF RunnerReturns, cancelVars
<1>6. CASE Drains \/ Nudges
  BY <1>1, <1>2, <1>6 DEF Drains, Nudges, cancelVars
<1>7. CASE \E cancelled \in BOOLEAN : CleanupEnds(cancelled)
  BY <1>1, <1>2, <1>7 DEF CleanupEnds
<1> QED
  BY <1>3, <1>4, <1>5, <1>6, <1>7

\* Every execution of a workflow is an execution of CommandRun (DagRunner, Dispatcher,
\* execute): its tasks, timeouts, drains and aborts change nothing of what is promised.
THEOREM Refinement == Spec => ImplementsCommandRun
<1>1. Init => Run!Init
  <2> SUFFICES ASSUME Init PROVE Run!Init
    OBVIOUS
  <2>1. Phase = "open" /\ (arrived # {}) = FALSE
    BY DEF Init, Phase
  <2> QED
    BY <2>1 DEF Init, Run!Init
<1>2. WorkflowInv /\ ReportInv /\ WorkflowInv' /\ [Next]_vars => [Run!Next]_Run!vars
  <2> SUFFICES ASSUME WorkflowInv, ReportInv, WorkflowInv', [Next]_vars
               PROVE  Run!Next \/ UNCHANGED Run!vars
    OBVIOUS
  <2>1. ASSUME NEW t, Passes(t), outcome = "none", arrived \subseteq arrived' PROVE Run!Next
    BY <2>1, PassesRefine DEF Run!Next
  <2>2. ASSUME NEW rs, Turning(rs), Dispatches(rs) PROVE Run!Next
    BY <2>2, DispatchesRefine DEF Run!Next
  <2>3. ASSUME NEW rs, Turning(rs), MainEnds(rs) \/ RunnerReturns(Finished(rs)) PROVE Run!Next
    <3>1. Passes(Finished(rs))
      BY <2>3, TurnsAdd, MainEndsPasses, RunnerReturnsPasses
    <3> QED
      BY <2>1, <2>3, <3>1, KindsAreBefore
  <2>4. CASE MainAborts \/ MainRaises
    BY <2>1, <2>4, MainPasses, KindsAreBefore
  <2>5. CASE RunnerReturns(RunState) \/ RunnerReturns(Drained)
    BY <2>1, <2>5, DrainAdds, RunnerReturnsPasses, KindsAreBefore
  <2>6. CASE Drains \/ Nudges \/ \E cancelled \in BOOLEAN : CleanupEnds(cancelled)
    BY <2>1, <2>6, RestPasses, KindsAreBefore
  <2>7. ASSUME NEW n \in Nodes, NodeStep(n) PROVE Run!Next \/ UNCHANGED Run!vars
    BY <2>7, NodeStepRefines
  <2>8. CASE UNCHANGED vars
    <3>1. UNCHANGED <<plan, result, call, cur, mode, outcome, arrived>>
      BY <2>8 DEF vars, graphVars, nodeVars, cancelVars
    <3>2. Phase' = Phase
      BY <3>1 DEF Phase
    <3> QED
      BY <3>1, <3>2 DEF Run!vars
  <2>9. CASE Next
    BY <2>2, <2>3, <2>4, <2>5, <2>6, <2>7, <2>9, StepKinds
  <2> QED
    BY <2>8, <2>9
<1> QED
  BY <1>1, <1>2, ReportInvariant, PTL DEF Spec, ImplementsCommandRun, Run!Spec
===============================================================================
