---------------------------- MODULE ServiceProofs ----------------------------
(***************************************************************************)
(* Proofs about Service: types, the leases a running service holds, and    *)
(* what has been released when it has ended.                               *)
(*                                                                         *)
(* ServiceInv is inductive. It says of every service how far its registrations   *)
(* are, which leases its expire calls are for, and where the entry of each *)
(* lease can be; entries are the only state that services share.           *)
(***************************************************************************)
EXTENDS Service, TLAPS

Entered == {"attaching", "attached", "failed"}    \* the impls that are tracked
Ended == {"expiring", "detaching", "ended"}       \* the service task has left the loop

\* The service is registered first, and its task runs once it is initialized. A
\* key is registered once, and leased by that registration.
Registers(s) ==
  /\ task[s] = "none" <=> reg[s][Name[s]] \notin Entered
  /\ task[s] = "none" \/ main[s] \in {"idle", "registering"} =>
       \A k \in Keys : k # Name[s] => reg[s][k] = "none"
  /\ main[s] = "idle" => reg[s][Name[s]] = "none"
  /\ reg[s][Name[s]] \in {"creating", "init", "attaching"} => main[s] = "registering"
  /\ main[s] \in {"starting", "running"} => task[s] # "none"
  /\ \A k \in Keys : lease[s][k] # "none" => reg[s][k] \notin {"none", "creating"}

\* Shutdown and the loop each expire the group once, and what they have left is
\* among the leases they found held.
Calls(s) ==
  /\ asked[s] => main[s] \in {"stopping", "joining", "stopped"}
  /\ ~asked[s] => expiring[s]["shutdown"] = NotCalled
  /\ task[s] \in {"none", "loop"} => expiring[s]["loop"] = NotCalled
  /\ expiring[s]["loop"].stage = "running" => task[s] = "expiring"
  /\ \A c \in Callers :
       /\ expiring[s][c].left \subseteq expiring[s][c].leases
       /\ \A k \in expiring[s][c].leases : lease[s][k] # "none"
       /\ expiring[s][c].stage # "running" => expiring[s][c].left = {}

\* Only a shutdown or the end of the loop cancels waiters and calls for leases to
\* expire, so that a loop nobody stopped ends with an error.
Ends(s) ==
  /\ ~asked[s] /\ task[s] \in {"none", "loop"} => ~cut[s] /\ called[s] = {}
  /\ task[s] \in Ended => broken[s] \/ asked[s]
  /\ task[s] = "ended" => outcome[s] # "cancelled"

\* Until the loop is left or a shutdown begins, a registration that got past its
\* lease holds it, and the entry is the service's and maintained.
Serves(s) ==
  losses = 0 /\ faults = 0 /\ up[s] /\ ~asked[s] /\ task[s] \in {"none", "loop"} =>
    \A k \in Keys :
      IF reg[s][k] \in {"none", "creating", "refused"}
      THEN lease[s][k] = "none"
      ELSE /\ reg[s][k] # "failed" /\ lease[s][k] = "held" /\ entry[k] = s
           /\ task[s] = "loop" \/ main[s] = "registering"

\* Without faults, an expired lease has lost its entry. Only a delete of the
\* shutdown's can be outdated by a refresh, and the loop expires that lease again;
\* what an expire call is through with has lost its entry, or is the loop's.
Releases(s) ==
  faults = 0 =>
    /\ behind[s] = {}
    /\ \A k \in Keys :
         /\ lease[s][k] = "expired" => entry[k] # s
         /\ deleting[s][k] # None /\ ~deleting[s][k].known /\ entry[k] = s =>
              /\ deleting[s][k].by = "shutdown"
              /\ task[s] \in Ended => k \in expiring[s]["loop"].leases
         /\ task[s] \in Ended /\ entry[k] = s => \A c \in Callers :
               k \in expiring[s][c].leases =>
                  \/ k \in expiring[s][c].left
                  \/ c = "shutdown" /\ k \in expiring[s]["loop"].leases

Safe(s) == AtWork(s) /\ Registers(s) /\ Calls(s) /\ Ends(s) /\ Serves(s) /\ Releases(s)
ServiceInv == TypeOK /\ \A s \in Services : Safe(s)

-----------------------------------------------------------------------------
(* Lemmas about what a step changes.                                       *)

\* A step of another service.
Unmoved(t) ==
  /\ lease'[t] = lease[t] /\ behind'[t] = behind[t] /\ called'[t] = called[t]
  /\ deleting'[t] = deleting[t] /\ expiring'[t] = expiring[t] /\ cut'[t] = cut[t]
  /\ refreshing'[t] = refreshing[t] /\ reg'[t] = reg[t] /\ task'[t] = task[t]
  /\ broken'[t] = broken[t] /\ outcome'[t] = outcome[t] /\ asked'[t] = asked[t]
  /\ main'[t] = main[t] /\ up'[t] = up[t]
  /\ losses \in Nat /\ faults \in Nat
  /\ losses' \in {losses, losses + 1} /\ faults' \in {faults, faults + 1}

\* A service stays safe when another one acts and leaves it its entries.
LEMMA Elsewhere ==
  ASSUME NEW t \in Services, Safe(t), Unmoved(t),
         \A k \in Keys : entry'[k] = t <=> entry[k] = t
  PROVE  Safe(t)'
<1>1. (losses' = 0 => losses = 0) /\ (faults' = 0 => faults = 0)
  BY DEF Unmoved
<1>2. AtWork(t)' /\ Registers(t)' /\ Calls(t)' /\ Ends(t)'
  BY DEF Unmoved, Safe, AtWork, Registers, Calls, Ends
<1>3. Serves(t)'
  BY <1>1 DEF Unmoved, Safe, Serves
<1>4. Releases(t)'
  BY <1>1 DEF Unmoved, Safe, Releases
<1> QED
  BY <1>2, <1>3, <1>4 DEF Safe

\* The calls of LeaseGroup.expire.
Calling == [stage : {"idle", "running", "done"}, leases : SUBSET Keys, left : SUBSET Keys,
            late : BOOLEAN]

\* A step of one call leaves the others alone.
LEMMA OneCall ==
  ASSUME TypeOK, NEW s \in Services, NEW c \in Callers, NEW r \in Calling,
         expiring' = [expiring EXCEPT ![s][c] = r]
  PROVE  /\ expiring' \in [Services -> [Callers -> Calling]]
         /\ \A t \in Services \ {s} : expiring'[t] = expiring[t]
         /\ \A x \in Callers \ {c} : expiring'[s][x] = expiring[s][x]
         /\ expiring'[s][c] = r
  BY Zenon DEF TypeOK, Calling

\* An expire call is for the leases that are held.
LEMMA GroupCalled ==
  ASSUME TypeOK, NEW s \in Services, NEW c \in Callers, ExpireGroup(s, c)
  PROVE  \E r \in Calling :
           /\ expiring' = [expiring EXCEPT ![s][c] = r]
           /\ r.stage = "running" /\ r.leases = Held(s) /\ r.left = Held(s)
<1> DEFINE r == [stage |-> "running", leases |-> Held(s), left |-> Held(s), late |-> FALSE]
<1>1. r \in Calling
  BY DEF Calling, Held
<1>2. expiring' = [expiring EXCEPT ![s][c] = r]
  BY DEF ExpireGroup
<1> QED
  BY <1>1, <1>2

\* A refresh outdates at most the delete of its own lease.
LEMMA Superseded ==
  ASSUME TypeOK, NEW s \in Services, NEW k \in Keys, Outdated(s, k)
  PROVE  /\ deleting' \in [Services -> [Keys -> {None} \cup [by : Callers, known : BOOLEAN]]]
         /\ \A t \in Services \ {s} : deleting'[t] = deleting[t]
         /\ \A j \in Keys : deleting'[s][j] # None =>
              /\ deleting[s][j] # None /\ deleting'[s][j].by = deleting[s][j].by
              /\ j # k => deleting'[s][j] = deleting[s][j]
<1>1. deleting \in [Services -> [Keys -> {None} \cup [by : Callers, known : BOOLEAN]]]
  BY DEF TypeOK
<1>2. CASE deleting[s][k] = None
  BY <1>1, <1>2 DEF Outdated
<1>3. CASE deleting[s][k] # None
  <2> DEFINE r == [by |-> deleting[s][k].by, known |-> FALSE]
  <2>1. r \in [by : Callers, known : BOOLEAN] /\ r.by = deleting[s][k].by
    BY <1>1, <1>3
  <2>2. deleting' = [deleting EXCEPT ![s][k] = r]
    BY <1>3 DEF Outdated
  <2> HIDE DEF r
  <2> QED
    BY <1>1, <1>3, <2>1, <2>2
<1> QED
  BY <1>2, <1>3

\* The call whose delete is answered is through with that lease.
LEMMA Answered ==
  ASSUME TypeOK, NEW s \in Services, NEW k \in Keys, Deleted(s, k),
         NEW by, by = deleting[s][k].by
  PROVE  /\ deleting[s][k] # None /\ by \in Callers /\ k \in expiring[s][by].left
         /\ \E r \in Calling :
              /\ expiring' = [expiring EXCEPT ![s][by] = r]
              /\ r.stage = expiring[s][by].stage /\ r.leases = expiring[s][by].leases
              /\ r.left = expiring[s][by].left \ {k}
<1>1. deleting[s][k] # None /\ by \in Callers /\ k \in expiring[s][by].left
  BY DEF TypeOK, AtWork, Deleted
<1>2. PICK late \in BOOLEAN : expiring' = [expiring EXCEPT ![s][by] = Without(expiring[s][by], k, late)]
  BY <1>1 DEF Deleted, TypeOK
<1>3. expiring[s][by] \in Calling
  BY <1>1 DEF TypeOK, Calling
<1> DEFINE r == Without(expiring[s][by], k, late)
<1>4. r \in Calling
  BY <1>3 DEF Without, Calling
<1>5. r.stage = expiring[s][by].stage /\ r.leases = expiring[s][by].leases
      /\ r.left = expiring[s][by].left \ {k}
  BY <1>3 DEF Without, Calling
<1> HIDE DEF r
<1>6. expiring' = [expiring EXCEPT ![s][by] = r]
  BY <1>2 DEF r
<1> QED
  BY <1>1, <1>4, <1>5, <1>6


-----------------------------------------------------------------------------
(* The invariant is kept, action by action.                                *)

\* A delete that matches releases the entry. One that does not leaves an entry that
\* is another's, or that a refresh has made newer and the loop will expire.
LEMMA DeletedStep ==
  ASSUME ServiceInv, NEW s \in Services, NEW k \in Keys, Deleted(s, k)
  PROVE  ServiceInv'
<1>1. TypeOK /\ Safe(s)
  BY DEF ServiceInv
<1>2. PICK by : by = deleting[s][k].by
  OBVIOUS
<1>3. deleting[s][k] # None /\ by \in Callers /\ k \in expiring[s][by].left
  BY <1>1, <1>2, Answered
<1>4. PICK r \in Calling :
        /\ expiring' = [expiring EXCEPT ![s][by] = r]
        /\ r.stage = expiring[s][by].stage /\ r.leases = expiring[s][by].leases
        /\ r.left = expiring[s][by].left \ {k}
  BY <1>1, <1>2, Answered
<1>5. /\ expiring' \in [Services -> [Callers -> Calling]]
      /\ \A t \in Services \ {s} : expiring'[t] = expiring[t]
      /\ \A x \in Callers \ {by} : expiring'[s][x] = expiring[s][x]
      /\ expiring'[s][by] = r
  BY <1>1, <1>3, <1>4, OneCall
<1>6. /\ deleting' = [deleting EXCEPT ![s][k] = None]
      /\ behind' = behind /\ called' = called /\ cut' = cut /\ refreshing' = refreshing
      /\ reg' = reg /\ task' = task /\ broken' = broken /\ outcome' = outcome
      /\ detached' = detached /\ main' = main /\ asked' = asked /\ up' = up
      /\ losses' = losses /\ crashes' = crashes
  BY DEF Deleted, taskVars, mainVars
<1>7. \/ /\ (deleting[s][k].known /\ entry[k] = s) \/ entry[k] = None
         /\ entry' = [entry EXCEPT ![k] = None]
         /\ lease' = [lease EXCEPT ![s][k] = "expired"]
         /\ faults' = faults
      \/ /\ ~(deleting[s][k].known /\ entry[k] = s)
         /\ faults' = faults /\ entry' = entry /\ lease' = lease
      \/ /\ faults < MaxFaults /\ faults' = faults + 1 /\ lease' = lease
         /\ \/ entry' = entry
            \/ entry[k] = s /\ entry' = [entry EXCEPT ![k] = None]
  BY Zenon DEF Deleted, Fault, NoFault
<1>8. /\ faults' \in 0..MaxFaults /\ faults' \in {faults, faults + 1}
      /\ faults \in Nat /\ losses \in Nat
  BY <1>1, <1>7, ServiceAssumption DEF TypeOK
<1>9. ASSUME NEW t \in Services \ {s} PROVE Safe(t)'
  <2>1. Unmoved(t)
    <3>1. lease'[t] = lease[t] /\ deleting'[t] = deleting[t]
      BY <1>1, <1>6, <1>7 DEF TypeOK
    <3> QED
      BY <3>1, <1>5, <1>6, <1>8 DEF Unmoved
  <2>2. \A j \in Keys : entry'[j] = t <=> entry[j] = t
    BY <1>1, <1>7, ServiceAssumption DEF TypeOK
  <2> QED
    BY <2>1, <2>2, Elsewhere DEF ServiceInv
<1>10. /\ \A j \in Keys : lease'[s][j] # lease[s][j] => j = k
       /\ lease'[s][k] \in {lease[s][k], "expired"}
       /\ \A j \in Keys : deleting'[s][j] = IF j = k THEN None ELSE deleting[s][j]
  BY <1>1, <1>6, <1>7 DEF TypeOK
<1>11. AtWork(s)'
  <2>1. refreshing'[s] # None => task'[s] = "loop"
    BY <1>1, <1>6 DEF Safe, AtWork
  <2>2. ASSUME NEW j \in Keys, deleting'[s][j] # None
        PROVE  j \in expiring'[s][deleting'[s][j].by].left
    <3>1. j # k /\ deleting'[s][j] = deleting[s][j] /\ deleting[s][j] # None
      BY <1>10, <2>2
    <3>2. j \in expiring[s][deleting[s][j].by].left
      BY <1>1, <3>1 DEF Safe, AtWork
    <3>3. deleting[s][j].by \in Callers
      <4>1. deleting[s][j] \in {None} \cup [by : Callers, known : BOOLEAN]
        BY <1>1 DEF TypeOK
      <4>2. deleting[s][j] \in [by : Callers, known : BOOLEAN]
        BY <3>1, <4>1
      <4> QED
        BY <4>2
    <3>4. CASE deleting[s][j].by = by
      BY <3>1, <3>2, <3>4, <1>4, <1>5
    <3>5. CASE deleting[s][j].by # by
      BY <3>1, <3>2, <3>3, <3>5, <1>5
    <3> QED
      BY <3>4, <3>5
  <2> QED
    BY <2>1, <2>2 DEF AtWork
<1>12. lease[s][k] # "none"
  BY <1>1, <1>3 DEF Safe, Calls
<1>13. Registers(s)'
  BY <1>1, <1>6, <1>10, <1>12 DEF Safe, Registers
<1>14. Calls(s)'
  <2>1. expiring[s][by].stage = "running" /\ expiring[s][by] # NotCalled
    BY <1>1, <1>3 DEF Safe, Calls, NotCalled
  <2>2. \A c \in Callers : expiring'[s][c].leases = expiring[s][c].leases
                        /\ expiring'[s][c].stage = expiring[s][c].stage
                        /\ expiring'[s][c].left \subseteq expiring[s][c].left
    BY <1>4, <1>5
  <2>3. \A c \in Callers : expiring[s][c] = NotCalled => expiring'[s][c] = NotCalled
    BY <1>5, <2>1
  <2>4. \A c \in Callers : \A j \in expiring'[s][c].leases : lease'[s][j] # "none"
    <3>1. \A c \in Callers : \A j \in expiring[s][c].leases : j \in Keys /\ lease[s][j] # "none"
      BY <1>1 DEF Safe, Calls, TypeOK
    <3>2. \A j \in Keys : lease[s][j] # "none" => lease'[s][j] # "none"
      BY <1>10
    <3> QED
      BY <2>2, <3>1, <3>2
  <2> QED
    BY <1>1, <1>6, <2>2, <2>3, <2>4 DEF Safe, Calls, Callers
<1>15. Ends(s)'
  BY <1>1, <1>6 DEF Safe, Ends
<1>16. Serves(s)'
  <2>1. asked[s] \/ task[s] \notin {"none", "loop"}
    BY <1>1, <1>3 DEF Safe, Calls, NotCalled, Callers
  <2> QED
    BY <1>6, <2>1 DEF Serves
<1>17. Releases(s)'
  <2> SUFFICES ASSUME faults' = 0 PROVE Releases(s)'
    BY DEF Releases
  <2>1. faults = 0 /\ faults' = faults
    BY <1>8
  <2>2. entry' = entry \/ entry' = [entry EXCEPT ![k] = None]
    BY <1>7
  <2>3. \A j \in Keys : entry'[j] = s => entry[j] = s
    BY <1>1, <2>2, ServiceAssumption DEF TypeOK
  <2>4. entry'[k] = s => ~deleting[s][k].known /\ lease' = lease
    BY <1>1, <1>7, <2>1, ServiceAssumption DEF TypeOK
  <2>5. \A j \in Keys : lease'[s][j] = "expired" => entry'[j] # s
    BY <1>1, <1>10, <2>1, <2>3, <2>4 DEF Safe, Releases, TypeOK
  <2>6. \A c \in Callers : expiring'[s][c].leases = expiring[s][c].leases
    BY <1>4, <1>5
  <2>7. ASSUME NEW j \in Keys, task[s] \in Ended, entry'[j] = s, NEW c \in Callers,
               j \in expiring[s][c].leases
        PROVE  \/ j \in expiring'[s][c].left
               \/ c = "shutdown" /\ j \in expiring[s]["loop"].leases
    <3>1. CASE c = by /\ j = k
      BY <1>1, <1>2, <1>3, <2>1, <2>3, <2>4, <2>7, <3>1 DEF Safe, Releases
    <3>2. CASE c # by \/ j # k
      <4>1. j \in expiring'[s][c].left <=> j \in expiring[s][c].left
        BY <1>4, <1>5, <3>2
      <4> QED
        BY <1>1, <2>1, <2>3, <2>7, <4>1 DEF Safe, Releases
    <3> QED
      BY <3>1, <3>2
  <2>8. \A j \in Keys : deleting'[s][j] # None /\ ~deleting'[s][j].known /\ entry'[j] = s =>
           /\ deleting'[s][j].by = "shutdown"
           /\ task[s] \in Ended => j \in expiring[s]["loop"].leases
    BY <1>1, <1>10, <2>1, <2>3 DEF Safe, Releases
  <2> QED
    BY <1>1, <1>6, <2>1, <2>5, <2>6, <2>7, <2>8 DEF Safe, Releases, Callers
<1>18. \A t \in Services : Safe(t)'
  BY <1>9, <1>11, <1>13, <1>14, <1>15, <1>16, <1>17 DEF Safe
<1>19. TypeOK'
  <2>1. /\ entry' \in [Keys -> Services \cup Others \cup {None}]
        /\ lease' \in [Services -> [Keys -> {"none", "held", "expired"}]]
    <3>1. entry \in [Keys -> Services \cup Others \cup {None}]
          /\ lease \in [Services -> [Keys -> {"none", "held", "expired"}]]
      BY <1>1 DEF TypeOK
    <3>2. entry' = entry \/ entry' = [entry EXCEPT ![k] = None]
      BY <1>7
    <3>3. lease' = lease \/ lease' = [lease EXCEPT ![s][k] = "expired"]
      BY <1>7
    <3>4. entry' \in [Keys -> Services \cup Others \cup {None}]
      BY <3>1, <3>2
    <3> QED
      BY <3>1, <3>3, <3>4
  <2>2. deleting' \in [Services -> [Keys -> {None} \cup [by : Callers, known : BOOLEAN]]]
    BY <1>1, <1>6 DEF TypeOK
  <2> QED
    BY <1>1, <1>5, <1>6, <1>8, <1>18, <2>1, <2>2 DEF TypeOK, Calling, Safe
<1> QED
  BY <1>18, <1>19 DEF ServiceInv

\* A key is registered once, by whoever creates its entry.
LEMMA CreateStep ==
  ASSUME ServiceInv, NEW s \in Services, NEW k \in Keys, Create(s, k)
  PROVE  ServiceInv'
<1>1. TypeOK /\ Safe(s)
  BY DEF ServiceInv
<1>2. /\ up[s] /\ reg[s][k] = "creating"
      /\ \/ /\ entry[k] = None /\ faults' = faults
            /\ entry' = [entry EXCEPT ![k] = s]
            /\ lease' = [lease EXCEPT ![s][k] = "held"]
            /\ reg' = [reg EXCEPT ![s][k] = "init"]
         \/ /\ lease' = lease /\ reg' = [reg EXCEPT ![s][k] = "refused"]
            /\ \/ entry' = entry
               \/ faults' = faults + 1 /\ entry[k] = None /\ entry' = [entry EXCEPT ![k] = s]
  BY Zenon DEF Create, Answer, Fault, NoFault
<1>3. /\ \A j \in Keys \ {k} : reg'[s][j] = reg[s][j] /\ lease'[s][j] = lease[s][j]
                               /\ entry'[j] = entry[j]
      /\ \/ reg'[s][k] = "refused" /\ lease'[s][k] = lease[s][k]
         \/ reg'[s][k] = "init" /\ lease'[s][k] = "held" /\ entry'[k] = s
  BY <1>1, <1>2 DEF TypeOK
<1>4. /\ task' = task /\ main' = main /\ up' = up /\ asked' = asked /\ losses' = losses
      /\ crashes' = crashes
  BY DEF Create, taskVars, mainVars
<1>5. ASSUME NEW t \in Services \ {s} PROVE Safe(t)'
  <2>1. Unmoved(t)
    BY <1>1, ServiceAssumption DEF TypeOK, Unmoved, Create, Answer, Fault, NoFault, taskVars,
       mainVars
  <2>2. \A j \in Keys : entry'[j] = t <=> entry[j] = t
    BY <1>1, ServiceAssumption DEF TypeOK, Create, Answer, Fault, NoFault, taskVars, mainVars
  <2> QED
    BY <2>1, <2>2, Elsewhere DEF ServiceInv
<1>6. AtWork(s)' /\ Ends(s)'
  BY <1>1 DEF Safe, AtWork, Ends, Ended, Create, Answer, taskVars, mainVars
<1>7. Registers(s)'
  <2>1. task[s] = "none" \/ main[s] \in {"idle", "registering"} => k = Name[s]
    BY <1>1, <1>2 DEF Safe, Registers
  <2>2. main[s] # "idle"
    BY <1>1, <1>2, <2>1 DEF Safe, Registers
  <2>3. Name[s] \in Keys
    BY ServiceAssumption DEF Keys
  <2> QED
    BY <1>1, <1>2, <1>3, <1>4, <2>1, <2>2, <2>3 DEF Safe, Registers, Entered
<1>8. Calls(s)'
  BY <1>1 DEF TypeOK, Safe, Calls, Callers, Create, Answer, taskVars, mainVars
<1>9. Serves(s)'
  <2> SUFFICES ASSUME losses' = 0, faults' = 0, up'[s], ~asked'[s], task'[s] \in {"none", "loop"},
                      NEW j \in Keys
               PROVE  IF reg'[s][j] \in {"none", "creating", "refused"}
                      THEN lease'[s][j] = "none"
                      ELSE /\ reg'[s][j] # "failed" /\ lease'[s][j] = "held" /\ entry'[j] = s
                           /\ task'[s] = "loop" \/ main'[s] = "registering"
    BY DEF Serves
  <2>1. losses = 0 /\ faults = 0
    BY <1>1, <1>4, ServiceAssumption DEF TypeOK, Create, Fault, NoFault
  <2>2. task[s] = "loop" \/ main[s] = "registering"
    BY <1>1, <1>2, <1>4 DEF Safe, Registers
  <2> QED
    BY <1>1, <1>2, <1>3, <1>4, <2>1, <2>2 DEF Safe, Serves
<1>10. Releases(s)'
  BY <1>1, ServiceAssumption DEF TypeOK, Safe, AtWork, Registers, Calls, Releases, NotCalled,
     Ended, Callers, Create, Answer, Fault, NoFault, taskVars, mainVars
<1>11. \A t \in Services : Safe(t)'
  BY <1>5, <1>6, <1>7, <1>8, <1>9, <1>10 DEF Safe
<1>12. TypeOK'
  <2>1. losses' \in 0..MaxLosses /\ faults' \in 0..MaxFaults /\ crashes' \in 0..MaxCrashes
    BY <1>1, <1>4, ServiceAssumption DEF TypeOK, Create, Fault, NoFault
  <2>2. lease' \in [Services -> [Keys -> {"none", "held", "expired"}]]
    <3>0. lease \in [Services -> [Keys -> {"none", "held", "expired"}]]
      BY <1>1 DEF TypeOK
    <3>1. lease' = lease \/ lease' = [lease EXCEPT ![s][k] = "held"]
      BY <1>2
    <3> QED
      BY <3>0, <3>1
  <2>3. reg' \in [Services -> [Keys ->
          {"none", "creating", "refused", "init", "attaching", "attached", "failed"}]]
    <3>0. reg \in [Services -> [Keys ->
            {"none", "creating", "refused", "init", "attaching", "attached", "failed"}]]
      BY <1>1 DEF TypeOK
    <3>1. reg' = [reg EXCEPT ![s][k] = "init"] \/ reg' = [reg EXCEPT ![s][k] = "refused"]
      BY <1>2
    <3> QED
      BY <3>0, <3>1
  <2>4. entry' \in [Keys -> Services \cup Others \cup {None}]
    <3>0. entry \in [Keys -> Services \cup Others \cup {None}]
      BY <1>1 DEF TypeOK
    <3>1. entry' = entry \/ entry' = [entry EXCEPT ![k] = s]
      BY <1>2
    <3> QED
      BY <3>0, <3>1
  <2>5. UNCHANGED <<behind, called, deleting, expiring, cut, refreshing, taskVars, mainVars,
                    up>>
    BY DEF Create
  <2> QED
    BY <1>1, <1>11, <2>1, <2>2, <2>3, <2>4, <2>5 DEF TypeOK, Safe, taskVars, mainVars
<1> QED
  BY <1>11, <1>12 DEF ServiceInv

\* A delete begins for a lease that its call has left, with the revision known then.
LEMMA BeginDeleteStep ==
  ASSUME ServiceInv, NEW s \in Services, NEW c \in Callers, NEW k \in Keys, BeginDelete(s, c, k)
  PROVE  ServiceInv'
<1>1. TypeOK /\ Safe(s)
  BY DEF ServiceInv
<1>2. ASSUME NEW t \in Services \ {s} PROVE Safe(t)'
  BY Elsewhere, ServiceAssumption DEF ServiceInv, TypeOK, Unmoved, BeginDelete, bounds,
     taskVars, mainVars
<1>3. Registers(s)' /\ Calls(s)' /\ Serves(s)'
  BY <1>1 DEF Safe, Registers, Calls, Serves, Entered, Callers, BeginDelete, bounds, taskVars,
     mainVars
<1>4. AtWork(s)'
  BY <1>1 DEF TypeOK, Safe, AtWork, BeginDelete, taskVars
<1>5. Ends(s)'
  BY <1>1, ServiceAssumption DEF TypeOK, Safe, Ends, Registers, Calls, Ended, Entered, Callers,
     NotCalled, BeginDelete, bounds, taskVars, mainVars
<1>6. Releases(s)'
  BY <1>1 DEF TypeOK, Safe, Releases, Ended, Callers, BeginDelete, bounds, taskVars
<1>7. \A t \in Services : Safe(t)'
  BY <1>2, <1>3, <1>4, <1>5, <1>6 DEF Safe
<1>8. TypeOK'
  BY <1>1, <1>7 DEF TypeOK, Safe, BeginDelete, bounds, taskVars, mainVars
<1> QED
  BY <1>7, <1>8 DEF ServiceInv

\* A monitor expires a lease only when nobody has its entry.
LEMMA MonitorSeesStep ==
  ASSUME ServiceInv, NEW s \in Services, NEW k \in Keys, MonitorSees(s, k)
  PROVE  ServiceInv'
<1>1. TypeOK /\ Safe(s)
  BY DEF ServiceInv
<1>2. ASSUME NEW t \in Services \ {s} PROVE Safe(t)'
  BY Elsewhere, ServiceAssumption DEF ServiceInv, TypeOK, Unmoved, MonitorSees, bounds,
     taskVars, mainVars
<1>3. AtWork(s)' /\ Ends(s)'
  BY <1>1 DEF Safe, AtWork, Ends, Ended, MonitorSees, taskVars, mainVars
<1>4. Registers(s)'
  BY <1>1 DEF TypeOK, Safe, Registers, Entered, MonitorSees, taskVars, mainVars
<1>5. Calls(s)'
  BY <1>1 DEF TypeOK, Safe, Calls, Callers, MonitorSees, taskVars, mainVars
<1>6. Serves(s)'
  BY <1>1, ServiceAssumption DEF TypeOK, Safe, Serves, Registers, Calls, Entered, Callers,
     NotCalled, MonitorSees, bounds, taskVars, mainVars
<1>7. Releases(s)'
  BY <1>1, ServiceAssumption DEF TypeOK, Safe, Releases, Registers, Calls, Ended, Callers,
     Entered, NotCalled, MonitorSees, bounds, taskVars, mainVars
<1>8. \A t \in Services : Safe(t)'
  BY <1>2, <1>3, <1>4, <1>5, <1>6, <1>7 DEF Safe
<1>9. TypeOK'
  BY <1>1, <1>8 DEF TypeOK, Safe, MonitorSees, bounds, taskVars, mainVars
<1> QED
  BY <1>8, <1>9 DEF ServiceInv

\* A monitor that fails expires a lease, which counts as a fault.
LEMMA MonitorFailsStep ==
  ASSUME ServiceInv, NEW s \in Services, NEW k \in Keys, MonitorFails(s, k)
  PROVE  ServiceInv'
<1>1. TypeOK /\ Safe(s)
  BY DEF ServiceInv
<1>2. ASSUME NEW t \in Services \ {s} PROVE Safe(t)'
  BY Elsewhere, ServiceAssumption DEF ServiceInv, TypeOK, Unmoved, MonitorFails, Fault,
     taskVars, mainVars
<1>3. AtWork(s)' /\ Ends(s)'
  BY <1>1 DEF Safe, AtWork, Ends, Ended, MonitorFails, taskVars, mainVars
<1>4. Registers(s)'
  BY <1>1 DEF TypeOK, Safe, Registers, Entered, MonitorFails, taskVars, mainVars
<1>5. Calls(s)'
  BY <1>1 DEF TypeOK, Safe, Calls, Callers, MonitorFails, taskVars, mainVars
<1>6. Serves(s)'
  BY <1>1 DEF TypeOK, Safe, Serves, MonitorFails, Fault, taskVars, mainVars
<1>7. Releases(s)'
  BY <1>1 DEF TypeOK, Safe, Releases, Ended, Callers, MonitorFails, Fault, taskVars
<1>8. \A t \in Services : Safe(t)'
  BY <1>2, <1>3, <1>4, <1>5, <1>6, <1>7 DEF Safe
<1>9. TypeOK'
  <2>1. losses' \in 0..MaxLosses /\ faults' \in 0..MaxFaults /\ crashes' \in 0..MaxCrashes
    BY <1>1, ServiceAssumption DEF TypeOK, MonitorFails, Fault, NoFault, bounds
  <2>2. /\ lease' \in [Services -> [Keys -> {"none", "held", "expired"}]]
        /\ reg' \in [Services -> [Keys ->
             {"none", "creating", "refused", "init", "attaching", "attached", "failed"}]]
    BY <1>1 DEF TypeOK, MonitorFails, groupVars
  <2>3. expiring' \in [Services -> [Callers -> Calling]]
    BY <1>1 DEF TypeOK, Calling, MonitorFails, groupVars
  <2> QED
    BY <1>1, <1>8, <2>1, <2>2, <2>3 DEF TypeOK, Calling, Safe, MonitorFails, groupVars,
       taskVars, mainVars, bounds
<1> QED
  BY <1>8, <1>9 DEF ServiceInv

\* A refresh begins in the loop.
LEMMA BeginRefreshStep ==
  ASSUME ServiceInv, NEW s \in Services, NEW k \in Keys, BeginRefresh(s, k)
  PROVE  ServiceInv'
<1>1. TypeOK /\ Safe(s)
  BY DEF ServiceInv
<1>2. ASSUME NEW t \in Services \ {s} PROVE Safe(t)'
  BY Elsewhere, ServiceAssumption DEF ServiceInv, TypeOK, Unmoved, BeginRefresh, bounds,
     taskVars, mainVars
<1>3. Registers(s)' /\ Calls(s)' /\ Ends(s)' /\ Serves(s)' /\ Releases(s)'
  BY <1>1 DEF Safe, Registers, Calls, Ends, Serves, Releases, Entered, Callers, Ended,
     BeginRefresh, bounds, taskVars, mainVars
<1>4. AtWork(s)'
  BY <1>1 DEF TypeOK, Safe, AtWork, BeginRefresh, taskVars
<1>5. \A t \in Services : Safe(t)'
  BY <1>2, <1>3, <1>4 DEF Safe
<1>6. TypeOK'
  BY <1>1, <1>5 DEF TypeOK, Safe, BeginRefresh, bounds, taskVars, mainVars
<1> QED
  BY <1>5, <1>6 DEF ServiceInv

\* A refresh keeps the entry and outdates the delete of its lease, which a shutdown
\* began; a refresh that is refused leaves the loop, and every held lease is expired.
LEMMA RefreshedStep ==
  ASSUME ServiceInv, NEW s \in Services, Refreshed(s)
  PROVE  ServiceInv'
<1>1. TypeOK /\ Safe(s)
  BY DEF ServiceInv
<1>2. /\ refreshing[s] \in Keys /\ task[s] = "loop"
      /\ refreshing' = [refreshing EXCEPT ![s] = None]
      /\ entry' = entry /\ lease' = lease /\ behind' = behind /\ called' = called /\ cut' = cut
      /\ reg' = reg /\ main' = main /\ asked' = asked /\ up' = up /\ losses' = losses
      /\ faults' = faults /\ crashes' = crashes /\ outcome' = outcome /\ detached' = detached
      /\ \/ /\ Outdated(s, refreshing[s]) /\ expiring' = expiring /\ task' = task
            /\ broken' = broken
         \/ /\ ExpireGroup(s, "loop") /\ deleting' = deleting
            /\ task' = [task EXCEPT ![s] = "expiring"] /\ broken' = [broken EXCEPT ![s] = TRUE]
  BY <1>1, ServiceAssumption DEF Refreshed, LeaveLoop, taskVars, mainVars, bounds, TypeOK,
     AtWork
<1>3. /\ deleting' \in [Services -> [Keys -> {None} \cup [by : Callers, known : BOOLEAN]]]
      /\ \A t \in Services \ {s} : deleting'[t] = deleting[t]
      /\ \A j \in Keys : deleting'[s][j] # None =>
           deleting[s][j] # None /\ deleting'[s][j].by = deleting[s][j].by
  BY <1>1, <1>2, Superseded DEF TypeOK
<1>4. /\ expiring' \in [Services -> [Callers -> Calling]]
      /\ \A t \in Services \ {s} : expiring'[t] = expiring[t]
      /\ expiring'[s]["shutdown"] = expiring[s]["shutdown"]
      /\ \/ task' = task /\ expiring' = expiring
         \/ /\ task'[s] = "expiring"
            /\ expiring'[s]["loop"].stage = "running" 
            /\ expiring'[s]["loop"].leases = Held(s) /\ expiring'[s]["loop"].left = Held(s)
  <2>1. CASE expiring' = expiring /\ task' = task
    BY <1>1, <2>1 DEF TypeOK, Calling
  <2>2. CASE ExpireGroup(s, "loop") /\ task' = [task EXCEPT ![s] = "expiring"]
    <3>1. PICK r \in Calling :
            /\ expiring' = [expiring EXCEPT ![s]["loop"] = r]
            /\ r.stage = "running" /\ r.leases = Held(s) /\ r.left = Held(s)
      BY <1>1, <2>2, GroupCalled DEF Callers
    <3>2. task'[s] = "expiring"
      BY <1>1, <2>2 DEF TypeOK
    <3> QED
      BY <1>1, <3>1, <3>2, OneCall DEF Callers
  <2> QED
    BY <1>2, <2>1, <2>2
<1>5. \A j \in Keys : deleting[s][j] # None => deleting[s][j].by = "shutdown"
  BY <1>1, <1>2 DEF TypeOK, Safe, AtWork, Calls, NotCalled, Callers
<1>6. ASSUME NEW t \in Services \ {s} PROVE Safe(t)'
  BY Elsewhere, ServiceAssumption DEF ServiceInv, TypeOK, Unmoved, Refreshed, Outdated,
     LeaveLoop, bounds, taskVars, mainVars, ExpireGroup, Held
<1>7. AtWork(s)'
  <2>1. refreshing'[s] = None
    BY <1>1, <1>2 DEF TypeOK
  <2> QED
    BY <1>1, <1>3, <1>4, <1>5, <2>1 DEF Safe, AtWork
<1>8. Registers(s)'
  BY <1>1, ServiceAssumption DEF TypeOK, Safe, AtWork, Registers, Entered, Keys, Refreshed,
     Matches, Outdated, LeaveLoop, bounds, taskVars, mainVars, ExpireGroup, Held
<1>9. Calls(s)'
  <2>1. Held(s) \subseteq Keys /\ \A j \in Held(s) : lease[s][j] # "none"
    BY DEF Held
  <2> QED
    BY <1>1, <1>2, <1>4, <2>1 DEF Safe, Calls, Callers
<1>10. Ends(s)'
  BY <1>1 DEF TypeOK, Safe, Ends, Ended, Refreshed, LeaveLoop, taskVars, mainVars, Held
<1>11. Serves(s)'
  BY <1>1 DEF TypeOK, Safe, Serves, Refreshed, LeaveLoop, bounds, taskVars, mainVars, Held
<1>12. Releases(s)'
  <2> SUFFICES ASSUME faults' = 0 PROVE Releases(s)'
    BY DEF Releases
  <2>1. faults = 0
    BY <1>2
  <2>2. \A j \in Keys : deleting[s][j] # None => lease[s][j] # "none"
    BY <1>1, <1>5 DEF TypeOK, Safe, AtWork, Calls, Callers
  <2>3. \A j \in Keys : lease[s][j] # "none" /\ entry[j] = s => j \in Held(s)
    BY <1>1, <2>1 DEF TypeOK, Safe, Releases, Held
  <2>4. \A j \in Keys : deleting'[s][j] # None /\ entry[j] = s =>
          deleting'[s][j].by = "shutdown" /\ j \in Held(s)
    BY <1>3, <1>5, <2>2, <2>3
  <2>5. \A j \in Keys : j \in expiring[s]["shutdown"].leases /\ entry[j] = s => j \in Held(s)
    BY <1>1, <2>3 DEF Safe, Calls, Callers
  <2>6. task'[s] \in Ended => /\ expiring'[s]["loop"].leases = Held(s)
                              /\ expiring'[s]["loop"].left = Held(s)
    BY <1>2, <1>4 DEF Ended
  <2>7. behind'[s] = {} /\ \A j \in Keys : lease'[s][j] = "expired" => entry'[j] # s
    BY <1>1, <1>2, <2>1 DEF Safe, Releases
  <2> QED
    BY <1>2, <1>4, <2>4, <2>5, <2>6, <2>7 DEF Releases, Callers
<1>13. \A t \in Services : Safe(t)'
  BY <1>6, <1>7, <1>8, <1>9, <1>10, <1>11, <1>12 DEF Safe
<1>14. TypeOK'
  <2>1. /\ task' \in [Services -> {"none", "loop", "expiring", "detaching", "ended"}]
        /\ broken' \in [Services -> BOOLEAN] /\ refreshing' \in [Services -> Keys \cup {None}]
    <3>1. /\ task \in [Services -> {"none", "loop", "expiring", "detaching", "ended"}]
          /\ broken \in [Services -> BOOLEAN] /\ refreshing \in [Services -> Keys \cup {None}]
      BY <1>1 DEF TypeOK
    <3> QED
      BY <1>2, <3>1
  <2>2. UNCHANGED <<entry, lease, behind, called, cut, reg, main, asked, up, losses, faults,
                    crashes, outcome, detached>>
    BY <1>2
  <2> QED
    BY <1>1, <1>13, <1>3, <1>4, <2>1, <2>2 DEF TypeOK, Calling, Safe
<1> QED
  BY <1>13, <1>14 DEF ServiceInv

\* The loop is left by an error, maybe with a refresh that nobody knows of.
LEMMA LoopFailsStep ==
  ASSUME ServiceInv, NEW s \in Services, LoopFails(s)
  PROVE  ServiceInv'
<1>1. TypeOK /\ Safe(s)
  BY DEF ServiceInv
<1>2. /\ task[s] = "loop" /\ ExpireGroup(s, "loop")
      /\ refreshing' = [refreshing EXCEPT ![s] = None]
      /\ task' = [task EXCEPT ![s] = "expiring"] /\ broken' = [broken EXCEPT ![s] = TRUE]
      /\ \/ deleting' = deleting /\ behind' = behind
         \/ /\ refreshing[s] \in Keys /\ Outdated(s, refreshing[s])
            /\ behind' = [behind EXCEPT ![s] = @ \cup {refreshing[s]}]
  BY <1>1 DEF LoopFails, LeaveLoop, TypeOK
<1>3. /\ deleting' \in [Services -> [Keys -> {None} \cup [by : Callers, known : BOOLEAN]]]
      /\ \A t \in Services \ {s} : deleting'[t] = deleting[t]
      /\ \A j \in Keys : deleting'[s][j] # None =>
           deleting[s][j] # None /\ deleting'[s][j].by = deleting[s][j].by
  BY <1>1, <1>2, Superseded DEF TypeOK
<1>4. /\ expiring' \in [Services -> [Callers -> Calling]]
      /\ expiring'[s]["shutdown"] = expiring[s]["shutdown"]
  BY <1>1, <1>2, GroupCalled, OneCall DEF Callers
<1>5. ASSUME NEW t \in Services \ {s} PROVE Safe(t)'
  <2>1. Unmoved(t)
    BY <1>1, ServiceAssumption DEF TypeOK, Unmoved, LoopFails, Outdated, LeaveLoop, Fault,
       mainVars, ExpireGroup, Held
  <2>2. \A j \in Keys : entry'[j] = t <=> entry[j] = t
    BY <1>1, ServiceAssumption DEF TypeOK, LoopFails, Held
  <2> QED
    BY <2>1, <2>2, Elsewhere DEF ServiceInv
<1>6. AtWork(s)'
  <2>1. refreshing'[s] = None
    BY <1>1, <1>2 DEF TypeOK
  <2>2. \A j \in Keys : deleting[s][j] # None => deleting[s][j].by = "shutdown"
    BY <1>1, <1>2 DEF TypeOK, Safe, AtWork, Calls, NotCalled, Callers
  <2> QED
    BY <1>1, <1>3, <1>4, <2>1, <2>2 DEF Safe, AtWork
<1>7. Registers(s)'
  BY <1>1 DEF TypeOK, Safe, Registers, Entered, LoopFails, LeaveLoop, mainVars, Held
<1>8. Calls(s)'
  BY <1>1 DEF TypeOK, Safe, Calls, Callers, LoopFails, LeaveLoop, mainVars, ExpireGroup, Held
<1>9. Ends(s)'
  BY <1>1 DEF TypeOK, Safe, Ends, Ended, LoopFails, LeaveLoop, mainVars, Held
<1>10. Serves(s)'
  BY <1>1 DEF TypeOK, Safe, Serves, LoopFails, LeaveLoop, Fault, mainVars, Held
<1>11. Releases(s)'
  BY <1>1 DEF TypeOK, Safe, Releases, Ended, Callers, LoopFails, Outdated, LeaveLoop, Fault,
     ExpireGroup, Held
<1>12. \A t \in Services : Safe(t)'
  BY <1>5, <1>6, <1>7, <1>8, <1>9, <1>10, <1>11 DEF Safe
<1>13. TypeOK'
  <2>1. losses' \in 0..MaxLosses /\ faults' \in 0..MaxFaults /\ crashes' \in 0..MaxCrashes
    BY <1>1, ServiceAssumption DEF TypeOK, LoopFails, Fault
  <2>2. /\ task' \in [Services -> {"none", "loop", "expiring", "detaching", "ended"}]
        /\ broken' \in [Services -> BOOLEAN] /\ refreshing' \in [Services -> Keys \cup {None}]
    <3>1. /\ task \in [Services -> {"none", "loop", "expiring", "detaching", "ended"}]
          /\ broken \in [Services -> BOOLEAN] /\ refreshing \in [Services -> Keys \cup {None}]
      BY <1>1 DEF TypeOK
    <3> QED
      BY <1>2, <3>1
  <2>3. behind' \in [Services -> SUBSET Keys]
    <3>1. behind \in [Services -> SUBSET Keys]
      BY <1>1 DEF TypeOK
    <3> QED
      BY <1>2, <3>1
  <2>4. UNCHANGED <<entry, lease, called, cut, reg, mainVars, up, outcome, detached>>
    BY DEF LoopFails, LeaveLoop
  <2> QED
    BY <1>1, <1>12, <1>3, <1>4, <2>1, <2>2, <2>3, <2>4 DEF TypeOK, Calling, Safe, mainVars
<1> QED
  BY <1>12, <1>13 DEF ServiceInv

\* The loop is left because a lease expired uncalled for or the service is asked to stop.
LEMMA BreakLoopStep ==
  ASSUME ServiceInv, NEW s \in Services, BreakLoop(s)
  PROVE  ServiceInv'
<1>1. TypeOK /\ Safe(s)
  BY DEF ServiceInv
<1>2. ASSUME NEW t \in Services \ {s} PROVE Safe(t)'
  <2>1. Unmoved(t)
    BY <1>1, ServiceAssumption DEF TypeOK, Unmoved, BreakLoop, LeaveLoop, bounds, mainVars,
       ExpireGroup, Held
  <2>2. \A j \in Keys : entry'[j] = t <=> entry[j] = t
    BY <1>1, ServiceAssumption DEF TypeOK, BreakLoop, Held
  <2> QED
    BY <2>1, <2>2, Elsewhere DEF ServiceInv
<1>3. AtWork(s)'
  BY <1>1, ServiceAssumption DEF TypeOK, Safe, AtWork, Registers, Calls, Entered, Callers,
     NotCalled, BreakLoop, Interrupted, LeaveLoop, bounds, mainVars, ExpireGroup, Held
<1>4. Registers(s)'
  BY <1>1 DEF TypeOK, Safe, Registers, Entered, BreakLoop, LeaveLoop, mainVars, Held
<1>5. Calls(s)'
  BY <1>1 DEF TypeOK, Safe, Calls, Callers, BreakLoop, LeaveLoop, mainVars, ExpireGroup, Held
<1>6. Ends(s)'
  BY <1>1 DEF TypeOK, Safe, Ends, Ended, BreakLoop, Interrupted, LeaveLoop, bounds, mainVars,
     ExpireGroup, Held
<1>7. Serves(s)'
  BY <1>1 DEF TypeOK, Safe, Serves, BreakLoop, LeaveLoop, bounds, mainVars, Held
<1>8. Releases(s)'
  BY <1>1, ServiceAssumption DEF TypeOK, Safe, AtWork, Registers, Calls, Releases, NotCalled,
     Ended, Callers, BreakLoop, Interrupted, LeaveLoop, bounds, mainVars, ExpireGroup, Held
<1>9. \A t \in Services : Safe(t)'
  BY <1>2, <1>3, <1>4, <1>5, <1>6, <1>7, <1>8 DEF Safe
<1>10. TypeOK'
  BY <1>1, <1>9 DEF TypeOK, Safe, BreakLoop, LeaveLoop, bounds, mainVars, ExpireGroup, Held
<1> QED
  BY <1>9, <1>10 DEF ServiceInv

\* The impl of a held lease is initialized; that of the service itself starts the loop.
LEMMA InitializeStep ==
  ASSUME ServiceInv, NEW s \in Services, NEW k \in Keys, Initialize(s, k)
  PROVE  ServiceInv'
<1>1. TypeOK /\ Safe(s)
  BY DEF ServiceInv
<1>2. ASSUME NEW t \in Services \ {s} PROVE Safe(t)'
  <2>1. Unmoved(t)
    BY <1>1, ServiceAssumption DEF TypeOK, Unmoved, Initialize, Fault, NoFault, groupVars,
       mainVars
  <2>2. \A j \in Keys : entry'[j] = t <=> entry[j] = t
    BY <1>1, ServiceAssumption DEF TypeOK, Initialize, Fault, NoFault, groupVars, mainVars
  <2> QED
    BY <2>1, <2>2, Elsewhere DEF ServiceInv
<1>3. AtWork(s)'
  BY <1>1 DEF TypeOK, Safe, AtWork, Initialize, groupVars
<1>4. Registers(s)'
  BY <1>1, ServiceAssumption DEF TypeOK, Safe, AtWork, Registers, Entered, Keys, Initialize,
     Fault, NoFault, groupVars, mainVars
<1>5. Calls(s)'
  BY <1>1, ServiceAssumption DEF TypeOK, Safe, Calls, Registers, Callers, Entered, NotCalled,
     Initialize, Fault, NoFault, groupVars, mainVars
<1>6. Ends(s)'
  BY <1>1, ServiceAssumption DEF TypeOK, Safe, Ends, Registers, Calls, Ended, Entered, Callers,
     NotCalled, Initialize, Fault, NoFault, groupVars, mainVars
<1>7. Serves(s)'
  <2>1. ASSUME losses' = 0, faults' = 0, up'[s], ~asked'[s], task'[s] \in {"none", "loop"}
        PROVE  /\ losses = 0 /\ faults = 0 /\ up[s] /\ ~asked[s] /\ task[s] \in {"none", "loop"}
               /\ reg' = [reg EXCEPT ![s][k] = "attaching"]
    BY <1>1, <2>1, ServiceAssumption DEF TypeOK, Initialize, Fault, NoFault, bounds, mainVars,
       Safe, Registers, Entered
  <2>2. /\ entry' = entry /\ lease' = lease /\ main' = main
        /\ task[s] = "loop" => task'[s] = "loop"
    BY <1>1 DEF TypeOK, Initialize, groupVars, mainVars
  <2>3. reg[s][k] = "init"
    BY DEF Initialize
  <2> QED
    BY <1>1, <2>1, <2>2, <2>3 DEF TypeOK, Safe, Serves
<1>8. Releases(s)'
  BY <1>1 DEF TypeOK, Safe, Releases, Ended, Callers, Initialize, Fault, NoFault, groupVars,
     mainVars
<1>9. \A t \in Services : Safe(t)'
  BY <1>2, <1>3, <1>4, <1>5, <1>6, <1>7, <1>8 DEF Safe
<1>10. TypeOK'
  <2>1. losses' \in 0..MaxLosses /\ faults' \in 0..MaxFaults /\ crashes' \in 0..MaxCrashes
    BY <1>1, ServiceAssumption DEF TypeOK, Initialize, Fault, NoFault
  <2>3. reg' \in [Services -> [Keys ->
          {"none", "creating", "refused", "init", "attaching", "attached", "failed"}]]
    <3>1. reg \in [Services -> [Keys ->
            {"none", "creating", "refused", "init", "attaching", "attached", "failed"}]]
      BY <1>1 DEF TypeOK
    <3>2. reg' = [reg EXCEPT ![s][k] = "attaching"] \/ reg' = [reg EXCEPT ![s][k] = "refused"]
      BY Zenon DEF Initialize
    <3> QED
      BY <3>1, <3>2
  <2>4. task' \in [Services -> {"none", "loop", "expiring", "detaching", "ended"}]
    BY <1>1 DEF TypeOK, Initialize
  <2>5. UNCHANGED <<entry, groupVars, broken, outcome, detached, mainVars, up>>
    BY DEF Initialize
  <2> QED
    BY <1>1, <1>9, <2>1, <2>3, <2>4, <2>5 DEF TypeOK, Safe, groupVars, mainVars
<1> QED
  BY <1>9, <1>10 DEF ServiceInv

\* The service task runs when an impl is attached.
LEMMA AttachStep ==
  ASSUME ServiceInv, NEW s \in Services, NEW k \in Keys, Attach(s, k)
  PROVE  ServiceInv'
<1>1. TypeOK /\ Safe(s)
  BY DEF ServiceInv
<1>2. ASSUME NEW t \in Services \ {s} PROVE Safe(t)'
  <2>1. Unmoved(t)
    BY <1>1, ServiceAssumption DEF TypeOK, Unmoved, Attach, Fault, NoFault, groupVars, taskVars,
       mainVars
  <2>2. \A j \in Keys : entry'[j] = t <=> entry[j] = t
    BY <1>1, ServiceAssumption DEF TypeOK, Attach, Fault, NoFault, groupVars, taskVars, mainVars
  <2> QED
    BY <2>1, <2>2, Elsewhere DEF ServiceInv
<1>3. AtWork(s)' /\ Calls(s)' /\ Ends(s)'
  BY <1>1 DEF Safe, AtWork, Calls, Ends, Callers, Ended, Attach, groupVars, taskVars, mainVars
<1>4. Registers(s)'
  BY <1>1, ServiceAssumption DEF TypeOK, Safe, AtWork, Registers, Entered, Keys, Attach, Fault,
     NoFault, groupVars, taskVars, mainVars
<1>5. Serves(s)'
  BY <1>1 DEF TypeOK, Safe, Serves, Attach, Fault, NoFault, groupVars, taskVars, mainVars
<1>6. Releases(s)'
  BY <1>1 DEF TypeOK, Safe, Releases, Ended, Callers, Attach, Fault, NoFault, groupVars,
     taskVars, mainVars
<1>7. \A t \in Services : Safe(t)'
  BY <1>2, <1>3, <1>4, <1>5, <1>6 DEF Safe
<1>8. TypeOK'
  <2>1. losses' \in 0..MaxLosses /\ faults' \in 0..MaxFaults /\ crashes' \in 0..MaxCrashes
    BY <1>1, ServiceAssumption DEF TypeOK, Attach, Fault, NoFault
  <2>3. reg' \in [Services -> [Keys ->
          {"none", "creating", "refused", "init", "attaching", "attached", "failed"}]]
    <3>1. reg \in [Services -> [Keys ->
            {"none", "creating", "refused", "init", "attaching", "attached", "failed"}]]
      BY <1>1 DEF TypeOK
    <3>2. reg' = [reg EXCEPT ![s][k] = "attached"] \/ reg' = [reg EXCEPT ![s][k] = "failed"]
      BY Zenon DEF Attach
    <3> QED
      BY <3>1, <3>2
  <2>4. UNCHANGED <<entry, groupVars, taskVars, mainVars, up>>
    BY DEF Attach
  <2> QED
    BY <1>1, <1>7, <2>1, <2>3, <2>4 DEF TypeOK, Safe, groupVars, taskVars, mainVars
<1> QED
  BY <1>7, <1>8 DEF ServiceInv

\* The leases that the loop's expire call is through with are expired or are not its own.
LEMMA LoopExpiredStep ==
  ASSUME ServiceInv, NEW s \in Services, LoopExpired(s)
  PROVE  ServiceInv'
<1>1. TypeOK /\ Safe(s)
  BY DEF ServiceInv
<1>2. PICK r \in Calling :
        /\ expiring' = [expiring EXCEPT ![s]["loop"] = r]
        /\ r.stage = "done" /\ r.leases = expiring[s]["loop"].leases /\ r.left = {}
  <2> DEFINE e == expiring[s]["loop"]
             r == [stage |-> "done", leases |-> e.leases, left |-> {}, late |-> e.late]
  <2>1. r \in Calling
    BY <1>1 DEF TypeOK, Calling, Callers
  <2> QED
    BY <1>1, <2>1 DEF TypeOK, Callers, LoopExpired, GroupExpired
<1>3. expiring' \in [Services -> [Callers -> Calling]]
  BY <1>1, <1>2, OneCall DEF Callers
<1>4. ASSUME NEW t \in Services \ {s} PROVE Safe(t)'
  <2>1. Unmoved(t)
    BY <1>1, ServiceAssumption DEF TypeOK, Unmoved, LoopExpired, GroupExpired, bounds, mainVars,
       Held
  <2>2. \A j \in Keys : entry'[j] = t <=> entry[j] = t
    BY <1>1, ServiceAssumption DEF TypeOK, LoopExpired, Held
  <2> QED
    BY <2>1, <2>2, Elsewhere DEF ServiceInv
<1>5. AtWork(s)'
  BY <1>1, ServiceAssumption DEF TypeOK, Safe, AtWork, Registers, Calls, Entered, Callers,
     NotCalled, LoopExpired, GroupExpired, Unexpired, bounds, mainVars, Held
<1>6. Registers(s)'
  BY <1>1, ServiceAssumption DEF TypeOK, Safe, Registers, Calls, Entered, Callers, NotCalled,
     LoopExpired, GroupExpired, Unexpired, bounds, mainVars, Held
<1>7. Calls(s)'
  BY <1>1 DEF TypeOK, Safe, Calls, Callers, LoopExpired, GroupExpired, mainVars, Held
<1>8. Ends(s)'
  BY <1>1, ServiceAssumption DEF TypeOK, Safe, Ends, Registers, Calls, Ended, Entered, Callers,
     NotCalled, LoopExpired, GroupExpired, Unexpired, bounds, mainVars, Held
<1>9. Serves(s)'
  BY <1>1 DEF TypeOK, Safe, Serves, LoopExpired, bounds, mainVars, Held
<1>10. Releases(s)'
  BY <1>1, ServiceAssumption DEF TypeOK, Safe, Releases, Registers, Calls, Ended, Callers,
     Entered, NotCalled, LoopExpired, GroupExpired, Unexpired, bounds, mainVars, Held
<1>11. \A t \in Services : Safe(t)'
  BY <1>4, <1>5, <1>6, <1>7, <1>8, <1>9, <1>10 DEF Safe
<1>12. TypeOK'
  <2>1. cut' \in [Services -> BOOLEAN]
    BY <1>1 DEF TypeOK, LoopExpired, GroupExpired
  <2>2. task' \in [Services -> {"none", "loop", "expiring", "detaching", "ended"}]
          /\ broken' \in [Services -> BOOLEAN]
    BY <1>1 DEF TypeOK, LoopExpired
  <2>3. UNCHANGED <<entry, lease, behind, called, deleting, refreshing, reg, outcome, detached,
                    mainVars, up, bounds>>
    BY DEF LoopExpired
  <2> QED
    BY <1>1, <1>11, <1>3, <2>1, <2>2, <2>3 DEF TypeOK, Calling, Safe, taskVars, mainVars, bounds
<1> QED
  BY <1>11, <1>12 DEF ServiceInv

\* The service ends with what the loop left behind.
LEMMA DetachStep ==
  ASSUME ServiceInv, NEW s \in Services, Detach(s)
  PROVE  ServiceInv'
<1>1. TypeOK /\ Safe(s)
  BY DEF ServiceInv
<1>2. ASSUME NEW t \in Services \ {s} PROVE Safe(t)'
  BY Elsewhere, ServiceAssumption DEF ServiceInv, TypeOK, Unmoved, Detach, bounds, groupVars,
     mainVars
<1>3. AtWork(s)'
  BY <1>1 DEF TypeOK, Safe, AtWork, Detach, groupVars
<1>4. Registers(s)'
  BY <1>1 DEF TypeOK, Safe, Registers, Entered, Detach, groupVars, mainVars
<1>5. Calls(s)'
  BY <1>1 DEF TypeOK, Safe, Calls, Callers, Detach, groupVars, mainVars
<1>6. Ends(s)'
  BY <1>1 DEF TypeOK, Safe, Ends, Ended, Detach, groupVars, mainVars
<1>7. Serves(s)'
  BY <1>1 DEF TypeOK, Safe, Serves, Detach, bounds, groupVars, mainVars
<1>8. Releases(s)'
  BY <1>1 DEF TypeOK, Safe, Releases, Ended, Callers, Detach, bounds, groupVars
<1>9. \A t \in Services : Safe(t)'
  BY <1>2, <1>3, <1>4, <1>5, <1>6, <1>7, <1>8 DEF Safe
<1>10. TypeOK'
  BY <1>1, <1>9 DEF TypeOK, Safe, Detach, bounds, groupVars, mainVars
<1> QED
  BY <1>9, <1>10 DEF ServiceInv

\* The service itself is the first entity that is registered.
LEMMA RegisterStep ==
  ASSUME ServiceInv, NEW s \in Services, Register(s)
  PROVE  ServiceInv'
<1>1. TypeOK /\ Safe(s)
  BY DEF ServiceInv
<1>2. ASSUME NEW t \in Services \ {s} PROVE Safe(t)'
  BY Elsewhere, ServiceAssumption DEF ServiceInv, TypeOK, Unmoved, Register, bounds, groupVars,
     taskVars
<1>3. AtWork(s)' /\ Ends(s)' /\ Releases(s)'
  BY <1>1 DEF Safe, AtWork, Ends, Releases, Ended, Callers, Register, bounds, groupVars,
     taskVars
<1>4. Registers(s)'
  BY <1>1 DEF TypeOK, Safe, Registers, Entered, Register, groupVars, taskVars
<1>5. Calls(s)'
  BY <1>1 DEF TypeOK, Safe, Calls, Callers, Register, groupVars, taskVars
<1>6. Serves(s)'
  BY <1>1, ServiceAssumption DEF TypeOK, Safe, Serves, Registers, Calls, Entered, Callers,
     NotCalled, Register, bounds, groupVars, taskVars
<1>7. \A t \in Services : Safe(t)'
  BY <1>2, <1>3, <1>4, <1>5, <1>6 DEF Safe
<1>8. TypeOK'
  BY <1>1, <1>7 DEF TypeOK, Safe, Register, bounds, groupVars, taskVars
<1> QED
  BY <1>7, <1>8 DEF ServiceInv

\* A registration that raised has left nothing.
LEMMA NotRegisteredStep ==
  ASSUME ServiceInv, NEW s \in Services, NotRegistered(s)
  PROVE  ServiceInv'
<1>1. TypeOK /\ Safe(s)
  BY DEF ServiceInv
<1>2. ASSUME NEW t \in Services \ {s} PROVE Safe(t)'
  BY Elsewhere, ServiceAssumption DEF ServiceInv, TypeOK, Unmoved, NotRegistered, bounds,
     groupVars, taskVars
<1>3. AtWork(s)' /\ Ends(s)' /\ Releases(s)'
  BY <1>1 DEF Safe, AtWork, Ends, Releases, Ended, Callers, NotRegistered, bounds, groupVars,
     taskVars
<1>4. Registers(s)'
  BY <1>1 DEF TypeOK, Safe, Registers, Entered, NotRegistered, groupVars, taskVars
<1>5. Calls(s)'
  BY <1>1 DEF TypeOK, Safe, Calls, Callers, NotRegistered, groupVars, taskVars
<1>6. Serves(s)'
  BY <1>1, ServiceAssumption DEF TypeOK, Safe, Serves, Registers, Calls, Entered, Callers,
     NotCalled, NotRegistered, bounds, groupVars, taskVars
<1>7. \A t \in Services : Safe(t)'
  BY <1>2, <1>3, <1>4, <1>5, <1>6 DEF Safe
<1>8. TypeOK'
  BY <1>1, <1>7 DEF TypeOK, Safe, NotRegistered, bounds, groupVars, taskVars
<1> QED
  BY <1>7, <1>8 DEF ServiceInv

\* The declared entities are registered once the service is.
LEMMA StartStep ==
  ASSUME ServiceInv, NEW s \in Services, Start(s)
  PROVE  ServiceInv'
<1>1. TypeOK /\ Safe(s)
  BY DEF ServiceInv
<1>2. ASSUME NEW t \in Services \ {s} PROVE Safe(t)'
  BY Elsewhere, ServiceAssumption DEF ServiceInv, TypeOK, Unmoved, Start, bounds, groupVars,
     taskVars
<1>3. AtWork(s)' /\ Ends(s)' /\ Releases(s)'
  BY <1>1 DEF Safe, AtWork, Ends, Releases, Ended, Callers, Start, bounds, groupVars, taskVars
<1>4. Registers(s)'
  BY <1>1, ServiceAssumption DEF TypeOK, Safe, AtWork, Registers, Entered, Keys, Start, bounds,
     groupVars, taskVars
<1>5. Calls(s)'
  BY <1>1 DEF TypeOK, Safe, Calls, Callers, Start, groupVars, taskVars
<1>6. Serves(s)'
  BY <1>1, ServiceAssumption DEF TypeOK, Safe, Serves, Registers, Calls, Entered, Callers,
     NotCalled, Start, bounds, groupVars, taskVars
<1>7. \A t \in Services : Safe(t)'
  BY <1>2, <1>3, <1>4, <1>5, <1>6 DEF Safe
<1>8. TypeOK'
  BY <1>1, <1>7 DEF TypeOK, Safe, Start, bounds, groupVars, taskVars
<1> QED
  BY <1>7, <1>8 DEF ServiceInv

\* The service runs when all are attached.
LEMMA StartedStep ==
  ASSUME ServiceInv, NEW s \in Services, Started(s)
  PROVE  ServiceInv'
<1>1. TypeOK /\ Safe(s)
  BY DEF ServiceInv
<1>2. ASSUME NEW t \in Services \ {s} PROVE Safe(t)'
  BY Elsewhere, ServiceAssumption DEF ServiceInv, TypeOK, Unmoved, Started, bounds, groupVars,
     taskVars
<1>3. AtWork(s)' /\ Ends(s)' /\ Releases(s)'
  BY <1>1 DEF Safe, AtWork, Ends, Releases, Ended, Callers, Started, bounds, groupVars, taskVars
<1>4. Registers(s)'
  BY <1>1 DEF TypeOK, Safe, Registers, Entered, Started, groupVars, taskVars
<1>5. Calls(s)'
  BY <1>1 DEF TypeOK, Safe, Calls, Callers, Started, groupVars, taskVars
<1>6. Serves(s)'
  BY <1>1 DEF TypeOK, Safe, Serves, Started, bounds, groupVars, taskVars
<1>7. \A t \in Services : Safe(t)'
  BY <1>2, <1>3, <1>4, <1>5, <1>6 DEF Safe
<1>8. TypeOK'
  BY <1>1, <1>7 DEF TypeOK, Safe, Started, bounds, groupVars, taskVars
<1> QED
  BY <1>7, <1>8 DEF ServiceInv

\* A service is shut down once; what it holds is left to expire.
LEMMA ShutDownStep ==
  ASSUME ServiceInv, NEW s \in Services, up[s], main[s] \in {"starting", "running"}, ShutDown(s)
  PROVE  ServiceInv'
<1>1. TypeOK /\ Safe(s)
  BY DEF ServiceInv
<1>2. ASSUME NEW t \in Services \ {s} PROVE Safe(t)'
  <2>1. Unmoved(t)
    BY <1>1, ServiceAssumption DEF TypeOK, Unmoved, ShutDown, ExpireGroup, bounds, taskVars,
       Held
  <2>2. \A j \in Keys : entry'[j] = t <=> entry[j] = t
    BY <1>1, ServiceAssumption DEF TypeOK, ShutDown, Held
  <2> QED
    BY <2>1, <2>2, Elsewhere DEF ServiceInv
<1>3. AtWork(s)'
  BY <1>1, ServiceAssumption DEF TypeOK, Safe, AtWork, Registers, Calls, Entered, Callers,
     NotCalled, ShutDown, ExpireGroup, bounds, taskVars, Held
<1>4. Registers(s)'
  BY <1>1 DEF TypeOK, Safe, Registers, Entered, ShutDown, taskVars, Held
<1>5. Calls(s)'
  BY <1>1 DEF TypeOK, Safe, Calls, Callers, ShutDown, ExpireGroup, taskVars, Held
<1>6. Ends(s)'
  BY <1>1 DEF TypeOK, Safe, Ends, Ended, ShutDown, taskVars, Held
<1>7. Serves(s)'
  BY <1>1 DEF TypeOK, Safe, Serves, ShutDown, bounds, taskVars, Held
<1>8. Releases(s)'
  BY <1>1 DEF TypeOK, Safe, Releases, Ended, Callers, ShutDown, ExpireGroup, bounds, taskVars,
     Held
<1>9. \A t \in Services : Safe(t)'
  BY <1>2, <1>3, <1>4, <1>5, <1>6, <1>7, <1>8 DEF Safe
<1>10. TypeOK'
  BY <1>1, <1>9 DEF TypeOK, Safe, ShutDown, ExpireGroup, bounds, taskVars, Held
<1> QED
  BY <1>9, <1>10 DEF ServiceInv

\* The leases that shutdown's expire call is through with are expired or are not its
\* own, but for those whose delete was outdated, which the loop takes over.
LEMMA ShutdownExpiredStep ==
  ASSUME ServiceInv, NEW s \in Services, ShutdownExpired(s)
  PROVE  ServiceInv'
<1>1. TypeOK /\ Safe(s)
  BY DEF ServiceInv
<1>2. PICK r \in Calling :
        /\ expiring' = [expiring EXCEPT ![s]["shutdown"] = r]
        /\ r.stage = "done" /\ r.leases = expiring[s]["shutdown"].leases /\ r.left = {}
  <2> DEFINE e == expiring[s]["shutdown"]
             r == [stage |-> "done", leases |-> e.leases, left |-> {}, late |-> e.late]
  <2>1. r \in Calling
    BY <1>1 DEF TypeOK, Calling, Callers
  <2> QED
    BY <1>1, <2>1 DEF TypeOK, Callers, ShutdownExpired, GroupExpired
<1>3. expiring' \in [Services -> [Callers -> Calling]]
  BY <1>1, <1>2, OneCall DEF Callers
<1>4. ASSUME NEW t \in Services \ {s} PROVE Safe(t)'
  <2>1. Unmoved(t)
    BY <1>1, ServiceAssumption DEF TypeOK, Unmoved, ShutdownExpired, GroupExpired, bounds,
       taskVars, Held
  <2>2. \A j \in Keys : entry'[j] = t <=> entry[j] = t
    BY <1>1, ServiceAssumption DEF TypeOK, ShutdownExpired, Held
  <2> QED
    BY <2>1, <2>2, Elsewhere DEF ServiceInv
<1>5. AtWork(s)'
  BY <1>1 DEF TypeOK, Safe, AtWork, ShutdownExpired, GroupExpired, taskVars, Held
<1>6. Registers(s)'
  BY <1>1, ServiceAssumption DEF TypeOK, Safe, Registers, Calls, Entered, Callers, NotCalled,
     ShutdownExpired, GroupExpired, Unexpired, bounds, taskVars, Held
<1>7. Calls(s)'
  BY <1>1, ServiceAssumption DEF TypeOK, Safe, Calls, Registers, Callers, Entered, NotCalled,
     ShutdownExpired, GroupExpired, Unexpired, bounds, taskVars, Held
<1>8. Ends(s)'
  BY <1>1, ServiceAssumption DEF TypeOK, Safe, Ends, Registers, Calls, Ended, Entered, Callers,
     NotCalled, ShutdownExpired, GroupExpired, Unexpired, bounds, taskVars, Held
<1>9. Serves(s)'
  BY <1>1, ServiceAssumption DEF TypeOK, Safe, Serves, Registers, Calls, Entered, Callers,
     NotCalled, ShutdownExpired, GroupExpired, Unexpired, bounds, taskVars, Held
<1>10. Releases(s)'
  BY <1>1 DEF TypeOK, Safe, Releases, Ended, Callers, ShutdownExpired, GroupExpired, bounds,
     taskVars, Held
<1>11. \A t \in Services : Safe(t)'
  BY <1>4, <1>5, <1>6, <1>7, <1>8, <1>9, <1>10 DEF Safe
<1>12. TypeOK'
  <2>1. cut' \in [Services -> BOOLEAN]
    BY <1>1 DEF TypeOK, ShutdownExpired, GroupExpired
  <2>2. main' \in [Services -> {"idle", "registering", "starting", "running", "stopping", "joining",
                               "stopped"}]
    BY <1>1 DEF TypeOK, ShutdownExpired
  <2>3. UNCHANGED <<entry, lease, behind, called, deleting, refreshing, reg, taskVars, asked,
                    up, bounds>>
    BY DEF ShutdownExpired
  <2> QED
    BY <1>1, <1>11, <1>3, <2>1, <2>2, <2>3 DEF TypeOK, Calling, Safe, taskVars, mainVars, bounds
<1> QED
  BY <1>11, <1>12 DEF ServiceInv

\* The service stops with its task.
LEMMA JoinStep ==
  ASSUME ServiceInv, NEW s \in Services, Join(s)
  PROVE  ServiceInv'
<1>1. TypeOK /\ Safe(s)
  BY DEF ServiceInv
<1>2. ASSUME NEW t \in Services \ {s} PROVE Safe(t)'
  BY Elsewhere, ServiceAssumption DEF ServiceInv, TypeOK, Unmoved, Join, bounds, groupVars,
     taskVars
<1>3. AtWork(s)' /\ Ends(s)' /\ Releases(s)'
  BY <1>1 DEF Safe, AtWork, Ends, Releases, Ended, Callers, Join, bounds, groupVars, taskVars
<1>4. Registers(s)'
  BY <1>1 DEF TypeOK, Safe, Registers, Entered, Join, groupVars, taskVars
<1>5. Calls(s)'
  BY <1>1 DEF TypeOK, Safe, Calls, Callers, Join, groupVars, taskVars
<1>6. Serves(s)'
  BY <1>1 DEF TypeOK, Safe, Serves, Join, bounds, groupVars, taskVars
<1>7. \A t \in Services : Safe(t)'
  BY <1>2, <1>3, <1>4, <1>5, <1>6 DEF Safe
<1>8. TypeOK'
  BY <1>1, <1>7 DEF TypeOK, Safe, Join, bounds, groupVars, taskVars
<1> QED
  BY <1>7, <1>8 DEF ServiceInv

\* A service that dies forgets everything but its entries.
LEMMA CrashStep ==
  ASSUME ServiceInv, NEW s \in Services, Crash(s)
  PROVE  ServiceInv'
<1>1. TypeOK /\ Safe(s)
  BY DEF ServiceInv
<1>2. ASSUME NEW t \in Services \ {s} PROVE Safe(t)'
  <2>1. Unmoved(t)
    BY <1>1, ServiceAssumption DEF TypeOK, Unmoved, Crash
  <2>2. \A j \in Keys : entry'[j] = t <=> entry[j] = t
    BY <1>1, ServiceAssumption DEF TypeOK, Crash
  <2> QED
    BY <2>1, <2>2, Elsewhere DEF ServiceInv
<1>3. AtWork(s)'
  BY <1>1 DEF TypeOK, Safe, AtWork, Crash
<1>4. Registers(s)'
  BY <1>1, ServiceAssumption DEF TypeOK, Safe, AtWork, Registers, Entered, Keys, Crash,
     NotCalled
<1>5. Calls(s)'
  BY <1>1 DEF TypeOK, Safe, Calls, Callers, Crash, NotCalled
<1>6. Ends(s)'
  BY <1>1 DEF TypeOK, Safe, Ends, Ended, Crash
<1>7. Serves(s)'
  BY <1>1 DEF TypeOK, Safe, Serves, Crash
<1>8. Releases(s)'
  BY <1>1 DEF TypeOK, Safe, Releases, Ended, Callers, Crash
<1>9. \A t \in Services : Safe(t)'
  BY <1>2, <1>3, <1>4, <1>5, <1>6, <1>7, <1>8 DEF Safe
<1>10. TypeOK'
  <2>1. losses' \in 0..MaxLosses /\ faults' \in 0..MaxFaults /\ crashes' \in 0..MaxCrashes
    BY <1>1, ServiceAssumption DEF TypeOK, Crash, Fault, NoFault, bounds, NotCalled
  <2>2. /\ lease' \in [Services -> [Keys -> {"none", "held", "expired"}]]
        /\ reg' \in [Services -> [Keys ->
             {"none", "creating", "refused", "init", "attaching", "attached", "failed"}]]
    BY <1>1 DEF TypeOK, Crash, groupVars, NotCalled
  <2>3. expiring' \in [Services -> [Callers -> Calling]]
    BY <1>1 DEF TypeOK, Calling, Crash, groupVars, NotCalled
  <2> QED
    BY <1>1, <1>9, <2>1, <2>2, <2>3 DEF TypeOK, Calling, Safe, Crash, groupVars, taskVars,
       mainVars, bounds, NotCalled
<1> QED
  BY <1>9, <1>10 DEF ServiceInv

-----------------------------------------------------------------------------
(* Entries that change by themselves.                                      *)

\* No service's state but the entry of one key changes, and only an entry that is
\* nobody's, not maintained or counted as a loss.
LEMMA EntryStep ==
  ASSUME ServiceInv, NEW k \in Keys, NEW o \in Others \cup {None},
         entry' = [entry EXCEPT ![k] = o],
         entry[k] = None \/ ~Maintained(entry[k]) \/ losses' # 0,
         losses' \in 0..MaxLosses, losses' \in {losses, losses + 1},
         UNCHANGED <<groupVars, reg, taskVars, mainVars, up, faults, crashes>>
  PROVE  ServiceInv'
<1>1. TypeOK /\ losses \in Nat
  BY ServiceAssumption DEF ServiceInv, TypeOK
<1>2. ASSUME NEW s \in Services PROVE Safe(s)'
  <2>1. Safe(s)
    BY DEF ServiceInv
  <2>2. \A j \in Keys : entry'[j] = s => entry[j] = s
    BY <1>1, ServiceAssumption DEF TypeOK
  <2>3. AtWork(s)' /\ Registers(s)' /\ Calls(s)' /\ Ends(s)'
    BY <2>1 DEF Safe, AtWork, Registers, Calls, Ends, groupVars, taskVars, mainVars
  <2>4. Releases(s)'
    BY <2>1, <2>2 DEF Safe, Releases, groupVars, taskVars
  <2>5. Serves(s)'
    <3> SUFFICES ASSUME losses' = 0, faults = 0, up[s], ~asked[s], task[s] \in {"none", "loop"},
                        NEW j \in Keys, reg[s][j] \notin {"none", "creating", "refused"}
                 PROVE  entry'[j] = s
      BY <1>1, <2>1 DEF Safe, Serves, groupVars, taskVars, mainVars
    <3>1. losses = 0
      BY <1>1
    <3>2. entry[j] = s /\ Maintained(s)
      BY <2>1, <3>1 DEF Safe, Serves, Maintained
    <3>3. j # k
      BY <3>2, ServiceAssumption
    <3> QED
      BY <1>1, <3>2, <3>3 DEF TypeOK
  <2> QED
    BY <2>3, <2>4, <2>5 DEF Safe
<1>3. TypeOK'
  <2>1. entry' \in [Keys -> Services \cup Others \cup {None}]
    <3>1. entry \in [Keys -> Services \cup Others \cup {None}]
      BY <1>1 DEF TypeOK
    <3> QED
      BY <3>1
  <2> QED
    BY <1>1, <1>2, <2>1 DEF TypeOK, Safe, groupVars, taskVars, mainVars
<1> QED
  BY <1>2, <1>3 DEF ServiceInv

-----------------------------------------------------------------------------
(* The invariant and what follows from it.                                 *)

\* The invariant holds initially.
LEMMA Initially == Init => ServiceInv
<1> SUFFICES ASSUME Init PROVE ServiceInv
  OBVIOUS
<1>1. ASSUME NEW s \in Services PROVE Safe(s)
  <2>1. Name[s] \in Keys
    BY ServiceAssumption DEF Keys
  <2>2. AtWork(s) /\ Registers(s)
    BY <2>1, ServiceAssumption DEF Init, AtWork, Registers, Entered
  <2>3. Calls(s)
    BY DEF Init, Calls, Callers, NotCalled
  <2>4. Ends(s) /\ Serves(s) /\ Releases(s)
    BY DEF Init, Ends, Serves, Releases, Ended
  <2> QED
    BY <2>2, <2>3, <2>4 DEF Safe
<1>2. TypeOK
  BY <1>1, ServiceAssumption DEF Init, TypeOK, Safe, NotCalled
<1> QED
  BY <1>1, <1>2 DEF ServiceInv

\* Every step keeps the invariant.
LEMMA Inductive == ServiceInv /\ [Next]_vars => ServiceInv'
<1> SUFFICES ASSUME ServiceInv, [Next]_vars PROVE ServiceInv'
  OBVIOUS
<1>1. ASSUME NEW s \in Services, Work(s) PROVE ServiceInv'
  <2>1. CASE \E k \in Keys : Create(s, k) \/ Initialize(s, k) \/ Attach(s, k)
    BY <2>1, CreateStep, InitializeStep, AttachStep
  <2>2. CASE \E k \in Keys : (\E c \in Callers : BeginDelete(s, c, k)) \/ Deleted(s, k)
                             \/ MonitorSees(s, k)
    BY <2>2, BeginDeleteStep, DeletedStep, MonitorSeesStep
  <2>3. CASE NotRegistered(s) \/ Start(s) \/ Started(s)
    BY <2>3, NotRegisteredStep, StartStep, StartedStep
  <2>4. CASE StartFails(s) \/ StopEnded(s)
    BY <2>4, ShutDownStep DEF StartFails, StopEnded, Stop
  <2>5. CASE ShutdownExpired(s) \/ Join(s) \/ LoopExpired(s) \/ Detach(s)
    BY <2>5, ShutdownExpiredStep, JoinStep, LoopExpiredStep, DetachStep
  <2> QED
    BY <1>1, <2>1, <2>2, <2>3, <2>4, <2>5 DEF Work
<1>2. ASSUME NEW s \in Services, NEW k \in Keys, BeginRefresh(s, k) \/ MonitorFails(s, k)
      PROVE  ServiceInv'
  BY <1>2, BeginRefreshStep, MonitorFailsStep
<1>3. ASSUME NEW s \in Services,
             Refreshed(s) \/ LoopFails(s) \/ BreakLoop(s) \/ Register(s) \/ Stop(s) \/ Crash(s)
      PROVE  ServiceInv'
  BY <1>3, RefreshedStep, LoopFailsStep, BreakLoopStep, RegisterStep, ShutDownStep, CrashStep
     DEF Stop
<1>4. ASSUME NEW k \in Keys, Expires(k) \/ Lost(k) \/ Taken(k)
      PROVE  ServiceInv'
  <2>1. losses \in 0..MaxLosses /\ losses \in Nat
    BY ServiceAssumption DEF ServiceInv, TypeOK
  <2>2. CASE Expires(k)
    BY <2>1, <2>2, EntryStep DEF Expires, bounds
  <2>3. CASE Taken(k)
    BY <2>1, <2>3, EntryStep DEF Taken, bounds
  <2>4. CASE Lost(k)
    <3>1. losses' \in 0..MaxLosses /\ losses' = losses + 1 /\ losses' # 0
      BY <2>1, <2>4, ServiceAssumption DEF Lost
    <3> QED
      BY <2>4, <3>1, EntryStep DEF Lost
  <2> QED
    BY <1>4, <2>2, <2>3, <2>4
<1>5. CASE UNCHANGED vars
  <2>1. ASSUME NEW s \in Services PROVE Safe(s)'
    <3>1. Safe(s)
      BY DEF ServiceInv
    <3>2. AtWork(s)' /\ Registers(s)' /\ Calls(s)' /\ Ends(s)'
      BY <1>5, <3>1 DEF vars, groupVars, taskVars, mainVars, Safe, AtWork, Registers, Calls,
         Ends
    <3>3. Serves(s)' /\ Releases(s)'
      BY <1>5, <3>1 DEF vars, groupVars, taskVars, mainVars, bounds, Safe, Serves, Releases
    <3> QED
      BY <3>2, <3>3 DEF Safe
  <2>2. TypeOK'
    BY <1>5, <2>1 DEF ServiceInv, TypeOK, Safe, vars, groupVars, taskVars, mainVars, bounds
  <2> QED
    BY <2>1, <2>2 DEF ServiceInv
<1> QED
  BY <1>1, <1>2, <1>3, <1>4, <1>5 DEF Next

\* The registrations, the expire calls, the leases and the entries of every
\* service fit together after every step (register_impl, refresh_loop,
\* LeaseGroup.expire, shutdown).
THEOREM ServiceInvariant == Spec => []ServiceInv
<1> QED
  BY Initially, Inductive, PTL DEF Spec

\* The state keeps its types, the loop awaits a refresh only while it runs, and
\* a delete belongs to a running expire call (refresh_loop, Lease.expire).
THEOREM TypeCorrect == Spec => []TypeOK
<1>1. ServiceInv => TypeOK
  BY DEF ServiceInv
<1> QED
  BY <1>1, ServiceInvariant, PTL

\* A service that runs holds the lease of every entity it has attached
\* (register_impl, refresh_loop).
THEOREM RunningHolds == Spec => []HoldersServe
<1>1. ServiceInv => HoldersServe
  BY DEF ServiceInv, Safe, Serves, HoldersServe, Attached
<1> QED
  BY <1>1, ServiceInvariant, PTL

\* A service that has ended has released every lease it was to expire, and
\* reports it unless somebody stopped it (LeaseGroup.expire, _service_task).
THEOREM EndedReleases == Spec => []ReleasedAtEnd
<1>1. ServiceInv => ReleasedAtEnd
  <2> SUFFICES ASSUME ServiceInv, faults = 0, NEW s \in Services, task[s] = "ended"
               PROVE  /\ outcome[s] # "cancelled"
                      /\ \A c \in Callers : expiring[s][c].stage = "done" =>
                           \A k \in expiring[s][c].leases : entry[k] # s
    BY DEF ReleasedAtEnd
  <2>1. TypeOK /\ Safe(s)
    BY DEF ServiceInv
  <2>2. outcome[s] # "cancelled"
    BY <2>1 DEF Safe, Ends
  <2>3. expiring[s]["loop"].left = {}
    BY <2>1 DEF Safe, Calls, Callers
  <2>4. ASSUME NEW c \in Callers, expiring[s][c].stage = "done",
               NEW k \in expiring[s][c].leases
        PROVE  entry[k] # s
    <3>1. k \in Keys
      BY <2>1 DEF TypeOK
    <3>2. expiring[s][c].left = {}
      BY <2>1, <2>4 DEF Safe, Calls
    <3> QED
      BY <2>1, <2>3, <2>4, <3>1, <3>2 DEF Safe, Releases, Ended, Callers
  <2> QED
    BY <2>2, <2>4
<1> QED
  BY <1>1, ServiceInvariant, PTL

\* "Entity registration acquires an exclusive lease per entity", so that a second copy of a
\* device service does not drive the hardware too (docs/api.md:41): while no maintained entry
\* is lost and no call fails, two services at work have different names and no entity in
\* common, however their registrations, refreshes and expirations interleave.
AtItsWork(s) == up[s] /\ task[s] = "loop" /\ ~asked[s]
NoSecondCopy ==
  losses = 0 /\ faults = 0 =>
    \A s, t \in Services : s # t /\ AtItsWork(s) /\ AtItsWork(t) =>
      /\ Name[s] # Name[t]
      /\ \A k \in Keys : ~(Attached(s, k) /\ Attached(t, k))

THEOREM CopiesAreKeptOut == Spec => []NoSecondCopy
<1>1. ServiceInv => NoSecondCopy
  <2> SUFFICES ASSUME ServiceInv, losses = 0, faults = 0
               PROVE  \A s, t \in Services : s # t /\ AtItsWork(s) /\ AtItsWork(t) =>
                        /\ Name[s] # Name[t]
                        /\ \A k \in Keys : ~(Attached(s, k) /\ Attached(t, k))
    BY DEF NoSecondCopy
  <2>1. ASSUME NEW s \in Services, AtItsWork(s)
        PROVE  /\ Name[s] \in Keys /\ entry[Name[s]] = s
               /\ \A k \in Keys : Attached(s, k) => entry[k] = s
    <3>1. Registers(s) /\ Serves(s)
      BY DEF ServiceInv, Safe
    <3>2. Name[s] \in Keys /\ reg[s][Name[s]] \in Entered
      BY <2>1, <3>1, ServiceAssumption DEF Registers, AtItsWork, Keys
    <3> QED
      BY <2>1, <3>1, <3>2 DEF Serves, AtItsWork, Attached, Entered
  <2> QED
    BY <2>1
<1> QED
  BY <1>1, ServiceInvariant, PTL
==============================================================================
