------------------------------- MODULE MCAgent -------------------------------
(* Instances of Agent for TLC.                                             *)
EXTENDS Agent, TLC

CONSTANTS c1, c2, p1, p2

OneEach == c1 :> {p1}
Shared == c1 :> {p1, p2} @@ c2 :> {p2}
FirstRunDefault == [operate |-> FALSE, scheduling |-> TRUE]

NoChange ==
  [global |-> None, scheduling |-> None, control |-> <<>>, override |-> <<>>,
   exclude |-> {}, include |-> {}]

\* The requests of the agent's command line, and one that sets several switches.
GlobalOn == [NoChange EXCEPT !.global = TRUE]
GlobalOff == [NoChange EXCEPT !.global = FALSE]
ControlOff == [NoChange EXCEPT !.control = c1 :> FALSE]
OverrideUp == [NoChange EXCEPT !.override = c1 :> TRUE]
OverrideNone == [NoChange EXCEPT !.override = c1 :> None]
SchedulingOff == [NoChange EXCEPT !.scheduling = FALSE]
SchedulingOn == [NoChange EXCEPT !.scheduling = TRUE]
Exclude == [NoChange EXCEPT !.exclude = {p1}]
Include == [NoChange EXCEPT !.include = {p1}]
Arm == [NoChange EXCEPT !.global = TRUE, !.control = c1 :> TRUE, !.scheduling = TRUE,
                        !.include = {p1}]

AllRequests ==
  {GlobalOn, GlobalOff, ControlOff, OverrideUp, OverrideNone, SchedulingOff, SchedulingOn,
   Exclude, Include, Arm}
SomeRequests == {GlobalOn, ControlOff, SchedulingOff, Exclude, Include}
=============================================================================
