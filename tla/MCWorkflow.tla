----------------------------- MODULE MCWorkflow -----------------------------
(* Workflows for TLC: four nodes over a main graph and two cleanup graphs. *)
EXTENDS Workflow

\* Two settings in parallel and a barrier that needs the first; a failure or an abort
\* runs cleanup 1 if a setting was attempted, and cleanup 2, which is empty, always runs.
Collect ==
  [ home |-> <<0, 0, 0, 1>>, soft |-> <<{}, {}, {2}, {}>>, hard |-> <<{}, {}, {1}, {}>>,
    policy |-> <<"stop", "skip", "stop", "skip">>, optional |-> {},
    override |-> <<"none", "none", "none", "none">>, ordering |-> {3},
    timed |-> {1, 2}, abortable |-> {1},
    when |-> <<"failure_or_cancelled", "always">>, armed |-> <<{1, 2}, {Always}>> ]

\* A fail-fast optional step before a required one, and an ordering step.
Optional ==
  [ home |-> <<0, 0, 0, 2>>, soft |-> <<{}, {1}, {}, {}>>, hard |-> <<{}, {}, {2}, {}>>,
    policy |-> <<"stop", "stop", "skip", "stop">>, optional |-> {1},
    override |-> <<"none", "none", "none", "none">>, ordering |-> {2},
    timed |-> {1, 3, 4}, abortable |-> {1, 3},
    when |-> <<"cancelled", "failure">>, armed |-> <<{1}, {3}>> ]

\* Overrides, forward references and a policy that continues; nothing has a deadline.
Overridden ==
  [ home |-> <<0, 0, 0, 0>>, soft |-> <<{}, {}, {}, {}>>, hard |-> <<{2}, {}, {1, 4}, {2}>>,
    policy |-> <<"skip", "continue", "skip", "skip">>, optional |-> {4},
    override |-> <<"none", "none", "ok", "skipped">>, ordering |-> {},
    timed |-> {}, abortable |-> {2},
    when |-> <<"always", "cancelled">>, armed |-> <<{}, {2}>> ]

\* An optional step before a required one, and a cleanup for each.
Teardown ==
  [ home |-> <<0, 0, 1, 2>>, soft |-> <<{}, {}, {}, {}>>, hard |-> <<{}, {1}, {}, {}>>,
    policy |-> <<"skip", "skip", "stop", "stop">>, optional |-> {1},
    override |-> <<"none", "none", "none", "none">>, ordering |-> {4},
    timed |-> {1, 2}, abortable |-> {2},
    when |-> <<"failure", "failure_or_cancelled">>, armed |-> <<{1}, {2}>> ]

FailFast == {Optional}
AllPlans == {Collect, Optional, Overridden, Teardown}
=============================================================================
