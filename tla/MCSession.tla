------------------------------ MODULE MCSession ------------------------------
(***************************************************************************)
(* An instance of Session for TLC: observing with a program, which may     *)
(* preempt what it replaces, and a shutdown that interrupts.               *)
(***************************************************************************)
EXTENDS Session

CONSTANT x1

OneContext == {x1}

Operate == [state |-> "OPERATE", ctx |-> x1, program |-> TRUE, interrupt |-> FALSE, preempt |-> TRUE]
ShutdownNow == [Operate EXCEPT !.state = "SHUTDOWN", !.program = FALSE, !.interrupt = TRUE,
                               !.preempt = FALSE]

OperateOrShutdown == {Operate, ShutdownNow}
=============================================================================
