---------------------------- MODULE MCController ----------------------------
(* Instances of Controller for TLC.                                        *)
EXTENDS Controller

CONSTANTS empty, site   \* two submitted contexts

OneTarget == {"OPERATE"}
TwoTargets == {"OPERATE", "SHUTDOWN"}
OneInput == {empty}
TwoInputs == {empty, site}

\* Two runs with a restart and a report or a fault, or one run with all of these and a
\* second report.
Disturbances ==
  ((0..2) \X (0..1) \X {0} \X (0..1)) \cup ((0..2) \X {0} \X (0..1) \X (0..1))
    \cup ((0..1) \X (0..2) \X (0..1) \X (0..1))
\* Two runs alone, or one run with two reports.
Reported == ((0..2) \X {0} \X {0} \X {0}) \cup ((0..1) \X (0..2) \X {0} \X {0})
ReportAndRestart == (0..1) \X (0..1) \X {0} \X (0..1)
=============================================================================
