------------------------------ MODULE MCProgram ------------------------------
(***************************************************************************)
(* Instances of Program for TLC.                                           *)
(***************************************************************************)
EXTENDS Program

CONSTANTS c1, c2, x1, noController, noContexts

TwoControllers == {c1, c2}
OneContext == {x1}
=============================================================================
