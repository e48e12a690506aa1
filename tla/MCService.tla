------------------------------ MODULE MCService ------------------------------
(***************************************************************************)
(* Instances of Service for TLC.                                           *)
(***************************************************************************)
EXTENDS Service

CONSTANTS a, o, n, d

One == {a}
Other == {o}
OneName == {n}
OneService == [s \in Services |-> n]
Shared == {d}
OneEach == [s \in Services |-> {d}]
=============================================================================
