----------------------------- MODULE MCSupervisor -----------------------------
(***************************************************************************)
(* Instances of Supervisor for TLC.                                        *)
(***************************************************************************)
EXTENDS Supervisor

CONSTANTS d1, d2, s1

NoCommander == {}
TwoDispatchers == {d1, d2}
OneStopper == {s1}
=============================================================================
