---------------------------- MODULE MCStage0Cache ----------------------------
(***************************************************************************)
(* Three processes, one of which may be killed: enough for one to die with *)
(* the lock and two to find it there.                                      *)
(***************************************************************************)
EXTENDS Stage0Cache, TLC

CONSTANTS p1, p2, p3

MCProcs == {p1, p2, p3}
=============================================================================
