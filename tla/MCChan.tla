------------------------------- MODULE MCChan -------------------------------
(***************************************************************************)
(* The channel with four threads of up to three calls each, at capacities  *)
(* 0 (which behaves as 1), 1 and 2.                                        *)
(***************************************************************************)
EXTENDS Chan, TLC

CONSTANTS a, b, c, d

MCThreads == {a, b, c, d}

Sends(n) == [i \in 1..n |-> "send"]
Recvs(n) == [i \in 1..n |-> "recv"]

\* Two producers against two consumers, one producer against three
\* consumers, three against one, and threads that do both.
MCPlans == {
  (a :> Sends(2)) @@ (b :> Sends(1)) @@ (c :> Recvs(2)) @@ (d :> Recvs(1)),
  (a :> Sends(2)) @@ (b :> Sends(2)) @@ (c :> Recvs(2)) @@ (d :> Recvs(2)),
  (a :> Sends(3)) @@ (b :> Recvs(1)) @@ (c :> Recvs(1)) @@ (d :> Recvs(1)),
  (a :> Sends(1)) @@ (b :> Sends(1)) @@ (c :> Sends(1)) @@ (d :> Recvs(3)),
  (a :> <<"send", "recv">>) @@ (b :> <<"recv", "send">>) @@ (c :> Sends(2)) @@ (d :> Recvs(1)) }
MCCapacities == 0..2
=============================================================================
