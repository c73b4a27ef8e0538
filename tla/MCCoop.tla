------------------------------- MODULE MCCoop -------------------------------
(***************************************************************************)
(* Main and three tasks, as every program of a small grammar, at capacities *)
(* 0 (which behaves as 1), 1 and 2.                                        *)
(***************************************************************************)
EXTENDS Coop, TLC

CONSTANTS t1, t2, t3

MCTasks == {t1, t2, t3}
MCCapacities == 0..2

spawn(t) == [op |-> "spawn", task |-> t]
shutdown == [op |-> "shutdown"]
yield == [op |-> "yield"]
send == [op |-> "send"]
recv == [op |-> "recv"]

Program(main, first, second, third) ==
  (Main :> main) @@ (t1 :> first) @@ (t2 :> second) @@ (t3 :> third)

Bodies == {<<>>, <<send>>, <<recv>>, <<send, send>>, <<recv, recv>>, <<yield, send>>,
           <<recv, send>>}
\* Main spawns t1 and t2, and then maybe sends or receives; or t1 spawns t2
\* and t3, between, before or after other operations, or shuts down.
MainSpawns == {Program(<<spawn(t1), spawn(t2)>> \o m, f, s, <<>>) :
                 m \in {<<>>, <<send>>, <<recv>>}, f \in Bodies, s \in Bodies}
TaskSpawns == {Program(<<spawn(t1)>>, f, s, t) :
                 f \in {<<spawn(t2), spawn(t3)>>, <<spawn(t2), yield, spawn(t3)>>,
                        <<spawn(t2), spawn(t3), recv>>, <<spawn(t2), shutdown, spawn(t3)>>},
                 s \in Bodies, t \in Bodies}
MCPrograms == MainSpawns \cup TaskSpawns
=============================================================================
