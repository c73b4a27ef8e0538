------------------------------ MODULE MCRuntime ------------------------------
(***************************************************************************)
(* Two threads and two jobs.  The programs: a producer and a consumer job  *)
(* while both threads race to create the pool; shutdown against spawns and *)
(* inits of the other thread; two shutdowns; a job that spawns; a runtime  *)
(* that is shut down and initialised again.                                *)
(***************************************************************************)
EXTENDS Runtime, TLC

CONSTANTS h1, h2, j1, j2

MCHosts == {h1, h2}
MCJobs == {j1, j2}

init(n) == [op |-> "init", threads |-> n]
spawn(j) == [op |-> "spawn", job |-> j]
shutdown == [op |-> "shutdown"]
send == [op |-> "send"]
recv == [op |-> "recv"]

Program(main, other, first, second) ==
  (h1 :> main) @@ (h2 :> other) @@ (j1 :> first) @@ (j2 :> second)

MCPrograms == {
  Program(<<init(2), spawn(j1)>>, <<spawn(j2)>>, <<send, send>>, <<recv, recv>>),
  Program(<<init(2), spawn(j1), spawn(j2)>>, <<send, send>>, <<recv>>, <<recv>>),
  Program(<<init(2), spawn(j1), shutdown>>, <<spawn(j2), send>>, <<recv>>, <<>>),
  Program(<<init(1), spawn(j1), shutdown>>, <<init(2), spawn(j2), shutdown>>, <<>>, <<>>),
  Program(<<spawn(j1)>>, <<init(2), shutdown>>, <<spawn(j2)>>, <<>>),
  Program(<<init(1), shutdown, init(2), spawn(j1)>>, <<spawn(j2), shutdown>>, <<recv>>, <<send>>) }

\* A job that spawns a job, and one thread that shuts the runtime down.
MCShutdownPrograms == {
  Program(<<init(2), spawn(j1), shutdown>>, <<>>, <<spawn(j2)>>, <<>>) }
=============================================================================
