----------------------------- MODULE MCScheduler -----------------------------
(***************************************************************************)
(* Two workers and three jobs, one of which may panic: enough for a job    *)
(* that spawns a job, a batch of two, a steal between workers, a dead      *)
(* worker with jobs in its deque, and a shutdown in the middle of it all.  *)
(***************************************************************************)
EXTENDS Scheduler

CONSTANTS j1, j2, j3, o1

MCJobs == {j1, j2, j3}
MCPanicking == {j1}
MCOutside == {o1}
=============================================================================
