------------------------------- MODULE JobPool -------------------------------
(***************************************************************************)
(* What the threaded scheduler promises its owner and its jobs, with no    *)
(* queue, no steal and no wake-up in it: one set of waiting jobs, from     *)
(* which each worker takes any one at a time.  Anyone may submit a job at  *)
(* any time.  A worker asks whether the pool is still open before every    *)
(* look for a job, so once the owner is shutting down it takes the one it  *)
(* is looking for at most; and when the shutdown has returned nothing runs *)
(* any more.  Scheduler is shown to implement this, and Runtime to use it. *)
(***************************************************************************)

CONSTANTS
  Workers,    \* the worker threads
  Jobs,       \* every job that may ever be submitted
  Panicking,  \* the jobs that may end their worker
  None        \* no job

VARIABLES
  stage,  \* what has become of each job: "new", "waiting", "running", "ended", "lost"
  crew,   \* each worker: "none" (never started), "out" (it has yet to ask), "in" (looking), "busy", "gone"
  hand,   \* the job each worker runs, None if it runs none
  owner   \* "up", "joining" (inside shutdown), "down"

poolVars == <<stage, crew, hand, owner>>

PoolInit ==
  /\ stage = [j \in Jobs |-> "new"]
  /\ \E start \in {"none", "out"} : crew = [w \in Workers |-> start]
  /\ hand = [w \in Workers |-> None]
  /\ owner = "up"

\* Some of the workers start, all at once.
Open ==
  /\ owner = "up" /\ \A w \in Workers : crew[w] = "none"
  /\ \E W \in SUBSET Workers : crew' = [w \in Workers |-> IF w \in W THEN "out" ELSE "none"]
  /\ UNCHANGED <<stage, hand, owner>>

Submit(j) ==
  /\ stage[j] = "new"
  /\ stage' = [stage EXCEPT ![j] = "waiting"]
  /\ UNCHANGED <<crew, hand, owner>>

\* The worker asks whether the pool is open.
Enter(w) ==
  /\ crew[w] = "out" /\ owner = "up"
  /\ crew' = [crew EXCEPT ![w] = "in"]
  /\ UNCHANGED <<stage, hand, owner>>
Leave(w) ==
  /\ crew[w] = "out" /\ owner # "up"
  /\ crew' = [crew EXCEPT ![w] = "gone"]
  /\ UNCHANGED <<stage, hand, owner>>

\* It looks for a job, and may miss those that wait.
Take(w) ==
  /\ crew[w] = "in"
  /\ \E j \in Jobs :
       /\ stage[j] = "waiting"
       /\ stage' = [stage EXCEPT ![j] = "running"]
       /\ hand' = [hand EXCEPT ![w] = j]
  /\ crew' = [crew EXCEPT ![w] = "busy"]
  /\ UNCHANGED owner
GiveUp(w) ==
  /\ crew[w] = "in"
  /\ crew' = [crew EXCEPT ![w] = "out"]
  /\ UNCHANGED <<stage, hand, owner>>

\* The job it runs is over; one that panics takes its worker along, and no other job.
Over(w, how, next) ==
  /\ crew[w] = "busy"
  /\ stage' = [stage EXCEPT ![hand[w]] = how]
  /\ crew' = [crew EXCEPT ![w] = next]
  /\ hand' = [hand EXCEPT ![w] = None]
  /\ UNCHANGED owner
Finish(w) == Over(w, "ended", "out")
Panic(w) == hand[w] \in Panicking /\ Over(w, "lost", "gone")

\* The owner shuts the pool down, and returns when every worker that started has gone.
Close ==
  /\ owner = "up" /\ owner' = "joining"
  /\ UNCHANGED <<stage, crew, hand>>
Join ==
  /\ owner = "joining" /\ \A w \in Workers : crew[w] \in {"none", "gone"}
  /\ owner' = "down"
  /\ UNCHANGED <<stage, crew, hand>>

PoolNext ==
  \/ \E j \in Jobs : Submit(j)
  \/ \E w \in Workers : Enter(w) \/ Leave(w) \/ Take(w) \/ GiveUp(w) \/ Finish(w) \/ Panic(w)
  \/ Open \/ Close \/ Join

PoolSpec == PoolInit /\ [][PoolNext]_poolVars
=============================================================================
