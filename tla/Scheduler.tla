------------------------------ MODULE Scheduler ------------------------------
(***************************************************************************)
(* The work-stealing scheduler of the threaded runtime,                    *)
(* crates/draton-runtime/src/scheduler/scheduler.rs, with the part of      *)
(* coreroutine.rs it drives.                                               *)
(*                                                                         *)
(* Every worker thread owns a first-in first-out deque; spawn pushes onto  *)
(* a shared injector; a worker that finds nothing in its deque steals a    *)
(* batch from the injector and then from the other workers, and parks for  *)
(* at most ten milliseconds when all of that failed.  No lock covers a     *)
(* spawn, a steal and a park together: wake_all notifies without holding   *)
(* the mutexes the workers park under, so a notification may come before   *)
(* its worker sleeps, and is then lost.                                    *)
(*                                                                         *)
(* Each access to an atomic, a deque or a condition variable is a step.    *)
(* The deques are crossbeam's and are modelled by what they promise: push, *)
(* pop and steal_batch_and_pop are atomic, and a steal may answer Retry    *)
(* when another thread is at the same queue.                               *)
(***************************************************************************)
EXTENDS Integers, Sequences, FiniteSets

CONSTANTS
  NumWorkers,  \* the number of worker threads
  Jobs,        \* every job that may ever be spawned, each at most once
  Panicking,   \* the jobs whose body may panic
  Outside,     \* the other threads that spawn: they hold the Scheduler too
  None         \* no job

ASSUME NumWorkersAssumption == NumWorkers \in Nat \ {0}
ASSUME JobsAssumption == IsFiniteSet(Jobs) /\ Panicking \subseteq Jobs
ASSUME NoneAssumption == None \notin Jobs
ASSUME OutsideAssumption == Outside \cap (1..NumWorkers) = {}

Workers == 1..NumWorkers

\* Queue 0 is the injector, queue w the deque of worker w.
Injector == 0
Queues == {Injector} \cup Workers

Spawners == Outside \cup Workers

VARIABLES
  queue,       \* the injector and the workers' deques
  status,      \* what has become of each job: see Statuses
  active_jobs, \* Scheduler::active_jobs
  pc,          \* where each worker is in run_worker: see WorkerSteps
  job,         \* the job a worker has taken, None when it has none
  victim,      \* the index of the next stealer a worker will try
  spawning,    \* per thread, the job its call of spawn is about, None outside spawn
  shutdown,    \* Scheduler::shutdown
  host         \* where shutdown is, in whatever thread: "up" (not called), "stored", "joining", "down"

vars == <<queue, status, active_jobs, pc, job, victim, spawning, shutdown, host>>
workerVars == <<pc, job, victim>>

\* "new": not spawned;  "counted": spawn has incremented active_jobs;
\* "queued": in a queue;  "running": its body runs (CoreState::Running);
\* "ran": its body returned (CoreState::Dead);  "done": no longer counted;
\* "lost": its body panicked, and unwound the worker with it.
Statuses == {"new", "counted", "queued", "running", "ran", "done", "lost"}

WorkerSteps == {"top", "local", "inject", "steal", "park", "asleep", "run",
                "ran", "exited", "dead"}

Terminated(w) == pc[w] \in {"exited", "dead"}

-----------------------------------------------------------------------------
Init ==
  /\ queue = [q \in Queues |-> <<>>]
  /\ status = [j \in Jobs |-> "new"]
  /\ active_jobs = 0
  /\ pc = [w \in Workers |-> "top"]
  /\ job = [w \in Workers |-> None]
  /\ victim = [w \in Workers |-> 1]
  /\ spawning = [s \in Spawners |-> None]
  /\ shutdown = FALSE
  /\ host = "up"

-----------------------------------------------------------------------------
(* spawn, called by the body of a running job or by a thread outside, which may be *)
(* anywhere in it when shutdown is called, and may call it afterwards              *)

MaySpawn(s) == spawning[s] = None /\ (s \in Workers => pc[s] = "run")

\* Mutant of SpawnCount: fetch_add forgotten.
SpawnUncounted(s) ==
  /\ MaySpawn(s)
  /\ \E j \in Jobs :
       /\ status[j] = "new"
       /\ spawning' = [spawning EXCEPT ![s] = j]
       /\ status' = [status EXCEPT ![j] = "counted"]
  /\ UNCHANGED <<queue, active_jobs, workerVars, shutdown, host>>

SpawnCount(s) ==
  /\ MaySpawn(s)
  /\ \E j \in Jobs :
       /\ status[j] = "new"
       /\ spawning' = [spawning EXCEPT ![s] = j]
       /\ status' = [status EXCEPT ![j] = "counted"]
  /\ active_jobs' = active_jobs + 1
  /\ UNCHANGED <<queue, workerVars, shutdown, host>>

SpawnPush(s) ==
  /\ spawning[s] # None
  /\ status[spawning[s]] = "counted"
  /\ queue' = [queue EXCEPT ![Injector] = Append(@, spawning[s])]
  /\ status' = [status EXCEPT ![spawning[s]] = "queued"]
  /\ UNCHANGED <<active_jobs, workerVars, spawning, shutdown, host>>

\* wake_all: one notify_one per worker.  A worker that is not in wait_timeout
\* at that moment is not affected; the notification is not remembered.
WakeAll == pc' = [w \in Workers |-> IF pc[w] = "asleep" THEN "top" ELSE pc[w]]

SpawnWake(s) ==
  /\ spawning[s] # None
  /\ status[spawning[s]] # "counted"
  /\ WakeAll
  /\ spawning' = [spawning EXCEPT ![s] = None]
  /\ UNCHANGED <<queue, status, active_jobs, job, victim, shutdown, host>>

-----------------------------------------------------------------------------
(* run_worker *)

\* Mutant of CheckShutdown: the flag is read only when there is nothing to take.
CheckWhenIdle(w) ==
  /\ pc[w] = "top"
  /\ pc' = [pc EXCEPT ![w] = IF shutdown /\ queue[w] = <<>> THEN "exited" ELSE "local"]
  /\ UNCHANGED <<queue, status, active_jobs, job, victim, spawning, shutdown, host>>

\* The head of the loop: the shutdown flag is read before any job is taken.
CheckShutdown(w) ==
  /\ pc[w] = "top"
  /\ pc' = [pc EXCEPT ![w] = IF shutdown THEN "exited" ELSE "local"]
  /\ UNCHANGED <<queue, status, active_jobs, job, victim, spawning, shutdown, host>>

Start(w, j) ==
  /\ job' = [job EXCEPT ![w] = j]
  /\ status' = [status EXCEPT ![j] = "running"]
  /\ pc' = [pc EXCEPT ![w] = "run"]
  /\ victim' = [victim EXCEPT ![w] = 1]
  /\ UNCHANGED <<active_jobs, spawning, shutdown, host>>

PopLocal(w) ==
  /\ pc[w] = "local"
  /\ queue[w] # <<>>
  /\ queue' = [queue EXCEPT ![w] = Tail(@)]
  /\ Start(w, Head(queue[w]))

LocalEmpty(w) ==
  /\ pc[w] = "local"
  /\ queue[w] = <<>>
  /\ pc' = [pc EXCEPT ![w] = "inject"]
  /\ UNCHANGED <<queue, status, active_jobs, job, victim, spawning, shutdown, host>>

\* The queue the worker is about to steal from.
Source(w) == IF pc[w] = "inject" THEN Injector ELSE victim[w]
Stealing(w) == pc[w] \in {"inject", "steal"}

\* Mutant of MovedBatch: the stolen jobs stay in the queue they come from.
CopiedBatch(w, n) ==
  [queue EXCEPT ![w] = @ \o SubSeq(queue[Source(w)], 2, n)]

\* steal_batch_and_pop takes n jobs from the front of the source: the first
\* is returned, the others go to the back of the worker's own deque.
MovedBatch(w, n) ==
  [queue EXCEPT ![w] = @ \o SubSeq(queue[Source(w)], 2, n),
                ![Source(w)] = SubSeq(@, n + 1, Len(@))]

\* At least one job: at most half of a worker's deque, rounded up; of the injector, which
\* is stored in blocks, possibly all.
BatchSizes(q) == 1..(IF q = Injector THEN Len(queue[q]) ELSE (Len(queue[q]) + 1) \div 2)

StealBatch(w) ==
  /\ Stealing(w)
  /\ Source(w) # w
  /\ queue[Source(w)] # <<>>
  /\ \E n \in BatchSizes(Source(w)) : queue' = MovedBatch(w, n)
  /\ Start(w, Head(queue[Source(w)]))

\* The steal found the queue empty (a worker's own deque always is), or lost a
\* race for it to another thread and answered Retry.  Nothing is tried twice:
\* the worker goes to the next source, and parks after the last.
Contended(w) == \E v \in Workers \ {w} : Stealing(v) \/ pc[v] = "local"

StealNothing(w) ==
  /\ Stealing(w)
  /\ queue[Source(w)] = <<>> \/ Contended(w)
  /\ IF pc[w] = "inject"
       THEN pc' = [pc EXCEPT ![w] = "steal"] /\ UNCHANGED victim
       ELSE IF victim[w] < NumWorkers
              THEN victim' = [victim EXCEPT ![w] = @ + 1] /\ UNCHANGED pc
              ELSE /\ victim' = [victim EXCEPT ![w] = 1]
                   /\ pc' = [pc EXCEPT ![w] = "park"]
  /\ UNCHANGED <<queue, status, active_jobs, job, spawning, shutdown, host>>

Park(w) ==
  /\ pc[w] = "park"
  /\ pc' = [pc EXCEPT ![w] = "asleep"]
  /\ UNCHANGED <<queue, status, active_jobs, job, victim, spawning, shutdown, host>>

\* Mutant of ParkTimeout: wait in place of wait_timeout.
ParkForever(w) == FALSE /\ UNCHANGED vars

ParkTimeout(w) ==
  /\ pc[w] = "asleep"
  /\ pc' = [pc EXCEPT ![w] = "top"]
  /\ UNCHANGED <<queue, status, active_jobs, job, victim, spawning, shutdown, host>>

\* RuntimeTask::run after the body has returned.
Finish(w) ==
  /\ pc[w] = "run"
  /\ spawning[w] = None
  /\ status' = [status EXCEPT ![job[w]] = "ran"]
  /\ pc' = [pc EXCEPT ![w] = "ran"]
  /\ UNCHANGED <<queue, active_jobs, job, victim, spawning, shutdown, host>>

\* Mutant of Discount: fetch_sub skipped by an early continue.
DiscountSkipped(w) ==
  /\ pc[w] = "ran"
  /\ status' = [status EXCEPT ![job[w]] = "done"]
  /\ job' = [job EXCEPT ![w] = None]
  /\ pc' = [pc EXCEPT ![w] = "top"]
  /\ UNCHANGED <<queue, active_jobs, victim, spawning, shutdown, host>>

Discount(w) ==
  /\ pc[w] = "ran"
  /\ active_jobs' = active_jobs - 1
  /\ status' = [status EXCEPT ![job[w]] = "done"]
  /\ job' = [job EXCEPT ![w] = None]
  /\ pc' = [pc EXCEPT ![w] = "top"]
  /\ UNCHANGED <<queue, victim, spawning, shutdown, host>>

\* The body panics and unwinds through run_worker: the thread ends without
\* the decrement.  Its deque outlives it, as the stealers share it.
Panic(w) ==
  /\ pc[w] = "run"
  /\ spawning[w] = None
  /\ job[w] \in Panicking
  /\ status' = [status EXCEPT ![job[w]] = "lost"]
  /\ job' = [job EXCEPT ![w] = None]
  /\ pc' = [pc EXCEPT ![w] = "dead"]
  /\ UNCHANGED <<queue, active_jobs, victim, spawning, shutdown, host>>

-----------------------------------------------------------------------------
(* shutdown, called by one thread *)

ShutdownStore ==
  /\ host = "up"
  /\ shutdown' = TRUE
  /\ host' = "stored"
  /\ UNCHANGED <<queue, status, active_jobs, workerVars, spawning>>

ShutdownWake ==
  /\ host = "stored"
  /\ WakeAll
  /\ host' = "joining"
  /\ UNCHANGED <<queue, status, active_jobs, job, victim, spawning, shutdown>>

\* The handles are joined one after the other; a worker that panicked counts
\* as joined.
ShutdownJoin ==
  /\ host = "joining"
  /\ \A w \in Workers : Terminated(w)
  /\ host' = "down"
  /\ UNCHANGED <<queue, status, active_jobs, workerVars, spawning, shutdown>>

-----------------------------------------------------------------------------
Spawn(s) == SpawnCount(s) \/ SpawnPush(s) \/ SpawnWake(s)

Seek(w) == CheckShutdown(w) \/ PopLocal(w) \/ LocalEmpty(w) \/ StealBatch(w)
           \/ StealNothing(w) \/ Park(w) \/ ParkTimeout(w)
RunBody(w) == Finish(w) \/ Panic(w)
Worker(w) == Seek(w) \/ RunBody(w) \/ Discount(w)

Shutdown == ShutdownStore \/ ShutdownWake \/ ShutdownJoin

Next ==
  \/ \E s \in Spawners : Spawn(s)
  \/ \E w \in Workers : Worker(w)
  \/ Shutdown

\* Threads are scheduled, the ten milliseconds pass, and job bodies return (or
\* panic).  A call of spawn or shutdown that began goes on; nothing obliges
\* anyone to begin one.  A steal loses a race only to a thread that took a job,
\* so a worker that keeps trying a queue that keeps having jobs gets one.
Fairness ==
  /\ \A w \in Workers : /\ WF_vars(Seek(w))
                        /\ WF_vars(RunBody(w))
                        /\ WF_vars(Discount(w))
                        /\ SF_vars(StealBatch(w))
  /\ \A s \in Spawners : WF_vars(SpawnPush(s) \/ SpawnWake(s))
  /\ WF_vars(ShutdownWake \/ ShutdownJoin)

SafeSpec == Init /\ [][Next]_vars
Spec == SafeSpec /\ Fairness

-----------------------------------------------------------------------------
(* Properties *)

\* Type invariant.
TypeOK ==
  /\ queue \in [Queues -> Seq(Jobs)]
  /\ status \in [Jobs -> Statuses]
  /\ active_jobs \in Int
  /\ pc \in [Workers -> WorkerSteps]
  /\ job \in [Workers -> Jobs \cup {None}]
  /\ \A w \in Workers : job[w] # None <=> pc[w] \in {"run", "ran"}
  /\ victim \in [Workers -> Workers]
  /\ spawning \in [Spawners -> Jobs \cup {None}]
  /\ shutdown \in BOOLEAN
  /\ host \in {"up", "stored", "joining", "down"}

\* Every job is in one place: in exactly one slot of one queue while it is
\* queued and in none otherwise, and in the hands of exactly one worker while
\* it runs.  So no interleaving of pops, steals and batches runs a job twice or
\* drops it, and a panicking worker drops only the job that panicked.
InQueue(j) == \E q \in Queues : \E i \in DOMAIN queue[q] : queue[q][i] = j
NoJobTwice ==
  \A q, r \in Queues : \A i \in DOMAIN queue[q], k \in DOMAIN queue[r] :
    queue[q][i] = queue[r][k] => q = r /\ i = k
QueuedExact == \A j \in Jobs : status[j] = "queued" <=> InQueue(j)
InHand(w) ==
  /\ pc[w] = "run" => status[job[w]] = "running"
  /\ pc[w] = "ran" => status[job[w]] = "ran"
  /\ \A v \in Workers \ {w} : job[v] # None => job[v] # job[w]
JobsInOnePlace == NoJobTwice /\ QueuedExact /\ \A w \in Workers : InHand(w)

\* active_jobs counts the jobs whose spawn has begun and which have not been
\* discounted, the ones a panic took included.  So when wait_for_idle reads
\* zero nothing is queued or running anywhere, and the counter never wraps.
Active == {j \in Jobs : status[j] \notin {"new", "done"}}
ActiveJobsExact == active_jobs = Cardinality(Active)

\* What wait_for_idle waits for in the words of its comment: that no queued or
\* running task remains.  A job that panicked is neither.
QuietIsIdle ==
  (\A j \in Jobs : status[j] \in {"new", "done", "lost"}) => active_jobs = 0

\* Once idle, the scheduler stays idle until a thread outside spawns: a job is counted
\* before its parent is discounted, so a tree of jobs that spawn jobs never
\* looks idle while part of it is still to come.
IdleIsStable ==
  [][active_jobs = 0 /\ active_jobs' # 0
       => \E s \in Outside : spawning[s] = None /\ spawning'[s] # None]_vars

\* The scheduler implements JobPool.  From outside, the injector, the deques and the
\* batches in between are one set of waiting jobs; counting and parking are not to be
\* seen.  So no worker takes a job it did not ask for before the flag was stored: after
\* that each takes one more at most, shutdown waits for it, and when shutdown has
\* returned nothing runs and nothing is taken any more.
Stage(j) ==
  CASE status[j] \in {"new", "counted"} -> "new"
    [] status[j] = "queued" -> "waiting"
    [] status[j] = "running" -> "running"
    [] status[j] \in {"ran", "done"} -> "ended"
    [] status[j] = "lost" -> "lost"
Post(w) ==
  CASE pc[w] \in {"top", "park", "asleep", "ran"} -> "out"
    [] pc[w] \in {"local", "inject", "steal"} -> "in"
    [] pc[w] = "run" -> "busy"
    [] pc[w] \in {"exited", "dead"} -> "gone"
Pool == INSTANCE JobPool WITH
          stage <- [j \in Jobs |-> Stage(j)],
          crew <- [w \in Workers |-> Post(w)],
          hand <- [w \in Workers |-> IF pc[w] = "run" THEN job[w] ELSE None],
          owner <- IF host = "stored" THEN "joining" ELSE host

\* See above: every behaviour of the scheduler is one of the pool.
ImplementsJobPool == Pool!PoolSpec

\* Every queued job is eventually taken, unless the scheduler is shut down or
\* every worker has died: notifications get lost and steals answer Retry, but
\* every park ends.
EveryJobRuns ==
  \A j \in Jobs : status[j] = "queued" ~>
    status[j] # "queued" \/ shutdown \/ \A w \in Workers : pc[w] = "dead"

\* A shutdown that has begun returns, whatever the workers are doing when the
\* flag is stored and the notifications are sent.
ShutdownReturns == host = "stored" ~> host = "down"
=============================================================================
