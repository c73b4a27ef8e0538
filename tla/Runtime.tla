------------------------------- MODULE Runtime -------------------------------
(***************************************************************************)
(* The runtime as a program uses it: the global scheduler slot of          *)
(* crates/draton-runtime/src/scheduler/mod.rs behind the functions of      *)
(* lib.rs (draton_runtime_init, draton_spawn, draton_runtime_shutdown,     *)
(* draton_chan_send, draton_chan_recv), composed with pools of worker      *)
(* threads and one channel.                                                *)
(*                                                                         *)
(* The two components are taken at their word: a pool is what Scheduler    *)
(* does seen from outside (a job is pending, then runs on one worker to    *)
(* its end; a worker that sees the shutdown flag leaves), which is to say  *)
(* a JobPool (PoolsAreJobPools), and the channel is a bounded buffer as in *)
(* BoundedFifo, of which only the number of messages matters here.  What   *)
(* is left is the slot's mutex, which init and spawn need and which        *)
(* shutdown keeps while it joins the workers, and the workers, which a job *)
(* keeps while it waits for the mutex or for the channel.                  *)
(***************************************************************************)
EXTENDS Naturals, Sequences, FiniteSets

CONSTANTS
  Hosts,       \* threads of the program that are not workers
  Jobs,        \* the jobs; each is spawned at most once
  Programs,    \* the possible assignments of operations to hosts and jobs
  MaxPools,    \* a bound on the schedulers created one after the other
  MaxWorkers,  \* a bound on the size of a pool
  Capacity,    \* the channel's effective capacity
  None         \* no pool, thread or job

Actors == Hosts \cup Jobs
Pools == 1..MaxPools
Workers == Pools \X (1..MaxWorkers)
PoolOf(w) == w[1]

\* What an actor may do: init with a number of threads, spawn a job, shutdown,
\* send, recv.
Ops == [op : {"init"}, threads : 1..MaxWorkers] \cup [op : {"spawn"}, job : Jobs]
       \cup [op : {"shutdown", "send", "recv"}]

ASSUME BoundsAssumption == MaxPools \in Nat /\ MaxWorkers \in Nat \ {0} /\ Capacity \in Nat \ {0}
ASSUME ActorsAssumption ==
  IsFiniteSet(Actors) /\ Hosts \cap Jobs = {} /\ None \notin Actors /\ None \notin Pools
ASSUME ProgramsAssumption == Programs \subseteq [Actors -> Seq(Ops)]

\* A job is the argument of one spawn: nobody spawns it twice, and one that
\* nobody spawns has no body.
Spawns(P, a, i, j) == i \in DOMAIN P[a] /\ P[a][i].op = "spawn" /\ P[a][i].job = j
ASSUME SpawnsAssumption ==
  \A P \in Programs : \A j \in Jobs :
    /\ \A a, b \in Actors : \A i \in DOMAIN P[a], k \in DOMAIN P[b] :
         Spawns(P, a, i, j) /\ Spawns(P, b, k, j) => a = b /\ i = k
    /\ P[j] # <<>> => \E a \in Actors : \E i \in DOMAIN P[a] : Spawns(P, a, i, j)

VARIABLES
  todo,      \* per actor, the operations it has not finished
  slot,      \* GLOBAL_SCHEDULER's content: a pool or None
  holder,    \* the actor that keeps the slot's mutex across steps, or None
  handle,    \* per actor, the Arc<Scheduler> it holds inside spawn or shutdown
  stopping,  \* the pools whose shutdown flag is set
  pending,   \* per pool, the jobs spawned onto it and not yet taken
  at,        \* per worker: "none" (not created), "top", "seek", "busy", "gone"
  runs,      \* per worker, the job it runs
  home,      \* history: per job, the pool it was pushed onto
  buffered   \* the number of messages in the channel

vars == <<todo, slot, holder, handle, stopping, pending, at, runs, home, buffered>>
poolVars == <<stopping, pending, at, runs, home>>

Running(a) == a \in Hosts \/ \E w \in Workers : runs[w] = a
Doing(a, op) == Running(a) /\ todo[a] # <<>> /\ Head(todo[a]).op = op
Return(a) == todo' = [todo EXCEPT ![a] = Tail(@)]

Created == {p \in Pools : \E w \in Workers : PoolOf(w) = p /\ at[w] # "none"}
Crew(p) == {w \in Workers : PoolOf(w) = p /\ at[w] # "none"}
Alive(p) == {w \in Crew(p) : at[w] # "gone"}

-----------------------------------------------------------------------------
Init ==
  /\ todo \in Programs
  /\ slot = None
  /\ holder = None
  /\ handle = [a \in Actors |-> None]
  /\ stopping = {}
  /\ pending = [p \in Pools |-> {}]
  /\ at = [w \in Workers |-> "none"]
  /\ runs = [w \in Workers |-> None]
  /\ home = [j \in Jobs |-> None]
  /\ buffered = 0

-----------------------------------------------------------------------------
(* The slot *)

\* init_global with n threads, from the acquisition of the mutex to its
\* release: the slot's scheduler, or a new one.
InitGlobal(n) ==
  IF slot # None
    THEN UNCHANGED <<slot, at>>
    ELSE LET p == Cardinality(Created) + 1
         IN /\ p \in Pools
            /\ slot' = p
            /\ at' = [w \in Workers |->
                        IF PoolOf(w) = p /\ w[2] <= n THEN "top" ELSE at[w]]

\* draton_runtime_init.
RuntimeInit(a) ==
  /\ Doing(a, "init")
  /\ holder = None
  /\ InitGlobal(Head(todo[a]).threads)
  /\ Return(a)
  /\ UNCHANGED <<holder, handle, stopping, pending, runs, home, buffered>>

\* draton_spawn: the scheduler is looked up, or created with one worker, under
\* the mutex; the job is pushed when the mutex has been given up, maybe onto a
\* scheduler that is no longer the global one.
SpawnLookup(a) ==
  /\ Doing(a, "spawn")
  /\ handle[a] = None
  /\ holder = None
  /\ InitGlobal(1)
  /\ handle' = [handle EXCEPT ![a] = slot']
  /\ UNCHANGED <<todo, holder, stopping, pending, runs, home, buffered>>

SpawnPush(a) ==
  /\ Doing(a, "spawn")
  /\ handle[a] # None
  /\ pending' = [pending EXCEPT ![handle[a]] = @ \cup {Head(todo[a]).job}]
  /\ home' = [home EXCEPT ![Head(todo[a]).job] = handle[a]]
  /\ handle' = [handle EXCEPT ![a] = None]
  /\ Return(a)
  /\ UNCHANGED <<slot, holder, stopping, at, runs, buffered>>

\* draton_runtime_shutdown when there is no scheduler.
ShutdownNothing(a) ==
  /\ Doing(a, "shutdown")
  /\ holder = None
  /\ slot = None
  /\ Return(a)
  /\ UNCHANGED <<slot, holder, handle, poolVars, buffered>>

\* Mutant of ShutdownTake: the flag is not set.
ShutdownTakeUnflagged(a) ==
  /\ Doing(a, "shutdown")
  /\ holder = None
  /\ slot # None
  /\ holder' = a
  /\ handle' = [handle EXCEPT ![a] = slot]
  /\ slot' = None
  /\ UNCHANGED <<todo, poolVars, buffered>>

\* Mutant of ShutdownTake: the scheduler is left in the slot.
ShutdownTakeLeft(a) ==
  /\ Doing(a, "shutdown")
  /\ holder = None
  /\ slot # None
  /\ holder' = a
  /\ handle' = [handle EXCEPT ![a] = slot]
  /\ stopping' = stopping \cup {slot}
  /\ UNCHANGED <<todo, slot, pending, at, runs, home, buffered>>

\* Otherwise the scheduler is taken out of the slot and told to stop, and the
\* mutex is kept until every worker is joined.
ShutdownTake(a) ==
  /\ Doing(a, "shutdown")
  /\ holder = None
  /\ slot # None
  /\ holder' = a
  /\ handle' = [handle EXCEPT ![a] = slot]
  /\ slot' = None
  /\ stopping' = stopping \cup {slot}
  /\ UNCHANGED <<todo, pending, at, runs, home, buffered>>

\* Mutant of ShutdownJoin: the workers are told to stop but not joined.
ShutdownDetach(a) ==
  /\ holder = a
  /\ holder' = None
  /\ handle' = [handle EXCEPT ![a] = None]
  /\ Return(a)
  /\ UNCHANGED <<slot, poolVars, buffered>>

ShutdownJoin(a) ==
  /\ holder = a
  /\ Alive(handle[a]) = {}
  /\ holder' = None
  /\ handle' = [handle EXCEPT ![a] = None]
  /\ Return(a)
  /\ UNCHANGED <<slot, poolVars, buffered>>

-----------------------------------------------------------------------------
(* The channel *)

Send(a) ==
  /\ Doing(a, "send")
  /\ buffered < Capacity
  /\ buffered' = buffered + 1
  /\ Return(a)
  /\ UNCHANGED <<slot, holder, handle, poolVars>>

Recv(a) ==
  /\ Doing(a, "recv")
  /\ buffered > 0
  /\ buffered' = buffered - 1
  /\ Return(a)
  /\ UNCHANGED <<slot, holder, handle, poolVars>>

-----------------------------------------------------------------------------
(* The workers *)

CheckShutdown(w) ==
  /\ at[w] = "top"
  /\ at' = [at EXCEPT ![w] = IF PoolOf(w) \in stopping THEN "gone" ELSE "seek"]
  /\ UNCHANGED <<todo, slot, holder, handle, stopping, pending, runs, home, buffered>>

\* Mutant of TakeJob: the job also stays in the queue.
TakeJobCopy(w) ==
  /\ at[w] = "seek"
  /\ \E j \in pending[PoolOf(w)] : runs' = [runs EXCEPT ![w] = j]
  /\ at' = [at EXCEPT ![w] = "busy"]
  /\ UNCHANGED <<todo, slot, holder, handle, stopping, pending, home, buffered>>

TakeJob(w) ==
  /\ at[w] = "seek"
  /\ \E j \in pending[PoolOf(w)] :
       /\ pending' = [pending EXCEPT ![PoolOf(w)] = @ \ {j}]
       /\ runs' = [runs EXCEPT ![w] = j]
  /\ at' = [at EXCEPT ![w] = "busy"]
  /\ UNCHANGED <<todo, slot, holder, handle, stopping, home, buffered>>

\* Mutant of NothingFound: a worker that finds nothing leaves.
NothingFoundLeaves(w) ==
  /\ at[w] = "seek"
  /\ at' = [at EXCEPT ![w] = "gone"]
  /\ UNCHANGED <<todo, slot, holder, handle, stopping, pending, runs, home, buffered>>

\* The worker has looked at one queue after the other and found nothing, though a job
\* may have come to one when it had passed.
NothingFound(w) ==
  /\ at[w] = "seek"
  /\ at' = [at EXCEPT ![w] = "top"]
  /\ UNCHANGED <<todo, slot, holder, handle, stopping, pending, runs, home, buffered>>

\* The job's body has returned.
JobEnds(w) ==
  /\ at[w] = "busy"
  /\ todo[runs[w]] = <<>>
  /\ at' = [at EXCEPT ![w] = "top"]
  /\ runs' = [runs EXCEPT ![w] = None]
  /\ UNCHANGED <<todo, slot, holder, handle, stopping, pending, home, buffered>>

-----------------------------------------------------------------------------
Act(a) == RuntimeInit(a) \/ SpawnLookup(a) \/ SpawnPush(a) \/ ShutdownNothing(a)
          \/ ShutdownTake(a) \/ ShutdownJoin(a) \/ Send(a) \/ Recv(a)
Work(w) == CheckShutdown(w) \/ TakeJob(w) \/ NothingFound(w) \/ JobEnds(w)

Next == (\E a \in Actors : Act(a)) \/ (\E w \in Workers : Work(w))

\* Threads run: who can take the mutex, or go on with the channel, and is not
\* overtaken, does.  And a pool whose workers look again and again while a job waits
\* does not miss it for ever, as EveryJobRuns says of Scheduler.
Fairness == /\ \A a \in Actors : WF_vars(Act(a))
            /\ \A w \in Workers : WF_vars(Work(w))
            /\ \A p \in Pools : SF_vars(\E w \in Workers : PoolOf(w) = p /\ TakeJob(w))

Spec == Init /\ [][Next]_vars /\ Fairness

-----------------------------------------------------------------------------
(* Properties *)

\* Type invariant.
TypeOK ==
  /\ todo \in [Actors -> Seq(Ops)]
  /\ slot \in Pools \cup {None}
  /\ holder \in Actors \cup {None}
  /\ handle \in [Actors -> Pools \cup {None}]
  /\ stopping \subseteq Pools
  /\ pending \in [Pools -> SUBSET Jobs]
  /\ at \in [Workers -> {"none", "top", "seek", "busy", "gone"}]
  /\ runs \in [Workers -> Jobs \cup {None}]
  /\ \A w \in Workers : runs[w] # None <=> at[w] = "busy"
  /\ home \in [Jobs -> Pools \cup {None}]
  /\ buffered \in 0..Capacity

\* Worker threads belong to the scheduler in the slot or to the one that is
\* being shut down: no two schedulers ever run at once, and after a shutdown
\* has returned no job of that scheduler runs any more, whatever inits,
\* spawns and shutdowns of other threads it met.
OnePoolAlive ==
  \A p \in Created : Alive(p) # {} =>
    \/ p = slot
    \/ holder # None /\ handle[holder] = p

\* The job of a spawn that has returned is somewhere, once: waiting in a pool,
\* on a worker, or at its end.
Unspawned(j) == \E a \in Actors : \E i \in DOMAIN todo[a] : Spawns(todo, a, i, j)
Places(j) == {<<"pending", p>> : p \in {q \in Pools : j \in pending[q]}}
             \cup {<<"worker", w>> : w \in {v \in Workers : runs[v] = j}}
SpawnedJobsKept ==
  \A j \in Jobs : /\ Cardinality(Places(j)) <= 1
                  /\ ~Unspawned(j) /\ todo[j] # <<>> => Places(j) # {}

\* Every pool, from the init that creates it to the shutdown that has joined its
\* workers and beyond, is the JobPool that Scheduler is shown to implement, although
\* other threads and jobs of other pools push onto it whenever they like: a worker
\* takes one job at most after the flag is set, shutdown leaves none of the pool's
\* workers behind, a job is submitted to one pool once, and no pool is opened twice.
Stage(p, j) ==
  CASE home[j] # p -> "new"
    [] home[j] = p /\ j \in pending[p] -> "waiting"
    [] home[j] = p /\ \E w \in Workers : runs[w] = j -> "running"
    [] OTHER -> "ended"
Post(w) == CASE at[w] = "top" -> "out" [] at[w] = "seek" -> "in" [] OTHER -> at[w]
Owner(p) ==
  CASE p \notin stopping -> "up"
    [] p \in stopping /\ holder # None /\ handle[holder] = p -> "joining"
    [] OTHER -> "down"
WorkersOf(p) == {w \in Workers : PoolOf(w) = p}
Pool(p) == INSTANCE JobPool WITH
             Workers <- WorkersOf(p), Panicking <- {},
             stage <- [j \in Jobs |-> Stage(p, j)],
             crew <- [w \in WorkersOf(p) |-> Post(w)],
             hand <- [w \in WorkersOf(p) |-> runs[w]],
             owner <- Owner(p)

\* See above: \A p \in Pools : Pool(p)!PoolSpec, with the quantifiers inside.
PoolsAreJobPools ==
  /\ \A p \in Pools : Pool(p)!PoolInit
  /\ [][\A p \in Pools : [Pool(p)!PoolNext]_(Pool(p)!poolVars)]_vars

\* shutdown returns when no job of its pool, the jobs that are about to be pushed
\* onto it included, still has a spawn or a channel operation to do: workers
\* that run, seek or are about to start all leave.
JobsOf(p) ==
  pending[p] \cup {runs[w] : w \in {v \in Crew(p) : at[v] = "busy"}}
  \cup {Head(todo[a]).job : a \in {b \in Actors : handle[b] = p /\ b # holder}}
Undemanding(p) == \A j \in JobsOf(p) : todo[j] = <<>>
ShutdownReturns ==
  \A a \in Actors :
    holder = a /\ Undemanding(handle[a]) ~> holder = None

\* The same, for every job body: what the comment on draton_runtime_shutdown
\* says.
ShutdownAlwaysReturns == holder # None ~> holder = None

\* A program whose threads each only send or only receive, as often as one another,
\* comes to its end, if no job was left behind in the queue of a scheduler that was shut
\* down (or is about to be), or it comes to stop in one way only: there are fewer workers
\* than jobs, each of them waits in the channel, and the job they wait for is queued.
Uses(op) == UNION {{a} \X {i \in DOMAIN todo[a] : todo[a][i].op = op} : a \in Actors}
Balanced ==
  /\ Uses("shutdown") = {}
  /\ Cardinality(Uses("recv")) = Cardinality(Uses("send")) + buffered
  /\ \A s \in Uses("send"), r \in Uses("recv") : s[1] # r[1]
RoomForAll == slot # None /\ Cardinality(Crew(slot)) >= Cardinality(Jobs)
AllDone == \A a \in Actors : todo[a] = <<>>
NoneStranded == \A p \in stopping : JobsOf(p) = {}
WaitsInChannel(j) ==
  \/ Doing(j, "send") /\ buffered = Capacity
  \/ Doing(j, "recv") /\ buffered = 0
EveryWorkerWaits ==
  /\ slot # None /\ ~RoomForAll /\ pending[slot] # {}
  /\ \A w \in Crew(slot) : runs[w] # None /\ WaitsInChannel(runs[w])
ProgramsEnd ==
  \/ Balanced /\ slot # None /\ NoneStranded ~> AllDone
  \/ <>[]EveryWorkerWaits
=============================================================================
