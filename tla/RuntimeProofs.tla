---------------------------- MODULE RuntimeProofs ----------------------------
(***************************************************************************)
(* Proofs about Runtime, for any threads, jobs and programs, and pools of  *)
(* any size.  Pools are numbered as they are created, so a new one has no  *)
(* workers yet (PoolsInOrder); who keeps the slot's mutex is inside a      *)
(* shutdown (HolderShutsDown), so no other step takes its handle away.     *)
(* Every job is spawned by one operation (OneSpawn), and is nowhere before *)
(* (NotSpawnedNowhere), so a push cannot make a second one of it.  That    *)
(* every pool is a JobPool needs where jobs belong (Homes) and that the    *)
(* flag is set in pools that were in the slot and no longer are            *)
(* (StoppedInTurn).                                                        *)
(***************************************************************************)
EXTENDS Runtime, FiniteSetTheorems, TLAPS

PoolsInOrder == \E n \in 0..MaxPools : Created = 1..n

HolderShutsDown ==
  holder # None => /\ todo[holder] # <<>> /\ Head(todo[holder]).op = "shutdown"
                   /\ handle[holder] # None

OneSpawn ==
  \A j \in Jobs : \A a, b \in Actors : \A i \in DOMAIN todo[a], k \in DOMAIN todo[b] :
    Spawns(todo, a, i, j) /\ Spawns(todo, b, k, j) => a = b /\ i = k

Somewhere(j) == (\E p \in Pools : j \in pending[p]) \/ (\E w \in Workers : runs[w] = j)

NotSpawnedNowhere == \A j \in Jobs : Unspawned(j) => ~Somewhere(j)

Kept == \A j \in Jobs : ~Unspawned(j) /\ todo[j] # <<>> => Somewhere(j)

InOnePlace ==
  \A j \in Jobs :
    /\ \A p, q \in Pools : j \in pending[p] /\ j \in pending[q] => p = q
    /\ \A v, w \in Workers : runs[v] = j /\ runs[w] = j => v = w
    /\ \A p \in Pools, w \in Workers : ~(j \in pending[p] /\ runs[w] = j)

StoppedInTurn ==
  /\ stopping \subseteq Created
  /\ slot # None => slot \in Created \ stopping
  /\ holder # None => handle[holder] \in stopping

Homes ==
  \A j \in Jobs :
    /\ \A p \in Pools : j \in pending[p] => home[j] = p
    /\ \A w \in Workers : runs[w] = j => home[j] = PoolOf(w)
    /\ Unspawned(j) => home[j] = None

PoolInv == TypeOK /\ PoolsInOrder /\ HolderShutsDown /\ OnePoolAlive
JobInv == OneSpawn /\ NotSpawnedNowhere /\ Kept /\ InOnePlace
IInv == PoolInv /\ JobInv /\ StoppedInTurn /\ Homes

-----------------------------------------------------------------------------
(* Facts about operations, pools and initialisation *)

WorkerSteps == {"none", "top", "seek", "busy", "gone"}

\* The operation an actor is at.
LEMMA OpFacts ==
  ASSUME TypeOK, NEW a \in Actors, NEW op, Doing(a, op)
  PROVE  /\ todo[a] \in Seq(Ops) /\ todo[a] # <<>> /\ Head(todo[a]) = todo[a][1]
         /\ Head(todo[a]).op = op
         /\ op = "spawn" => Head(todo[a]).job \in Jobs
         /\ op = "init" => Head(todo[a]).threads \in 1..MaxWorkers
         /\ Return(a) => /\ todo' \in [Actors -> Seq(Ops)]
                         /\ \A b \in Actors \ {a} : todo'[b] = todo[b]
                         /\ todo'[a] = Tail(todo[a])
<1>1. todo[a] \in Seq(Ops) /\ todo[a] # <<>>
  BY DEF TypeOK, Doing
<1>2. Head(todo[a]) \in Ops /\ Tail(todo[a]) \in Seq(Ops) /\ Head(todo[a]) = todo[a][1]
  BY <1>1
<1>3. /\ op = "spawn" => Head(todo[a]).job \in Jobs
      /\ op = "init" => Head(todo[a]).threads \in 1..MaxWorkers
  BY <1>2 DEF Ops, Doing
<1>4. Return(a) => /\ todo' \in [Actors -> Seq(Ops)]
                   /\ \A b \in Actors \ {a} : todo'[b] = todo[b]
                   /\ todo'[a] = Tail(todo[a])
  BY <1>2 DEF Return, TypeOK
<1> QED
  BY <1>1, <1>2, <1>3, <1>4 DEF Doing

\* A worker belongs to a pool, and a pool is created when its worker 1 is.
LEMMA WorkerFacts ==
  /\ \A w \in Workers : PoolOf(w) \in Pools
  /\ \A p \in Pools : <<p, 1>> \in Workers /\ PoolOf(<<p, 1>>) = p
  BY BoundsAssumption DEF Workers, PoolOf, Pools

\* init_global: a pool that is there already is left alone, and a new one has
\* a number of its own.
LEMMA InitGlobalFacts ==
  ASSUME TypeOK, PoolsInOrder, NEW n \in 1..MaxWorkers, InitGlobal(n)
  PROVE  /\ slot' \in Pools /\ (slot # None => slot' = slot /\ at' = at)
         /\ at' \in [Workers -> WorkerSteps]
         /\ \A w \in Workers : at'[w] # at[w] => at[w] = "none" /\ at'[w] = "top"
         /\ \A w \in Workers : at'[w] # at[w] => PoolOf(w) = slot'
         /\ PoolsInOrder'
         /\ slot = None => slot' \notin Created /\ Created' = Created \cup {slot'}
<1>1. CASE slot # None
  BY <1>1 DEF InitGlobal, TypeOK, PoolsInOrder, Created, WorkerSteps
<1>2. CASE slot = None
  <2> DEFINE p == Cardinality(Created) + 1
  <2>1. PICK m \in 0..MaxPools : Created = 1..m
    BY DEF PoolsInOrder
  <2>2. Cardinality(Created) = m
    BY <2>1, BoundsAssumption, FS_Interval
  <2>3. p = m + 1 /\ p \in Pools /\ slot' = p
        /\ at' = [w \in Workers |-> IF PoolOf(w) = p /\ w[2] <= n THEN "top" ELSE at[w]]
    BY <1>2, <2>2 DEF InitGlobal
  <2> HIDE DEF p
  <2>4. \A w \in Workers : PoolOf(w) = p => at[w] = "none"
    BY <2>1, <2>3, BoundsAssumption, WorkerFacts DEF Created, Pools
  <2>5. at' \in [Workers -> WorkerSteps]
    BY <2>3 DEF TypeOK, WorkerSteps
  <2>6. \A w \in Workers : at'[w] # at[w] => at[w] = "none" /\ at'[w] = "top" /\ PoolOf(w) = p
    BY <2>3, <2>4
  <2>7. p \in Created'
    <3>1. at'[<<p, 1>>] = "top"
      BY <2>3, WorkerFacts
    <3> QED
      BY <2>3, <3>1, WorkerFacts DEF Created
  <2>8. Created' = Created \cup {p}
    BY <2>3, <2>6, <2>7 DEF Created
  <2>9. Created' = 1..(m + 1) /\ m + 1 \in 0..MaxPools
    BY <2>1, <2>3, <2>8, BoundsAssumption DEF Pools
  <2> QED
    BY <1>2, <2>1, <2>3, <2>5, <2>6, <2>8, <2>9 DEF PoolsInOrder
<1> QED
  BY <1>1, <1>2

-----------------------------------------------------------------------------
(* Types *)

LEMMA InitTypeOK == Init => TypeOK
<1> SUFFICES ASSUME Init PROVE TypeOK
  OBVIOUS
<1>1. todo \in [Actors -> Seq(Ops)]
  BY ProgramsAssumption DEF Init
<1>2. buffered \in 0..Capacity
  BY BoundsAssumption DEF Init
<1> QED
  BY <1>1, <1>2 DEF Init, TypeOK

\* A step that leaves the workers alone and moves the rest within its types.
LEMMA NextTypeOK == ASSUME TypeOK, PoolsInOrder, HolderShutsDown, [Next]_vars PROVE TypeOK'
<1>1. ASSUME NEW a \in Actors, RuntimeInit(a) PROVE TypeOK'
  <2>1. todo' \in [Actors -> Seq(Ops)] /\ Head(todo[a]).threads \in 1..MaxWorkers
    BY <1>1, OpFacts DEF RuntimeInit
  <2>2. /\ slot' \in Pools /\ at' \in [Workers -> WorkerSteps]
        /\ \A w \in Workers : at'[w] # at[w] => at[w] = "none" /\ at'[w] = "top"
    BY <1>1, <2>1, InitGlobalFacts DEF RuntimeInit
  <2> QED
    BY <1>1, <2>1, <2>2 DEF RuntimeInit, TypeOK, WorkerSteps
<1>2. ASSUME NEW a \in Actors, SpawnLookup(a) PROVE TypeOK'
  <2>1. /\ slot' \in Pools /\ at' \in [Workers -> WorkerSteps]
        /\ \A w \in Workers : at'[w] # at[w] => at[w] = "none" /\ at'[w] = "top"
    BY <1>2, BoundsAssumption, InitGlobalFacts DEF SpawnLookup
  <2> QED
    BY <1>2, <2>1 DEF SpawnLookup, TypeOK, WorkerSteps
<1>3. ASSUME NEW a \in Actors, SpawnPush(a) PROVE TypeOK'
  <2>1. todo' \in [Actors -> Seq(Ops)] /\ Head(todo[a]).job \in Jobs
    BY <1>3, OpFacts DEF SpawnPush
  <2>2. /\ pending' \in [Pools -> SUBSET Jobs] /\ handle' \in [Actors -> Pools \cup {None}]
        /\ home' \in [Jobs -> Pools \cup {None}]
    BY <1>3, <2>1 DEF SpawnPush, TypeOK
  <2> QED
    BY <1>3, <2>1, <2>2 DEF SpawnPush, TypeOK
<1>4. ASSUME NEW a \in Actors, ShutdownNothing(a) PROVE TypeOK'
  BY <1>4, OpFacts DEF ShutdownNothing, TypeOK, poolVars
<1>5. ASSUME NEW a \in Actors, ShutdownTake(a) PROVE TypeOK'
  BY <1>5 DEF ShutdownTake, TypeOK
<1>6. ASSUME NEW a \in Actors, ShutdownJoin(a) PROVE TypeOK'
  <2>1. Tail(todo[a]) \in Seq(Ops)
    BY <1>6, ActorsAssumption DEF ShutdownJoin, HolderShutsDown, TypeOK
  <2> QED
    BY <1>6, <2>1 DEF ShutdownJoin, Return, TypeOK, poolVars
<1>7. ASSUME NEW a \in Actors, Send(a) PROVE TypeOK'
  BY <1>7, OpFacts, BoundsAssumption DEF Send, TypeOK, poolVars
<1>8. ASSUME NEW a \in Actors, Recv(a) PROVE TypeOK'
  BY <1>8, OpFacts, BoundsAssumption DEF Recv, TypeOK, poolVars
<1>9. ASSUME NEW w \in Workers, CheckShutdown(w) PROVE TypeOK'
  BY <1>9 DEF CheckShutdown, TypeOK
<1>10. ASSUME NEW w \in Workers, TakeJob(w) PROVE TypeOK'
  <2>1. PICK j \in pending[PoolOf(w)] :
          /\ pending' = [pending EXCEPT ![PoolOf(w)] = @ \ {j}]
          /\ runs' = [runs EXCEPT ![w] = j]
    BY <1>10 DEF TakeJob
  <2>2. j \in Jobs /\ j # None
    BY <2>1, WorkerFacts, ActorsAssumption DEF TypeOK, Actors
  <2>3. pending' \in [Pools -> SUBSET Jobs] /\ runs' \in [Workers -> Jobs \cup {None}]
    BY <2>1, <2>2 DEF TypeOK
  <2>4. \A v \in Workers : runs'[v] # None <=> at'[v] = "busy"
    BY <1>10, <2>1, <2>2 DEF TakeJob, TypeOK
  <2> QED
    BY <1>10, <2>3, <2>4 DEF TakeJob, TypeOK
<1>11. ASSUME NEW w \in Workers, NothingFound(w) PROVE TypeOK'
  BY <1>11 DEF NothingFound, TypeOK
<1>12. ASSUME NEW w \in Workers, JobEnds(w) PROVE TypeOK'
  BY <1>12 DEF JobEnds, TypeOK
<1>13. CASE UNCHANGED vars
  BY <1>13 DEF vars, poolVars, TypeOK
<1> QED
  BY <1>1, <1>2, <1>3, <1>4, <1>5, <1>6, <1>7, <1>8, <1>9, <1>10, <1>11, <1>12, <1>13
  DEF Next, Act, Work

-----------------------------------------------------------------------------
(* The slot and the pools *)

PoolsOK == PoolsInOrder /\ HolderShutsDown /\ OnePoolAlive

\* A step of one actor outside the slot's mutex, or inside it without a change
\* of the slot, that moves no worker.
LEMMA NoWorkerMoves ==
  ASSUME TypeOK, PoolsOK, UNCHANGED <<slot, at, holder>>,
         holder # None => handle'[holder] = handle[holder] /\ todo'[holder] = todo[holder]
  PROVE  PoolsOK'
<1>1. Created' = Created /\ \A p \in Pools : Alive(p)' = Alive(p)
  BY DEF Created, Alive, Crew
<1>2. Created \subseteq Pools
  BY DEF Created
<1> QED
  BY <1>1, <1>2 DEF PoolsOK, PoolsInOrder, HolderShutsDown, OnePoolAlive

\* A step of a worker that is there and does not come back from the dead.
LEMMA WorkerMoves ==
  ASSUME TypeOK, PoolsOK, UNCHANGED <<slot, holder, handle, todo>>, NEW w \in Workers,
         NEW s \in WorkerSteps \ {"none"}, at[w] \notin {"none", "gone"},
         at' = [at EXCEPT ![w] = s]
  PROVE  PoolsOK'
<1>1. Created' = Created /\ \A p \in Pools : Alive(p)' \subseteq Alive(p)
  BY DEF Created, Alive, Crew, TypeOK
<1>2. Created \subseteq Pools
  BY DEF Created
<1> QED
  BY <1>1, <1>2 DEF PoolsOK, PoolsInOrder, HolderShutsDown, OnePoolAlive

\* A step that looks the slot up, and creates a pool if there is none, while
\* nobody keeps the mutex.
LEMMA LookupKeepsPools ==
  ASSUME TypeOK, PoolsOK, holder = None, holder' = None, NEW n \in 1..MaxWorkers, InitGlobal(n)
  PROVE  PoolsOK'
<1>1. /\ slot' \in Pools /\ (slot # None => slot' = slot /\ at' = at) /\ PoolsInOrder'
      /\ \A w \in Workers : at'[w] # at[w] => PoolOf(w) = slot'
  BY InitGlobalFacts DEF PoolsOK
<1>2. ASSUME NEW p \in Created', Alive(p)' # {} PROVE p = slot'
  <2>1. PICK w \in Workers : PoolOf(w) = p /\ at'[w] \notin {"none", "gone"}
    BY <1>2 DEF Alive, Crew
  <2>2. CASE at'[w] # at[w]
    BY <1>1, <2>1, <2>2
  <2>3. CASE at'[w] = at[w]
    <3>1. w \in Alive(p) /\ p \in Created
      BY <2>1, <2>3, WorkerFacts DEF Alive, Crew, Created
    <3>2. p = slot
      BY <3>1 DEF PoolsOK, OnePoolAlive
    <3> QED
      BY <1>1, <3>1, <3>2, ActorsAssumption DEF Created
  <2> QED
    BY <2>2, <2>3
<1> QED
  BY <1>1, <1>2 DEF PoolsOK, HolderShutsDown, OnePoolAlive

LEMMA InitPoolsOK == Init => PoolsOK
<1> SUFFICES ASSUME Init PROVE PoolsOK
  OBVIOUS
<1>1. Created = {}
  BY DEF Init, Created
<1>2. Created = 1..0 /\ 0 \in 0..MaxPools
  BY <1>1, BoundsAssumption
<1> QED
  BY <1>1, <1>2 DEF Init, PoolsOK, PoolsInOrder, HolderShutsDown, OnePoolAlive

LEMMA NextPoolsOK == ASSUME TypeOK, PoolsOK, [Next]_vars PROVE PoolsOK'
<1>1. ASSUME NEW a \in Actors, RuntimeInit(a) PROVE PoolsOK'
  BY <1>1, OpFacts, LookupKeepsPools DEF RuntimeInit
<1>2. ASSUME NEW a \in Actors, SpawnLookup(a) PROVE PoolsOK'
  BY <1>2, BoundsAssumption, LookupKeepsPools DEF SpawnLookup
<1>3. ASSUME NEW a \in Actors, SpawnPush(a) PROVE PoolsOK'
  <2>1. holder # None => holder # a /\ holder \in Actors
    BY <1>3 DEF SpawnPush, Doing, PoolsOK, HolderShutsDown, TypeOK
  <2> QED
    BY <1>3, <2>1, OpFacts, NoWorkerMoves DEF SpawnPush, TypeOK
<1>4. ASSUME NEW a \in Actors, ShutdownNothing(a) PROVE PoolsOK'
  BY <1>4, NoWorkerMoves DEF ShutdownNothing, poolVars
<1>5. ASSUME NEW a \in Actors, ShutdownTake(a) PROVE PoolsOK'
  <2>1. Created' = Created /\ \A p \in Created : Alive(p)' = Alive(p)
    BY <1>5 DEF ShutdownTake, Created, Alive, Crew
  <2>2. /\ holder' = a /\ a # None /\ handle'[a] = slot /\ slot # None
        /\ todo'[a] # <<>> /\ Head(todo'[a]).op = "shutdown"
    BY <1>5, ActorsAssumption DEF ShutdownTake, Doing, TypeOK
  <2>3. \A p \in Created : Alive(p) # {} => p = slot
    BY <1>5 DEF ShutdownTake, PoolsOK, OnePoolAlive
  <2> QED
    BY <2>1, <2>2, <2>3 DEF PoolsOK, PoolsInOrder, HolderShutsDown, OnePoolAlive
<1>6. ASSUME NEW a \in Actors, ShutdownJoin(a) PROVE PoolsOK'
  <2>1. Created' = Created /\ \A p \in Created : Alive(p)' = Alive(p)
    BY <1>6 DEF ShutdownJoin, poolVars, Created, Alive, Crew
  <2>2. holder = a /\ Alive(handle[a]) = {} /\ holder' = None /\ slot' = slot
    BY <1>6 DEF ShutdownJoin
  <2> QED
    BY <2>1, <2>2 DEF PoolsOK, PoolsInOrder, HolderShutsDown, OnePoolAlive
<1>7. ASSUME NEW a \in Actors, Send(a) \/ Recv(a) PROVE PoolsOK'
  <2>1. holder # None => holder # a /\ holder \in Actors
    BY <1>7 DEF Send, Recv, Doing, PoolsOK, HolderShutsDown, TypeOK
  <2> QED
    BY <1>7, <2>1, OpFacts, NoWorkerMoves DEF Send, Recv, poolVars
<1>8. ASSUME NEW w \in Workers, CheckShutdown(w) PROVE PoolsOK'
  BY <1>8, WorkerMoves DEF CheckShutdown, WorkerSteps
<1>9. ASSUME NEW w \in Workers, TakeJob(w) PROVE PoolsOK'
  BY <1>9, WorkerMoves DEF TakeJob, WorkerSteps
<1>10. ASSUME NEW w \in Workers, NothingFound(w) PROVE PoolsOK'
  BY <1>10, WorkerMoves DEF NothingFound, WorkerSteps
<1>11. ASSUME NEW w \in Workers, JobEnds(w) PROVE PoolsOK'
  BY <1>11, WorkerMoves DEF JobEnds, WorkerSteps
<1>12. CASE UNCHANGED vars
  BY <1>12, NoWorkerMoves DEF vars, poolVars
<1> QED
  BY <1>1, <1>2, <1>3, <1>4, <1>5, <1>6, <1>7, <1>8, <1>9, <1>10, <1>11, <1>12
  DEF Next, Act, Work

-----------------------------------------------------------------------------
(* The jobs *)

\* A sequence without its first element.
LEMMA TailFacts ==
  ASSUME NEW S, NEW s \in Seq(S), s # <<>>
  PROVE  /\ 1 \in DOMAIN s
         /\ \A i \in DOMAIN Tail(s) : i + 1 \in DOMAIN s /\ i + 1 # 1 /\ Tail(s)[i] = s[i + 1]
         /\ \A i \in DOMAIN s \ {1} : i - 1 \in DOMAIN Tail(s) /\ Tail(s)[i - 1] = s[i]
  OBVIOUS

\* Where the operation at a place of todo' is in todo.
Before(a, b, i) == IF b = a THEN i + 1 ELSE i

\* The spawns that are left when an actor has finished its first operation.
LEMMA SpawnsLeft ==
  ASSUME TypeOK, NEW a \in Actors, todo[a] # <<>>, Return(a), NEW b \in Actors, NEW j \in Jobs
  PROVE  /\ \A i \in DOMAIN todo'[b] :
              /\ Before(a, b, i) \in DOMAIN todo[b] /\ <<b, Before(a, b, i)>> # <<a, 1>>
              /\ Spawns(todo', b, i, j) => Spawns(todo, b, Before(a, b, i), j)
         /\ \A k \in DOMAIN todo[b] :
              Spawns(todo, b, k, j) /\ <<b, k>> # <<a, 1>> => \E i \in DOMAIN todo'[b] : Spawns(todo', b, i, j)
<1>1. todo[a] \in Seq(Ops) /\ todo'[a] = Tail(todo[a]) /\ (b # a => todo'[b] = todo[b])
  BY DEF TypeOK, Return
<1>2. CASE b = a
  <2>1. \A i \in DOMAIN todo'[a] :
          /\ i + 1 \in DOMAIN todo[a] /\ i + 1 # 1
          /\ Spawns(todo', a, i, j) => Spawns(todo, a, i + 1, j)
    BY <1>1, TailFacts DEF Spawns
  <2>2. \A k \in DOMAIN todo[a] \ {1} :
          /\ k - 1 \in DOMAIN todo'[a]
          /\ Spawns(todo, a, k, j) => Spawns(todo', a, k - 1, j)
    BY <1>1, TailFacts DEF Spawns
  <2> QED
    BY <1>2, <2>1, <2>2 DEF Before
<1>3. CASE b # a
  BY <1>1, <1>3 DEF Spawns, Before
<1> QED
  BY <1>2, <1>3

\* No spawn becomes two.
LEMMA OneSpawnKept ==
  ASSUME TypeOK, OneSpawn, NEW a \in Actors, todo[a] # <<>>, Return(a)
  PROVE  OneSpawn'
<1> SUFFICES ASSUME NEW j \in Jobs, NEW b \in Actors, NEW c \in Actors,
                    NEW i \in DOMAIN todo'[b], NEW k \in DOMAIN todo'[c],
                    Spawns(todo', b, i, j), Spawns(todo', c, k, j)
             PROVE  b = c /\ i = k
  BY DEF OneSpawn
<1>1. /\ Before(a, b, i) \in DOMAIN todo[b] /\ Spawns(todo, b, Before(a, b, i), j)
      /\ Before(a, c, k) \in DOMAIN todo[c] /\ Spawns(todo, c, Before(a, c, k), j)
  BY SpawnsLeft
<1>2. b = c /\ Before(a, b, i) = Before(a, c, k)
  BY <1>1 DEF OneSpawn
<1>3. i \in Nat /\ k \in Nat
  BY DEF TypeOK, Return
<1> QED
  BY <1>2, <1>3 DEF Before

\* An operation that is not a spawn leaves every job where it is.
LEMMA OtherOpKeeps ==
  ASSUME TypeOK, JobInv, NEW a \in Actors, todo[a] # <<>>, Head(todo[a]).op # "spawn",
         Return(a), UNCHANGED <<pending, runs>>
  PROVE  JobInv'
<1>1. todo[a] \in Seq(Ops) /\ Head(todo[a]) = todo[a][1]
  BY DEF TypeOK
<1>2. \A j \in Jobs : Unspawned(j)' <=> Unspawned(j)
  BY <1>1, SpawnsLeft DEF Unspawned, Spawns
<1>3. \A j \in Jobs : todo'[j] # <<>> => todo[j] # <<>>
  BY DEF TypeOK, Return, Actors
<1>4. \A j \in Jobs : Somewhere(j)' <=> Somewhere(j)
  BY DEF Somewhere
<1> QED
  BY <1>2, <1>3, <1>4, OneSpawnKept DEF JobInv, NotSpawnedNowhere, Kept, InOnePlace

\* So does a step that moves neither operations nor jobs.
LEMMA NoJobMoves ==
  ASSUME TypeOK, JobInv, UNCHANGED <<todo, pending, runs>>
  PROVE  JobInv'
  BY DEF JobInv, OneSpawn, NotSpawnedNowhere, Kept, InOnePlace, Somewhere, Unspawned

LEMMA InitJobInv == Init => JobInv
<1> SUFFICES ASSUME Init PROVE JobInv
  OBVIOUS
<1>1. \A j \in Jobs : ~Somewhere(j) /\ j # None
  BY ActorsAssumption DEF Init, Somewhere, Actors
<1>2. OneSpawn
  BY SpawnsAssumption DEF Init, OneSpawn
<1>3. \A j \in Jobs : todo[j] # <<>> => Unspawned(j)
  BY SpawnsAssumption DEF Init, Unspawned
<1> QED
  BY <1>1, <1>2, <1>3 DEF Init, JobInv, NotSpawnedNowhere, Kept, InOnePlace

\* A push is of a job that was nowhere, and the last that is spawned of it.
LEMMA PushedJob ==
  ASSUME TypeOK, JobInv, NEW a \in Actors, SpawnPush(a), NEW j \in Jobs, j = Head(todo[a]).job
  PROVE  Unspawned(j) /\ ~Somewhere(j) /\ ~Unspawned(j)'
<1>1. /\ todo[a] \in Seq(Ops) /\ todo[a] # <<>> /\ 1 \in DOMAIN todo[a]
      /\ Spawns(todo, a, 1, j) /\ Return(a)
  BY OpFacts, TailFacts DEF SpawnPush, Spawns
<1>2. Unspawned(j) /\ ~Somewhere(j)
  BY <1>1 DEF Unspawned, JobInv, NotSpawnedNowhere
<1>3. ~Unspawned(j)'
  <2> SUFFICES ASSUME NEW b \in Actors, NEW i \in DOMAIN todo'[b], Spawns(todo', b, i, j)
               PROVE  FALSE
    BY DEF Unspawned
  <2>1. /\ Before(a, b, i) \in DOMAIN todo[b] /\ <<b, Before(a, b, i)>> # <<a, 1>>
        /\ Spawns(todo, b, Before(a, b, i), j)
    BY <1>1, SpawnsLeft
  <2>2. b = a /\ Before(a, b, i) = 1
    BY <1>1, <2>1 DEF JobInv, OneSpawn
  <2> QED
    BY <2>1, <2>2
<1> QED
  BY <1>2, <1>3

LEMMA PushKeepsJobs ==
  ASSUME TypeOK, JobInv, NEW a \in Actors, SpawnPush(a)
  PROVE  JobInv'
<1>0. PICK j \in Jobs : j = Head(todo[a]).job
  BY OpFacts DEF SpawnPush
<1>1. /\ todo[a] \in Seq(Ops) /\ todo[a] # <<>> /\ 1 \in DOMAIN todo[a]
      /\ Spawns(todo, a, 1, j) /\ Return(a) /\ runs' = runs
  BY <1>0, OpFacts, TailFacts DEF SpawnPush, Spawns
<1>2. /\ handle[a] \in Pools
      /\ pending' = [pending EXCEPT ![handle[a]] = @ \cup {j}]
  BY <1>0 DEF SpawnPush, TypeOK
<1>3. Unspawned(j) /\ ~Somewhere(j) /\ ~Unspawned(j)'
  BY <1>0, PushedJob
<1>5. Somewhere(j)'
  BY <1>2 DEF Somewhere, TypeOK
<1>6. ASSUME NEW k \in Jobs \ {j}
      PROVE  /\ Unspawned(k)' <=> Unspawned(k)
             /\ Somewhere(k)' <=> Somewhere(k)
             /\ \A p \in Pools : k \in pending'[p] <=> k \in pending[p]
  <2>1. ~Spawns(todo, a, 1, k)
    BY <1>1, <1>6 DEF Spawns
  <2>2. Unspawned(k)' <=> Unspawned(k)
    BY <1>1, <2>1, SpawnsLeft DEF Unspawned
  <2>3. \A p \in Pools : k \in pending'[p] <=> k \in pending[p]
    BY <1>2, <1>6 DEF TypeOK
  <2> QED
    BY <1>1, <2>2, <2>3 DEF Somewhere
<1>7. \A k \in Jobs : todo'[k] # <<>> => todo[k] # <<>>
  BY <1>1 DEF TypeOK, Return, Actors
<1>8. \A p \in Pools : j \in pending'[p] => p = handle[a]
  BY <1>2, <1>3 DEF TypeOK, Somewhere
<1>9. InOnePlace'
  <2> SUFFICES ASSUME NEW k \in Jobs
               PROVE  /\ \A p, q \in Pools : k \in pending'[p] /\ k \in pending'[q] => p = q
                      /\ \A v, w \in Workers : runs'[v] = k /\ runs'[w] = k => v = w
                      /\ \A p \in Pools, w \in Workers : ~(k \in pending'[p] /\ runs'[w] = k)
    BY DEF InOnePlace
  <2>1. CASE k = j
    BY <1>1, <1>3, <1>8, <2>1 DEF Somewhere
  <2>2. CASE k # j
    BY <1>1, <1>6, <2>2 DEF JobInv, InOnePlace
  <2> QED
    BY <2>1, <2>2
<1> QED
  BY <1>1, <1>3, <1>5, <1>6, <1>7, <1>9, OneSpawnKept DEF JobInv, NotSpawnedNowhere, Kept

LEMMA TakeKeepsJobs ==
  ASSUME TypeOK, JobInv, NEW w \in Workers, TakeJob(w)
  PROVE  JobInv'
<1>1. PICK j \in pending[PoolOf(w)] :
        /\ pending' = [pending EXCEPT ![PoolOf(w)] = @ \ {j}]
        /\ runs' = [runs EXCEPT ![w] = j]
  BY DEF TakeJob
<1>2. PoolOf(w) \in Pools /\ j \in Jobs /\ todo' = todo
  BY WorkerFacts DEF TypeOK, TakeJob
<1>3. runs[w] = None
  BY DEF TakeJob, TypeOK
<1>4. /\ \A p \in Pools : j \notin pending'[p]
      /\ \A v \in Workers : runs'[v] = j <=> v = w
  BY <1>1, <1>2 DEF JobInv, InOnePlace, TypeOK
<1>5. ASSUME NEW k \in Jobs \ {j}
      PROVE  /\ \A p \in Pools : k \in pending'[p] <=> k \in pending[p]
             /\ \A v \in Workers : runs'[v] = k <=> runs[v] = k
  BY <1>1, <1>2, <1>3, ActorsAssumption DEF TypeOK, Actors
<1>6. \A k \in Jobs : Somewhere(k)' <=> Somewhere(k)
  BY <1>1, <1>2, <1>4, <1>5 DEF Somewhere
<1>7. InOnePlace'
  BY <1>4, <1>5 DEF JobInv, InOnePlace
<1> QED
  BY <1>2, <1>6, <1>7 DEF JobInv, OneSpawn, NotSpawnedNowhere, Kept, Unspawned

LEMMA EndKeepsJobs ==
  ASSUME TypeOK, JobInv, NEW w \in Workers, JobEnds(w)
  PROVE  JobInv'
<1>1. todo' = todo /\ pending' = pending /\ runs' = [runs EXCEPT ![w] = None]
  BY DEF JobEnds
<1>2. \A j \in Jobs : todo[j] # <<>> => runs[w] # j
  BY DEF JobEnds
<1>3. \A j \in Jobs, v \in Workers : runs'[v] = j <=> runs[v] = j /\ v # w
  BY <1>1, ActorsAssumption DEF TypeOK, Actors
<1>4. \A j \in Jobs : /\ Somewhere(j)' => Somewhere(j)
                      /\ todo[j] # <<>> /\ Somewhere(j) => Somewhere(j)'
  BY <1>1, <1>2, <1>3 DEF Somewhere
<1>5. InOnePlace'
  BY <1>1, <1>3 DEF JobInv, InOnePlace
<1> QED
  BY <1>1, <1>4, <1>5 DEF JobInv, OneSpawn, NotSpawnedNowhere, Kept, Unspawned

LEMMA NextJobInv == ASSUME TypeOK, PoolsOK, JobInv, [Next]_vars PROVE JobInv'
<1>1. ASSUME NEW a \in Actors, RuntimeInit(a) PROVE JobInv'
  BY <1>1, OpFacts, OtherOpKeeps DEF RuntimeInit
<1>2. ASSUME NEW a \in Actors, SpawnLookup(a) PROVE JobInv'
  BY <1>2, NoJobMoves DEF SpawnLookup
<1>3. ASSUME NEW a \in Actors, SpawnPush(a) PROVE JobInv'
  BY <1>3, PushKeepsJobs
<1>4. ASSUME NEW a \in Actors, ShutdownNothing(a) PROVE JobInv'
  BY <1>4, OpFacts, OtherOpKeeps DEF ShutdownNothing, poolVars
<1>5. ASSUME NEW a \in Actors, ShutdownTake(a) PROVE JobInv'
  BY <1>5, NoJobMoves DEF ShutdownTake
<1>6. ASSUME NEW a \in Actors, ShutdownJoin(a) PROVE JobInv'
  BY <1>6, OtherOpKeeps, ActorsAssumption DEF ShutdownJoin, poolVars, PoolsOK, HolderShutsDown
<1>7. ASSUME NEW a \in Actors, Send(a) PROVE JobInv'
  BY <1>7, OpFacts, OtherOpKeeps DEF Send, poolVars
<1>8. ASSUME NEW a \in Actors, Recv(a) PROVE JobInv'
  BY <1>8, OpFacts, OtherOpKeeps DEF Recv, poolVars
<1>9. ASSUME NEW w \in Workers, CheckShutdown(w) PROVE JobInv'
  BY <1>9, NoJobMoves DEF CheckShutdown
<1>10. ASSUME NEW w \in Workers, TakeJob(w) PROVE JobInv'
  BY <1>10, TakeKeepsJobs
<1>11. ASSUME NEW w \in Workers, NothingFound(w) PROVE JobInv'
  BY <1>11, NoJobMoves DEF NothingFound
<1>12. ASSUME NEW w \in Workers, JobEnds(w) PROVE JobInv'
  BY <1>12, EndKeepsJobs
<1>13. CASE UNCHANGED vars
  BY <1>13, NoJobMoves DEF vars, poolVars
<1> QED
  BY <1>1, <1>2, <1>3, <1>4, <1>5, <1>6, <1>7, <1>8, <1>9, <1>10, <1>11, <1>12, <1>13
  DEF Next, Act, Work

-----------------------------------------------------------------------------
(* Which pools were told to stop, and where jobs belong *)

LEMMA InitStopped == Init => StoppedInTurn
  BY DEF Init, StoppedInTurn

\* A step that leaves the slot and its mutex alone, and no worker of the made and
\* unmade.
LEMMA SlotLeftAlone ==
  ASSUME StoppedInTurn, UNCHANGED <<slot, holder, stopping>>, Created' = Created,
         holder # None => handle'[holder] = handle[holder]
  PROVE  StoppedInTurn'
  BY DEF StoppedInTurn

LEMMA LookupStopsNone ==
  ASSUME TypeOK, PoolsOK, StoppedInTurn, UNCHANGED stopping, holder = None, holder' = None,
         NEW n \in 1..MaxWorkers, InitGlobal(n)
  PROVE  StoppedInTurn'
<1>1. /\ slot # None => slot' = slot /\ at' = at
      /\ slot = None => slot' \notin Created /\ Created' = Created \cup {slot'}
  BY InitGlobalFacts DEF PoolsOK
<1>2. CASE slot = None
  BY <1>1, <1>2 DEF StoppedInTurn
<1>3. CASE slot # None
  BY <1>1, <1>3 DEF StoppedInTurn, Created
<1> QED
  BY <1>2, <1>3

LEMMA NextStopped == ASSUME TypeOK, PoolsOK, StoppedInTurn, [Next]_vars PROVE StoppedInTurn'
<1>1. ASSUME NEW a \in Actors, RuntimeInit(a) PROVE StoppedInTurn'
  BY <1>1, OpFacts, LookupStopsNone DEF RuntimeInit
<1>2. ASSUME NEW a \in Actors, SpawnLookup(a) PROVE StoppedInTurn'
  BY <1>2, BoundsAssumption, LookupStopsNone DEF SpawnLookup
<1>3. ASSUME NEW a \in Actors, SpawnPush(a) PROVE StoppedInTurn'
  <2>1. holder # None => handle'[holder] = handle[holder]
    BY <1>3 DEF SpawnPush, Doing, PoolsOK, HolderShutsDown, TypeOK
  <2> QED
    BY <1>3, <2>1, SlotLeftAlone DEF SpawnPush, Created
<1>4. ASSUME NEW a \in Actors, ShutdownTake(a) PROVE StoppedInTurn'
  BY <1>4, ActorsAssumption DEF ShutdownTake, StoppedInTurn, Created, TypeOK
<1>5. ASSUME NEW a \in Actors, ShutdownJoin(a) PROVE StoppedInTurn'
  BY <1>5 DEF ShutdownJoin, StoppedInTurn, Created, poolVars
<1>6. ASSUME NEW a \in Actors, ShutdownNothing(a) \/ Send(a) \/ Recv(a) PROVE StoppedInTurn'
  BY <1>6, SlotLeftAlone DEF ShutdownNothing, Send, Recv, Created, poolVars
<1>7. ASSUME NEW w \in Workers, Work(w) PROVE StoppedInTurn'
  <2>1. Created' = Created
    BY <1>7 DEF Work, CheckShutdown, TakeJob, NothingFound, JobEnds, Created, TypeOK
  <2> QED
    BY <1>7, <2>1, SlotLeftAlone DEF Work, CheckShutdown, TakeJob, NothingFound, JobEnds
<1>8. CASE UNCHANGED vars
  BY <1>8, SlotLeftAlone DEF vars, Created
<1> QED
  BY <1>1, <1>2, <1>3, <1>4, <1>5, <1>6, <1>7, <1>8 DEF Next, Act

LEMMA InitHomes == Init => Homes
<1> SUFFICES ASSUME Init PROVE Homes
  OBVIOUS
<1> QED
  BY ActorsAssumption DEF Init, Homes, Actors

\* A step that pushes no job.
LEMMA NoPushKeepsHomes ==
  ASSUME Homes, home' = home,
         \A j \in Jobs : Unspawned(j)' => Unspawned(j),
         \A j \in Jobs, p \in Pools : j \in pending'[p] => j \in pending[p],
         \A j \in Jobs, w \in Workers : runs'[w] = j => runs[w] = j \/ j \in pending[PoolOf(w)]
  PROVE  Homes'
<1>1. \A w \in Workers : PoolOf(w) \in Pools
  BY WorkerFacts
<1> QED
  BY <1>1 DEF Homes

\* The spawns that an operation leaves behind were there before it.
LEMMA FewerUnspawned ==
  ASSUME TypeOK, NEW a \in Actors, todo[a] # <<>>, Return(a), NEW j \in Jobs, Unspawned(j)'
  PROVE  Unspawned(j)
  BY SpawnsLeft DEF Unspawned

LEMMA NextHomes == ASSUME TypeOK, PoolsOK, JobInv, Homes, [Next]_vars PROVE Homes'
<1>1. ASSUME NEW a \in Actors, RuntimeInit(a) \/ ShutdownNothing(a) \/ Send(a) \/ Recv(a)
      PROVE  Homes'
  <2>1. /\ todo[a] # <<>> /\ Return(a) /\ UNCHANGED <<pending, runs, home>>
    BY <1>1 DEF RuntimeInit, ShutdownNothing, Send, Recv, Doing, poolVars
  <2> QED
    BY <2>1, FewerUnspawned, NoPushKeepsHomes
<1>2. ASSUME NEW a \in Actors, SpawnLookup(a) \/ ShutdownTake(a) PROVE Homes'
  <2>1. UNCHANGED <<todo, pending, runs, home>>
    BY <1>2 DEF SpawnLookup, ShutdownTake
  <2>2. \A j \in Jobs : Unspawned(j)' => Unspawned(j)
    BY <2>1 DEF Unspawned
  <2> QED
    BY <2>1, <2>2, NoPushKeepsHomes
<1>3. ASSUME NEW a \in Actors, ShutdownJoin(a) PROVE Homes'
  <2>1. todo[a] # <<>> /\ Return(a) /\ UNCHANGED <<pending, runs, home>>
    BY <1>3, ActorsAssumption DEF ShutdownJoin, PoolsOK, HolderShutsDown, poolVars
  <2> QED
    BY <2>1, FewerUnspawned, NoPushKeepsHomes
<1>4. ASSUME NEW a \in Actors, SpawnPush(a) PROVE Homes'
  <2>1. PICK j \in Jobs : j = Head(todo[a]).job
    BY <1>4, OpFacts DEF SpawnPush
  <2>2. /\ handle[a] \in Pools /\ runs' = runs /\ todo[a] # <<>> /\ Return(a)
        /\ pending' = [pending EXCEPT ![handle[a]] = @ \cup {j}]
        /\ home' = [home EXCEPT ![j] = handle[a]]
    BY <1>4, <2>1 DEF SpawnPush, TypeOK, Doing
  <2>3. ~Unspawned(j)' /\ ~Somewhere(j)
    BY <1>4, <2>1, PushedJob
  <2>4. ASSUME NEW k \in Jobs
        PROVE  /\ \A p \in Pools : k \in pending'[p] => home'[k] = p
               /\ \A w \in Workers : runs'[w] = k => home'[k] = PoolOf(w)
               /\ Unspawned(k)' => home'[k] = None
    <3>1. CASE k = j
      BY <2>2, <2>3, <3>1 DEF Somewhere, TypeOK
    <3>2. CASE k # j
      <4>1. home'[k] = home[k] /\ \A p \in Pools : k \in pending'[p] => k \in pending[p]
        BY <2>2, <3>2 DEF TypeOK
      <4> QED
        BY <2>2, <4>1, FewerUnspawned DEF Homes
    <3> QED
      BY <3>1, <3>2
  <2> QED
    BY <2>4 DEF Homes
<1>5. ASSUME NEW w \in Workers, Work(w) PROVE Homes'
  <2>1. home' = home /\ \A j \in Jobs : Unspawned(j)' => Unspawned(j)
    BY <1>5 DEF Work, CheckShutdown, TakeJob, NothingFound, JobEnds, Unspawned
  <2>2. /\ \A j \in Jobs, p \in Pools : j \in pending'[p] => j \in pending[p]
        /\ \A j \in Jobs, v \in Workers :
             runs'[v] = j => runs[v] = j \/ j \in pending[PoolOf(v)]
    <3>1. CASE TakeJob(w)
      BY <3>1, WorkerFacts DEF TakeJob, TypeOK
    <3>2. CASE JobEnds(w)
      BY <3>2, ActorsAssumption DEF JobEnds, TypeOK, Actors
    <3>3. CASE CheckShutdown(w) \/ NothingFound(w)
      BY <3>3 DEF CheckShutdown, NothingFound
    <3> QED
      BY <1>5, <3>1, <3>2, <3>3 DEF Work
  <2> QED
    BY <2>1, <2>2, NoPushKeepsHomes
<1>6. CASE UNCHANGED vars
  <2>1. UNCHANGED <<todo, pending, runs, home>>
    BY <1>6 DEF vars
  <2>2. \A j \in Jobs : Unspawned(j)' => Unspawned(j)
    BY <2>1 DEF Unspawned
  <2> QED
    BY <2>1, <2>2, NoPushKeepsHomes
<1> QED
  BY <1>1, <1>2, <1>3, <1>4, <1>5, <1>6 DEF Next, Act

-----------------------------------------------------------------------------
(* The theorems *)

LEMMA Invariance == Spec => []IInv
<1>1. Init => IInv
  BY InitTypeOK, InitPoolsOK, InitJobInv, InitStopped, InitHomes DEF IInv, PoolInv, PoolsOK
<1>2. IInv /\ [Next]_vars => IInv'
  BY NextTypeOK, NextPoolsOK, NextJobInv, NextStopped, NextHomes DEF IInv, PoolInv, PoolsOK
<1> QED
  BY <1>1, <1>2, PTL DEF Spec

\* Types; and a worker has a job exactly while it is busy.
THEOREM TypeCorrect == Spec => []TypeOK
<1>1. IInv => TypeOK
  BY DEF IInv, PoolInv
<1> QED
  BY <1>1, Invariance, PTL

\* Whatever inits, spawns and shutdowns meet, the worker threads that live
\* belong to the scheduler in the slot or to the one whose shutdown has the
\* slot's mutex (shutdown_global joins before it gives the mutex up).
THEOREM OnePoolAliveCorrect == Spec => []OnePoolAlive
<1>1. IInv => OnePoolAlive
  BY DEF IInv, PoolInv
<1> QED
  BY <1>1, Invariance, PTL

\* A set in which any two elements are equal has at most one.
LEMMA AtMostOne ==
  ASSUME NEW S, \A x, y \in S : x = y
  PROVE  Cardinality(S) <= 1
<1>1. CASE S = {}
  BY <1>1, FS_EmptySet
<1>2. ASSUME NEW x \in S PROVE Cardinality(S) <= 1
  <2>1. S = {x}
    OBVIOUS
  <2> QED
    BY <2>1, FS_Singleton
<1> QED
  BY <1>1, <1>2

\* A job whose spawn has returned is in one queue, or on one worker, or at its
\* end, also when its spawn pushed it onto a scheduler that was shut down in
\* the meantime (spawn_global).
THEOREM SpawnedJobsKeptCorrect == Spec => []SpawnedJobsKept
<1>1. IInv => SpawnedJobsKept
  <2> SUFFICES ASSUME IInv, NEW j \in Jobs
               PROVE  /\ Cardinality(Places(j)) <= 1
                      /\ ~Unspawned(j) /\ todo[j] # <<>> => Places(j) # {}
    BY DEF SpawnedJobsKept
  <2>1. \A x, y \in Places(j) : x = y
    BY DEF IInv, JobInv, InOnePlace, Places
  <2>2. Somewhere(j) => Places(j) # {}
    BY DEF Somewhere, Places
  <2> QED
    BY <2>1, <2>2, AtMostOne DEF IInv, JobInv, Kept
<1> QED
  BY <1>1, Invariance, PTL

-----------------------------------------------------------------------------
(* Every pool of the runtime is a JobPool *)

\* The refinement mapping of a pool, by what it depends on.
LEMMA SameStage ==
  ASSUME NEW p \in Pools, NEW j \in Jobs, home'[j] = home[j],
         home[j] = p => /\ j \in pending'[p] <=> j \in pending[p]
                        /\ (\E w \in Workers : runs'[w] = j) <=> \E w \in Workers : runs[w] = j
  PROVE  Stage(p, j)' = Stage(p, j)
  BY DEF Stage
LEMMA SamePost ==
  ASSUME NEW w \in Workers, at'[w] = at[w]
  PROVE  Post(w)' = Post(w)
  BY DEF Post
LEMMA PostTells ==
  ASSUME TypeOK, NEW w \in Workers
  PROVE  /\ at[w] = "none" <=> Post(w) = "none"
         /\ at[w] = "top" <=> Post(w) = "out"
         /\ at[w] = "seek" <=> Post(w) = "in"
         /\ at[w] = "busy" <=> Post(w) = "busy"
         /\ at[w] = "gone" <=> Post(w) = "gone"
  BY DEF Post, TypeOK
LEMMA OwnWorkers == \A p \in Pools : \A w \in Workers : w \in WorkersOf(p) <=> PoolOf(w) = p
  BY DEF WorkersOf

\* Where nothing of a pool has changed, it has not.
LEMMA PoolAlone ==
  ASSUME TypeOK, NEW p \in Pools, Owner(p)' = Owner(p),
         \A j \in Jobs : Stage(p, j)' = Stage(p, j),
         \A w \in WorkersOf(p) : at'[w] = at[w] /\ runs'[w] = runs[w]
  PROVE  UNCHANGED Pool(p)!poolVars
<1>1. \A w \in WorkersOf(p) : Post(w)' = Post(w)
  BY SamePost DEF WorkersOf
<1> QED
  BY <1>1 DEF Pool!poolVars, WorkersOf

\* A step that moves no job.
LEMMA JobsAlone ==
  ASSUME UNCHANGED <<pending, runs, home>>, NEW p \in Pools
  PROVE  \A j \in Jobs : Stage(p, j)' = Stage(p, j)
  BY DEF Stage

\* The step of one worker: the pools of the others do not see it.
LEMMA OneWorker ==
  ASSUME TypeOK, NEW p \in Pools, NEW w \in Workers, PoolOf(w) = p,
         UNCHANGED <<stopping, holder, handle>>, NEW post,
         at' = [at EXCEPT ![w] = at'[w]], Post(w)' = post
  PROVE  /\ Owner(p)' = Owner(p)
         /\ w \in WorkersOf(p)
         /\ [v \in WorkersOf(p) |-> Post(v)]' = [[v \in WorkersOf(p) |-> Post(v)] EXCEPT ![w] = post]
<1>1. w \in WorkersOf(p) /\ WorkersOf(p)' = WorkersOf(p) /\ WorkersOf(p) \subseteq Workers
  BY DEF WorkersOf
<1>2. \A v \in WorkersOf(p) \ {w} : Post(v)' = Post(v)
  BY <1>1, SamePost DEF TypeOK
<1> QED
  BY <1>1, <1>2 DEF Owner

PoolStep(p) == [Pool(p)!PoolNext]_(Pool(p)!poolVars)

\* init and the lookup of a spawn open the pool they create.
LEMMA LookupOpens ==
  ASSUME TypeOK, PoolsOK, StoppedInTurn, UNCHANGED <<stopping, pending, runs, home>>,
         holder = None, holder' = None, NEW n \in 1..MaxWorkers, InitGlobal(n), NEW p \in Pools
  PROVE  PoolStep(p)
<1>1. /\ slot # None => slot' = slot /\ at' = at
      /\ \A w \in Workers : at'[w] # at[w] => at[w] = "none" /\ at'[w] = "top"
      /\ \A w \in Workers : at'[w] # at[w] => PoolOf(w) = slot'
      /\ slot = None => slot' \notin Created
  BY InitGlobalFacts DEF PoolsOK
<1>2. Owner(p)' = Owner(p) /\ \A j \in Jobs : Stage(p, j)' = Stage(p, j)
  BY JobsAlone DEF Owner
<1>3. CASE slot = None /\ p = slot'
  <2>1. Owner(p) = "up" /\ Owner(p)' = "up"
    BY <1>1, <1>2, <1>3 DEF StoppedInTurn, Owner
  <2>2. \A w \in WorkersOf(p) : at[w] = "none" /\ w \in Workers
    BY <1>1, <1>3 DEF Created, WorkersOf
  <2> DEFINE W == {w \in WorkersOf(p) : at'[w] = "top"}
  <2>3. \A w \in WorkersOf(p) : Post(w) = "none" /\ Post(w)' = IF w \in W THEN "out" ELSE "none"
    <3> SUFFICES ASSUME NEW w \in WorkersOf(p)
                 PROVE  Post(w) = "none" /\ Post(w)' = IF w \in W THEN "out" ELSE "none"
      OBVIOUS
    <3>1. at[w] = "none" /\ (at'[w] = "top" \/ at'[w] = "none")
      BY <1>1, <2>2
    <3> QED
      BY <3>1 DEF Post
  <2>4. W \in SUBSET WorkersOf(p)
    OBVIOUS
  <2> HIDE DEF W
  <2>5. Pool(p)!Open
    BY <1>2, <2>1, <2>3, <2>4 DEF Pool!Open, WorkersOf
  <2> QED
    BY <2>5 DEF PoolStep, Pool!PoolNext
<1>4. CASE slot # None \/ p # slot'
  <2>1. \A w \in WorkersOf(p) : at'[w] = at[w] /\ runs'[w] = runs[w]
    BY <1>1, <1>4 DEF WorkersOf
  <2> QED
    BY <1>2, <2>1, PoolAlone DEF PoolStep
<1> QED
  BY <1>3, <1>4

\* A push submits its job to the pool that was looked up, and to no other.
LEMMA PushSubmits ==
  ASSUME TypeOK, PoolsOK, JobInv, Homes, NEW a \in Actors, SpawnPush(a), NEW p \in Pools
  PROVE  PoolStep(p)
<1>1. PICK j \in Jobs : j = Head(todo[a]).job
  BY OpFacts DEF SpawnPush
<1>2. /\ handle[a] \in Pools
      /\ pending' = [pending EXCEPT ![handle[a]] = @ \cup {j}]
      /\ home' = [home EXCEPT ![j] = handle[a]]
      /\ UNCHANGED <<holder, stopping, at, runs>>
  BY <1>1 DEF SpawnPush, TypeOK
<1>3. home[j] = None /\ ~\E w \in Workers : runs[w] = j
  BY <1>1, PushedJob DEF Homes, Somewhere
<1>4. Owner(p)' = Owner(p)
  <2>1. holder # None => handle'[holder] = handle[holder]
    BY DEF SpawnPush, Doing, PoolsOK, HolderShutsDown, TypeOK
  <2> QED
    BY <1>2, <2>1 DEF Owner
<1>5. \A k \in Jobs \ {j} : Stage(p, k)' = Stage(p, k)
  <2> SUFFICES ASSUME NEW k \in Jobs \ {j} PROVE Stage(p, k)' = Stage(p, k)
    OBVIOUS
  <2>1. home'[k] = home[k] /\ (k \in pending'[p] <=> k \in pending[p])
    BY <1>2 DEF TypeOK
  <2> QED
    BY <1>2, <2>1, SameStage
<1>6. Stage(p, j) = "new" /\ Stage(p, j)' = IF p = handle[a] THEN "waiting" ELSE "new"
  <2>1. home'[j] = handle[a] /\ p # None /\ j \in pending'[handle[a]]
    BY <1>2, ActorsAssumption DEF TypeOK
  <2>2. Stage(p, j) = "new"
    BY <1>3, <2>1 DEF Stage
  <2>3. CASE p = handle[a]
    BY <1>2, <1>3, <2>1, <2>2, <2>3 DEF Stage
  <2>4. CASE p # handle[a]
    BY <2>1, <2>2, <2>4 DEF Stage
  <2> QED
    BY <2>3, <2>4
<1>7. \A w \in WorkersOf(p) : Post(w)' = Post(w)
  BY <1>2 DEF Post
<1>8. CASE p = handle[a]
  <2>1. Pool(p)!Submit(j)
    BY <1>1, <1>2, <1>4, <1>5, <1>6, <1>7, <1>8 DEF Pool!Submit, WorkersOf
  <2> QED
    BY <2>1 DEF PoolStep, Pool!PoolNext
<1>9. CASE p # handle[a]
  <2>1. \A k \in Jobs : Stage(p, k)' = Stage(p, k)
    BY <1>5, <1>6, <1>9
  <2> QED
    BY <1>2, <1>4, <2>1, PoolAlone DEF PoolStep
<1> QED
  BY <1>8, <1>9

\* shutdown closes the pool it takes out of the slot.
LEMMA TakeCloses ==
  ASSUME TypeOK, StoppedInTurn, NEW a \in Actors, ShutdownTake(a), NEW p \in Pools
  PROVE  PoolStep(p)
<1>1. /\ slot \in Pools /\ slot \notin stopping /\ holder = None /\ a # None
      /\ stopping' = stopping \cup {slot} /\ holder' = a /\ handle'[a] = slot
      /\ UNCHANGED <<pending, at, runs, home>>
  BY ActorsAssumption DEF ShutdownTake, StoppedInTurn, TypeOK
<1>2. /\ \A j \in Jobs : Stage(p, j)' = Stage(p, j)
      /\ \A w \in WorkersOf(p) : Post(w)' = Post(w)
  BY <1>1, JobsAlone DEF Post
<1>3. CASE p = slot
  <2>1. Owner(p) = "up" /\ Owner(p)' = "joining"
    BY <1>1, <1>3 DEF Owner
  <2>2. Pool(p)!Close
    BY <1>1, <1>2, <2>1 DEF Pool!Close, WorkersOf
  <2> QED
    BY <2>2 DEF PoolStep, Pool!PoolNext
<1>4. CASE p # slot
  <2>1. Owner(p)' = Owner(p)
    BY <1>1, <1>4 DEF Owner
  <2> QED
    BY <1>1, <1>2, <2>1, PoolAlone DEF PoolStep
<1> QED
  BY <1>3, <1>4

\* And returns when its workers have gone.
LEMMA JoinEnds ==
  ASSUME TypeOK, StoppedInTurn, NEW a \in Actors, ShutdownJoin(a), NEW p \in Pools
  PROVE  PoolStep(p)
<1>1. /\ holder = a /\ a # None /\ handle[a] \in stopping /\ holder' = None
      /\ Alive(handle[a]) = {} /\ UNCHANGED <<stopping, pending, at, runs, home>>
  BY ActorsAssumption DEF ShutdownJoin, StoppedInTurn, poolVars
<1>2. /\ \A j \in Jobs : Stage(p, j)' = Stage(p, j)
      /\ \A w \in WorkersOf(p) : Post(w)' = Post(w)
  BY <1>1, JobsAlone DEF Post
<1>3. CASE p = handle[a]
  <2>1. Owner(p) = "joining" /\ Owner(p)' = "down"
    BY <1>1, <1>3 DEF Owner
  <2>2. \A w \in WorkersOf(p) : Post(w) \in {"none", "gone"}
    BY <1>1, <1>3, PostTells DEF Alive, Crew, WorkersOf
  <2>3. Pool(p)!Join
    BY <1>1, <1>2, <2>1, <2>2 DEF Pool!Join, WorkersOf
  <2> QED
    BY <2>3 DEF PoolStep, Pool!PoolNext
<1>4. CASE p # handle[a]
  <2>1. Owner(p)' = Owner(p)
    BY <1>1, <1>4 DEF Owner
  <2> QED
    BY <1>1, <1>2, <2>1, PoolAlone DEF PoolStep
<1> QED
  BY <1>3, <1>4

\* A worker's steps are steps of its own pool.
LEMMA WorkIsPoolWork ==
  ASSUME TypeOK, TypeOK', JobInv, Homes, NEW w \in Workers, Work(w), NEW p \in Pools
  PROVE  PoolStep(p)
<1>0. UNCHANGED <<stopping, holder, handle>> /\ home' = home /\ Owner(p)' = Owner(p)
  BY DEF Work, CheckShutdown, TakeJob, NothingFound, JobEnds, Owner
<1>1. CASE PoolOf(w) # p
  <2>1. \A v \in WorkersOf(p) : at'[v] = at[v] /\ runs'[v] = runs[v]
    BY <1>1 DEF Work, CheckShutdown, TakeJob, NothingFound, JobEnds, WorkersOf, TypeOK
  <2>2. ASSUME NEW j \in Jobs PROVE Stage(p, j)' = Stage(p, j)
    <3>1. pending'[p] = pending[p]
      BY <1>1 DEF Work, CheckShutdown, TakeJob, NothingFound, JobEnds, TypeOK
    <3>2. CASE home[j] = p
      <4>1. \A v \in Workers : runs[v] = j \/ runs'[v] = j => PoolOf(v) = p
        <5>1. \A v \in Workers \ {w} : runs'[v] = runs[v]
          BY DEF Work, CheckShutdown, TakeJob, NothingFound, JobEnds, TypeOK
        <5>2. runs'[w] = j => runs[w] = j \/ j \in pending[PoolOf(w)]
          BY ActorsAssumption
          DEF Work, CheckShutdown, TakeJob, NothingFound, JobEnds, TypeOK, Actors
        <5> QED
          BY <3>2, <5>1, <5>2, WorkerFacts DEF Homes
      <4>2. \A v \in Workers : runs'[v] = j <=> runs[v] = j
        BY <2>1, <4>1, OwnWorkers
      <4> QED
        BY <1>0, <3>1, <4>2, SameStage
    <3>3. CASE home[j] # p
      BY <1>0, <3>3, SameStage
    <3> QED
      BY <3>2, <3>3
  <2> QED
    BY <1>0, <2>1, <2>2, PoolAlone DEF PoolStep
<1>2. CASE PoolOf(w) = p /\ CheckShutdown(w)
  <2>1. \A j \in Jobs : Stage(p, j)' = Stage(p, j)
    BY <1>2, JobsAlone DEF CheckShutdown
  <2>2. Post(w) = "out" /\ Post(w)' = IF p \in stopping THEN "gone" ELSE "in"
    BY <1>2 DEF CheckShutdown, Post, TypeOK
  <2>6. at' = [at EXCEPT ![w] = at'[w]]
    BY <1>2 DEF CheckShutdown, TypeOK
  <2>3. /\ w \in WorkersOf(p) /\ runs' = runs
        /\ [v \in WorkersOf(p) |-> Post(v)]'
             = [[v \in WorkersOf(p) |-> Post(v)] EXCEPT ![w] = IF p \in stopping THEN "gone" ELSE "in"]
    BY <1>0, <1>2, <2>2, <2>6, OneWorker DEF CheckShutdown
  <2>4. p \in stopping <=> Owner(p) # "up"
    BY DEF Owner
  <2>5. Pool(p)!Enter(w) \/ Pool(p)!Leave(w)
    BY <1>0, <2>1, <2>2, <2>3, <2>4 DEF Pool!Enter, Pool!Leave, WorkersOf
  <2> QED
    BY <2>3, <2>5 DEF PoolStep, Pool!PoolNext
<1>3. CASE PoolOf(w) = p /\ NothingFound(w)
  <2>1. \A j \in Jobs : Stage(p, j)' = Stage(p, j)
    BY <1>3, JobsAlone DEF NothingFound
  <2>2. Post(w) = "in" /\ Post(w)' = "out"
    BY <1>3 DEF NothingFound, Post, TypeOK
  <2>6. at' = [at EXCEPT ![w] = at'[w]]
    BY <1>3 DEF NothingFound, TypeOK
  <2>3. /\ w \in WorkersOf(p) /\ runs' = runs
        /\ [v \in WorkersOf(p) |-> Post(v)]' = [[v \in WorkersOf(p) |-> Post(v)] EXCEPT ![w] = "out"]
    BY <1>0, <1>3, <2>2, <2>6, OneWorker DEF NothingFound
  <2>4. Pool(p)!GiveUp(w)
    BY <1>0, <2>1, <2>2, <2>3 DEF Pool!GiveUp, WorkersOf
  <2> QED
    BY <2>3, <2>4 DEF PoolStep, Pool!PoolNext
<1>4. CASE PoolOf(w) = p /\ TakeJob(w)
  <2>1. PICK j \in pending[p] : /\ pending' = [pending EXCEPT ![p] = @ \ {j}]
                                /\ runs' = [runs EXCEPT ![w] = j]
    BY <1>4 DEF TakeJob
  <2>2. j \in Jobs /\ home[j] = p /\ runs[w] = None
    BY <1>4, <2>1 DEF TypeOK, Homes, TakeJob
  <2>3. Stage(p, j) = "waiting" /\ Stage(p, j)' = "running"
    <3>1. j \notin pending'[p] /\ runs'[w] = j
      BY <2>1 DEF TypeOK
    <3>2. ~\E v \in Workers : runs[v] = j
      BY <2>1, <2>2 DEF JobInv, InOnePlace
    <3> QED
      BY <1>0, <2>1, <2>2, <3>1, <3>2 DEF Stage
  <2>4. \A k \in Jobs \ {j} : Stage(p, k)' = Stage(p, k)
    <3> SUFFICES ASSUME NEW k \in Jobs \ {j} PROVE Stage(p, k)' = Stage(p, k)
      OBVIOUS
    <3>1. k \in pending'[p] <=> k \in pending[p]
      BY <2>1 DEF TypeOK
    <3>2. \A v \in Workers : runs'[v] = k <=> runs[v] = k
      BY <2>1, <2>2, ActorsAssumption DEF TypeOK, Actors
    <3> QED
      BY <1>0, <3>1, <3>2, SameStage
  <2>5. Post(w) = "in" /\ Post(w)' = "busy"
    BY <1>4 DEF TakeJob, Post, TypeOK
  <2>9. at' = [at EXCEPT ![w] = at'[w]]
    BY <1>4 DEF TakeJob, TypeOK
  <2>6. /\ w \in WorkersOf(p)
        /\ [v \in WorkersOf(p) |-> Post(v)]' = [[v \in WorkersOf(p) |-> Post(v)] EXCEPT ![w] = "busy"]
    BY <1>0, <1>4, <2>5, <2>9, OneWorker
  <2>7. [v \in WorkersOf(p) |-> runs[v]]' = [[v \in WorkersOf(p) |-> runs[v]] EXCEPT ![w] = j]
    BY <2>1 DEF TypeOK, WorkersOf
  <2>8. [k \in Jobs |-> Stage(p, k)]' = [[k \in Jobs |-> Stage(p, k)] EXCEPT ![j] = "running"]
    BY <2>2, <2>3, <2>4
  <2>10. Pool(p)!Take(w)
    BY <1>0, <2>2, <2>3, <2>5, <2>6, <2>7, <2>8 DEF Pool!Take
  <2> QED
    BY <2>6, <2>10 DEF PoolStep, Pool!PoolNext
<1>5. CASE PoolOf(w) = p /\ JobEnds(w)
  <2>1. PICK j \in Jobs : j = runs[w] /\ runs' = [runs EXCEPT ![w] = None] /\ pending' = pending
    BY <1>5 DEF JobEnds, TypeOK
  <2>2. /\ home[j] = p /\ j \notin pending[p] /\ j # None
        /\ \A v \in Workers : runs'[v] # j
    BY <1>5, <2>1, ActorsAssumption DEF Homes, JobInv, InOnePlace, TypeOK, Actors
  <2>3. Stage(p, j)' = "ended"
    BY <1>0, <2>1, <2>2 DEF Stage
  <2>4. \A k \in Jobs \ {j} : Stage(p, k)' = Stage(p, k)
    <3> SUFFICES ASSUME NEW k \in Jobs \ {j} PROVE Stage(p, k)' = Stage(p, k)
      OBVIOUS
    <3>1. \A v \in Workers : runs'[v] = k <=> runs[v] = k
      BY <2>1, ActorsAssumption DEF TypeOK, Actors
    <3> QED
      BY <1>0, <2>1, <3>1, SameStage
  <2>5. Post(w) = "busy" /\ Post(w)' = "out"
    BY <1>5 DEF JobEnds, Post, TypeOK
  <2>9. at' = [at EXCEPT ![w] = at'[w]]
    BY <1>5 DEF JobEnds, TypeOK
  <2>6. /\ w \in WorkersOf(p)
        /\ [v \in WorkersOf(p) |-> Post(v)]' = [[v \in WorkersOf(p) |-> Post(v)] EXCEPT ![w] = "out"]
    BY <1>0, <1>5, <2>5, <2>9, OneWorker
  <2>7. [v \in WorkersOf(p) |-> runs[v]]' = [[v \in WorkersOf(p) |-> runs[v]] EXCEPT ![w] = None]
    BY <2>1 DEF TypeOK, WorkersOf
  <2>8. Pool(p)!Finish(w)
    BY <1>0, <2>1, <2>3, <2>4, <2>5, <2>6, <2>7 DEF Pool!Finish, Pool!Over
  <2> QED
    BY <2>6, <2>8 DEF PoolStep, Pool!PoolNext
<1> QED
  BY <1>1, <1>2, <1>3, <1>4, <1>5 DEF Work

\* The channel and a shutdown without a scheduler concern no pool.
LEMMA StepIsPoolStep ==
  ASSUME IInv, TypeOK', [Next]_vars, NEW p \in Pools
  PROVE  PoolStep(p)
<1> USE DEF IInv, PoolInv, PoolsOK
<1>1. ASSUME NEW a \in Actors, RuntimeInit(a) PROVE PoolStep(p)
  BY <1>1, OpFacts, LookupOpens DEF RuntimeInit
<1>2. ASSUME NEW a \in Actors, SpawnLookup(a) PROVE PoolStep(p)
  BY <1>2, BoundsAssumption, LookupOpens DEF SpawnLookup
<1>3. ASSUME NEW a \in Actors, ShutdownNothing(a) \/ Send(a) \/ Recv(a) PROVE PoolStep(p)
  <2>1. UNCHANGED <<holder, handle, stopping, pending, at, runs, home>>
    BY <1>3 DEF ShutdownNothing, Send, Recv, poolVars
  <2> QED
    BY <2>1, JobsAlone, PoolAlone DEF PoolStep, Owner
<1>4. CASE UNCHANGED vars
  <2>1. UNCHANGED <<holder, handle, stopping, pending, at, runs, home>>
    BY <1>4 DEF vars
  <2> QED
    BY <2>1, JobsAlone, PoolAlone DEF PoolStep, Owner
<1> QED
  BY <1>1, <1>2, <1>3, <1>4, PushSubmits, TakeCloses, JoinEnds, WorkIsPoolWork DEF Next, Act

\* Every scheduler that is ever in the slot keeps the promises of JobPool, the ones
\* that Scheduler is shown to keep, in the middle of what other threads and the jobs of
\* other pools do with the slot.
THEOREM PoolsAreJobPoolsCorrect == Spec => PoolsAreJobPools
<1>1. Init => \A p \in Pools : Pool(p)!PoolInit
  <2> SUFFICES ASSUME Init, NEW p \in Pools PROVE Pool(p)!PoolInit
    OBVIOUS
  <2>1. \A j \in Jobs : Stage(p, j) = "new"
    BY ActorsAssumption DEF Init, Stage
  <2>2. \A w \in WorkersOf(p) : Post(w) = "none" /\ runs[w] = None
    BY DEF Init, Post, WorkersOf
  <2>3. Owner(p) = "up"
    BY DEF Init, Owner
  <2> QED
    BY <2>1, <2>2, <2>3 DEF Pool!PoolInit
<1>2. IInv /\ IInv' /\ [Next]_vars =>
        [\A p \in Pools : [Pool(p)!PoolNext]_(Pool(p)!poolVars)]_vars
  <2> SUFFICES ASSUME IInv, IInv', [Next]_vars
               PROVE  \A p \in Pools : PoolStep(p)
    BY DEF PoolStep
  <2> QED
    BY StepIsPoolStep DEF IInv, PoolInv
<1> QED
  BY <1>1, <1>2, Invariance, PTL DEF Spec, PoolsAreJobPools
=============================================================================
