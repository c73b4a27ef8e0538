--------------------------- MODULE SchedulerProofs ---------------------------
(***************************************************************************)
(* Proofs about Scheduler, for every number of workers, every set of jobs  *)
(* and every set of panicking jobs.  The inductive invariant is            *)
(* TypeOK /\ JobsInOnePlace /\ ActiveJobsExact: the counter is exact       *)
(* because every job a worker discounts is one it ran, and it ran it       *)
(* because the job was in one place only.  That Scheduler implements       *)
(* JobPool needs beside these that the flag tells where shutdown is.       *)
(***************************************************************************)
EXTENDS Scheduler, FiniteSetTheorems, TLAPS

-----------------------------------------------------------------------------
(* Type invariant *)

\* A part of a sequence that stays within its bounds is a sequence.
LEMMA SubSeqOfSeq ==
  ASSUME NEW S, NEW s \in Seq(S), NEW m \in Nat \ {0}, NEW n \in 0..Len(s)
  PROVE  SubSeq(s, m, n) \in Seq(S)
  OBVIOUS

\* A batch moves jobs from one queue to another and leaves the rest alone.
LEMMA MovedBatchType ==
  ASSUME TypeOK, NEW w \in Workers, Stealing(w), Source(w) # w,
         queue[Source(w)] # <<>>, NEW n \in BatchSizes(Source(w))
  PROVE  /\ Source(w) \in Queues
         /\ n \in 1..Len(queue[Source(w)])
         /\ MovedBatch(w, n) \in [Queues -> Seq(Jobs)]
         /\ Head(queue[Source(w)]) \in Jobs
<1>1. Source(w) \in Queues /\ w \in Queues
  <2>1. victim[w] \in Workers
    BY DEF TypeOK
  <2> QED
    BY <2>1 DEF Source, Queues
<1>2. /\ queue[Source(w)] \in Seq(Jobs) /\ queue[w] \in Seq(Jobs)
      /\ Len(queue[Source(w)]) \in Nat \ {0}
  BY <1>1 DEF TypeOK
<1>3. n \in 1..Len(queue[Source(w)])
  <2> DEFINE len == Len(queue[Source(w)])
  <2>1. len \in Nat \ {0} /\ (n \in 1..len \/ n \in 1..((len + 1) \div 2))
    BY <1>2 DEF BatchSizes
  <2>2. (len + 1) \div 2 <= len
    <3> HIDE DEF len
    <3> QED
      BY <2>1
  <2> HIDE DEF len
  <2>3. n \in 1..len
    BY <2>1, <2>2
  <2> QED
    BY <2>3 DEF len
<1>4. /\ SubSeq(queue[Source(w)], 2, n) \in Seq(Jobs)
      /\ SubSeq(queue[Source(w)], n + 1, Len(queue[Source(w)])) \in Seq(Jobs)
  BY <1>2, <1>3, SubSeqOfSeq
<1>5. queue[w] \o SubSeq(queue[Source(w)], 2, n) \in Seq(Jobs)
  BY <1>2, <1>4
<1>6. MovedBatch(w, n) \in [Queues -> Seq(Jobs)]
  BY <1>1, <1>4, <1>5 DEF MovedBatch, TypeOK
<1>7. Head(queue[Source(w)]) \in Jobs
  BY <1>2
<1> QED
  BY <1>1, <1>3, <1>6, <1>7

\* The initial state is well typed.
LEMMA InitTypeOK == Init => TypeOK
<1> SUFFICES ASSUME Init PROVE TypeOK
  OBVIOUS
<1>1. 1 \in Workers
  BY NumWorkersAssumption DEF Workers
<1>2. queue \in [Queues -> Seq(Jobs)] /\ spawning \in [Spawners -> Jobs \cup {None}]
  BY DEF Init
<1>3. /\ status \in [Jobs -> Statuses] /\ pc \in [Workers -> WorkerSteps]
      /\ job \in [Workers -> Jobs \cup {None}]
      /\ \A w \in Workers : job[w] # None <=> pc[w] \in {"run", "ran"}
      /\ victim \in [Workers -> Workers]
  BY <1>1 DEF Init, Statuses, WorkerSteps
<1>4. active_jobs \in Int /\ host \in {"up", "stored", "joining", "down"}
  BY DEF Init
<1>5. shutdown \in BOOLEAN
  BY DEF Init
<1> QED
  BY <1>2, <1>3, <1>4, <1>5 DEF TypeOK

\* Every step keeps the types.
LEMMA StepTypeOK == TypeOK /\ [Next]_vars => TypeOK'
<1> SUFFICES ASSUME TypeOK, [Next]_vars PROVE TypeOK'
  OBVIOUS
<1> USE NoneAssumption DEF TypeOK, Statuses, WorkerSteps, workerVars
<1>1. ASSUME NEW s \in Spawners, SpawnCount(s) PROVE TypeOK'
  BY <1>1 DEF SpawnCount
<1>2. ASSUME NEW s \in Spawners, SpawnPush(s) PROVE TypeOK'
  <2>1. spawning[s] \in Jobs /\ Injector \in Queues
    BY <1>2 DEF SpawnPush, Queues
  <2>2. queue' \in [Queues -> Seq(Jobs)]
    BY <1>2, <2>1 DEF SpawnPush
  <2> QED
    BY <1>2, <2>1, <2>2 DEF SpawnPush
<1>3. ASSUME WakeAll, UNCHANGED job
      PROVE  /\ pc' \in [Workers -> WorkerSteps]
             /\ \A w \in Workers : job'[w] # None <=> pc'[w] \in {"run", "ran"}
  BY <1>3 DEF WakeAll
<1>4. ASSUME NEW s \in Spawners, SpawnWake(s) PROVE TypeOK'
  BY <1>3, <1>4 DEF SpawnWake
<1>5. ASSUME NEW w \in Workers, CheckShutdown(w) PROVE TypeOK'
  BY <1>5 DEF CheckShutdown
<1>6. ASSUME NEW w \in Workers, PopLocal(w) PROVE TypeOK'
  <2>1. w \in Queues /\ 1 \in Workers
    BY NumWorkersAssumption DEF Queues, Workers
  <2>2. queue[w] \in Seq(Jobs) /\ queue[w] # <<>>
    BY <1>6, <2>1 DEF PopLocal
  <2>3. Head(queue[w]) \in Jobs /\ Tail(queue[w]) \in Seq(Jobs)
    BY <2>2
  <2> DEFINE j == Head(queue[w])
  <2>4. j \in Jobs /\ Start(w, j)
    BY <1>6, <2>3 DEF PopLocal
  <2>5. queue' \in [Queues -> Seq(Jobs)]
    BY <1>6, <2>1, <2>3 DEF PopLocal
  <2> HIDE DEF j
  <2> QED
    BY <2>1, <2>4, <2>5 DEF Start
<1>7. ASSUME NEW w \in Workers, LocalEmpty(w) PROVE TypeOK'
  BY <1>7 DEF LocalEmpty
<1>8. ASSUME NEW w \in Workers, StealBatch(w) PROVE TypeOK'
  <2>1. PICK n \in BatchSizes(Source(w)) : queue' = MovedBatch(w, n)
    BY <1>8 DEF StealBatch
  <2>2. Head(queue[Source(w)]) \in Jobs /\ queue' \in [Queues -> Seq(Jobs)]
    BY <1>8, <2>1, MovedBatchType DEF StealBatch
  <2>3. 1 \in Workers
    BY NumWorkersAssumption DEF Workers
  <2> DEFINE j == Head(queue[Source(w)])
  <2>4. j \in Jobs /\ Start(w, j)
    BY <1>8, <2>2 DEF StealBatch
  <2> HIDE DEF j
  <2> QED
    BY <2>2, <2>3, <2>4 DEF Start
<1>9. ASSUME NEW w \in Workers, StealNothing(w) PROVE TypeOK'
  <2>1. 1 \in Workers /\ (victim[w] < NumWorkers => victim[w] + 1 \in Workers)
    BY NumWorkersAssumption DEF Workers
  <2>2. victim' \in [Workers -> Workers]
    BY <1>9, <2>1 DEF StealNothing
  <2> QED
    BY <1>9, <2>2 DEF StealNothing, Stealing
<1>10. ASSUME NEW w \in Workers, Park(w) PROVE TypeOK'
  BY <1>10 DEF Park
<1>11. ASSUME NEW w \in Workers, ParkTimeout(w) PROVE TypeOK'
  BY <1>11 DEF ParkTimeout
<1>12. ASSUME NEW w \in Workers, Finish(w) PROVE TypeOK'
  BY <1>12 DEF Finish
<1>13. ASSUME NEW w \in Workers, Panic(w) PROVE TypeOK'
  BY <1>13 DEF Panic
<1>14. ASSUME NEW w \in Workers, Discount(w) PROVE TypeOK'
  BY <1>14 DEF Discount
<1>15. CASE Shutdown
  BY <1>3, <1>15 DEF Shutdown, ShutdownStore, ShutdownWake, ShutdownJoin
<1>16. CASE UNCHANGED vars
  BY <1>16 DEF vars
<1> QED
  BY <1>1, <1>2, <1>4, <1>5, <1>6, <1>7, <1>8, <1>9, <1>10, <1>11, <1>12,
     <1>13, <1>14, <1>15, <1>16 DEF Next, Spawn, Worker, Seek, RunBody

\* The scheduler's state is well typed in every execution.
THEOREM TypeCorrect == Spec => []TypeOK
<1> QED
  BY InitTypeOK, StepTypeOK, PTL DEF Spec, SafeSpec

-----------------------------------------------------------------------------
(* Slots of the queues *)

QueueMaps == [Queues -> Seq(Jobs)]
Unique(f) ==
  \A q, r \in Queues : \A i \in 1..Len(f[q]), k \in 1..Len(f[r]) :
    f[q][i] = f[r][k] => q = r /\ i = k
Holds(f, j) == \E q \in Queues : \E i \in 1..Len(f[q]) : f[q][i] = j

\* The invariant's parts in terms of the slots of the queues.
LEMMA SlotForm ==
  ASSUME TypeOK
  PROVE  /\ queue \in QueueMaps
         /\ NoJobTwice <=> Unique(queue)
         /\ \A j \in Jobs : InQueue(j) <=> Holds(queue, j)
<1>1. queue \in QueueMaps
  BY DEF TypeOK, QueueMaps
<1>2. \A q \in Queues : DOMAIN queue[q] = 1..Len(queue[q])
  BY <1>1 DEF QueueMaps
<1> QED
  BY <1>1, <1>2 DEF NoJobTwice, Unique, InQueue, Holds

\* Pushing a job that is in no queue adds that job and keeps all slots distinct.
LEMMA PushSlots ==
  ASSUME NEW f \in QueueMaps, Unique(f), NEW h \in Queues, NEW j \in Jobs, ~Holds(f, j),
         NEW g \in QueueMaps, g[h] = Append(f[h], j),
         \A q \in Queues \ {h} : g[q] = f[q]
  PROVE  /\ Unique(g)
         /\ \A x \in Jobs : Holds(g, x) <=> Holds(f, x) \/ x = j
<1>1. /\ Len(g[h]) = Len(f[h]) + 1
      /\ g[h][Len(f[h]) + 1] = j
      /\ \A i \in 1..Len(f[h]) : g[h][i] = f[h][i]
      /\ f[h] \in Seq(Jobs)
  BY DEF QueueMaps
<1>4. \A q \in Queues : Len(f[q]) \in Nat
  BY DEF QueueMaps
<1>5. \A q \in Queues : \A i \in 1..Len(g[q]) :
        \/ q = h /\ i = Len(f[h]) + 1 /\ g[q][i] = j
        \/ i \in 1..Len(f[q]) /\ g[q][i] = f[q][i] /\ g[q][i] # j
  <2>1. \A q \in Queues : \A i \in 1..Len(f[q]) : f[q][i] # j
    BY DEF Holds
  <2>2. ASSUME NEW i \in 1..Len(g[h])
        PROVE  i = Len(f[h]) + 1 \/ i \in 1..Len(f[h])
    <3>1. Len(f[h]) \in Nat
      BY <1>4
    <3>2. Len(g[h]) = Len(f[h]) + 1
      BY <1>1
    <3> HIDE DEF QueueMaps
    <3> QED
      BY <3>1, <3>2
  <2>3. ASSUME NEW i \in 1..Len(g[h])
        PROVE  \/ i = Len(f[h]) + 1 /\ g[h][i] = j
               \/ i \in 1..Len(f[h]) /\ g[h][i] = f[h][i] /\ g[h][i] # j
    BY <1>1, <2>1, <2>2
  <2> QED
    BY <2>1, <2>3
<1>6. Unique(g)
  BY <1>5 DEF Unique
<1>7. \A q \in Queues : \A i \in 1..Len(f[q]) : i \in 1..Len(g[q]) /\ g[q][i] = f[q][i]
  BY <1>1, <1>4
<1>8. Len(f[h]) + 1 \in 1..Len(g[h])
  BY <1>1, <1>4
<1>9. \A x \in Jobs : Holds(g, x) <=> Holds(f, x) \/ x = j
  BY <1>1, <1>5, <1>7, <1>8 DEF Holds
<1> QED
  BY <1>6, <1>9

\* The slots of the queues f and of the queues g after a batch: with m jobs in
\* the thief's queue w, n of the len jobs of src are taken, the first of them
\* is returned and the other n - 1 follow the m.
BatchMoved(f, g, w, src, m, len, n) ==
  /\ w # src /\ m \in Nat /\ len \in Nat /\ n \in Nat /\ 1 <= n /\ n <= len
  /\ \A q \in Queues : Len(f[q]) \in Nat /\ Len(g[q]) \in Nat
  /\ Len(f[w]) = m /\ Len(f[src]) = len
  /\ Len(g[w]) = m + n - 1 /\ Len(g[src]) = len - n
  /\ \A i \in 1..m : g[w][i] = f[w][i]
  /\ \A i \in (m + 1)..(m + n - 1) : g[w][i] = f[src][i - m + 1]
  /\ \A i \in 1..(len - n) : g[src][i] = f[src][i + n]
  /\ \A q \in Queues \ {w, src} : g[q] = f[q]

\* Such a move keeps every job but the first of src, and all slots distinct.
LEMMA BatchPositions ==
  ASSUME NEW f, NEW g, NEW w \in Queues, NEW src \in Queues, NEW m, NEW len, NEW n,
         Unique(f), BatchMoved(f, g, w, src, m, len, n)
  PROVE  /\ Unique(g)
         /\ \A x \in Jobs : Holds(g, x) <=> Holds(f, x) /\ x # f[src][1]
<1> USE DEF BatchMoved
<1> DEFINE OldQ(q, i) == IF q = w /\ i > m THEN src ELSE q
           OldI(q, i) == IF q = src THEN i + n
                         ELSE IF q = w /\ i > m THEN i - m + 1 ELSE i
<1>1. \A q \in Queues : \A i \in 1..Len(g[q]) :
        /\ OldQ(q, i) \in Queues /\ OldI(q, i) \in 1..Len(f[OldQ(q, i)])
        /\ g[q][i] = f[OldQ(q, i)][OldI(q, i)]
        /\ ~(OldQ(q, i) = src /\ OldI(q, i) = 1)
  <2> SUFFICES ASSUME NEW q \in Queues, NEW i \in 1..Len(g[q])
               PROVE  /\ OldQ(q, i) \in Queues /\ OldI(q, i) \in 1..Len(f[OldQ(q, i)])
                      /\ g[q][i] = f[OldQ(q, i)][OldI(q, i)]
                      /\ ~(OldQ(q, i) = src /\ OldI(q, i) = 1)
    OBVIOUS
  <2>1. CASE q = src
    <3>1. i \in 1..(len - n) /\ OldQ(q, i) = src /\ OldI(q, i) = i + n
      BY <2>1
    <3>2. i + n \in 1..len /\ i + n # 1 /\ g[src][i] = f[src][i + n]
      BY <3>1
    <3> HIDE DEF OldQ, OldI
    <3> QED
      BY <2>1, <3>1, <3>2
  <2>2. CASE q = w /\ i > m
    BY <2>2
  <2>3. CASE q = w /\ ~(i > m)
    BY <2>3
  <2>4. CASE q \notin {w, src}
    BY <2>4
  <2> QED
    BY <2>1, <2>2, <2>3, <2>4
<1>2. ASSUME NEW q \in Queues, NEW r \in Queues,
             NEW i \in 1..Len(g[q]), NEW k \in 1..Len(g[r]),
             OldQ(q, i) = OldQ(r, k), OldI(q, i) = OldI(r, k)
      PROVE  q = r /\ i = k
  <2>1. q = r
    BY <1>2
  <2>2. i \in Int /\ k \in Int
    OBVIOUS
  <2>3. CASE q = src
    BY <1>2, <2>1, <2>2, <2>3
  <2>4. CASE q = w
    BY <1>2, <2>1, <2>2, <2>4
  <2>5. CASE q \notin {w, src}
    BY <1>2, <2>1, <2>5
  <2> QED
    BY <2>1, <2>3, <2>4, <2>5
<1>3. \A q \in Queues : \A i \in 1..Len(f[q]) :
        \/ q = src /\ i = 1
        \/ \E r \in Queues : \E k \in 1..Len(g[r]) : OldQ(r, k) = q /\ OldI(r, k) = i
  <2> SUFFICES ASSUME NEW q \in Queues, NEW i \in 1..Len(f[q]), ~(q = src /\ i = 1)
               PROVE  \E r \in Queues : \E k \in 1..Len(g[r]) :
                        OldQ(r, k) = q /\ OldI(r, k) = i
    OBVIOUS
  <2>1. CASE q = src /\ i <= n
    <3>1. /\ m + i - 1 \in 1..Len(g[w]) /\ OldQ(w, m + i - 1) = src
          /\ OldI(w, m + i - 1) = i
      BY <2>1
    <3> HIDE DEF OldQ, OldI
    <3> QED
      BY <2>1, <3>1
  <2>2. CASE q = src /\ ~(i <= n)
    <3>1. i - n \in 1..Len(g[src]) /\ OldQ(src, i - n) = src /\ OldI(src, i - n) = i
      BY <2>2
    <3> HIDE DEF OldQ, OldI
    <3> QED
      BY <2>2, <3>1
  <2>3. CASE q = w
    <3>1. i \in 1..Len(g[w]) /\ OldQ(w, i) = w /\ OldI(w, i) = i
      BY <2>3
    <3> HIDE DEF OldQ, OldI
    <3> QED
      BY <2>3, <3>1
  <2>4. CASE q \notin {w, src}
    BY <2>4
  <2> QED
    BY <2>1, <2>2, <2>3, <2>4
<1>4. 1 \in 1..Len(f[src])
  OBVIOUS
<1> HIDE DEF OldQ, OldI, BatchMoved
<1>5. Unique(g)
  <2> SUFFICES ASSUME NEW q \in Queues, NEW r \in Queues,
                      NEW i \in 1..Len(g[q]), NEW k \in 1..Len(g[r]), g[q][i] = g[r][k]
               PROVE  q = r /\ i = k
    BY DEF Unique
  <2>1. f[OldQ(q, i)][OldI(q, i)] = f[OldQ(r, k)][OldI(r, k)]
    BY <1>1
  <2>2. OldQ(q, i) = OldQ(r, k) /\ OldI(q, i) = OldI(r, k)
    BY <1>1, <2>1 DEF Unique
  <2> QED
    BY <1>2, <2>2
<1>6. ASSUME NEW x \in Jobs, Holds(g, x) PROVE Holds(f, x) /\ x # f[src][1]
  <2>0. PICK q \in Queues : \E i \in 1..Len(g[q]) : g[q][i] = x
    BY <1>6 DEF Holds
  <2>1. PICK i \in 1..Len(g[q]) : g[q][i] = x
    BY <2>0
  <2>2. /\ OldQ(q, i) \in Queues /\ OldI(q, i) \in 1..Len(f[OldQ(q, i)])
        /\ x = f[OldQ(q, i)][OldI(q, i)] /\ ~(OldQ(q, i) = src /\ OldI(q, i) = 1)
    BY <1>1, <2>1
  <2>3. x # f[src][1]
    BY <1>4, <2>2 DEF Unique
  <2> QED
    BY <2>2, <2>3 DEF Holds
<1>7. ASSUME NEW x \in Jobs, Holds(f, x), x # f[src][1] PROVE Holds(g, x)
  <2>0. PICK q \in Queues : \E i \in 1..Len(f[q]) : f[q][i] = x
    BY <1>7 DEF Holds
  <2>1. PICK i \in 1..Len(f[q]) : f[q][i] = x
    BY <2>0
  <2>2. PICK r \in Queues : \E k \in 1..Len(g[r]) : OldQ(r, k) = q /\ OldI(r, k) = i
    BY <1>3, <1>7, <2>1
  <2>3. PICK k \in 1..Len(g[r]) : OldQ(r, k) = q /\ OldI(r, k) = i
    BY <2>2
  <2>4. g[r][k] = x
    BY <1>1, <2>1, <2>3
  <2> QED
    BY <2>4 DEF Holds
<1> QED
  BY <1>5, <1>6, <1>7

\* The queues f and the queues g after the first job of h was popped.
PoppedFrom(f, g, h) ==
  /\ f \in QueueMaps /\ g \in QueueMaps /\ f[h] # <<>>
  /\ g[h] = Tail(f[h])
  /\ \A q \in Queues \ {h} : g[q] = f[q]

\* Popping keeps every job but the first of h, and all slots distinct: it is a
\* batch of one, of which any other queue w gets none.
LEMMA PopSlots ==
  ASSUME NEW f, NEW g, NEW w \in Queues, NEW h \in Queues, w # h,
         Unique(f), PoppedFrom(f, g, h)
  PROVE  /\ Unique(g)
         /\ \A x \in Jobs : Holds(g, x) <=> Holds(f, x) /\ x # Head(f[h])
<1> DEFINE s == f[h]
           m == Len(f[w])
<1>1. /\ s \in Seq(Jobs) /\ s # <<>> /\ g[h] = Tail(s)
      /\ \A q \in Queues : Len(f[q]) \in Nat /\ Len(g[q]) \in Nat
      /\ \A q \in Queues \ {w, h} : g[q] = f[q]
      /\ g[w] = f[w] /\ m \in Nat
  BY DEF QueueMaps, PoppedFrom
<1> HIDE DEF s
<1>2. /\ Len(s) \in Nat \ {0} /\ Head(s) = s[1]
      /\ Len(Tail(s)) = Len(s) - 1
      /\ \A i \in 1..(Len(s) - 1) : Tail(s)[i] = s[i + 1]
  BY <1>1
<1>3. /\ Len(g[h]) = Len(f[h]) - 1 /\ 1 <= Len(f[h]) /\ Len(f[h]) \in Nat
      /\ \A i \in 1..(Len(f[h]) - 1) : g[h][i] = f[h][i + 1]
  <2>1. Len(s) \in Nat /\ 1 <= Len(s)
    BY <1>2
  <2> QED
    BY <1>1, <1>2, <2>1 DEF s
<1> HIDE DEF m
<1>4. m + 1 - 1 = m /\ \A i \in (m + 1)..m : FALSE
  BY <1>1
<1>5. BatchMoved(f, g, w, h, m, Len(f[h]), 1)
  <2>1. Len(f[w]) = m /\ Len(g[w]) = m /\ \A i \in 1..m : g[w][i] = f[w][i]
    BY <1>1 DEF m
  <2>2. Len(g[w]) = m + 1 - 1
    BY <1>4, <2>1
  <2> QED
    BY <1>1, <1>3, <1>4, <2>1, <2>2 DEF BatchMoved
<1> QED
  BY <1>2, <1>5, BatchPositions DEF s

\* The slots of a concatenation.
LEMMA ConcatSlots ==
  ASSUME NEW S, NEW u \in Seq(S), NEW t \in Seq(S)
  PROVE  /\ Len(u \o t) = Len(u) + Len(t)
         /\ \A i \in 1..Len(u) : (u \o t)[i] = u[i]
         /\ \A i \in 1..(Len(u) + Len(t)) : i > Len(u) => (u \o t)[i] = t[i - Len(u)]
  OBVIOUS

\* The slots of a subsequence.
LEMMA SubSeqSlots ==
  ASSUME NEW S, NEW s \in Seq(S), NEW m \in Nat \ {0}, NEW k \in 0..Len(s), m <= k + 1
  PROVE  /\ SubSeq(s, m, k) \in Seq(S)
         /\ Len(SubSeq(s, m, k)) = k - m + 1
         /\ \A i \in 1..(k - m + 1) : SubSeq(s, m, k)[i] = s[i + m - 1]
<1>1. SubSeq(s, m, k) \in Seq(S)
  BY SubSeqOfSeq
<1>2. Len(SubSeq(s, m, k)) = k - m + 1
  OBVIOUS
<1>3. \A i \in 1..(k - m + 1) : SubSeq(s, m, k)[i] = s[i + m - 1]
  OBVIOUS
<1> QED
  BY <1>1, <1>2, <1>3

\* Moving the second to the n-th job of src to the back of the queue of the
\* thief w, and taking the first, keeps all other jobs and all slots distinct.
LEMMA BatchSlots ==
  ASSUME NEW f \in QueueMaps, Unique(f), NEW w \in Queues, NEW src \in Queues, w # src,
         NEW n \in 1..Len(f[src]), NEW g \in QueueMaps,
         g[w] = f[w] \o SubSeq(f[src], 2, n),
         g[src] = SubSeq(f[src], n + 1, Len(f[src])),
         \A q \in Queues \ {w, src} : g[q] = f[q]
  PROVE  /\ Unique(g)
         /\ \A x \in Jobs : Holds(g, x) <=> Holds(f, x) /\ x # Head(f[src])
<1> DEFINE s == f[src]
           u == f[w]
           t == SubSeq(f[src], 2, n)
           v == SubSeq(f[src], n + 1, Len(f[src]))
<1>1. g[w] = u \o t /\ g[src] = v
  OBVIOUS
<1>2. /\ s \in Seq(Jobs) /\ u \in Seq(Jobs) /\ n \in Nat /\ 1 <= n /\ n <= Len(s)
      /\ Len(s) \in Nat /\ Len(u) \in Nat
      /\ \A q \in Queues : Len(f[q]) \in Nat /\ Len(g[q]) \in Nat
  BY DEF QueueMaps
<1>3. /\ t \in Seq(Jobs) /\ Len(t) = n - 1
      /\ \A i \in 1..(n - 1) : t[i] = s[i + 1]
  <2> HIDE DEF s
  <2>1. n \in 0..Len(s) /\ 2 \in Nat \ {0} /\ 2 <= n + 1
    BY <1>2
  <2>2. n - 2 + 1 = n - 1 /\ \A i \in 1..(n - 1) : i + 2 - 1 = i + 1
    BY <1>2
  <2>3. /\ SubSeq(s, 2, n) \in Seq(Jobs) /\ Len(SubSeq(s, 2, n)) = n - 2 + 1
        /\ \A i \in 1..(n - 2 + 1) : SubSeq(s, 2, n)[i] = s[i + 2 - 1]
    BY <1>2, <2>1, SubSeqSlots
  <2>4. t = SubSeq(s, 2, n)
    BY DEF s
  <2> HIDE DEF t
  <2> QED
    BY <2>2, <2>3, <2>4
<1>4. /\ v \in Seq(Jobs) /\ Len(v) = Len(s) - n
      /\ \A i \in 1..(Len(s) - n) : v[i] = s[i + n]
  <2> HIDE DEF s
  <2>1. Len(s) \in 0..Len(s) /\ n + 1 \in Nat \ {0} /\ n + 1 <= Len(s) + 1
    BY <1>2
  <2>2. /\ Len(s) - (n + 1) + 1 = Len(s) - n
        /\ \A i \in 1..(Len(s) - n) : i + (n + 1) - 1 = i + n
    BY <1>2
  <2>3. /\ SubSeq(s, n + 1, Len(s)) \in Seq(Jobs)
        /\ Len(SubSeq(s, n + 1, Len(s))) = Len(s) - (n + 1) + 1
        /\ \A i \in 1..(Len(s) - (n + 1) + 1) :
             SubSeq(s, n + 1, Len(s))[i] = s[i + (n + 1) - 1]
    BY <1>2, <2>1, SubSeqSlots
  <2>4. v = SubSeq(s, n + 1, Len(s))
    BY DEF s
  <2> HIDE DEF v
  <2> QED
    BY <2>2, <2>3, <2>4
<1> HIDE DEF t, v
<1> HIDE DEF s, u
<1>5. /\ Len(u \o t) = Len(u) + n - 1
      /\ \A i \in 1..Len(u) : (u \o t)[i] = u[i]
      /\ \A i \in 1..(Len(u) + n - 1) : i > Len(u) => (u \o t)[i] = t[i - Len(u)]
  <2>1. Len(u) + (n - 1) = Len(u) + n - 1
    BY <1>2
  <2>2. /\ Len(u \o t) = Len(u) + Len(t)
        /\ \A i \in 1..Len(u) : (u \o t)[i] = u[i]
        /\ \A i \in 1..(Len(u) + Len(t)) : i > Len(u) => (u \o t)[i] = t[i - Len(u)]
    BY <1>2, <1>3, ConcatSlots
  <2> QED
    BY <1>3, <2>1, <2>2
<1>6. ASSUME NEW i \in (Len(u) + 1)..(Len(u) + n - 1) PROVE g[w][i] = s[i - Len(u) + 1]
  <2>1. i - Len(u) \in 1..(n - 1) /\ i \in 1..(Len(u) + n - 1) /\ i > Len(u)
    BY <1>2
  <2>2. t[i - Len(u)] = s[(i - Len(u)) + 1]
    BY <1>3, <2>1
  <2> QED
    BY <1>1, <1>5, <2>1, <2>2
<1>7. \A i \in 1..Len(u) : g[w][i] = u[i]
  BY <1>1, <1>2, <1>5
<1>8. Head(s) = s[1]
  BY <1>2
<1> USE DEF s, u
<1>9. BatchMoved(f, g, w, src, Len(u), Len(s), n)
  BY <1>1, <1>2, <1>4, <1>5, <1>6, <1>7 DEF BatchMoved
<1> QED
  BY <1>8, <1>9, BatchPositions

-----------------------------------------------------------------------------
(* Jobs are in one place *)

\* Initially every queue is empty and no worker has a job.
LEMMA InitJobsInOnePlace == Init => JobsInOnePlace
<1> SUFFICES ASSUME Init PROVE JobsInOnePlace
  OBVIOUS
<1>1. \A q \in Queues : DOMAIN queue[q] = {}
  BY DEF Init
<1>2. \A w \in Workers : pc[w] = "top" /\ job[w] = None
  BY DEF Init
<1>3. \A j \in Jobs : status[j] = "new"
  BY DEF Init
<1>4. NoJobTwice /\ QueuedExact
  BY <1>1, <1>3 DEF NoJobTwice, QueuedExact, InQueue
<1>5. \A w \in Workers : InHand(w)
  BY <1>2 DEF InHand
<1> QED
  BY <1>4, <1>5 DEF JobsInOnePlace

\* A step that touches no queue and makes no job queued or unqueued.
LEMMA QueuesUntouched ==
  ASSUME NoJobTwice, QueuedExact, queue' = queue,
         \A j \in Jobs : status'[j] = "queued" <=> status[j] = "queued"
  PROVE  NoJobTwice' /\ QueuedExact'
  BY DEF NoJobTwice, QueuedExact, InQueue

\* A job that is in a worker's hands is running or has just run.
LEMMA HandStatus ==
  ASSUME TypeOK, JobsInOnePlace, NEW w \in Workers, job[w] # None
  PROVE  status[job[w]] \in {"running", "ran"} /\ job[w] \in Jobs
  BY DEF TypeOK, JobsInOnePlace, InHand

\* Taking a queued job j out of the queues and starting it keeps the invariant.
LEMMA StartJobsInOnePlace ==
  ASSUME TypeOK, JobsInOnePlace, NEW w \in Workers, NEW j \in Jobs, Start(w, j),
         status[j] = "queued", job[w] = None,
         queue' \in QueueMaps, Unique(queue'),
         \A x \in Jobs : Holds(queue', x) <=> Holds(queue, x) /\ x # j
  PROVE  JobsInOnePlace'
<1>1. /\ \A q \in Queues : DOMAIN queue'[q] = 1..Len(queue'[q])
      /\ \A q \in Queues : DOMAIN queue[q] = 1..Len(queue[q])
  BY DEF QueueMaps, TypeOK
<1>2. NoJobTwice'
  BY <1>1 DEF NoJobTwice, Unique
<1>3. \A x \in Jobs : InQueue(x)' <=> InQueue(x) /\ x # j
  BY <1>1 DEF InQueue, Holds
<1>4. \A x \in Jobs : status'[x] = "queued" <=> status[x] = "queued" /\ x # j
  BY DEF Start, TypeOK
<1>5. QueuedExact'
  BY <1>3, <1>4 DEF QueuedExact, JobsInOnePlace
<1>6. ASSUME NEW v \in Workers PROVE InHand(v)'
  <2>1. \A u \in Workers : job[u] # j
    BY HandStatus, NoneAssumption
  <2>2. CASE v = w
    BY <2>1, <2>2 DEF Start, InHand, TypeOK, JobsInOnePlace
  <2>3. CASE v # w
    BY <2>1, <2>3 DEF Start, InHand, TypeOK, JobsInOnePlace
  <2> QED
    BY <2>2, <2>3
<1> QED
  BY <1>2, <1>5, <1>6 DEF JobsInOnePlace

\* Every step of the scheduler keeps every job in one place.
LEMMA StepJobsInOnePlace ==
  TypeOK /\ TypeOK' /\ JobsInOnePlace /\ [Next]_vars => JobsInOnePlace'
<1> SUFFICES ASSUME TypeOK, TypeOK', JobsInOnePlace, [Next]_vars PROVE JobsInOnePlace'
  OBVIOUS
<1>1. /\ NoJobTwice /\ QueuedExact /\ \A w \in Workers : InHand(w)
      /\ queue \in QueueMaps /\ Unique(queue)
      /\ \A j \in Jobs : status[j] = "queued" <=> Holds(queue, j)
  BY SlotForm DEF JobsInOnePlace, QueuedExact
<1>2. ASSUME NEW s \in Spawners, SpawnCount(s) PROVE JobsInOnePlace'
  <2>1. NoJobTwice' /\ QueuedExact'
    BY <1>1, <1>2, QueuesUntouched DEF SpawnCount, TypeOK
  <2>2. ASSUME NEW w \in Workers PROVE InHand(w)'
    BY <1>1, <1>2, HandStatus DEF SpawnCount, TypeOK, InHand, workerVars
  <2> QED
    BY <2>1, <2>2 DEF JobsInOnePlace
<1>3. ASSUME NEW s \in Spawners, SpawnPush(s) PROVE JobsInOnePlace'
  <2> DEFINE j == spawning[s]
  <2>1. j \in Jobs /\ status[j] = "counted" /\ Injector \in Queues
    BY <1>3 DEF SpawnPush, TypeOK, Queues
  <2>2. /\ queue' \in QueueMaps /\ queue'[Injector] = Append(queue[Injector], j)
        /\ \A q \in Queues \ {Injector} : queue'[q] = queue[q]
        /\ ~Holds(queue, j)
    BY <1>1, <1>3, <2>1 DEF SpawnPush, QueueMaps, TypeOK
  <2>3. /\ Unique(queue')
        /\ \A x \in Jobs : Holds(queue', x) <=> Holds(queue, x) \/ x = j
    BY <1>1, <2>1, <2>2, PushSlots
  <2>4. \A q \in Queues : DOMAIN queue'[q] = 1..Len(queue'[q])
    BY DEF TypeOK
  <2>5. NoJobTwice'
    BY <2>3, <2>4 DEF NoJobTwice, Unique
  <2>6. \A x \in Jobs : InQueue(x)' <=> Holds(queue', x)
    BY <2>4 DEF InQueue, Holds
  <2>7. \A x \in Jobs : status'[x] = "queued" <=> status[x] = "queued" \/ x = j
    BY <1>3, <2>1 DEF SpawnPush, TypeOK
  <2>8. QueuedExact'
    BY <1>1, <2>3, <2>6, <2>7 DEF QueuedExact
  <2>9. ASSUME NEW w \in Workers PROVE InHand(w)'
    BY <1>1, <1>3, <2>1, HandStatus DEF SpawnPush, TypeOK, InHand, workerVars
  <2> QED
    BY <2>5, <2>8, <2>9 DEF JobsInOnePlace
<1>4. ASSUME UNCHANGED <<queue, status, job>>,
             \A w \in Workers : pc'[w] \in {"run", "ran"} => pc'[w] = pc[w]
      PROVE  JobsInOnePlace'
  <2>1. NoJobTwice' /\ QueuedExact'
    BY <1>1, <1>4, QueuesUntouched
  <2>2. ASSUME NEW w \in Workers PROVE InHand(w)'
    BY <1>1, <1>4 DEF InHand
  <2> QED
    BY <2>1, <2>2 DEF JobsInOnePlace
<1>5. ASSUME WakeAll PROVE \A w \in Workers : pc'[w] \in {"run", "ran"} => pc'[w] = pc[w]
  BY <1>5 DEF WakeAll
<1>6. ASSUME NEW s \in Spawners, SpawnWake(s) PROVE JobsInOnePlace'
  BY <1>4, <1>5, <1>6 DEF SpawnWake
<1>7. ASSUME NEW w \in Workers,
             CheckShutdown(w) \/ LocalEmpty(w) \/ StealNothing(w) \/ Park(w) \/ ParkTimeout(w)
      PROVE  JobsInOnePlace'
  BY <1>4, <1>7 DEF CheckShutdown, LocalEmpty, StealNothing, Park, ParkTimeout, TypeOK
<1>8. ASSUME NEW w \in Workers, PopLocal(w) PROVE JobsInOnePlace'
  <2> DEFINE j == Head(queue[w])
  <2>1. /\ w \in Queues /\ Injector \in Queues /\ Injector # w
        /\ queue[w] # <<>> /\ pc[w] = "local" /\ Start(w, j)
        /\ queue' = [queue EXCEPT ![w] = Tail(@)]
    BY <1>8 DEF PopLocal, Queues, Injector, Workers
  <2>2. queue' \in QueueMaps /\ PoppedFrom(queue, queue', w)
    BY <1>1, <2>1 DEF QueueMaps, TypeOK, PoppedFrom
  <2>3. /\ Unique(queue')
        /\ \A x \in Jobs : Holds(queue', x) <=> Holds(queue, x) /\ x # j
    <3>1. w \in Queues /\ Injector \in Queues /\ Injector # w /\ Unique(queue)
      BY <1>1, <2>1
    <3>2. PoppedFrom(queue, queue', w)
      BY <2>2
    <3> QED
      BY <3>1, <3>2, PopSlots
  <2>4. job[w] = None
    BY <2>1 DEF TypeOK
  <2>5. j \in Jobs /\ Holds(queue, j)
    <3>1. queue[w] \in Seq(Jobs) /\ Len(queue[w]) \in Nat \ {0}
      BY <1>1, <2>1 DEF QueueMaps
    <3>2. j = queue[w][1] /\ 1 \in 1..Len(queue[w])
      BY <3>1
    <3> QED
      BY <2>1, <3>1, <3>2 DEF Holds
  <2> HIDE DEF j
  <2> QED
    BY <1>1, <2>1, <2>2, <2>3, <2>4, <2>5, StartJobsInOnePlace
<1>9. ASSUME NEW w \in Workers, StealBatch(w) PROVE JobsInOnePlace'
  <2> DEFINE src == Source(w)
             j == Head(queue[src])
  <2>1. /\ Stealing(w) /\ src # w /\ queue[src] # <<>> /\ Start(w, j)
        /\ \E n \in BatchSizes(src) : queue' = MovedBatch(w, n)
    BY <1>9 DEF StealBatch
  <2>2. PICK n \in BatchSizes(src) : queue' = MovedBatch(w, n)
    BY <2>1
  <2>3. /\ src \in Queues /\ w \in Queues /\ n \in 1..Len(queue[src])
        /\ queue' \in QueueMaps /\ j \in Jobs
    BY <2>1, <2>2, MovedBatchType DEF Queues, QueueMaps
  <2>4. /\ queue'[w] = queue[w] \o SubSeq(queue[src], 2, n)
        /\ queue'[src] = SubSeq(queue[src], n + 1, Len(queue[src]))
        /\ \A q \in Queues \ {w, src} : queue'[q] = queue[q]
    BY <1>1, <2>1, <2>2, <2>3 DEF MovedBatch, QueueMaps
  <2> HIDE DEF src
  <2>5. /\ Unique(queue')
        /\ \A x \in Jobs : Holds(queue', x) <=> Holds(queue, x) /\ x # j
    BY <1>1, <2>1, <2>3, <2>4, BatchSlots
  <2>6. Holds(queue, j)
    <3>1. queue[src] \in Seq(Jobs) /\ Len(queue[src]) \in Nat \ {0}
      BY <1>1, <2>1, <2>3 DEF QueueMaps
    <3>2. j = queue[src][1] /\ 1 \in 1..Len(queue[src])
      BY <3>1
    <3> QED
      BY <2>3, <3>1, <3>2 DEF Holds
  <2>7. job[w] = None
    BY <2>1 DEF TypeOK, Stealing
  <2> HIDE DEF j
  <2> QED
    BY <1>1, <2>1, <2>3, <2>5, <2>6, <2>7, StartJobsInOnePlace
<1>10. ASSUME NEW w \in Workers, Finish(w) \/ Panic(w) \/ Discount(w) PROVE JobsInOnePlace'
  <2>1. /\ job[w] \in Jobs /\ status[job[w]] \in {"running", "ran"}
        /\ \A v \in Workers \ {w} : job[v] # job[w]
        /\ \A x \in Jobs \ {job[w]} : status'[x] = status[x]
        /\ status'[job[w]] # "queued" /\ queue' = queue
        /\ \A v \in Workers \ {w} : pc'[v] = pc[v] /\ job'[v] = job[v]
        /\ \/ pc'[w] = "ran" /\ job'[w] = job[w] /\ status'[job[w]] = "ran"
           \/ pc'[w] \in {"top", "dead"} /\ job'[w] = None
    BY <1>1, <1>10, HandStatus DEF Finish, Panic, Discount, TypeOK, InHand
  <2>2. NoJobTwice' /\ QueuedExact'
    BY <1>1, <2>1, QueuesUntouched
  <2>3. ASSUME NEW v \in Workers PROVE InHand(v)'
    <3>1. CASE v = w
      BY <1>1, <2>1, <3>1, NoneAssumption DEF InHand
    <3>2. CASE v # w
      BY <1>1, <2>1, <3>2 DEF InHand, TypeOK
    <3> QED
      BY <3>1, <3>2
  <2> QED
    BY <2>2, <2>3 DEF JobsInOnePlace
<1>11. CASE Shutdown
  BY <1>4, <1>5, <1>11 DEF Shutdown, ShutdownStore, ShutdownWake, ShutdownJoin, workerVars
<1>12. CASE UNCHANGED vars
  BY <1>4, <1>12 DEF vars
<1> QED
  BY <1>2, <1>3, <1>6, <1>7, <1>8, <1>9, <1>10, <1>11, <1>12
  DEF Next, Spawn, Worker, Seek, RunBody

\* No interleaving of pops, steals and batches loses a job or runs it twice.
THEOREM JobsCorrect == Spec => []JobsInOnePlace
<1>1. Init => TypeOK /\ JobsInOnePlace
  BY InitTypeOK, InitJobsInOnePlace
<1>2. TypeOK /\ JobsInOnePlace /\ [Next]_vars => (TypeOK /\ JobsInOnePlace)'
  BY StepTypeOK, StepJobsInOnePlace
<1> QED
  BY <1>1, <1>2, PTL DEF Spec, SafeSpec

-----------------------------------------------------------------------------
(* The counter of active jobs *)

\* The active jobs are finitely many.
LEMMA ActiveFinite == IsFiniteSet(Active) /\ IsFiniteSet(Jobs)
  BY JobsAssumption, FS_Subset DEF Active

\* No job is active before the first spawn.
LEMMA InitActiveJobsExact == Init => ActiveJobsExact
<1> SUFFICES ASSUME Init PROVE ActiveJobsExact
  OBVIOUS
<1>1. Active = {} /\ active_jobs = 0
  BY DEF Init, Active
<1> QED
  BY <1>1, FS_EmptySet DEF ActiveJobsExact

\* What each step does to the set of active jobs and to the counter: a spawn
\* adds one to both, a discount takes one from both, no other step changes any.
LEMMA ActiveStep ==
  ASSUME TypeOK, JobsInOnePlace, [Next]_vars
  PROVE  \/ \E s \in Spawners : \E j \in Jobs \ Active :
              /\ MaySpawn(s) /\ spawning' = [spawning EXCEPT ![s] = j]
              /\ Active' = Active \cup {j} /\ active_jobs' = active_jobs + 1
         \/ \E j \in Active : Active' = Active \ {j} /\ active_jobs' = active_jobs - 1
         \/ Active' = Active /\ active_jobs' = active_jobs
<1>1. ASSUME NEW s \in Spawners, SpawnCount(s)
      PROVE  \E j \in Jobs \ Active :
               /\ MaySpawn(s) /\ spawning' = [spawning EXCEPT ![s] = j]
               /\ Active' = Active \cup {j} /\ active_jobs' = active_jobs + 1
  <2>1. PICK j \in Jobs : /\ status[j] = "new" /\ status' = [status EXCEPT ![j] = "counted"]
                          /\ spawning' = [spawning EXCEPT ![s] = j]
    BY <1>1 DEF SpawnCount
  <2>2. j \in Jobs \ Active /\ Active' = Active \cup {j}
    BY <2>1 DEF Active, TypeOK
  <2> QED
    BY <1>1, <2>1, <2>2 DEF SpawnCount
<1>2. ASSUME NEW s \in Spawners, SpawnPush(s) \/ SpawnWake(s)
      PROVE  Active' = Active /\ active_jobs' = active_jobs
  BY <1>2 DEF SpawnPush, SpawnWake, Active, TypeOK
<1>3. ASSUME NEW w \in Workers,
             \/ CheckShutdown(w) \/ LocalEmpty(w) \/ StealNothing(w) \/ Park(w)
             \/ ParkTimeout(w)
      PROVE  Active' = Active /\ active_jobs' = active_jobs
  BY <1>3 DEF CheckShutdown, LocalEmpty, StealNothing, Park, ParkTimeout, Active
<1>4. ASSUME NEW w \in Workers, NEW q \in Queues, queue[q] # <<>>, Start(w, Head(queue[q]))
      PROVE  Active' = Active /\ active_jobs' = active_jobs
  <2> DEFINE j == Head(queue[q])
  <2>1. queue[q] \in Seq(Jobs)
    BY DEF TypeOK
  <2>2. j \in Jobs /\ j = queue[q][1] /\ 1 \in DOMAIN queue[q]
    BY <1>4, <2>1
  <2>3. status[j] = "queued"
    BY <2>2 DEF JobsInOnePlace, QueuedExact, InQueue
  <2> HIDE DEF j
  <2>4. Active' = Active
    BY <1>4, <2>2, <2>3 DEF Start, Active, TypeOK, j
  <2> QED
    BY <1>4, <2>4 DEF Start
<1>5. ASSUME NEW w \in Workers, PopLocal(w) \/ StealBatch(w)
      PROVE  Active' = Active /\ active_jobs' = active_jobs
  <2>1. CASE PopLocal(w)
    BY <1>4, <2>1 DEF PopLocal, Queues
  <2>2. CASE StealBatch(w)
    <3>1. Source(w) \in Queues
      BY <2>2 DEF StealBatch, Source, Queues, TypeOK
    <3> QED
      BY <1>4, <2>2, <3>1 DEF StealBatch
  <2> QED
    BY <1>5, <2>1, <2>2
<1>6. ASSUME NEW w \in Workers, Finish(w) \/ Panic(w)
      PROVE  Active' = Active /\ active_jobs' = active_jobs
  <2>1. job[w] \in Jobs /\ status[job[w]] = "running"
    BY <1>6, NoneAssumption DEF Finish, Panic, TypeOK, JobsInOnePlace, InHand
  <2> QED
    BY <1>6, <2>1 DEF Finish, Panic, Active, TypeOK
<1>7. ASSUME NEW w \in Workers, Discount(w)
      PROVE  \E j \in Active : Active' = Active \ {j} /\ active_jobs' = active_jobs - 1
  <2>1. job[w] \in Jobs /\ status[job[w]] = "ran"
    BY <1>7, NoneAssumption DEF Discount, TypeOK, JobsInOnePlace, InHand
  <2>2. job[w] \in Active /\ Active' = Active \ {job[w]}
    BY <1>7, <2>1 DEF Discount, Active, TypeOK
  <2> QED
    BY <1>7, <2>2 DEF Discount
<1>8. ASSUME Shutdown \/ UNCHANGED vars
      PROVE  Active' = Active /\ active_jobs' = active_jobs
  BY <1>8 DEF Shutdown, ShutdownStore, ShutdownWake, ShutdownJoin, vars, Active
<1> QED
  BY <1>1, <1>2, <1>3, <1>5, <1>6, <1>7, <1>8 DEF Next, Spawn, Worker, Seek, RunBody

\* Every step keeps the counter equal to the number of active jobs.
LEMMA StepActiveJobsExact ==
  TypeOK /\ JobsInOnePlace /\ ActiveJobsExact /\ [Next]_vars => ActiveJobsExact'
<1> SUFFICES ASSUME TypeOK, JobsInOnePlace, ActiveJobsExact, [Next]_vars
             PROVE  ActiveJobsExact'
  OBVIOUS
<1>1. active_jobs = Cardinality(Active) /\ IsFiniteSet(Active) /\ Cardinality(Active) \in Nat
  BY ActiveFinite, FS_CardinalityType DEF ActiveJobsExact
<1>2. ASSUME NEW j \in Jobs \ Active, Active' = Active \cup {j}, active_jobs' = active_jobs + 1
      PROVE  ActiveJobsExact'
  BY <1>1, <1>2, FS_AddElement DEF ActiveJobsExact
<1>3. ASSUME NEW j \in Active, Active' = Active \ {j}, active_jobs' = active_jobs - 1
      PROVE  ActiveJobsExact'
  BY <1>1, <1>3, FS_RemoveElement DEF ActiveJobsExact
<1>4. ASSUME Active' = Active, active_jobs' = active_jobs PROVE ActiveJobsExact'
  BY <1>1, <1>4 DEF ActiveJobsExact
<1> QED
  BY <1>2, <1>3, <1>4, ActiveStep

\* The inductive invariant.
IInv == TypeOK /\ JobsInOnePlace /\ ActiveJobsExact

\* It holds initially and every step keeps it.
LEMMA Inductive == Spec => []IInv
<1>1. Init => IInv
  BY InitTypeOK, InitJobsInOnePlace, InitActiveJobsExact DEF IInv
<1>2. IInv /\ [Next]_vars => IInv'
  BY StepTypeOK, StepJobsInOnePlace, StepActiveJobsExact DEF IInv
<1> QED
  BY <1>1, <1>2, PTL DEF Spec, SafeSpec

\* active_jobs is the number of jobs spawned and not discounted, always.
THEOREM ActiveJobsCorrect == Spec => []ActiveJobsExact
  BY Inductive, PTL DEF IInv

\* When wait_for_idle reads zero, no job is counted, queued, running or lost.
IdleMeansNothingLeft == active_jobs = 0 => \A j \in Jobs : status[j] \in {"new", "done"}

\* An exact counter at zero means that no job is active.
LEMMA IdleFromExact == IInv => (active_jobs = 0 => Active = {})
  BY ActiveFinite, FS_EmptySet DEF IInv, ActiveJobsExact

\* What wait_for_idle returning true tells its caller, at that moment.
THEOREM IdleCorrect == Spec => []IdleMeansNothingLeft
<1>1. IInv => IdleMeansNothingLeft
  BY IdleFromExact DEF IdleMeansNothingLeft, Active
<1> QED
  BY <1>1, Inductive, PTL

\* And it stays so until a thread outside spawns: else only a running job can,
\* and there is no running job.
THEOREM IdleStaysIdle == Spec => IdleIsStable
<1>1. ASSUME IInv, [Next]_vars, active_jobs = 0, active_jobs' # 0
      PROVE  \E s \in Outside : spawning[s] = None /\ spawning'[s] # None
  <2>1. Active = {}
    BY <1>1, IdleFromExact
  <2>2. PICK s \in Spawners : \E j \in Jobs : MaySpawn(s) /\ spawning' = [spawning EXCEPT ![s] = j]
    BY <1>1, <2>1, ActiveStep DEF IInv
  <2>3. s \in Outside
    <3>1. ASSUME s \in Workers PROVE FALSE
      <4>1. pc[s] = "run"
        BY <2>2, <3>1 DEF MaySpawn
      <4>2. job[s] \in Jobs /\ status[job[s]] = "running"
        BY <1>1, <3>1, <4>1, NoneAssumption DEF IInv, TypeOK, JobsInOnePlace, InHand
      <4> QED
        BY <2>1, <4>2 DEF Active
    <3> QED
      BY <3>1 DEF Spawners
  <2>4. spawning[s] = None /\ spawning'[s] # None
    BY <1>1, <2>2, NoneAssumption DEF IInv, TypeOK, MaySpawn
  <2> QED
    BY <2>3, <2>4
<1>2. IInv /\ [Next]_vars =>
        [active_jobs = 0 /\ active_jobs' # 0
           => \E s \in Outside : spawning[s] = None /\ spawning'[s] # None]_vars
  BY <1>1
<1> QED
  BY <1>2, Inductive, PTL DEF Spec, SafeSpec, IdleIsStable

-----------------------------------------------------------------------------
(* Scheduler implements JobPool *)

\* The flag is set while shutdown is going on, and ever after.
FlagTells == shutdown <=> host # "up"

\* It holds at the start.
LEMMA InitFlagTells == Init => FlagTells
  BY DEF Init, FlagTells

\* Only shutdown touches either of the two, and its first step both.
LEMMA StepFlagTells == FlagTells /\ [Next]_vars => FlagTells'
<1> SUFFICES ASSUME FlagTells, [Next]_vars PROVE FlagTells'
  OBVIOUS
<1>1. ASSUME NEW s \in Spawners, Spawn(s) PROVE FlagTells'
  BY <1>1 DEF Spawn, SpawnCount, SpawnPush, SpawnWake, FlagTells
<1>2. ASSUME NEW w \in Workers, Worker(w) PROVE FlagTells'
  <2>1. UNCHANGED <<shutdown, host>>
    BY <1>2 DEF Worker, Seek, RunBody, CheckShutdown, PopLocal, LocalEmpty, StealBatch,
       StealNothing, Park, ParkTimeout, Finish, Panic, Discount, Start
  <2> QED
    BY <2>1 DEF FlagTells
<1>3. CASE Shutdown
  BY <1>3 DEF Shutdown, ShutdownStore, ShutdownWake, ShutdownJoin, FlagTells
<1>4. CASE UNCHANGED vars
  BY <1>4 DEF vars, FlagTells
<1> QED
  BY <1>1, <1>2, <1>3, <1>4 DEF Next

\* A job's stage is told by its status alone.
LEMMA SameStages == ASSUME status' = status PROVE \A j \in Jobs : Stage(j)' = Stage(j)
  BY DEF Stage

\* The refinement mapping, by its values.
LEMMA StageValues ==
  ASSUME TypeOK, NEW j \in Jobs
  PROVE  /\ status[j] \in {"new", "counted"} => Stage(j) = "new"
         /\ status[j] = "queued" => Stage(j) = "waiting"
         /\ status[j] = "running" => Stage(j) = "running"
         /\ status[j] \in {"ran", "done"} => Stage(j) = "ended"
         /\ status[j] = "lost" => Stage(j) = "lost"
  BY DEF Stage
LEMMA PostValues ==
  ASSUME TypeOK, NEW w \in Workers
  PROVE  /\ pc[w] \in {"top", "park", "asleep", "ran"} => Post(w) = "out"
         /\ pc[w] \in {"local", "inject", "steal"} => Post(w) = "in"
         /\ pc[w] = "run" <=> Post(w) = "busy"
         /\ pc[w] \in {"exited", "dead"} <=> Post(w) = "gone"
  BY DEF Post, TypeOK, WorkerSteps

\* Every step of the scheduler is a step of the pool, or leaves it alone.  A job enters
\* the pool when it is pushed and leaves it with the pop or the steal that returns it;
\* what a batch moves to the thief's deque, and every park and wake-up, is not to be seen.
LEMMA StepImplementsPool ==
  TypeOK /\ TypeOK' /\ JobsInOnePlace /\ FlagTells /\ [Next]_vars
    => [Pool!PoolNext]_(Pool!poolVars)
<1> SUFFICES ASSUME TypeOK, TypeOK', JobsInOnePlace, FlagTells, [Next]_vars
             PROVE  [Pool!PoolNext]_(Pool!poolVars)
  OBVIOUS
<1> DEFINE stage == [j \in Jobs |-> Stage(j)]
           crew == [w \in Workers |-> Post(w)]
           hand == [w \in Workers |-> IF pc[w] = "run" THEN job[w] ELSE None]
           owner == IF host = "stored" THEN "joining" ELSE host
<1>1. ASSUME NEW s \in Spawners, SpawnCount(s) PROVE UNCHANGED Pool!poolVars
  <2>1. \A j \in Jobs : Stage(j)' = Stage(j)
    BY <1>1 DEF SpawnCount, Stage, TypeOK
  <2>2. UNCHANGED <<crew, hand, owner>>
    BY <1>1 DEF SpawnCount, workerVars, Post
  <2> QED
    BY <2>1, <2>2 DEF Pool!poolVars
<1>2. ASSUME NEW s \in Spawners, SpawnPush(s)
      PROVE  \E j \in Jobs : Pool!Submit(j)
  <2>1. PICK j \in Jobs : /\ j = spawning[s] /\ status[j] = "counted"
                          /\ status' = [status EXCEPT ![j] = "queued"]
    BY <1>2, NoneAssumption DEF SpawnPush, TypeOK
  <2>2. UNCHANGED <<crew, hand, owner>>
    BY <1>2 DEF SpawnPush, workerVars, Post
  <2>3. stage[j] = "new" /\ stage' = [stage EXCEPT ![j] = "waiting"]
    <3>1. Stage(j) = "new" /\ Stage(j)' = "waiting"
      BY <2>1 DEF Stage, TypeOK
    <3>2. \A i \in Jobs \ {j} : Stage(i)' = Stage(i)
      BY <2>1 DEF Stage, TypeOK
    <3> QED
      BY <2>1, <3>1, <3>2
  <2> QED
    BY <2>1, <2>2, <2>3 DEF Pool!Submit
<1>3. ASSUME WakeAll, UNCHANGED job PROVE UNCHANGED <<crew, hand>>
  <2>1. \A w \in Workers : Post(w)' = Post(w) /\ (pc'[w] = "run" <=> pc[w] = "run")
    BY <1>3 DEF WakeAll, Post, TypeOK
  <2> QED
    BY <1>3, <2>1
<1>4. ASSUME NEW s \in Spawners, SpawnWake(s) PROVE UNCHANGED Pool!poolVars
  <2>1. UNCHANGED <<stage, owner>> /\ UNCHANGED <<crew, hand>>
    BY <1>3, <1>4, SameStages DEF SpawnWake
  <2> QED
    BY <2>1 DEF Pool!poolVars
<1>5. ASSUME NEW w \in Workers, NEW step, pc' = [pc EXCEPT ![w] = step], pc[w] # "run",
             step # "run", UNCHANGED <<status, job, host>>
      PROVE  /\ UNCHANGED <<stage, hand, owner>>
             /\ crew' = [crew EXCEPT ![w] = Post(w)']
  <2>1. \A v \in Workers \ {w} : Post(v)' = Post(v)
    BY <1>5 DEF Post, TypeOK
  <2>2. \A v \in Workers : pc'[v] = "run" <=> pc[v] = "run"
    BY <1>5 DEF TypeOK
  <2> QED
    BY <1>5, <2>1, <2>2, SameStages
<1>6. ASSUME NEW w \in Workers, CheckShutdown(w) PROVE Pool!Enter(w) \/ Pool!Leave(w)
  <2>1. /\ UNCHANGED <<stage, hand, owner>>
        /\ crew' = [crew EXCEPT ![w] = Post(w)']
    BY <1>5, <1>6 DEF CheckShutdown
  <2>2. crew[w] = "out"
    BY <1>6, PostValues DEF CheckShutdown
  <2>3. /\ pc'[w] = IF shutdown THEN "exited" ELSE "local"
        /\ owner = "up" <=> ~shutdown
    BY <1>6 DEF CheckShutdown, FlagTells, TypeOK
  <2>4. Post(w)' = IF shutdown THEN "gone" ELSE "in"
    BY <2>3 DEF Post
  <2> QED
    BY <2>1, <2>2, <2>3, <2>4 DEF Pool!Enter, Pool!Leave
<1>7. ASSUME NEW w \in Workers, NEW q \in Queues, queue[q] # <<>>,
             Start(w, Head(queue[q])), pc[w] \in {"local", "inject", "steal"}
      PROVE  Pool!Take(w)
  <2>1. PICK j \in Jobs : j = Head(queue[q]) /\ j = queue[q][1] /\ 1 \in DOMAIN queue[q]
    <3>1. queue[q] \in Seq(Jobs)
      BY DEF TypeOK
    <3> QED
      BY <1>7, <3>1
  <2>2. status[j] = "queued"
    BY <2>1 DEF JobsInOnePlace, QueuedExact, InQueue
  <2>3. /\ job' = [job EXCEPT ![w] = j] /\ status' = [status EXCEPT ![j] = "running"]
        /\ pc' = [pc EXCEPT ![w] = "run"] /\ host' = host
    BY <1>7, <2>1 DEF Start
  <2>4. stage[j] = "waiting" /\ stage' = [stage EXCEPT ![j] = "running"]
    <3>1. Stage(j) = "waiting" /\ Stage(j)' = "running"
      BY <2>1, <2>2, <2>3 DEF Stage, TypeOK
    <3>2. \A i \in Jobs \ {j} : Stage(i)' = Stage(i)
      BY <2>1, <2>3 DEF Stage, TypeOK
    <3> QED
      BY <2>1, <3>1, <3>2
  <2>5. crew[w] = "in" /\ crew' = [crew EXCEPT ![w] = "busy"]
    <3>1. Post(w) = "in" /\ Post(w)' = "busy"
      BY <1>7, <2>3 DEF Post, TypeOK
    <3>2. \A v \in Workers \ {w} : Post(v)' = Post(v)
      BY <2>3 DEF Post, TypeOK
    <3> QED
      BY <3>1, <3>2
  <2>6. hand' = [hand EXCEPT ![w] = j] /\ owner' = owner
    BY <2>3 DEF TypeOK
  <2> QED
    BY <2>1, <2>4, <2>5, <2>6 DEF Pool!Take
<1>8. ASSUME NEW w \in Workers, PopLocal(w) \/ StealBatch(w) PROVE Pool!Take(w)
  <2>1. CASE PopLocal(w)
    BY <1>7, <2>1 DEF PopLocal, Queues
  <2>2. CASE StealBatch(w)
    <3>1. Source(w) \in Queues
      BY <2>2 DEF StealBatch, Source, Queues, TypeOK
    <3> QED
      BY <1>7, <2>2, <3>1 DEF StealBatch, Stealing
  <2> QED
    BY <1>8, <2>1, <2>2
<1>9. ASSUME NEW w \in Workers,
             LocalEmpty(w) \/ StealNothing(w) \/ Park(w) \/ ParkTimeout(w)
      PROVE  Pool!GiveUp(w) \/ UNCHANGED Pool!poolVars
  <2>1. UNCHANGED <<status, job, host>>
    BY <1>9 DEF LocalEmpty, StealNothing, Park, ParkTimeout
  <2>2. \/ /\ pc[w] \in {"local", "inject", "steal"}
           /\ pc' = [pc EXCEPT ![w] = pc'[w]]
           /\ pc'[w] \in {"inject", "steal", "park"}
        \/ /\ pc[w] \in {"park", "asleep"}
           /\ pc' = [pc EXCEPT ![w] = pc'[w]]
           /\ pc'[w] \in {"top", "asleep"}
    BY <1>9 DEF LocalEmpty, StealNothing, Park, ParkTimeout, Stealing, TypeOK
  <2>3. UNCHANGED <<stage, hand, owner>> /\ crew' = [crew EXCEPT ![w] = Post(w)']
    BY <1>5, <2>1, <2>2
  <2>4. \/ Post(w) = "in" /\ Post(w)' \in {"in", "out"}
        \/ Post(w) = "out" /\ Post(w)' = "out"
    BY <2>2 DEF Post
  <2>5. CASE Post(w) = "in" /\ Post(w)' = "out"
    BY <2>3, <2>5 DEF Pool!GiveUp
  <2>6. CASE Post(w)' = Post(w)
    <3>1. crew' = crew
      BY <2>3, <2>6
    <3> QED
      BY <2>3, <3>1 DEF Pool!poolVars
  <2> QED
    BY <2>4, <2>5, <2>6
<1>10. ASSUME NEW w \in Workers, NEW j \in Jobs, j = job[w], NEW how, NEW next,
              Finish(w) \/ Panic(w), Stage(j)' = how, Post(w)' = next
       PROVE  Pool!Over(w, how, next)
  <2>1. pc[w] = "run"
    BY <1>10 DEF Finish, Panic
  <2>2. /\ \A i \in Jobs \ {j} : status'[i] = status[i]
        /\ \A v \in Workers \ {w} : pc'[v] = pc[v] /\ job'[v] = job[v]
        /\ pc'[w] # "run" /\ host' = host
    BY <1>10 DEF Finish, Panic, TypeOK
  <2>3. stage' = [stage EXCEPT ![j] = how]
    <3>1. \A i \in Jobs \ {j} : Stage(i)' = Stage(i)
      BY <2>2 DEF Stage
    <3> QED
      BY <1>10, <2>1, <3>1
  <2>4. crew[w] = "busy" /\ crew' = [crew EXCEPT ![w] = next]
    <3>1. Post(w) = "busy"
      BY <2>1 DEF Post
    <3>2. \A v \in Workers \ {w} : Post(v)' = Post(v)
      BY <2>2 DEF Post
    <3> QED
      BY <1>10, <3>1, <3>2
  <2>5. hand[w] = j /\ hand' = [hand EXCEPT ![w] = None] /\ owner' = owner
    BY <1>10, <2>1, <2>2
  <2> QED
    BY <2>3, <2>4, <2>5 DEF Pool!Over
<1>11. ASSUME NEW w \in Workers, Finish(w) PROVE Pool!Finish(w)
  <2>1. PICK j \in Jobs : j = job[w]
    BY <1>11, NoneAssumption DEF Finish, TypeOK
  <2>2. status'[j] = "ran" /\ pc'[w] = "ran"
    BY <1>11, <2>1 DEF Finish, TypeOK
  <2>3. Stage(j)' = "ended" /\ Post(w)' = "out"
    BY <2>2 DEF Stage, Post
  <2> QED
    BY <1>10, <1>11, <2>1, <2>3 DEF Pool!Finish
<1>12. ASSUME NEW w \in Workers, Panic(w) PROVE Pool!Panic(w)
  <2>1. PICK j \in Jobs : j = job[w]
    BY <1>12, NoneAssumption DEF Panic, TypeOK
  <2>2. j \in Panicking /\ hand[w] = j
    BY <1>12, <2>1 DEF Panic
  <2>3. status'[j] = "lost" /\ pc'[w] = "dead"
    BY <1>12, <2>1 DEF Panic, TypeOK
  <2>4. Stage(j)' = "lost" /\ Post(w)' = "gone"
    BY <2>3 DEF Stage, Post
  <2> QED
    BY <1>10, <1>12, <2>1, <2>2, <2>4 DEF Pool!Panic
<1>13. ASSUME NEW w \in Workers, Discount(w) PROVE UNCHANGED Pool!poolVars
  <2>1. job[w] \in Jobs /\ status[job[w]] = "ran" /\ pc[w] = "ran"
    BY <1>13, NoneAssumption DEF Discount, TypeOK, JobsInOnePlace, InHand
  <2>2. \A j \in Jobs : Stage(j)' = Stage(j)
    BY <1>13, <2>1 DEF Discount, Stage, TypeOK
  <2>3. \A v \in Workers : /\ Post(v)' = Post(v)
                           /\ pc'[v] = "run" <=> pc[v] = "run"
                           /\ pc[v] = "run" => job'[v] = job[v]
    BY <1>13, <2>1 DEF Discount, Post, TypeOK
  <2> QED
    BY <1>13, <2>2, <2>3 DEF Discount, Pool!poolVars
<1>14. CASE ShutdownStore
  BY <1>14 DEF ShutdownStore, workerVars, Stage, Post, Pool!Close, Pool!PoolNext
<1>15. CASE ShutdownWake
  <2>1. UNCHANGED <<crew, hand>> /\ UNCHANGED <<stage, owner>>
    BY <1>3, <1>15, SameStages DEF ShutdownWake
  <2> QED
    BY <2>1 DEF Pool!poolVars
<1>16. CASE ShutdownJoin
  <2>1. \A w \in Workers : crew[w] = "gone"
    BY <1>16, PostValues DEF ShutdownJoin, Terminated
  <2>2. UNCHANGED <<stage, crew, hand>>
    BY <1>16 DEF ShutdownJoin, workerVars, Stage, Post
  <2>3. owner = "joining" /\ owner' = "down"
    BY <1>16 DEF ShutdownJoin
  <2> QED
    BY <2>1, <2>2, <2>3 DEF Pool!Join, Pool!PoolNext
<1>17. CASE UNCHANGED vars
  BY <1>17 DEF vars, Stage, Post, Pool!poolVars
<1> QED
  BY <1>1, <1>2, <1>4, <1>6, <1>8, <1>9, <1>11, <1>12, <1>13, <1>14, <1>15, <1>16, <1>17
  DEF Next, Spawn, Worker, Seek, RunBody, Shutdown, Pool!PoolNext

\* Every execution of the work-stealing scheduler is one of the pool without queues,
\* steals and wake-ups: what JobPool says of a shutdown and of a panic holds of it.
THEOREM Refinement == Spec => ImplementsJobPool
<1>1. Init => Pool!PoolInit
  <2> SUFFICES ASSUME Init PROVE Pool!PoolInit
    OBVIOUS
  <2>1. \A j \in Jobs : Stage(j) = "new"
    BY DEF Init, Stage
  <2>2. \A w \in Workers : Post(w) = "out" /\ pc[w] # "run"
    BY DEF Init, Post
  <2> QED
    BY <2>1, <2>2 DEF Init, Pool!PoolInit
<1>2. TypeOK /\ JobsInOnePlace /\ FlagTells /\ [Next]_vars
        => (TypeOK /\ JobsInOnePlace /\ FlagTells)'
  BY StepTypeOK, StepJobsInOnePlace, StepFlagTells
<1> QED
  BY <1>1, <1>2, InitTypeOK, InitJobsInOnePlace, InitFlagTells, StepImplementsPool, PTL
  DEF Spec, SafeSpec, ImplementsJobPool, Pool!PoolSpec
=============================================================================
