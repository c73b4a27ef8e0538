-------------------------------- MODULE Coop --------------------------------
(***************************************************************************)
(* The cooperative runtime, crates/draton-runtime/src/scheduler/coop.rs:   *)
(* one thread, a queue of tasks and no task switch.  A task that is        *)
(* spawned, yielded to or waited for is called, so what is suspended is a  *)
(* stack of frames, and a frame goes on only when every frame above it has *)
(* returned.  The frames are the program's main thread, tasks, and calls   *)
(* of run_to_completion (Loop).                                            *)
(*                                                                         *)
(* There is one thread, so the spin locks are always free and each         *)
(* operation is atomic up to the call it makes.  A send or a recv that can *)
(* neither proceed nor call a task spins: it has no step.                  *)
(***************************************************************************)
EXTENDS Naturals, Sequences, FiniteSets

CONSTANTS
  Main,       \* the program's main thread
  Loop,       \* a call of run_to_completion
  Tasks,      \* the tasks; each is spawned at most once
  Programs,   \* the possible assignments of operations to Main and the tasks
  Capacities  \* the capacities the channel may be created with

Actors == {Main} \cup Tasks
Ops == [op : {"spawn"}, task : Tasks] \cup [op : {"yield", "send", "recv", "shutdown"}]

ASSUME NamesAssumption == Main # Loop /\ Main \notin Tasks /\ Loop \notin Tasks
ASSUME TasksAssumption == IsFiniteSet(Tasks)
ASSUME ProgramsAssumption == Programs \subseteq [Actors -> Seq(Ops)]
ASSUME CapacitiesAssumption == Capacities \subseteq Nat

VARIABLES
  stack,     \* the frames, the one that runs last
  todo,      \* per actor, the operations it has not finished
  queue,     \* CoopScheduler::queue
  running,   \* CoopScheduler::running
  capacity,  \* CoopChanState::capacity
  buffered,  \* the number of messages in CoopChanState::buffer
  spawned,   \* history: the tasks spawned, in order
  called,    \* history: the tasks called, in order
  cleared    \* history: a task has called shutdown

vars == <<stack, todo, queue, running, capacity, buffered, spawned, called, cleared>>

Top == stack[Len(stack)]
Below == SubSeq(stack, 1, Len(stack) - 1)
Doing(a, op) == stack # <<>> /\ Top = a /\ todo[a] # <<>> /\ Head(todo[a]).op = op
Return(a) == todo' = [todo EXCEPT ![a] = Tail(@)]

\* Mutant of RunOnePending: the task taken is the one pushed last.
RunLastPending ==
  /\ queue # <<>>
  /\ queue' = SubSeq(queue, 1, Len(queue) - 1)
  /\ stack' = Append(stack, queue[Len(queue)])
  /\ called' = Append(called, queue[Len(queue)])

\* run_one_pending with a task in the queue: it is called.
RunOnePending ==
  /\ queue # <<>>
  /\ queue' = Tail(queue)
  /\ stack' = Append(stack, Head(queue))
  /\ called' = Append(called, Head(queue))

-----------------------------------------------------------------------------
Init ==
  /\ stack = <<Main>>
  /\ todo \in Programs
  /\ queue = <<>>
  /\ running = FALSE
  /\ \E c \in Capacities : capacity = IF c = 0 THEN 1 ELSE c
  /\ buffered = 0
  /\ spawned = <<>>
  /\ called = <<>>
  /\ cleared = FALSE

\* Mutant of Spawn: the test of running forgotten.
SpawnAlwaysRuns(a) ==
  /\ Doing(a, "spawn")
  /\ queue' = Append(queue, Head(todo[a]).task)
  /\ spawned' = Append(spawned, Head(todo[a]).task)
  /\ stack' = Append(stack, Loop)
  /\ running' = TRUE
  /\ Return(a)
  /\ UNCHANGED <<capacity, buffered, called, cleared>>

\* The outermost spawn runs the queue to its end before it returns.
Spawn(a) ==
  /\ Doing(a, "spawn")
  /\ queue' = Append(queue, Head(todo[a]).task)
  /\ spawned' = Append(spawned, Head(todo[a]).task)
  /\ stack' = IF running THEN stack ELSE Append(stack, Loop)
  /\ running' = TRUE
  /\ Return(a)
  /\ UNCHANGED <<capacity, buffered, called, cleared>>

LoopCalls ==
  /\ Top = Loop
  /\ RunOnePending
  /\ UNCHANGED <<todo, running, capacity, buffered, spawned, cleared>>

\* Mutant of LoopEnds: running is not reset.
LoopEndsRunning ==
  /\ Top = Loop
  /\ queue = <<>>
  /\ stack' = Below
  /\ UNCHANGED <<todo, queue, running, capacity, buffered, spawned, called, cleared>>

\* With one thread, the second look at the queue finds it empty too.
LoopEnds ==
  /\ Top = Loop
  /\ queue = <<>>
  /\ running' = FALSE
  /\ stack' = Below
  /\ UNCHANGED <<todo, queue, capacity, buffered, spawned, called, cleared>>

\* The frame of a task whose function has returned, or of main at its end.
FrameEnds(a) ==
  /\ stack # <<>> /\ Top = a
  /\ todo[a] = <<>>
  /\ stack' = Below
  /\ UNCHANGED <<todo, queue, running, capacity, buffered, spawned, called, cleared>>

Yield(a) ==
  /\ Doing(a, "yield")
  /\ IF queue = <<>> THEN UNCHANGED <<stack, queue, called>> ELSE RunOnePending
  /\ Return(a)
  /\ UNCHANGED <<running, capacity, buffered, spawned, cleared>>

Shutdown(a) ==
  /\ Doing(a, "shutdown")
  /\ queue' = <<>>
  /\ running' = FALSE
  /\ cleared' = (cleared \/ a # Main)
  /\ Return(a)
  /\ UNCHANGED <<stack, capacity, buffered, spawned, called>>

-----------------------------------------------------------------------------
(* The channel *)

HasRoom == buffered < capacity

Send(a) ==
  /\ Doing(a, "send")
  /\ HasRoom
  /\ buffered' = buffered + 1
  /\ Return(a)
  /\ UNCHANGED <<stack, queue, running, capacity, spawned, called, cleared>>

\* The loop of send calls a pending task and tries again.
SendYields(a) ==
  /\ Doing(a, "send")
  /\ ~HasRoom
  /\ RunOnePending
  /\ UNCHANGED <<todo, running, capacity, buffered, spawned, cleared>>

Recv(a) ==
  /\ Doing(a, "recv")
  /\ buffered > 0
  /\ buffered' = buffered - 1
  /\ Return(a)
  /\ UNCHANGED <<stack, queue, running, capacity, spawned, called, cleared>>

RecvYields(a) ==
  /\ Doing(a, "recv")
  /\ buffered = 0
  /\ RunOnePending
  /\ UNCHANGED <<todo, running, capacity, buffered, spawned, cleared>>

-----------------------------------------------------------------------------
Act(a) == Spawn(a) \/ FrameEnds(a) \/ Yield(a) \/ Shutdown(a)
          \/ Send(a) \/ SendYields(a) \/ Recv(a) \/ RecvYields(a)

Next == stack # <<>> /\ (LoopCalls \/ LoopEnds \/ \E a \in Actors : Act(a))

\* The one thread runs.
Spec == Init /\ [][Next]_vars /\ WF_vars(Next)

-----------------------------------------------------------------------------
(* Properties *)

\* Type invariant.  The channel never holds more than its capacity.
TypeOK ==
  /\ stack \in Seq(Actors \cup {Loop})
  /\ todo \in [Actors -> Seq(Ops)]
  /\ queue \in Seq(Tasks)
  /\ running \in BOOLEAN
  /\ capacity \in Nat \ {0}
  /\ buffered \in 0..capacity
  /\ spawned \in Seq(Tasks)
  /\ called \in Seq(Tasks)
  /\ cleared \in BOOLEAN

\* running says that a loop is on the stack, and there is one at most, so that
\* a task that spawns goes on at once and the queue is not run twice over;
\* unless a task calls shutdown, which resets running under a loop's feet.
Loops == {i \in DOMAIN stack : stack[i] = Loop}
OneLoop ==
  ~cleared => /\ Cardinality(Loops) <= 1
              /\ running <=> Loops # {}

\* Tasks are called in the order in which they were spawned, each once, however
\* the calls nest: what is not in the queue has been called, or was dropped by
\* shutdown.
CalledInOrder ==
  ~cleared => spawned = called \o queue

\* When main goes on after a spawn, and when it has ended, every task that was
\* spawned has come to its end, the tasks' own spawns included: the outermost
\* spawn runs the queue empty, and a frame is left by returning only.  (So a
\* main that waits for a message waits in vain.)
MainSeesAllDone ==
  ~cleared /\ (stack # <<>> => Top = Main) =>
    \A i \in DOMAIN spawned : todo[spawned[i]] = <<>>

\* A program that sends as often as it receives comes to its end, or to a frame that
\* waits for ever: nothing is queued that it could call, and who would have to send or
\* receive, or to spawn who does, lies beneath it on the stack.  The second never
\* happens if the channel has room for every message and every send comes from tasks
\* that were spawned before any task that receives and before main does.
Is(op) == {a \in Actors : \E i \in DOMAIN todo[a] : todo[a][i].op = op}
Uses(op) == UNION {{a} \X {i \in DOMAIN todo[a] : todo[a][i].op = op} : a \in Actors}
Balanced ==
  /\ Is("shutdown") = {} /\ Is("send") \cap Is("recv") = {}
  /\ Cardinality(Uses("send")) = Cardinality(Uses("recv"))
ProducersFirst ==
  /\ Main \notin Is("send") /\ Is("spawn") = {Main} /\ Is("yield") = {}
  /\ \A i, k \in DOMAIN todo[Main] :
       todo[Main][i].op = "spawn" /\ todo[Main][k].op = "spawn"
       /\ todo[Main][i].task \in Is("recv") /\ todo[Main][k].task \in Is("send")
         => k < i
  /\ \A i, k \in DOMAIN todo[Main] : todo[Main][i].op = "recv" /\ todo[Main][k].op = "spawn"
         => k < i
AllDone == \A a \in Actors : todo[a] = <<>>
Waits(op, partner) ==
  /\ stack # <<>> /\ Top # Loop /\ Doing(Top, op)
  /\ \E i \in DOMAIN Below : stack[i] # Loop
       /\ \E k \in DOMAIN todo[stack[i]] : todo[stack[i]][k].op \in {partner, "spawn"}
Buried ==
  /\ queue = <<>>
  /\ \/ ~HasRoom /\ Waits("send", "recv")
     \/ buffered = 0 /\ Waits("recv", "send")
EndsUnlessBuried ==
  Balanced => \/ <>AllDone
              \/ <>[]Buried /\ ~(ProducersFirst /\ Cardinality(Uses("send")) <= capacity)
=============================================================================
