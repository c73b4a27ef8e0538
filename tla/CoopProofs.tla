------------------------------ MODULE CoopProofs ------------------------------
(***************************************************************************)
(* Proofs about Coop, for any tasks, programs and capacities.  The main    *)
(* thread's frame is the lowest (MainLowest), so when main runs, nothing   *)
(* else is on the stack: then the loop has ended, and with it the queue    *)
(* (QueueHasLoop), which is why a shutdown by main drops no task and       *)
(* resets no flag under a loop.  A task that was called keeps its frame    *)
(* until it has nothing left to do (CalledGoOn): with the empty queue,     *)
(* main alone on the stack sees every task done.                           *)
(***************************************************************************)
EXTENDS Coop, FiniteSetTheorems, TLAPS

MainLowest == \A i \in DOMAIN stack : stack[i] = Main => i = 1

\* running says that a loop is on the stack, and there is one.
LoopFlag ==
  ~cleared =>
    /\ \A i, k \in Loops : i = k
    /\ running <=> Loops # {}

QueueHasLoop == ~cleared /\ queue # <<>> => Loops # {}

\* A task that was called is on the stack until it has nothing left to do.
CalledGoOn ==
  \A i \in DOMAIN called :
    todo[called[i]] = <<>> \/ \E k \in DOMAIN stack : stack[k] = called[i]

IInv == TypeOK /\ MainLowest /\ LoopFlag /\ QueueHasLoop /\ CalledInOrder /\ CalledGoOn

-----------------------------------------------------------------------------
(* Sequences and stacks *)

\* A frame is pushed: the others stay where they are.
LEMMA Pushed ==
  ASSUME NEW S, NEW s \in Seq(S), NEW f \in S
  PROVE  /\ Append(s, f) \in Seq(S) /\ DOMAIN Append(s, f) = DOMAIN s \cup {Len(s) + 1}
         /\ Append(s, f)[Len(s) + 1] = f /\ Len(s) + 1 \notin DOMAIN s
         /\ \A i \in DOMAIN s : Append(s, f)[i] = s[i]
  OBVIOUS

\* The frame on top is popped: the others stay where they are.
LEMMA Popped ==
  ASSUME NEW S, NEW s \in Seq(S), s # <<>>
  PROVE  LET t == SubSeq(s, 1, Len(s) - 1) IN
         /\ t \in Seq(S) /\ DOMAIN t = DOMAIN s \ {Len(s)} /\ Len(s) \in DOMAIN s
         /\ \A i \in DOMAIN t : t[i] = s[i]
<1>1. Len(s) \in Nat \ {0} /\ DOMAIN s = 1..Len(s)
  OBVIOUS
<1>2. SubSeq(s, 1, Len(s) - 1) \in Seq(S) /\ Len(SubSeq(s, 1, Len(s) - 1)) = Len(s) - 1
  BY <1>1
<1>3. \A i \in 1..(Len(s) - 1) : SubSeq(s, 1, Len(s) - 1)[i] = s[i]
  BY <1>1
<1> QED
  BY <1>1, <1>2, <1>3

\* A queue from which the first element is taken is that element and the rest.
LEMMA TakenFirst ==
  ASSUME NEW S, NEW s \in Seq(S), s # <<>>, NEW c \in Seq(S)
  PROVE  /\ Head(s) \in S /\ Tail(s) \in Seq(S) /\ Append(c, Head(s)) \in Seq(S)
         /\ Append(c, Head(s)) \o Tail(s) = c \o s
  OBVIOUS

LEMMA AddedLast ==
  ASSUME NEW S, NEW s \in Seq(S), NEW c \in Seq(S), NEW x \in S
  PROVE  Append(c \o s, x) = c \o Append(s, x)
  OBVIOUS

\* What a push does to the loops on the stack and to main's place on it.
LEMMA PushFrame ==
  ASSUME TypeOK, NEW f \in Tasks \cup {Loop}, stack' = Append(stack, f)
  PROVE  /\ Loops' = Loops \cup (IF f = Loop THEN {Len(stack) + 1} ELSE {})
         /\ MainLowest => MainLowest'
<1>1. stack \in Seq(Actors \cup {Loop}) /\ f \in Actors \cup {Loop} /\ f # Main
  BY NamesAssumption DEF TypeOK, Actors
<1> QED
  BY <1>1, Pushed DEF Loops, MainLowest

\* What a pop does.
LEMMA PopFrame ==
  ASSUME TypeOK, stack # <<>>, stack' = Below
  PROVE  /\ Loops' = Loops \ {Len(stack)}
         /\ MainLowest => MainLowest'
         /\ Len(stack) \in DOMAIN stack
<1>1. stack \in Seq(Actors \cup {Loop})
  BY DEF TypeOK
<1> QED
  BY <1>1, Popped DEF Loops, MainLowest, Below

-----------------------------------------------------------------------------
(* Types *)

LEMMA InitTypeOK == Init => TypeOK
<1> SUFFICES ASSUME Init PROVE TypeOK
  OBVIOUS
<1>1. stack \in Seq(Actors \cup {Loop})
  BY DEF Init, Actors
<1>2. capacity \in Nat \ {0}
  BY CapacitiesAssumption DEF Init
<1>3. todo \in [Actors -> Seq(Ops)]
  BY ProgramsAssumption DEF Init
<1>4. /\ queue \in Seq(Tasks) /\ spawned \in Seq(Tasks) /\ called \in Seq(Tasks)
      /\ buffered \in 0..capacity
  BY <1>2 DEF Init
<1> QED
  BY <1>1, <1>2, <1>3, <1>4 DEF Init, TypeOK

\* The operation an actor is at.
LEMMA OpFacts ==
  ASSUME TypeOK, NEW a \in Actors, NEW op, Doing(a, op)
  PROVE  /\ stack # <<>> /\ Top = a
         /\ Return(a) => todo' \in [Actors -> Seq(Ops)]
         /\ op = "spawn" => Head(todo[a]).task \in Tasks
<1>1. todo[a] \in Seq(Ops) /\ todo[a] # <<>>
  BY DEF TypeOK, Doing
<1>2. Head(todo[a]) \in Ops /\ Tail(todo[a]) \in Seq(Ops)
  BY <1>1
<1>3. op = "spawn" => Head(todo[a]).task \in Tasks
  BY <1>2 DEF Ops, Doing
<1>4. Return(a) => todo' \in [Actors -> Seq(Ops)]
  BY <1>2 DEF Return, TypeOK
<1> QED
  BY <1>3, <1>4 DEF Doing

\* A call of the next task in the queue.
LEMMA RunFacts ==
  ASSUME TypeOK, RunOnePending
  PROVE  /\ stack' \in Seq(Actors \cup {Loop}) /\ queue' \in Seq(Tasks) /\ called' \in Seq(Tasks)
         /\ called' \o queue' = called \o queue
         /\ Loops' = Loops
         /\ MainLowest => MainLowest'
<1>1. Head(queue) \in Tasks /\ Tail(queue) \in Seq(Tasks)
      /\ Append(called, Head(queue)) \in Seq(Tasks)
      /\ Append(called, Head(queue)) \o Tail(queue) = called \o queue
  BY TakenFirst DEF TypeOK, RunOnePending
<1>2. stack' = Append(stack, Head(queue)) /\ Head(queue) # Loop
  BY <1>1, NamesAssumption DEF RunOnePending
<1>3. stack' \in Seq(Actors \cup {Loop})
  BY <1>1, <1>2 DEF TypeOK, Actors
<1>4. Loops' = Loops /\ (MainLowest => MainLowest')
  BY <1>1, <1>2, PushFrame
<1> QED
  BY <1>1, <1>3, <1>4 DEF RunOnePending

LEMMA NextTypeOK == ASSUME TypeOK, [Next]_vars PROVE TypeOK'
<1>1. ASSUME NEW a \in Actors, Spawn(a) PROVE TypeOK'
  <2>1. todo' \in [Actors -> Seq(Ops)] /\ Head(todo[a]).task \in Tasks
    BY <1>1, OpFacts DEF Spawn
  <2>2. queue' \in Seq(Tasks) /\ spawned' \in Seq(Tasks)
    BY <1>1, <2>1 DEF Spawn, TypeOK
  <2>3. stack' \in Seq(Actors \cup {Loop})
    BY <1>1 DEF Spawn, TypeOK
  <2> QED
    BY <1>1, <2>1, <2>2, <2>3 DEF Spawn, TypeOK
<1>2. CASE LoopCalls
  BY <1>2, RunFacts DEF LoopCalls, TypeOK
<1>3. CASE stack # <<>> /\ LoopEnds
  BY <1>3, Popped DEF LoopEnds, Below, TypeOK
<1>4. ASSUME NEW a \in Actors, FrameEnds(a) PROVE TypeOK'
  BY <1>4, Popped DEF FrameEnds, Below, TypeOK
<1>5. ASSUME NEW a \in Actors, Yield(a) PROVE TypeOK'
  BY <1>5, OpFacts, RunFacts DEF Yield, TypeOK
<1>6. ASSUME NEW a \in Actors, Shutdown(a) PROVE TypeOK'
  <2>1. cleared' \in BOOLEAN
    BY <1>6 DEF Shutdown, TypeOK
  <2>2. todo' \in [Actors -> Seq(Ops)] /\ queue' \in Seq(Tasks)
    BY <1>6, OpFacts DEF Shutdown
  <2> QED
    BY <1>6, <2>1, <2>2 DEF Shutdown, TypeOK
<1>7. ASSUME NEW a \in Actors, Send(a) PROVE TypeOK'
  BY <1>7, OpFacts DEF Send, HasRoom, TypeOK
<1>8. ASSUME NEW a \in Actors, SendYields(a) PROVE TypeOK'
  BY <1>8, RunFacts DEF SendYields, TypeOK
<1>9. ASSUME NEW a \in Actors, Recv(a) PROVE TypeOK'
  BY <1>9, OpFacts DEF Recv, TypeOK
<1>10. ASSUME NEW a \in Actors, RecvYields(a) PROVE TypeOK'
  BY <1>10, RunFacts DEF RecvYields, TypeOK
<1>11. CASE UNCHANGED vars
  BY <1>11 DEF vars, TypeOK
<1> QED
  BY <1>1, <1>2, <1>3, <1>4, <1>5, <1>6, <1>7, <1>8, <1>9, <1>10, <1>11 DEF Next, Act

-----------------------------------------------------------------------------
(* The loop, the queue and the order *)

\* When main runs, there is no loop.
LEMMA MainAlone ==
  ASSUME TypeOK, MainLowest, stack # <<>>, Top = Main
  PROVE  Loops = {}
<1>1. Len(stack) \in DOMAIN stack /\ DOMAIN stack = 1..Len(stack)
  BY DEF TypeOK
<1>2. Len(stack) = 1 /\ stack[1] = Main
  BY <1>1 DEF MainLowest, Top
<1> QED
  BY <1>1, <1>2, NamesAssumption DEF Loops

\* The part of IInv behind TypeOK.
Ordered == MainLowest /\ LoopFlag /\ QueueHasLoop /\ CalledInOrder

LEMMA InitOrdered == Init => Ordered
<1> SUFFICES ASSUME Init PROVE Ordered
  OBVIOUS
<1>1. stack = <<Main>> /\ DOMAIN stack = {1} /\ stack[1] = Main
  BY DEF Init
<1>2. MainLowest /\ Loops = {}
  BY <1>1, NamesAssumption DEF MainLowest, Loops
<1>3. spawned = called \o queue
  BY DEF Init
<1> QED
  BY <1>2, <1>3 DEF Init, Ordered, LoopFlag, QueueHasLoop, CalledInOrder

\* A step that only calls the next task, or calls none.
LEMMA CallKeeps ==
  ASSUME TypeOK, Ordered, RunOnePending \/ UNCHANGED <<stack, queue, called>>,
         UNCHANGED <<running, spawned, cleared>>
  PROVE  Ordered'
<1>1. CASE RunOnePending
  BY <1>1, RunFacts DEF Ordered, LoopFlag, QueueHasLoop, CalledInOrder, RunOnePending
<1>2. CASE UNCHANGED <<stack, queue, called>>
  BY <1>2 DEF Ordered, MainLowest, LoopFlag, QueueHasLoop, CalledInOrder, Loops
<1> QED
  BY <1>1, <1>2

LEMMA NextOrdered == ASSUME TypeOK, Ordered, [Next]_vars PROVE Ordered'
<1>1. ASSUME NEW a \in Actors, Spawn(a) PROVE Ordered'
  <2>1. Head(todo[a]).task \in Tasks
    BY <1>1, OpFacts DEF Spawn
  <2>2. ~cleared => spawned' = called' \o queue'
    BY <1>1, <2>1, AddedLast DEF Spawn, TypeOK, Ordered, CalledInOrder
  <2>3. CASE running
    BY <1>1, <2>2, <2>3 DEF Spawn, Ordered, MainLowest, LoopFlag, QueueHasLoop, CalledInOrder,
       Loops
  <2>4. CASE ~running
    <3>1. Loops' = Loops \cup {Len(stack) + 1} /\ MainLowest'
      BY <1>1, <2>4, PushFrame DEF Spawn, Ordered
    <3>2. ~cleared => Loops = {}
      BY <2>4 DEF Ordered, LoopFlag
    <3> QED
      BY <1>1, <2>2, <3>1, <3>2 DEF Spawn, Ordered, LoopFlag, QueueHasLoop, CalledInOrder
  <2> QED
    BY <2>3, <2>4
<1>2. CASE LoopCalls
  BY <1>2, CallKeeps DEF LoopCalls
<1>3. CASE stack # <<>> /\ LoopEnds
  <2>1. Loops' = Loops \ {Len(stack)} /\ MainLowest' /\ Len(stack) \in Loops
    BY <1>3, PopFrame DEF LoopEnds, Ordered, Top, Loops
  <2>2. ~cleared => Loops' = {}
    BY <2>1 DEF Ordered, LoopFlag
  <2> QED
    BY <1>3, <2>1, <2>2 DEF LoopEnds, Ordered, LoopFlag, QueueHasLoop, CalledInOrder
<1>4. ASSUME NEW a \in Actors, FrameEnds(a) PROVE Ordered'
  <2>1. Loops' = Loops \ {Len(stack)} /\ MainLowest'
    BY <1>4, PopFrame DEF FrameEnds, Ordered
  <2>2. Len(stack) \notin Loops
    BY <1>4, NamesAssumption DEF FrameEnds, Top, Loops, Actors
  <2> QED
    BY <1>4, <2>1, <2>2 DEF FrameEnds, Ordered, LoopFlag, QueueHasLoop, CalledInOrder
<1>5. ASSUME NEW a \in Actors, Yield(a) PROVE Ordered'
  BY <1>5, CallKeeps DEF Yield
<1>6. ASSUME NEW a \in Actors, Shutdown(a) PROVE Ordered'
  <2>1. MainLowest' /\ Loops' = Loops
    BY <1>6 DEF Shutdown, Ordered, MainLowest, Loops
  <2> SUFFICES ASSUME ~cleared, a = Main PROVE Ordered'
    BY <1>6, <2>1 DEF Shutdown, Ordered, LoopFlag, QueueHasLoop, CalledInOrder
  <2>2. Loops = {}
    BY <1>6, MainAlone DEF Shutdown, Doing, Ordered
  <2>3. queue = <<>>
    BY <2>2 DEF Ordered, QueueHasLoop
  <2> QED
    BY <1>6, <2>1, <2>2, <2>3 DEF Shutdown, Ordered, LoopFlag, QueueHasLoop, CalledInOrder
<1>7. ASSUME NEW a \in Actors, Send(a) PROVE Ordered'
  BY <1>7, CallKeeps DEF Send
<1>8. ASSUME NEW a \in Actors, SendYields(a) PROVE Ordered'
  BY <1>8, CallKeeps DEF SendYields
<1>9. ASSUME NEW a \in Actors, Recv(a) PROVE Ordered'
  BY <1>9, CallKeeps DEF Recv
<1>10. ASSUME NEW a \in Actors, RecvYields(a) PROVE Ordered'
  BY <1>10, CallKeeps DEF RecvYields
<1>11. CASE UNCHANGED vars
  BY <1>11, CallKeeps DEF vars
<1> QED
  BY <1>1, <1>2, <1>3, <1>4, <1>5, <1>6, <1>7, <1>8, <1>9, <1>10, <1>11 DEF Next, Act

-----------------------------------------------------------------------------
(* What was called *)

\* Tasks called before this step, still on the stack or at their end.
OldGoOn ==
  \A i \in DOMAIN called :
    todo'[called[i]] = <<>> \/ \E k \in DOMAIN stack' : stack'[k] = called[i]

\* A step that leaves the frames where they are, and takes operations from todo only
\* where its frame stays.
LEMMA StackKeeps ==
  ASSUME TypeOK, CalledGoOn, NEW a \in Actors,
         \A k \in DOMAIN stack : k \in DOMAIN stack' /\ stack'[k] = stack[k],
         \E k \in DOMAIN stack : stack[k] = a,
         UNCHANGED todo \/ Return(a)
  PROVE  OldGoOn
<1> SUFFICES ASSUME NEW i \in DOMAIN called
             PROVE  todo'[called[i]] = <<>> \/ \E k \in DOMAIN stack' : stack'[k] = called[i]
  BY DEF OldGoOn
<1>1. CASE \E k \in DOMAIN stack : stack[k] = called[i]
  BY <1>1
<1>2. CASE todo[called[i]] = <<>> /\ called[i] # a
  <2>1. called[i] \in Actors
    BY DEF TypeOK, Actors
  <2> QED
    BY <1>2, <2>1 DEF Return, TypeOK
<1> QED
  BY <1>1, <1>2 DEF CalledGoOn

\* The frame that runs is on the stack.
LEMMA TopOnStack ==
  ASSUME TypeOK, NEW a, stack # <<>>, Top = a
  PROVE  \E k \in DOMAIN stack : stack[k] = a
  BY DEF TypeOK, Top

\* A call puts the task on the stack.
LEMMA CallGoesOn ==
  ASSUME TypeOK, RunOnePending
  PROVE  /\ \A k \in DOMAIN stack : k \in DOMAIN stack' /\ stack'[k] = stack[k]
         /\ OldGoOn => CalledGoOn'
<1> DEFINE t == Head(queue)
<1>1. t \in Tasks /\ stack' = Append(stack, t) /\ called' = Append(called, t)
  BY TakenFirst DEF TypeOK, RunOnePending
<1>2. /\ \A k \in DOMAIN stack : k \in DOMAIN stack' /\ stack'[k] = stack[k]
      /\ Len(stack) + 1 \in DOMAIN stack' /\ stack'[Len(stack) + 1] = t
  BY <1>1, Pushed DEF TypeOK, Actors
<1>3. /\ DOMAIN called' = DOMAIN called \cup {Len(called) + 1}
      /\ called'[Len(called) + 1] = t
      /\ \A i \in DOMAIN called : called'[i] = called[i]
  BY <1>1, Pushed DEF TypeOK
<1> HIDE DEF t
<1> QED
  BY <1>2, <1>3 DEF OldGoOn, CalledGoOn

LEMMA InitCalledGoOn == Init => CalledGoOn
<1>1. called = <<>> => DOMAIN called = {}
  OBVIOUS
<1> QED
  BY <1>1 DEF Init, CalledGoOn

LEMMA NextCalledGoOn == ASSUME TypeOK, CalledGoOn, [Next]_vars PROVE CalledGoOn'
<1>1. ASSUME NEW a \in Actors, Spawn(a) PROVE CalledGoOn'
  <2>1. \A k \in DOMAIN stack : k \in DOMAIN stack' /\ stack'[k] = stack[k]
    BY <1>1, Pushed DEF Spawn, TypeOK
  <2>2. OldGoOn
    BY <1>1, <2>1, StackKeeps, TopOnStack DEF Spawn, Doing
  <2> QED
    BY <1>1, <2>2 DEF Spawn, OldGoOn, CalledGoOn
<1>2. CASE stack # <<>> /\ LoopCalls
  <2>1. OldGoOn
    BY <1>2, CallGoesOn DEF LoopCalls, CalledGoOn, OldGoOn
  <2> QED
    BY <1>2, <2>1, CallGoesOn DEF LoopCalls
<1>3. ASSUME stack # <<>>, stack' = Below, UNCHANGED <<todo, called>>,
             Top = Loop \/ todo[Top] = <<>>
      PROVE  CalledGoOn'
  <2>1. /\ DOMAIN stack' = DOMAIN stack \ {Len(stack)}
        /\ \A k \in DOMAIN stack' : stack'[k] = stack[k]
    BY <1>3, Popped DEF Below, TypeOK
  <2> SUFFICES ASSUME NEW i \in DOMAIN called
               PROVE  todo[called[i]] = <<>> \/ \E k \in DOMAIN stack' : stack'[k] = called[i]
    BY <1>3 DEF CalledGoOn
  <2>2. called[i] \in Tasks
    BY DEF TypeOK
  <2>3. CASE called[i] = Top
    BY <1>3, <2>2, <2>3, NamesAssumption
  <2>4. CASE called[i] # Top
    BY <2>1, <2>4 DEF CalledGoOn, Top
  <2> QED
    BY <2>3, <2>4
<1>4. CASE stack # <<>> /\ LoopEnds
  BY <1>3, <1>4 DEF LoopEnds
<1>5. ASSUME NEW a \in Actors, FrameEnds(a) PROVE CalledGoOn'
  BY <1>3, <1>5 DEF FrameEnds
<1>6. ASSUME NEW a \in Actors, stack # <<>>, Top = a, UNCHANGED todo \/ Return(a),
             RunOnePending \/ UNCHANGED <<stack, called>>
      PROVE  CalledGoOn'
  <2>1. \A k \in DOMAIN stack : k \in DOMAIN stack' /\ stack'[k] = stack[k]
    BY <1>6, CallGoesOn
  <2>2. OldGoOn
    BY <1>6, <2>1, StackKeeps, TopOnStack
  <2>3. CASE RunOnePending
    BY <2>2, <2>3, CallGoesOn
  <2>4. CASE UNCHANGED <<stack, called>>
    BY <2>2, <2>4 DEF OldGoOn, CalledGoOn
  <2> QED
    BY <1>6, <2>3, <2>4
<1>7. ASSUME NEW a \in Actors, Yield(a) \/ Shutdown(a) PROVE CalledGoOn'
  BY <1>6, <1>7 DEF Yield, Shutdown, Doing
<1>8. ASSUME NEW a \in Actors, Send(a) \/ SendYields(a) \/ Recv(a) \/ RecvYields(a)
      PROVE  CalledGoOn'
  BY <1>6, <1>8 DEF Send, SendYields, Recv, RecvYields, Doing
<1>9. CASE UNCHANGED vars
  BY <1>9 DEF vars, CalledGoOn
<1> QED
  BY <1>1, <1>2, <1>4, <1>5, <1>7, <1>8, <1>9 DEF Next, Act

-----------------------------------------------------------------------------
(* The theorems *)

LEMMA Invariance == Spec => []IInv
<1>1. Init => IInv
  BY InitTypeOK, InitOrdered, InitCalledGoOn DEF IInv, Ordered
<1>2. IInv /\ [Next]_vars => IInv'
  BY NextTypeOK, NextOrdered, NextCalledGoOn DEF IInv, Ordered
<1> QED
  BY <1>1, <1>2, PTL DEF Spec

\* Types; and the channel never holds more than its capacity.
THEOREM TypeCorrect == Spec => []TypeOK
<1>1. IInv => TypeOK
  BY DEF IInv
<1> QED
  BY <1>1, Invariance, PTL

\* However spawns, yields and channel operations nest, there is one
\* run_to_completion at most, and running says whether there is one, as long as
\* no task calls shutdown.
THEOREM OneLoopCorrect == Spec => []OneLoop
<1>1. IInv => OneLoop
  <2> SUFFICES ASSUME IInv, ~cleared
               PROVE  Cardinality(Loops) <= 1 /\ (running <=> Loops # {})
    BY DEF OneLoop
  <2>1. (running <=> Loops # {}) /\ \A i, k \in Loops : i = k
    BY DEF IInv, LoopFlag
  <2>2. CASE Loops = {}
    BY <2>1, <2>2, FS_EmptySet
  <2>3. ASSUME NEW i \in Loops PROVE Cardinality(Loops) <= 1
    <3>1. Loops = {i}
      BY <2>1
    <3> QED
      BY <3>1, FS_Singleton
  <2> QED
    BY <2>1, <2>2, <2>3
<1> QED
  BY <1>1, Invariance, PTL

\* Tasks are called in the order of their spawns, whoever calls them: the loop,
\* a yield, a send or a recv (run_one_pending).
THEOREM CalledInOrderCorrect == Spec => []CalledInOrder
<1>1. IInv => CalledInOrder
  BY DEF IInv
<1> QED
  BY <1>1, Invariance, PTL

\* When main goes on after a spawn, and when it has ended, every task spawned so
\* far has come to its end (spawn, run_to_completion): the cooperative runtime
\* leaves no task behind, as long as none calls shutdown.
THEOREM MainSeesAllDoneCorrect == Spec => []MainSeesAllDone
<1>1. IInv => MainSeesAllDone
  <2> SUFFICES ASSUME IInv, ~cleared, stack # <<>> => Top = Main, NEW i \in DOMAIN spawned
               PROVE  todo[spawned[i]] = <<>>
    BY DEF MainSeesAllDone
  <2>1. Loops = {}
    <3>1. CASE stack = <<>>
      BY <3>1 DEF Loops
    <3>2. CASE stack # <<>>
      BY <3>2, MainAlone DEF IInv
    <3> QED
      BY <3>1, <3>2
  <2>2. queue = <<>>
    BY <2>1 DEF IInv, QueueHasLoop
  <2>3. spawned = called
    BY <2>2 DEF IInv, CalledInOrder, TypeOK
  <2>4. spawned[i] \in Tasks
    BY DEF IInv, TypeOK
  <2>5. \A k \in DOMAIN stack : stack[k] = Main
    <3>1. CASE stack = <<>>
      BY <3>1
    <3>2. CASE stack # <<>>
      <4>1. Len(stack) \in DOMAIN stack /\ DOMAIN stack = 1..Len(stack)
        BY <3>2 DEF IInv, TypeOK
      <4>2. Len(stack) = 1 /\ stack[1] = Main
        BY <3>2, <4>1 DEF IInv, MainLowest, Top
      <4> QED
        BY <4>1, <4>2
    <3> QED
      BY <3>1, <3>2
  <2> QED
    BY <2>3, <2>4, <2>5, NamesAssumption DEF IInv, CalledGoOn
<1> QED
  BY <1>1, Invariance, PTL
=============================================================================
