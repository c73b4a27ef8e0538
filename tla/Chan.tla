-------------------------------- MODULE Chan --------------------------------
(***************************************************************************)
(* The threaded runtime's channel, crates/draton-runtime/src/scheduler/    *)
(* channel.rs: a VecDeque under a Mutex with two condition variables,      *)
(* send_cv and recv_cv.                                                    *)
(*                                                                         *)
(* Every access to the channel state happens with the mutex held, and the  *)
(* mutex is given up only by returning or by Condvar::wait.  So the unit   *)
(* of interleaving is the stretch of code from one acquisition of the      *)
(* mutex to the point where it is given up: from entering send or recv, or *)
(* from being woken, to the return or to the next wait.  Threads that want *)
(* the mutex (phases "entering" and "woken") compete for it in any order:  *)
(* std's mutex and condition variable are not fair, and a thread that just *)
(* arrived may overtake one that was notified.                             *)
(***************************************************************************)
EXTENDS Naturals, Sequences, FiniteSets

CONSTANTS
  Threads,     \* the threads that call the channel
  Plans,       \* the possible assignments of call sequences to threads
  Capacities   \* the capacities Chan::new may be given

Kinds == {"send", "recv"}

ASSUME ThreadsAssumption == IsFiniteSet(Threads)
ASSUME PlansAssumption == Plans \subseteq [Threads -> Seq(Kinds)]
ASSUME CapacitiesAssumption == Capacities \subseteq Nat

VARIABLES
  capacity,          \* ChanState::capacity, as given to Chan::new
  buffer,            \* ChanState::buffer
  blocked_senders,   \* ChanState::blocked_senders
  blocked_receivers, \* ChanState::blocked_receivers
  phase,             \* where each thread is: see Phases
  todo,              \* per thread, the calls it has not finished, the current one first
  sent,              \* history: every message pushed, in order
  received           \* history: every message popped, in order

vars == <<capacity, buffer, blocked_senders, blocked_receivers, phase, todo,
          sent, received>>

\* "entering": has called and wants the mutex;  "asleep": in Condvar::wait;
\* "woken": notified (or spuriously awake) and wants the mutex back.
Phases == {"idle", "entering", "asleep", "woken"}

Kind(t) == Head(todo[t])
Message(t) == <<t, Len(todo[t])>>
Messages == Threads \X Nat

\* Mutant of EffectiveCapacity: max(1) forgotten.
CapacityAsGiven == capacity

EffectiveCapacity == IF capacity = 0 THEN 1 ELSE capacity

\* The threads of one kind of call in one phase: In("asleep", "send") is the
\* set of threads waiting on send_cv.
In(ph, kind) == {t \in Threads : phase[t] = ph /\ Kind(t) = kind}

-----------------------------------------------------------------------------
Init ==
  /\ capacity \in Capacities
  /\ buffer = <<>>
  /\ blocked_senders = 0
  /\ blocked_receivers = 0
  /\ phase = [t \in Threads |-> "idle"]
  /\ todo \in Plans
  /\ sent = <<>>
  /\ received = <<>>

\* A thread enters ffi_send or ffi_recv with a live channel pointer.
Call(t) ==
  /\ phase[t] = "idle"
  /\ todo[t] # <<>>
  /\ phase' = [phase EXCEPT ![t] = "entering"]
  /\ UNCHANGED <<capacity, buffer, blocked_senders, blocked_receivers, todo,
                 sent, received>>

\* The thread holds the mutex and is about to test the loop condition.
Holding(t, kind) == phase[t] \in {"entering", "woken"} /\ Kind(t) = kind

\* Mutant of AfterWait: the decrement after wait forgotten.
StillCounted(t, count) == count

\* What the counter of blocked threads is when t reaches the loop condition:
\* a thread that comes back from wait has done saturating_sub(1).
AfterWait(t, count) == IF phase[t] = "woken" /\ count > 0 THEN count - 1 ELSE count

\* Mutants of ReturnNotifying: no notification, and one on the condition
\* variable of the thread's own kind of call.
ReturnSilently(t, kind) == {[phase EXCEPT ![t] = "idle"]}
ReturnNotifyingOwn(t, kind) ==
  LET returned == [phase EXCEPT ![t] = "idle"]
      peers == In("asleep", Kind(t))
  IN IF peers = {} THEN {returned} ELSE {[returned EXCEPT ![w] = "woken"] : w \in peers}

\* The phases after t returns and notify_one woke one of the threads asleep
\* with a call of the given kind, whichever the system picks, if there is one.
ReturnNotifying(t, kind) ==
  LET returned == [phase EXCEPT ![t] = "idle"]
  IN IF In("asleep", kind) = {}
       THEN {returned}
       ELSE {[returned EXCEPT ![w] = "woken"] : w \in In("asleep", kind)}

HasRoom(t) == Len(buffer) < EffectiveCapacity

\* Mutant of Pushed: push_front.
PushedInFront(t) == <<Message(t)>> \o buffer

Pushed(t) == Append(buffer, Message(t))

SendPush(t) ==
  /\ Holding(t, "send")
  /\ HasRoom(t)
  /\ buffer' = Pushed(t)
  /\ sent' = Append(sent, Message(t))
  /\ blocked_senders' = AfterWait(t, blocked_senders)
  /\ phase' \in ReturnNotifying(t, "recv")
  /\ todo' = [todo EXCEPT ![t] = Tail(@)]
  /\ UNCHANGED <<capacity, blocked_receivers, received>>

SendWait(t) ==
  /\ Holding(t, "send")
  /\ ~HasRoom(t)
  /\ blocked_senders' = AfterWait(t, blocked_senders) + 1
  /\ phase' = [phase EXCEPT ![t] = "asleep"]
  /\ UNCHANGED <<capacity, buffer, blocked_receivers, todo, sent, received>>

RecvPop(t) ==
  /\ Holding(t, "recv")
  /\ buffer # <<>>
  /\ buffer' = Tail(buffer)
  /\ received' = Append(received, Head(buffer))
  /\ blocked_receivers' = AfterWait(t, blocked_receivers)
  /\ phase' \in ReturnNotifying(t, "send")
  /\ todo' = [todo EXCEPT ![t] = Tail(@)]
  /\ UNCHANGED <<capacity, blocked_senders, sent>>

RecvWait(t) ==
  /\ Holding(t, "recv")
  /\ buffer = <<>>
  /\ blocked_receivers' = AfterWait(t, blocked_receivers) + 1
  /\ phase' = [phase EXCEPT ![t] = "asleep"]
  /\ UNCHANGED <<capacity, buffer, blocked_senders, todo, sent, received>>

\* Condvar::wait may return without a notification; the loops allow for it.
SpuriousWake(t) ==
  /\ phase[t] = "asleep"
  /\ phase' = [phase EXCEPT ![t] = "woken"]
  /\ UNCHANGED <<capacity, buffer, blocked_senders, blocked_receivers, todo,
                 sent, received>>

Proceed(t) == SendPush(t) \/ SendWait(t) \/ RecvPop(t) \/ RecvWait(t)

Next == \E t \in Threads : Call(t) \/ Proceed(t) \/ SpuriousWake(t)

\* A thread that wants the mutex eventually gets it: critical sections are
\* short and the operating system schedules every runnable thread.  Nothing
\* is assumed of spurious wake-ups, nor that a thread ever calls again.
Fairness == \A t \in Threads : WF_vars(Proceed(t))

SafeSpec == Init /\ [][Next]_vars
Spec == SafeSpec /\ Fairness
-----------------------------------------------------------------------------
(* Properties *)

\* Type invariant.  It includes the bound the retest of the loop condition
\* after every wait keeps: a sender that is woken and finds that another one
\* overtook it and filled the buffer must not push.
TypeOK ==
  /\ capacity \in Nat
  /\ buffer \in Seq(Messages) /\ Len(buffer) <= EffectiveCapacity
  /\ blocked_senders \in Nat
  /\ blocked_receivers \in Nat
  /\ phase \in [Threads -> Phases]
  /\ todo \in [Threads -> Seq(Kinds)]
  /\ \A t \in Threads : phase[t] # "idle" => todo[t] # <<>>
  /\ sent \in Seq(Messages)
  /\ received \in Seq(Messages)

\* blocked_senders and blocked_receivers count exactly the threads between
\* the two statements that maintain them: those in Condvar::wait and those on
\* their way out of it.  So saturating_sub never saturates.
Blocked(kind) == In("asleep", kind) \cup In("woken", kind)
CountersExact ==
  /\ blocked_senders = Cardinality(Blocked("send"))
  /\ blocked_receivers = Cardinality(Blocked("recv"))

\* No lost wake-up: while a receiver sleeps, every buffered message has a
\* woken receiver on its way to the mutex; while a sender sleeps, so has every
\* free place.  Threads that overtake a woken one take the message or the
\* place it was woken for and so keep the count right, which is what makes
\* notify_one (and not notify_all) enough.
NoLostWakeup ==
  /\ In("asleep", "recv") # {} => Len(buffer) <= Cardinality(In("woken", "recv"))
  /\ In("asleep", "send") # {} =>
       EffectiveCapacity <= Len(buffer) + Cardinality(In("woken", "send"))

\* What was sent is what was received followed by what is buffered: nothing is
\* lost, duplicated or reordered, whichever threads meet in the channel.
FifoHistory == sent = received \o buffer

\* Seen from outside, send and recv are atomic operations on a bounded queue,
\* and the queue never rests while some caller could be served.
Fifo == INSTANCE BoundedFifo WITH
          queue <- buffer,
          invoked <- {t \in Threads : phase[t] # "idle"}

ImplementsFifo == Fifo!FifoSpec

\* If no thread both sends and receives, there are as many receives as sends to
\* come and every thread goes on calling, then every call returns: no wake-up
\* order leaves a producer and a consumer both asleep.
Calls(kind) ==
  UNION {{t} \X {i \in DOMAIN todo[t] : todo[t][i] = kind} : t \in Threads}
Balanced ==
  /\ \A t \in Threads : \A i, j \in DOMAIN todo[t] : todo[t][i] = todo[t][j]
  /\ Cardinality(Calls("send")) = Cardinality(Calls("recv"))
AllReturned == \A t \in Threads : todo[t] = <<>>
Completes ==
  (Balanced /\ \A t \in Threads : WF_vars(Call(t))) => <>AllReturned
=============================================================================
