---------------------------- MODULE BoundedFifo ----------------------------
(***************************************************************************)
(* What a runtime channel promises its callers, with no mutex, no          *)
(* condition variable and no wake-up in it: calls are invoked, and each    *)
(* takes effect in one atomic step between its invocation and its return.  *)
(* A send appends to a bounded first-in first-out queue, a receive takes   *)
(* its head.  Chan is shown to implement this.                             *)
(***************************************************************************)
EXTENDS Naturals, Sequences

CONSTANTS
  Threads,     \* the threads that call the channel
  Plans,       \* the possible assignments of call sequences to threads
  Capacities   \* the capacities a channel may be created with

VARIABLES
  capacity,    \* the capacity the channel was created with
  todo,        \* per thread, the calls it has not finished, the current one first
  invoked,     \* the threads inside a call
  queue,       \* the messages sent and not yet received
  sent,        \* every message ever sent, in the order the sends took effect
  received     \* every message ever received, in the order of the receives

fifoVars == <<capacity, todo, invoked, queue, sent, received>>

\* A channel always has room for one message, whatever capacity was asked for.
Bound == IF capacity = 0 THEN 1 ELSE capacity

\* A message is named by its sender and that sender's number of unfinished calls.
NextMessage(t) == <<t, Len(todo[t])>>

InCall(t, kind) == t \in invoked /\ Head(todo[t]) = kind

Return(t) ==
  /\ todo' = [todo EXCEPT ![t] = Tail(@)]
  /\ invoked' = invoked \ {t}
  /\ UNCHANGED capacity

-----------------------------------------------------------------------------
FifoInit ==
  /\ capacity \in Capacities
  /\ todo \in Plans
  /\ invoked = {}
  /\ queue = <<>>
  /\ sent = <<>>
  /\ received = <<>>

Invoke(t) ==
  /\ t \notin invoked
  /\ todo[t] # <<>>
  /\ invoked' = invoked \cup {t}
  /\ UNCHANGED <<capacity, todo, queue, sent, received>>

Put(t) ==
  /\ InCall(t, "send")
  /\ Len(queue) < Bound
  /\ queue' = Append(queue, NextMessage(t))
  /\ sent' = Append(sent, NextMessage(t))
  /\ UNCHANGED received
  /\ Return(t)

Take(t) ==
  /\ InCall(t, "recv")
  /\ queue # <<>>
  /\ queue' = Tail(queue)
  /\ received' = Append(received, Head(queue))
  /\ UNCHANGED sent
  /\ Return(t)

FifoNext == \E t \in Threads : Invoke(t) \/ Put(t) \/ Take(t)

\* The channel never rests while some caller could be served.
FifoFairness ==
  /\ WF_fifoVars(\E t \in Threads : Put(t))
  /\ WF_fifoVars(\E t \in Threads : Take(t))

FifoSafeSpec == FifoInit /\ [][FifoNext]_fifoVars
FifoSpec == FifoSafeSpec /\ FifoFairness
=============================================================================
