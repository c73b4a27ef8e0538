----------------------------- MODULE ChanProofs -----------------------------
(***************************************************************************)
(* Proofs about Chan, for every set of threads, every plan of calls and    *)
(* every capacity.  The inductive invariant is TypeOK /\ CountersExact /\  *)
(* NoLostWakeup /\ FifoHistory; TypeOK is inductive by itself, the others  *)
(* each need only TypeOK.                                                  *)
(***************************************************************************)
EXTENDS Chan, FiniteSetTheorems, TLAPS

-----------------------------------------------------------------------------
(* What notify_one does to the phases *)

\* A returning thread either wakes nobody, when nobody sleeps on the condition
\* variable, or exactly one other thread that does.
LEMMA NotifyCases ==
  ASSUME TypeOK, NEW t \in Threads, NEW kind \in Kinds,
         phase[t] \in {"entering", "woken"},
         NEW f \in ReturnNotifying(t, kind)
  PROVE  \/ /\ In("asleep", kind) = {}
            /\ f = [phase EXCEPT ![t] = "idle"]
         \/ \E w \in In("asleep", kind) :
              /\ w # t
              /\ f = [phase EXCEPT ![t] = "idle", ![w] = "woken"]
<1>1. CASE In("asleep", kind) = {}
  BY <1>1 DEF ReturnNotifying
<1>2. CASE In("asleep", kind) # {}
  <2>1. PICK w \in In("asleep", kind) :
          f = [[phase EXCEPT ![t] = "idle"] EXCEPT ![w] = "woken"]
    BY <1>2 DEF ReturnNotifying
  <2>2. w \in Threads /\ w # t
    BY <2>1 DEF In
  <2>3. f = [phase EXCEPT ![t] = "idle", ![w] = "woken"]
    BY <2>1
  <2> QED
    BY <2>1, <2>2, <2>3
<1> QED
  BY <1>1, <1>2

\* The phases after a return are phases, the returning thread is idle and no
\* other thread becomes idle.
LEMMA NotifyType ==
  ASSUME TypeOK, NEW t \in Threads, NEW kind \in Kinds,
         phase[t] \in {"entering", "woken"},
         NEW f \in ReturnNotifying(t, kind)
  PROVE  /\ f \in [Threads -> Phases]
         /\ f[t] = "idle"
         /\ \A u \in Threads \ {t} : f[u] # "idle" <=> phase[u] # "idle"
<1>0. phase \in [Threads -> Phases]
  BY DEF TypeOK
<1>1. CASE f = [phase EXCEPT ![t] = "idle"]
  BY <1>0, <1>1 DEF Phases
<1>2. CASE \E w \in In("asleep", kind) :
             /\ w # t
             /\ f = [phase EXCEPT ![t] = "idle", ![w] = "woken"]
  BY <1>0, <1>2 DEF Phases, In
<1> QED
  BY <1>1, <1>2, NotifyCases

-----------------------------------------------------------------------------
(* Type invariant *)

\* The initial state is well typed.
LEMMA InitTypeOK == Init => TypeOK
  BY PlansAssumption, CapacitiesAssumption
  DEF Init, TypeOK, Phases, EffectiveCapacity

\* Every step keeps the types.
LEMMA StepTypeOK == TypeOK /\ [Next]_vars => TypeOK'
<1> SUFFICES ASSUME TypeOK, [Next]_vars PROVE TypeOK'
  OBVIOUS
<1> USE DEF TypeOK
<1>1. ASSUME NEW t \in Threads, Call(t) PROVE TypeOK'
  BY <1>1 DEF Call, Phases, EffectiveCapacity
<1>2. ASSUME NEW t \in Threads, SendPush(t) PROVE TypeOK'
  <2> USE <1>2 DEF SendPush, HasRoom, Pushed
  <2>1. Message(t) \in Messages
    BY DEF Message, Messages
  <2>2. buffer' \in Seq(Messages) /\ Len(buffer') = Len(buffer) + 1
    BY <2>1
  <2>3. sent' \in Seq(Messages) /\ received' \in Seq(Messages)
    BY <2>1
  <2>4. Len(buffer') <= EffectiveCapacity'
    BY <2>2 DEF EffectiveCapacity
  <2>5. blocked_senders' \in Nat
    BY DEF AfterWait
  <2>6. /\ phase' \in [Threads -> Phases]
        /\ phase'[t] = "idle"
        /\ \A u \in Threads \ {t} : phase'[u] # "idle" <=> phase[u] # "idle"
    BY NotifyType DEF Holding, Kinds
  <2>7. todo[t] # <<>>
    BY DEF Holding
  <2>8. todo' \in [Threads -> Seq(Kinds)] /\ \A u \in Threads \ {t} : todo'[u] = todo[u]
    BY <2>7
  <2> QED
    BY <2>2, <2>3, <2>4, <2>5, <2>6, <2>8
<1>3. ASSUME NEW t \in Threads, SendWait(t) PROVE TypeOK'
  BY <1>3 DEF SendWait, HasRoom, Holding, AfterWait, Phases, EffectiveCapacity
<1>4. ASSUME NEW t \in Threads, RecvPop(t) PROVE TypeOK'
  <2> USE <1>4 DEF RecvPop
  <2>1. Head(buffer) \in Messages
    OBVIOUS
  <2>2. buffer' \in Seq(Messages) /\ Len(buffer') = Len(buffer) - 1
    OBVIOUS
  <2>3. sent' \in Seq(Messages) /\ received' \in Seq(Messages)
    BY <2>1
  <2>4. Len(buffer') <= EffectiveCapacity'
    BY <2>2 DEF EffectiveCapacity
  <2>5. blocked_receivers' \in Nat
    BY DEF AfterWait
  <2>6. /\ phase' \in [Threads -> Phases]
        /\ phase'[t] = "idle"
        /\ \A u \in Threads \ {t} : phase'[u] # "idle" <=> phase[u] # "idle"
    BY NotifyType DEF Holding, Kinds
  <2>7. todo[t] # <<>>
    BY DEF Holding
  <2>8. todo' \in [Threads -> Seq(Kinds)] /\ \A u \in Threads \ {t} : todo'[u] = todo[u]
    BY <2>7
  <2> QED
    BY <2>2, <2>3, <2>4, <2>5, <2>6, <2>8
<1>5. ASSUME NEW t \in Threads, RecvWait(t) PROVE TypeOK'
  BY <1>5 DEF RecvWait, Holding, AfterWait, Phases, EffectiveCapacity
<1>6. ASSUME NEW t \in Threads, SpuriousWake(t) PROVE TypeOK'
  BY <1>6 DEF SpuriousWake, Phases, EffectiveCapacity
<1>7. CASE UNCHANGED vars
  BY <1>7 DEF vars, EffectiveCapacity
<1> QED
  BY <1>1, <1>2, <1>3, <1>4, <1>5, <1>6, <1>7 DEF Next, Proceed

\* In every execution the channel state is well typed, the buffer never exceeds
\* the effective capacity, and a thread inside a call has a call to finish.
THEOREM TypeCorrect == Spec => []TypeOK
<1> QED
  BY InitTypeOK, StepTypeOK, PTL DEF Spec, SafeSpec

-----------------------------------------------------------------------------
(* The sets of sleeping and woken threads *)

\* The threads of one kind in one phase are finitely many.
LEMMA InSubset ==
  ASSUME NEW ph, NEW kind
  PROVE  /\ In(ph, kind) \subseteq Threads
         /\ IsFiniteSet(In(ph, kind))
         /\ Cardinality(In(ph, kind)) \in Nat
  BY ThreadsAssumption, FS_Subset, FS_CardinalityType DEF In

\* A return from a call of kind own leaves the sleepers of that kind alone and
\* takes the thread out of its woken ones; among the calls of the other kind it
\* moves at most one thread from the sleepers to the woken ones.
LEMMA ReturnEffect ==
  ASSUME TypeOK, NEW t \in Threads, NEW own \in Kinds, NEW kind \in Kinds,
         own # kind, Holding(t, own),
         phase' \in ReturnNotifying(t, kind),
         todo' = [todo EXCEPT ![t] = Tail(@)]
  PROVE  /\ In("asleep", own)' = In("asleep", own)
         /\ In("woken", own)' = In("woken", own) \ {t}
         /\ \/ /\ In("asleep", kind) = {}
               /\ In("asleep", kind)' = {}
               /\ In("woken", kind)' = In("woken", kind)
            \/ \E w \in In("asleep", kind) :
                 /\ In("asleep", kind)' = In("asleep", kind) \ {w}
                 /\ In("woken", kind)' = In("woken", kind) \cup {w}
<1>0. /\ phase \in [Threads -> Phases]
      /\ todo \in [Threads -> Seq(Kinds)]
      /\ phase[t] \in {"entering", "woken"}
      /\ Kind(t) = own
  BY DEF TypeOK, Holding
<1>1. \A u \in Threads \ {t} : Kind(u)' = Kind(u)
  BY <1>0 DEF Kind
<1>2. CASE /\ In("asleep", kind) = {}
           /\ phase' = [phase EXCEPT ![t] = "idle"]
  <2>1. phase'[t] = "idle" /\ \A u \in Threads \ {t} : phase'[u] = phase[u]
    BY <1>0, <1>2
  <2>2. /\ In("asleep", own)' = In("asleep", own)
        /\ In("woken", own)' = In("woken", own) \ {t}
        /\ In("asleep", kind)' = In("asleep", kind)
        /\ In("woken", kind)' = In("woken", kind)
    BY <1>0, <1>1, <2>1 DEF In
  <2> QED
    BY <1>2, <2>2
<1>3. ASSUME NEW w \in In("asleep", kind), w # t,
             phase' = [phase EXCEPT ![t] = "idle", ![w] = "woken"]
      PROVE  /\ In("asleep", own)' = In("asleep", own)
             /\ In("woken", own)' = In("woken", own) \ {t}
             /\ In("asleep", kind)' = In("asleep", kind) \ {w}
             /\ In("woken", kind)' = In("woken", kind) \cup {w}
  <2>0. w \in Threads /\ phase[w] = "asleep" /\ Kind(w) = kind /\ Kind(w)' = kind
    BY <1>1, <1>3 DEF In
  <2>1. /\ phase'[t] = "idle"
        /\ phase'[w] = "woken"
        /\ \A u \in Threads \ {t, w} : phase'[u] = phase[u]
    BY <1>0, <1>3, <2>0
  <2> QED
    BY <1>0, <1>1, <2>0, <2>1 DEF In
<1> QED
  BY <1>0, <1>2, <1>3, NotifyCases

\* A thread of kind own that goes to sleep.
LEMMA WaitEffect ==
  ASSUME TypeOK, NEW t \in Threads, NEW own \in Kinds, NEW kind \in Kinds,
         own # kind, Holding(t, own),
         phase' = [phase EXCEPT ![t] = "asleep"], UNCHANGED todo
  PROVE  /\ In("asleep", own)' = In("asleep", own) \cup {t}
         /\ In("woken", own)' = In("woken", own) \ {t}
         /\ In("asleep", kind)' = In("asleep", kind)
         /\ In("woken", kind)' = In("woken", kind)
<1>1. /\ phase'[t] = "asleep"
      /\ \A u \in Threads \ {t} : phase'[u] = phase[u]
      /\ phase[t] \in {"entering", "woken"}
      /\ Kind(t) = own
      /\ \A u \in Threads : Kind(u)' = Kind(u)
  BY DEF TypeOK, Holding, Kind
<1> QED
  BY <1>1 DEF In

\* A sleeping thread that wakes without a notification.
LEMMA SpuriousEffect ==
  ASSUME TypeOK, NEW t \in Threads, SpuriousWake(t), NEW kind \in Kinds
  PROVE  \/ /\ t \in In("asleep", kind)
            /\ In("asleep", kind)' = In("asleep", kind) \ {t}
            /\ In("woken", kind)' = In("woken", kind) \cup {t}
         \/ /\ In("asleep", kind)' = In("asleep", kind)
            /\ In("woken", kind)' = In("woken", kind)
<1>1. /\ phase[t] = "asleep" /\ phase'[t] = "woken"
      /\ \A u \in Threads \ {t} : phase'[u] = phase[u]
      /\ \A u \in Threads : Kind(u)' = Kind(u)
  BY DEF TypeOK, SpuriousWake, Kind
<1>2. CASE Kind(t) = kind
  BY <1>1, <1>2 DEF In
<1>3. CASE Kind(t) # kind
  BY <1>1, <1>3 DEF In
<1> QED
  BY <1>2, <1>3

\* A thread that calls is neither asleep nor woken, before or after.
LEMMA CallEffect ==
  ASSUME TypeOK, NEW t \in Threads, Call(t), NEW kind \in Kinds
  PROVE  /\ In("asleep", kind)' = In("asleep", kind)
         /\ In("woken", kind)' = In("woken", kind)
<1>1. /\ phase[t] = "idle" /\ phase'[t] = "entering"
      /\ \A u \in Threads \ {t} : phase'[u] = phase[u]
      /\ \A u \in Threads : Kind(u)' = Kind(u)
  BY DEF TypeOK, Call, Kind
<1> QED
  BY <1>1 DEF In

\* Nobody is asleep and woken at once.
LEMMA AsleepWokenDisjoint ==
  ASSUME NEW t, NEW kind, t \in In("asleep", kind)
  PROVE  t \notin In("woken", kind)
  BY DEF In

-----------------------------------------------------------------------------
(* The counters of blocked threads *)

\* The blocked threads are finitely many.
LEMMA BlockedSubset ==
  ASSUME NEW kind
  PROVE  IsFiniteSet(Blocked(kind)) /\ Cardinality(Blocked(kind)) \in Nat
<1>1. Blocked(kind) \subseteq Threads
  BY DEF Blocked, In
<1> QED
  BY <1>1, ThreadsAssumption, FS_Subset, FS_CardinalityType

\* A thread back from wait is still counted, so taking it out of the count and
\* out of the set of blocked threads is one and the same.
LEMMA AfterWaitExact ==
  ASSUME TypeOK, NEW t \in Threads, NEW own \in Kinds, Holding(t, own),
         NEW count, count = Cardinality(Blocked(own))
  PROVE  AfterWait(t, count) = Cardinality(Blocked(own) \ {t})
<1>1. CASE phase[t] = "woken"
  <2>1. t \in Blocked(own)
    BY <1>1 DEF Blocked, In, Holding
  <2>2. Cardinality(Blocked(own) \ {t}) = Cardinality(Blocked(own)) - 1
    BY <2>1, BlockedSubset, FS_RemoveElement
  <2>3. Cardinality(Blocked(own) \ {t}) \in Nat
    BY BlockedSubset, FS_Subset, FS_CardinalityType
  <2> QED
    BY <1>1, <2>2, <2>3, BlockedSubset DEF AfterWait
<1>2. CASE phase[t] = "entering"
  <2>1. Blocked(own) \ {t} = Blocked(own)
    BY <1>2 DEF Blocked, In
  <2> QED
    BY <1>2, <2>1 DEF AfterWait
<1> QED
  BY <1>1, <1>2 DEF Holding

\* Every step keeps the counters exact.
LEMMA StepCountersExact ==
  TypeOK /\ CountersExact /\ [Next]_vars => CountersExact'
<1> SUFFICES ASSUME TypeOK, CountersExact, [Next]_vars PROVE CountersExact'
  OBVIOUS
<1> USE DEF CountersExact
<1>1. ASSUME NEW t \in Threads, Call(t) PROVE CountersExact'
  <2>1. \A kind \in Kinds : Blocked(kind)' = Blocked(kind)
    BY <1>1, CallEffect DEF Blocked
  <2> QED
    BY <1>1, <2>1 DEF Call, Kinds
<1>2. ASSUME NEW t \in Threads, SendPush(t) PROVE CountersExact'
  <2> USE <1>2 DEF SendPush, HasRoom, Pushed
  <2>1. /\ Blocked("send")' = Blocked("send") \ {t}
        /\ Blocked("recv")' = Blocked("recv")
    <3>1. t \notin In("asleep", "send")
      BY DEF Holding, In
    <3>2. /\ In("asleep", "send")' = In("asleep", "send")
          /\ In("woken", "send")' = In("woken", "send") \ {t}
          /\ In("asleep", "recv")' \cup In("woken", "recv")' =
               In("asleep", "recv") \cup In("woken", "recv")
      BY ReturnEffect DEF Kinds
    <3> QED
      BY <3>1, <3>2 DEF Blocked
  <2>2. blocked_senders' = Cardinality(Blocked("send") \ {t})
    BY AfterWaitExact DEF Kinds
  <2> QED
    BY <2>1, <2>2
<1>3. ASSUME NEW t \in Threads, SendWait(t) PROVE CountersExact'
  <2> USE <1>3 DEF SendWait, HasRoom
  <2>1. /\ Blocked("send")' = (Blocked("send") \ {t}) \cup {t}
        /\ Blocked("recv")' = Blocked("recv")
    BY WaitEffect DEF Kinds, Blocked
  <2>2. blocked_senders' = Cardinality(Blocked("send") \ {t}) + 1
    BY AfterWaitExact DEF Kinds
  <2>3. Cardinality(Blocked("send")') = Cardinality(Blocked("send") \ {t}) + 1
    BY <2>1, BlockedSubset, FS_Subset, FS_AddElement
  <2> QED
    BY <2>1, <2>2, <2>3
<1>4. ASSUME NEW t \in Threads, RecvPop(t) PROVE CountersExact'
  <2> USE <1>4 DEF RecvPop
  <2>1. /\ Blocked("recv")' = Blocked("recv") \ {t}
        /\ Blocked("send")' = Blocked("send")
    <3>1. t \notin In("asleep", "recv")
      BY DEF Holding, In
    <3>2. /\ In("asleep", "recv")' = In("asleep", "recv")
          /\ In("woken", "recv")' = In("woken", "recv") \ {t}
          /\ In("asleep", "send")' \cup In("woken", "send")' =
               In("asleep", "send") \cup In("woken", "send")
      BY ReturnEffect DEF Kinds
    <3> QED
      BY <3>1, <3>2 DEF Blocked
  <2>2. blocked_receivers' = Cardinality(Blocked("recv") \ {t})
    BY AfterWaitExact DEF Kinds
  <2> QED
    BY <2>1, <2>2
<1>5. ASSUME NEW t \in Threads, RecvWait(t) PROVE CountersExact'
  <2> USE <1>5 DEF RecvWait
  <2>1. /\ Blocked("recv")' = (Blocked("recv") \ {t}) \cup {t}
        /\ Blocked("send")' = Blocked("send")
    BY WaitEffect DEF Kinds, Blocked
  <2>2. blocked_receivers' = Cardinality(Blocked("recv") \ {t}) + 1
    BY AfterWaitExact DEF Kinds
  <2>3. Cardinality(Blocked("recv")') = Cardinality(Blocked("recv") \ {t}) + 1
    BY <2>1, BlockedSubset, FS_Subset, FS_AddElement
  <2> QED
    BY <2>1, <2>2, <2>3
<1>6. ASSUME NEW t \in Threads, SpuriousWake(t) PROVE CountersExact'
  <2>1. \A kind \in Kinds : Blocked(kind)' = Blocked(kind)
    BY <1>6, SpuriousEffect DEF Blocked
  <2> QED
    BY <1>6, <2>1 DEF SpuriousWake, Kinds
<1>7. CASE UNCHANGED vars
  BY <1>7 DEF vars, Blocked, In, Kind
<1> QED
  BY <1>1, <1>2, <1>3, <1>4, <1>5, <1>6, <1>7 DEF Next, Proceed

\* At first no thread is blocked, and the counters say so.
LEMMA InitCountersExact == Init => CountersExact
<1> SUFFICES ASSUME Init PROVE CountersExact
  OBVIOUS
<1>1. \A kind : Blocked(kind) = {}
  BY DEF Init, Blocked, In
<1> QED
  BY <1>1, FS_EmptySet DEF Init, CountersExact

\* The two counters of blocked threads are exact whenever the mutex is free.
THEOREM CountersCorrect == Spec => []CountersExact
<1> QED
  BY InitTypeOK, StepTypeOK, InitCountersExact, StepCountersExact, PTL
  DEF Spec, SafeSpec

-----------------------------------------------------------------------------
(* No wake-up is lost *)

\* While there are sleepers, each unit of work they could do (a message to
\* take, a place to fill) has a woken thread to do it.
Covered(asleep, woken, work) == asleep # {} => work <= Cardinality(woken)

\* NoLostWakeup covers the messages for receivers and the free places for senders.
LEMMA NoLostWakeupCovered ==
  ASSUME TypeOK
  PROVE  NoLostWakeup <=>
           /\ Covered(In("asleep", "recv"), In("woken", "recv"), Len(buffer))
           /\ Covered(In("asleep", "send"), In("woken", "send"),
                      EffectiveCapacity - Len(buffer))
<1>1. /\ Len(buffer) \in Nat
      /\ EffectiveCapacity \in Nat
      /\ Cardinality(In("woken", "send")) \in Nat
  BY InSubset DEF TypeOK, EffectiveCapacity
<1> QED
  BY <1>1 DEF NoLostWakeup, Covered

\* A thread that comes back does one unit of the work it was woken for, if it
\* was woken, and of some other thread's work if it overtook one.
LEMMA CoveredByReturn ==
  ASSUME NEW A, NEW W, IsFiniteSet(W), NEW t, NEW n \in Int, Covered(A, W, n)
  PROVE  Covered(A, W \ {t}, n - 1)
<1>1. /\ Cardinality(W) \in Nat
      /\ Cardinality(W \ {t}) = IF t \in W THEN Cardinality(W) - 1 ELSE Cardinality(W)
  BY FS_RemoveElement, FS_CardinalityType
<1> QED
  BY <1>1 DEF Covered

\* A notification pays for the unit of work that came with it.
LEMMA CoveredByNotify ==
  ASSUME NEW A, NEW W, IsFiniteSet(W), NEW w \in A, w \notin W,
         NEW n \in Int, Covered(A, W, n)
  PROVE  Covered(A \ {w}, W \cup {w}, n + 1)
<1>1. /\ Cardinality(W) \in Nat
      /\ Cardinality(W \cup {w}) = Cardinality(W) + 1
  BY FS_AddElement, FS_CardinalityType
<1> QED
  BY <1>1 DEF Covered

\* What a return does to the two halves: own is the kind of the call that
\* returns, which did one unit of own work and left one unit of the other.
LEMMA ReturnKeepsCovered ==
  ASSUME TypeOK, NEW t \in Threads, NEW own \in Kinds, NEW kind \in Kinds,
         own # kind, Holding(t, own),
         phase' \in ReturnNotifying(t, kind),
         todo' = [todo EXCEPT ![t] = Tail(@)],
         NEW m \in Int, Covered(In("asleep", own), In("woken", own), m),
         NEW n \in Int, Covered(In("asleep", kind), In("woken", kind), n)
  PROVE  /\ Covered(In("asleep", own)', In("woken", own)', m - 1)
         /\ Covered(In("asleep", kind)', In("woken", kind)', n + 1)
<1>1. Covered(In("asleep", own)', In("woken", own)', m - 1)
  <2>1. /\ In("asleep", own)' = In("asleep", own)
        /\ In("woken", own)' = In("woken", own) \ {t}
    BY ReturnEffect
  <2>2. IsFiniteSet(In("woken", own))
    BY InSubset
  <2>3. Covered(In("asleep", own), In("woken", own) \ {t}, m - 1)
    BY <2>2, CoveredByReturn
  <2> QED
    BY <2>1, <2>3
<1>2. CASE In("asleep", kind)' = {}
  BY <1>1, <1>2 DEF Covered
<1>3. ASSUME NEW w \in In("asleep", kind),
             In("asleep", kind)' = In("asleep", kind) \ {w},
             In("woken", kind)' = In("woken", kind) \cup {w}
      PROVE  Covered(In("asleep", kind)', In("woken", kind)', n + 1)
  BY <1>3, InSubset, AsleepWokenDisjoint, CoveredByNotify
<1> QED
  BY <1>1, <1>2, <1>3, ReturnEffect

\* No step loses a wake-up.
LEMMA StepNoLostWakeup ==
  TypeOK /\ NoLostWakeup /\ [Next]_vars => NoLostWakeup'
<1> SUFFICES ASSUME TypeOK, NoLostWakeup, [Next]_vars PROVE NoLostWakeup'
  OBVIOUS
<1>0. /\ Len(buffer) \in Nat
      /\ EffectiveCapacity \in Nat
      /\ TypeOK'
  BY StepTypeOK DEF TypeOK, EffectiveCapacity
<1>c. /\ Covered(In("asleep", "recv"), In("woken", "recv"), Len(buffer))
      /\ Covered(In("asleep", "send"), In("woken", "send"),
                 EffectiveCapacity - Len(buffer))
  BY NoLostWakeupCovered
<1>p. ASSUME Covered(In("asleep", "recv")', In("woken", "recv")', Len(buffer')),
             Covered(In("asleep", "send")', In("woken", "send")',
                     EffectiveCapacity' - Len(buffer'))
      PROVE  NoLostWakeup'
  <2>1. Len(buffer') \in Nat /\ EffectiveCapacity' \in Nat
    BY <1>0 DEF TypeOK, EffectiveCapacity
  <2>2. Cardinality(In("woken", "send")') \in Nat
    <3>1. IsFiniteSet(In("woken", "send")')
      BY ThreadsAssumption, FS_Subset DEF In
    <3> QED
      BY <3>1, FS_CardinalityType
  <2> QED
    BY <1>p, <2>1, <2>2 DEF NoLostWakeup, Covered
<1>1. ASSUME NEW t \in Threads, Call(t) PROVE NoLostWakeup'
  <2>1. \A kind \in Kinds : /\ In("asleep", kind)' = In("asleep", kind)
                            /\ In("woken", kind)' = In("woken", kind)
    BY <1>1, CallEffect
  <2> QED
    BY <1>1, <1>c, <1>p, <2>1 DEF Call, EffectiveCapacity, Kinds
<1>2. ASSUME NEW t \in Threads, SendPush(t) PROVE NoLostWakeup'
  <2> USE <1>2 DEF SendPush, HasRoom, Pushed
  <2>1. Len(buffer') = Len(buffer) + 1 /\ EffectiveCapacity' = EffectiveCapacity
    BY DEF TypeOK, EffectiveCapacity
  <2>2. /\ Covered(In("asleep", "send")', In("woken", "send")',
                   (EffectiveCapacity - Len(buffer)) - 1)
        /\ Covered(In("asleep", "recv")', In("woken", "recv")', Len(buffer) + 1)
    <3>1. Len(buffer) \in Int /\ EffectiveCapacity - Len(buffer) \in Int
      BY <1>0
    <3> QED
      BY <1>c, <3>1, ReturnKeepsCovered DEF Kinds
  <2>3. (EffectiveCapacity - Len(buffer)) - 1 = EffectiveCapacity' - Len(buffer')
    BY <1>0, <2>1
  <2> QED
    BY <1>p, <2>1, <2>2, <2>3
<1>3. ASSUME NEW t \in Threads, SendWait(t) PROVE NoLostWakeup'
  <2> USE <1>3 DEF SendWait, HasRoom
  <2>1. Len(buffer') = Len(buffer) /\ EffectiveCapacity' = EffectiveCapacity
    BY DEF EffectiveCapacity
  <2>2. /\ In("asleep", "recv")' = In("asleep", "recv")
        /\ In("woken", "recv")' = In("woken", "recv")
        /\ In("woken", "send")' = In("woken", "send") \ {t}
    BY WaitEffect DEF Kinds
  <2>3. EffectiveCapacity' - Len(buffer') <= 0
    BY <1>0, <2>1
  <2>4. Cardinality(In("woken", "send")') \in Nat
    BY <2>2, InSubset, FS_RemoveElement, FS_CardinalityType
  <2> QED
    BY <1>0, <1>c, <1>p, <2>1, <2>2, <2>3, <2>4 DEF Covered
<1>4. ASSUME NEW t \in Threads, RecvPop(t) PROVE NoLostWakeup'
  <2> USE <1>4 DEF RecvPop
  <2>1. Len(buffer') = Len(buffer) - 1 /\ EffectiveCapacity' = EffectiveCapacity
    BY DEF TypeOK, EffectiveCapacity
  <2>2. /\ Covered(In("asleep", "recv")', In("woken", "recv")', Len(buffer) - 1)
        /\ Covered(In("asleep", "send")', In("woken", "send")',
                   (EffectiveCapacity - Len(buffer)) + 1)
    <3>1. Len(buffer) \in Int /\ EffectiveCapacity - Len(buffer) \in Int
      BY <1>0
    <3> QED
      BY <1>c, <3>1, ReturnKeepsCovered DEF Kinds
  <2>3. (EffectiveCapacity - Len(buffer)) + 1 = EffectiveCapacity' - Len(buffer')
    BY <1>0, <2>1
  <2> QED
    BY <1>p, <2>1, <2>2, <2>3
<1>5. ASSUME NEW t \in Threads, RecvWait(t) PROVE NoLostWakeup'
  <2> USE <1>5 DEF RecvWait
  <2>1. Len(buffer') = 0 /\ buffer' = buffer /\ EffectiveCapacity' = EffectiveCapacity
    BY DEF EffectiveCapacity
  <2>2. /\ In("asleep", "send")' = In("asleep", "send")
        /\ In("woken", "send")' = In("woken", "send")
        /\ In("woken", "recv")' = In("woken", "recv") \ {t}
    BY WaitEffect DEF Kinds
  <2>3. Cardinality(In("woken", "recv")') \in Nat
    BY <2>2, InSubset, FS_RemoveElement, FS_CardinalityType
  <2> QED
    BY <1>0, <1>c, <1>p, <2>1, <2>2, <2>3 DEF Covered
<1>6. ASSUME NEW t \in Threads, SpuriousWake(t) PROVE NoLostWakeup'
  <2>1. ASSUME NEW kind \in Kinds, NEW n \in Int,
               Covered(In("asleep", kind), In("woken", kind), n)
        PROVE  Covered(In("asleep", kind)', In("woken", kind)', n)
    <3>1. CASE /\ t \in In("asleep", kind)
               /\ In("asleep", kind)' = In("asleep", kind) \ {t}
               /\ In("woken", kind)' = In("woken", kind) \cup {t}
      <4>1. Cardinality(In("woken", kind)') = Cardinality(In("woken", kind)) + 1
        BY <3>1, InSubset, AsleepWokenDisjoint, FS_AddElement
      <4>2. In("asleep", kind) # {} /\ n <= Cardinality(In("woken", kind))
        BY <2>1, <3>1 DEF Covered
      <4>3. Cardinality(In("woken", kind)') \in Nat
        BY <3>1, InSubset, FS_AddElement, FS_CardinalityType
      <4> QED
        BY <4>1, <4>2, <4>3, InSubset DEF Covered
    <3>2. CASE /\ In("asleep", kind)' = In("asleep", kind)
               /\ In("woken", kind)' = In("woken", kind)
      BY <2>1, <3>2
    <3> QED
      BY <1>6, <3>1, <3>2, SpuriousEffect
  <2> QED
    BY <1>0, <1>6, <1>c, <1>p, <2>1 DEF SpuriousWake, EffectiveCapacity, Kinds
<1>7. CASE UNCHANGED vars
  BY <1>7 DEF vars, NoLostWakeup, In, Kind, EffectiveCapacity
<1> QED
  BY <1>1, <1>2, <1>3, <1>4, <1>5, <1>6, <1>7 DEF Next, Proceed

\* At first nobody sleeps.
LEMMA InitNoLostWakeup == Init => NoLostWakeup
  BY DEF Init, NoLostWakeup, In

\* notify_one is enough: no message waits in the buffer, and no place stays
\* free, for want of a thread that was woken to use it.
THEOREM WakeupsCorrect == Spec => []NoLostWakeup
<1> QED
  BY InitTypeOK, StepTypeOK, InitNoLostWakeup, StepNoLostWakeup, PTL
  DEF Spec, SafeSpec

-----------------------------------------------------------------------------
(* First in, first out *)

\* Moving the head of one sequence to the end of another keeps their concatenation.
LEMMA MoveHead ==
  ASSUME NEW S, NEW r \in Seq(S), NEW b \in Seq(S), b # <<>>
  PROVE  Append(r, Head(b)) \o Tail(b) = r \o b
<1> DEFINE lhs == Append(r, Head(b)) \o Tail(b)
           rhs == r \o b
<1>1. /\ Len(b) \in Nat \ {0} /\ Len(r) \in Nat
      /\ Head(b) \in S /\ Tail(b) \in Seq(S) /\ Len(Tail(b)) = Len(b) - 1
      /\ Append(r, Head(b)) \in Seq(S) /\ Len(Append(r, Head(b))) = Len(r) + 1
  OBVIOUS
<1>2. lhs \in Seq(S) /\ rhs \in Seq(S) /\ Len(lhs) = Len(rhs)
  BY <1>1
<1>3. ASSUME NEW i \in 1..Len(lhs) PROVE lhs[i] = rhs[i]
  <2>1. CASE i <= Len(r)
    BY <1>1, <1>2, <2>1
  <2>2. CASE i = Len(r) + 1
    BY <1>1, <1>2, <2>2
  <2>3. CASE i > Len(r) + 1
    BY <1>1, <1>2, <2>3
  <2> QED
    BY <1>1, <2>1, <2>2, <2>3
<1> QED
  BY <1>2, <1>3

\* Every step keeps the order of the messages.
LEMMA StepFifoHistory == TypeOK /\ FifoHistory /\ [Next]_vars => FifoHistory'
<1> SUFFICES ASSUME TypeOK, FifoHistory, [Next]_vars PROVE FifoHistory'
  OBVIOUS
<1> USE DEF FifoHistory, TypeOK
<1>1. ASSUME NEW t \in Threads, SendPush(t) PROVE FifoHistory'
  <2>1. Message(t) \in Messages
    BY DEF Message, Messages
  <2>2. Append(received \o buffer, Message(t)) = received \o Append(buffer, Message(t))
    BY <2>1
  <2> QED
    BY <1>1, <2>2 DEF SendPush, HasRoom, Pushed
<1>2. ASSUME NEW t \in Threads, RecvPop(t) PROVE FifoHistory'
  <2>1. Append(received, Head(buffer)) \o Tail(buffer) = received \o buffer
    BY <1>2, MoveHead DEF RecvPop
  <2> QED
    BY <1>2, <2>1 DEF RecvPop
<1>3. ASSUME NEW t \in Threads,
             Call(t) \/ SendWait(t) \/ RecvWait(t) \/ SpuriousWake(t)
      PROVE  FifoHistory'
  BY <1>3 DEF Call, SendWait, RecvWait, SpuriousWake
<1>4. CASE UNCHANGED vars
  BY <1>4 DEF vars
<1> QED
  BY <1>1, <1>2, <1>3, <1>4 DEF Next, Proceed

\* No message is lost, duplicated or reordered.
THEOREM FifoCorrect == Spec => []FifoHistory
<1>1. Init => FifoHistory
  BY DEF Init, FifoHistory
<1> QED
  BY <1>1, InitTypeOK, StepTypeOK, StepFifoHistory, PTL DEF Spec, SafeSpec

-----------------------------------------------------------------------------
(* The channel implements an atomic bounded queue *)

\* Every step of the channel is a step of the bounded queue, or none.
LEMMA StepImplementsFifo ==
  TypeOK /\ [Next]_vars => [Fifo!FifoNext]_(Fifo!fifoVars)
<1> SUFFICES ASSUME TypeOK, [Next]_vars PROVE [Fifo!FifoNext]_(Fifo!fifoVars)
  OBVIOUS
<1> DEFINE inside == {t \in Threads : phase[t] # "idle"}
<1>0. phase \in [Threads -> Phases]
  BY DEF TypeOK
<1>1. ASSUME NEW t \in Threads, Call(t) PROVE Fifo!Invoke(t)
  <2>1. inside' = inside \cup {t}
    BY <1>0, <1>1 DEF Call
  <2> QED
    BY <1>1, <2>1 DEF Call, Fifo!Invoke
<1>2. ASSUME NEW t \in Threads, SendPush(t) PROVE Fifo!Put(t)
  <2>1. inside' = inside \ {t}
    <3>1. /\ phase'[t] = "idle"
          /\ \A u \in Threads \ {t} : phase'[u] # "idle" <=> phase[u] # "idle"
      BY <1>2, NotifyType DEF SendPush, Holding, Kinds
    <3> QED
      BY <3>1
  <2>2. Fifo!InCall(t, "send")
    BY <1>2 DEF SendPush, Holding, Kind, Fifo!InCall
  <2> QED
    BY <1>2, <2>1, <2>2 DEF SendPush, HasRoom, Pushed, Message, EffectiveCapacity,
       Fifo!Put, Fifo!Bound, Fifo!NextMessage, Fifo!Return
<1>3. ASSUME NEW t \in Threads, RecvPop(t) PROVE Fifo!Take(t)
  <2>1. inside' = inside \ {t}
    <3>1. /\ phase'[t] = "idle"
          /\ \A u \in Threads \ {t} : phase'[u] # "idle" <=> phase[u] # "idle"
      BY <1>3, NotifyType DEF RecvPop, Holding, Kinds
    <3> QED
      BY <3>1
  <2>2. Fifo!InCall(t, "recv")
    BY <1>3 DEF RecvPop, Holding, Kind, Fifo!InCall
  <2> QED
    BY <1>3, <2>1, <2>2 DEF RecvPop, Fifo!Take, Fifo!Return
<1>4. ASSUME NEW t \in Threads, SendWait(t) \/ RecvWait(t) \/ SpuriousWake(t)
      PROVE  UNCHANGED Fifo!fifoVars
  <2>1. inside' = inside
    BY <1>0, <1>4 DEF SendWait, RecvWait, SpuriousWake, Holding
  <2> QED
    BY <1>4, <2>1 DEF SendWait, RecvWait, SpuriousWake, Fifo!fifoVars
<1>5. CASE UNCHANGED vars
  BY <1>5 DEF vars, Fifo!fifoVars
<1> QED
  BY <1>1, <1>2, <1>3, <1>4, <1>5 DEF Next, Proceed, Fifo!FifoNext

\* Every execution of the channel is an execution of the atomic bounded queue
\* (its safety part: the fairness is checked on instances).
THEOREM Refinement == Spec => Fifo!FifoSafeSpec
<1>1. Init => Fifo!FifoInit
  BY DEF Init, Fifo!FifoInit
<1> QED
  BY <1>1, InitTypeOK, StepTypeOK, StepImplementsFifo, PTL
  DEF Spec, SafeSpec, Fifo!FifoSafeSpec
=============================================================================
