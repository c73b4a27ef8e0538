--------------------------- MODULE SummariesProofs ---------------------------
(***************************************************************************)
(* Proofs about Summaries, for every program and every order in which its  *)
(* maps are visited.                                                       *)
(*                                                                         *)
(* NothingStricterThanNeeded is inductive with the type invariant: an      *)
(* effect that inference writes down is one the body raises the parameter  *)
(* to, or one that stands in the summary of a callee's parameter, which    *)
(* the invariant justifies already.                                        *)
(*                                                                         *)
(* tarjan_scc (TarjanInv).  The stack is sorted by index, and so are the   *)
(* frames; they cut the stack into segments, one for each frame: what was  *)
(* visited from its node and is on the stack still.  A segment and its     *)
(* node reach each other (Mutual), the node's lowlink is no more than what *)
(* any call out of the segment leads to on the stack (LowEnough), and is   *)
(* the index of something the node reaches (LowReached).  So a node that   *)
(* is its own lowlink has above it a whole component, with no call back to *)
(* what is below.                                                          *)
(*                                                                         *)
(* infer_function_summaries (InferInv).  The components to do are those    *)
(* found, callers first, so a function that is visited sees the summaries  *)
(* of its own component only (LaterAbsent); and a component is left when a *)
(* pass has recomputed every summary to what it was (PassStable), after    *)
(* which none of them asks for less than what it is passed to (Closed).    *)
(*                                                                         *)
(* Strong effects rise (Founded): an effect above reading rests on the     *)
(* body, or on an entry that is as strong; by induction nothing it rests   *)
(* on falls, so to infer it again yields as much.                          *)
(***************************************************************************)
EXTENDS Summaries, FiniteSetTheorems, TLAPS

-----------------------------------------------------------------------------
(* Sequences *)

\* A part of a sequence that stays within its bounds is a sequence.
LEMMA SubSeqOfSeq ==
  ASSUME NEW S, NEW s \in Seq(S), NEW m \in Nat \ {0}, NEW n \in 0..Len(s)
  PROVE  SubSeq(s, m, n) \in Seq(S)
  OBVIOUS

\* A sequence with one more element.
LEMMA AppendFacts ==
  ASSUME NEW S, NEW s \in Seq(S), NEW x
  PROVE  /\ DOMAIN Append(s, x) = DOMAIN s \cup {Len(s) + 1}
         /\ Append(s, x)[Len(s) + 1] = x
         /\ \A i \in DOMAIN s : Append(s, x)[i] = s[i]
<1>1. s \in Seq(S \cup {x}) /\ x \in S \cup {x} /\ Len(s) \in Nat
  OBVIOUS
<1> QED
  BY <1>1

\* A reversed sequence is a sequence.
LEMMA ReverseOfSeq ==
  ASSUME NEW S, NEW s \in Seq(S)
  PROVE  Reverse(s) \in Seq(S)
<1>1. Len(s) \in Nat /\ \A i \in 1..Len(s) : s[Len(s) - i + 1] \in S
  OBVIOUS
<1> QED
  BY <1>1 DEF Reverse

\* A sequence with an element has a last one, and a sequence in front of it.
LEMMA FrontAndLast ==
  ASSUME NEW S, NEW s \in Seq(S), s # <<>>
  PROVE  /\ Len(s) \in 1..Len(s) /\ s[Len(s)] \in S
         /\ Front(s) \in Seq(S)
<1>1. Len(s) \in Nat \ {0}
  OBVIOUS
<1>2. Len(s) - 1 \in 0..Len(s) /\ 1 \in Nat \ {0}
  BY <1>1
<1>3. SubSeq(s, 1, Len(s) - 1) \in Seq(S)
  BY <1>2, SubSeqOfSeq
<1> QED
  BY <1>1, <1>3 DEF Front

-----------------------------------------------------------------------------
(* Type invariant *)

FrameType == [node : Funs, edges : SUBSET Funs]
Indices == 0..Cardinality(Funs)

\* What TypeOK says of Tarjan's part of the state.
SccTypeOK ==
  /\ index \in [Funs -> Indices]
  /\ lowlink \in [Funs -> Indices]
  /\ stack \in Seq(Funs)
  /\ frames \in Seq(FrameType)
  /\ out \in Seq(Seq(Funs))

\* The functions a function calls are functions.
LEMMA CalleesType == ASSUME TypeOK, NEW f \in Funs PROVE Callees(f) \subseteq Funs
  BY ProgramsAssumption DEF TypeOK, Program, Callees

\* A function that is visited for the first time gets an index within bounds.
LEMMA NextIndex ==
  ASSUME NEW f \in Funs \ Indexed
  PROVE  Cardinality(Indexed) + 1 \in Indices
<1>1. IsFiniteSet(Funs) /\ Indexed \in SUBSET Funs /\ Indexed \cup {f} \in SUBSET Funs
  BY FunsAssumption DEF Indexed
<1>2. IsFiniteSet(Indexed) /\ Cardinality(Indexed) \in Nat /\ Cardinality(Funs) \in Nat
  BY <1>1, FS_Subset, FS_CardinalityType
<1>3. Cardinality(Indexed \cup {f}) = Cardinality(Indexed) + 1
  BY <1>2, FS_AddElement
<1>4. Cardinality(Indexed \cup {f}) <= Cardinality(Funs)
  BY <1>1, FS_Subset
<1> QED
  BY <1>2, <1>3, <1>4 DEF Indices

\* A visit keeps the types.
LEMMA VisitType ==
  ASSUME TypeOK, NEW f \in Funs \ Indexed, NEW fs \in Seq(FrameType), StrongConnect(f, fs)
  PROVE  SccTypeOK'
<1>1. Cardinality(Indexed) + 1 \in Indices
  BY NextIndex
<1>2. index' \in [Funs -> Indices] /\ lowlink' \in [Funs -> Indices]
  BY <1>1 DEF StrongConnect, TypeOK, Indices
<1>3. stack' \in Seq(Funs) /\ out' \in Seq(Seq(Funs))
  BY DEF StrongConnect, TypeOK
<1>4. [node |-> f, edges |-> Callees(f)] \in FrameType
  BY CalleesType DEF FrameType
<1>5. frames' = Append(fs, [node |-> f, edges |-> Callees(f)])
  BY DEF StrongConnect
<1>6. frames' \in Seq(FrameType)
  BY <1>4, <1>5
<1> QED
  BY <1>2, <1>3, <1>6 DEF SccTypeOK

\* Lowering a lowlink keeps the types.
LEMMA LowerType ==
  ASSUME NEW low \in [Funs -> Indices], NEW f \in Funs, NEW n \in Indices
  PROVE  [low EXCEPT ![f] = Least(@, n)] \in [Funs -> Indices]
  BY DEF Least

\* The frame on top, without one of its edges.
LEMMA FrameFacts ==
  ASSUME TypeOK, frames # <<>>, NEW g
  PROVE  /\ Frame \in FrameType /\ Frame.node \in Funs /\ Frame.edges \subseteq Funs
         /\ Without(g) \in Seq(FrameType)
         /\ Front(frames) \in Seq(FrameType)
<1>1. frames \in Seq(FrameType)
  BY DEF TypeOK, FrameType
<1>2. Len(frames) \in 1..Len(frames) /\ Frame \in FrameType /\ Front(frames) \in Seq(FrameType)
  BY <1>1, FrontAndLast DEF Frame
<1>3. Frame.node \in Funs /\ Frame.edges \subseteq Funs
  BY <1>2 DEF FrameType
<1>4. [Frame EXCEPT !.edges = @ \ {g}] \in FrameType
  BY <1>2 DEF FrameType
<1>5. Without(g) = [frames EXCEPT ![Len(frames)] = [Frame EXCEPT !.edges = @ \ {g}]]
  BY <1>1, <1>2 DEF Without, Frame
<1>6. Without(g) \in Seq(FrameType)
  BY <1>1, <1>2, <1>4, <1>5
<1> QED
  BY <1>2, <1>3, <1>6

\* A step of Tarjan's search that leaves the inference alone keeps the types.
LEMMA FromScc ==
  ASSUME TypeOK, SccTypeOK', UNCHANGED <<program, inferVars, phase>>
  PROVE  TypeOK'
  BY DEF TypeOK, SccTypeOK, inferVars, FrameType, Indices

\* The initial state is well typed.
LEMMA InitTypeOK == Init => TypeOK
<1> SUFFICES ASSUME Init PROVE TypeOK
  OBVIOUS
<1>1. Cardinality(Funs) \in Nat
  BY FunsAssumption, FS_CardinalityType
<1>2. program \in Programs /\ phase \in {"scc", "infer", "done"} /\ changed \in BOOLEAN
  BY DEF Init
<1>3. index \in [Funs -> Indices] /\ lowlink \in [Funs -> Indices]
  BY <1>1 DEF Init, Indices
<1>4. /\ stack \in Seq(Funs) /\ frames \in Seq(FrameType)
      /\ out \in Seq(Seq(Funs)) /\ pending \in Seq(Seq(Funs))
  BY DEF Init
<1>5. at \in Nat \ {0} /\ present \subseteq Funs
  BY DEF Init
<1>6. effect \in [Params -> Effects]
  BY DEF Init, Effects, Copy, Move
<1> QED
  BY <1>2, <1>3, <1>4, <1>5, <1>6 DEF TypeOK, Indices, FrameType

\* The root of a search.
LEMMA RootType == ASSUME TypeOK, Root PROVE TypeOK'
<1>1. PICK f \in Funs \ Indexed : StrongConnect(f, frames)
  BY DEF Root
<1>2. frames \in Seq(FrameType)
  BY DEF TypeOK, FrameType
<1> QED
  BY <1>1, <1>2, VisitType, FromScc DEF Root

\* The look at an edge.
LEMMA EdgeType == ASSUME TypeOK, Edge PROVE TypeOK'
<1>1. PICK g \in Frame.edges : LookAt(g)
  BY DEF Edge
<1>2. g \in Funs /\ Frame.node \in Funs /\ Without(g) \in Seq(FrameType)
  BY <1>1, FrameFacts DEF Edge
<1>3. CASE g \notin Indexed
  BY <1>1, <1>2, <1>3, VisitType, FromScc DEF LookAt, Edge
<1>4. CASE g \in Indexed
  <2> DEFINE node == Frame.node
             low == index[g]
  <2>1. /\ frames' = Without(g) /\ UNCHANGED <<index, stack, out>>
        /\ \/ lowlink' = [lowlink EXCEPT ![node] = Least(@, low)]
           \/ lowlink' = lowlink
    BY <1>1, <1>4 DEF LookAt
  <2>2. lowlink \in [Funs -> Indices] /\ low \in Indices /\ node \in Funs
    BY <1>2 DEF TypeOK, Indices
  <2>3. lowlink' \in [Funs -> Indices]
    <3> HIDE DEF node, low
    <3>1. [lowlink EXCEPT ![node] = Least(@, low)] \in [Funs -> Indices]
      BY <2>2, LowerType
    <3> QED
      BY <2>1, <2>2, <3>1
  <2>4. SccTypeOK'
    BY <1>2, <2>1, <2>3 DEF SccTypeOK, TypeOK, Indices
  <2> QED
    BY <2>4, FromScc DEF Edge
<1> QED
  BY <1>3, <1>4

\* The end of a visit.
LEMMA FinishType == ASSUME TypeOK, Finish PROVE TypeOK'
<1> DEFINE f == Frame.node
           callers == Front(frames)
<1>1. f \in Funs /\ callers \in Seq(FrameType)
  BY FrameFacts DEF Finish
<1>2. stack' \in Seq(Funs) /\ out' \in Seq(Seq(Funs))
  <2>1. stack \in Seq(Funs) /\ out \in Seq(Seq(Funs))
    BY DEF TypeOK
  <2>2. CASE lowlink[f] = index[f]
    <3>1. PICK bottom \in DOMAIN stack :
            /\ out' = Append(out, Reverse(SubSeq(stack, bottom, Len(stack))))
            /\ stack' = SubSeq(stack, 1, bottom - 1)
      BY <2>2 DEF Finish, Pop, Emitted
    <3>2. /\ bottom \in Nat \ {0} /\ Len(stack) \in 0..Len(stack)
          /\ bottom - 1 \in 0..Len(stack) /\ 1 \in Nat \ {0}
      BY <2>1
    <3>3. /\ SubSeq(stack, bottom, Len(stack)) \in Seq(Funs)
          /\ SubSeq(stack, 1, bottom - 1) \in Seq(Funs)
      BY <2>1, <3>2, SubSeqOfSeq
    <3>4. Reverse(SubSeq(stack, bottom, Len(stack))) \in Seq(Funs)
      BY <3>3, ReverseOfSeq
    <3> QED
      BY <2>1, <3>1, <3>3, <3>4
  <2>3. CASE lowlink[f] # index[f]
    BY <2>1, <2>3 DEF Finish
  <2> QED
    BY <2>2, <2>3
<1>3. lowlink' \in [Funs -> Indices]
  <2>1. lowlink \in [Funs -> Indices] /\ lowlink[f] \in Indices
    BY <1>1 DEF TypeOK, Indices
  <2>2. CASE callers = <<>>
    BY <2>1, <2>2 DEF Finish
  <2>3. CASE callers # <<>>
    <3> DEFINE caller == Last(callers)
    <3>1. lowlink' = [lowlink EXCEPT ![caller.node] = Least(@, lowlink[f])]
      BY <2>3 DEF Finish
    <3> HIDE DEF callers
    <3>2. caller \in FrameType
      BY <1>1, <2>3, FrontAndLast DEF Last
    <3> HIDE DEF caller, f
    <3>3. caller.node \in Funs
      BY <3>2 DEF FrameType
    <3> QED
      BY <2>1, <3>1, <3>3, LowerType
  <2> QED
    BY <2>2, <2>3
<1>4. frames' = callers /\ index' = index
  BY DEF Finish
<1>5. SccTypeOK'
  BY <1>1, <1>2, <1>3, <1>4 DEF SccTypeOK, TypeOK, Indices
<1> QED
  BY <1>5, FromScc DEF Finish

\* The components in the order of the inference.
LEMMA BeginType == ASSUME TypeOK, BeginInference PROVE TypeOK'
<1>1. pending' \in Seq(Seq(Funs))
  BY ReverseOfSeq DEF BeginInference, TypeOK
<1> QED
  BY <1>1 DEF BeginInference, TypeOK, sccVars

-----------------------------------------------------------------------------
(* Effects *)

\* A non-empty set of effects has a greatest one, which is a bound of the others.
LEMMA MaxEffect ==
  ASSUME NEW E \in SUBSET Effects, E # {}
  PROVE  Max(E) \in E /\ \A e \in E : e <= Max(E)
<1>1. E \subseteq {0, 1, 2, 3}
  BY DEF Effects, Copy, Move
<1>2. \E x \in E : \A y \in E : x >= y
  <2>1. CASE 3 \in E
    BY <1>1, <2>1
  <2>2. CASE 3 \notin E /\ 2 \in E
    BY <1>1, <2>2
  <2>3. CASE 3 \notin E /\ 2 \notin E /\ 1 \in E
    BY <1>1, <2>3
  <2>4. CASE E = {0}
    BY <2>4
  <2> QED
    BY <1>1, <2>1, <2>2, <2>3, <2>4
<1>3. Max(E) \in E /\ \A e \in E : Max(E) >= e
  BY <1>2 DEF Max
<1> QED
  BY <1>1, <1>3

\* What a body does to a parameter of a function is inferred from the effects
\* it raises the parameter to and from the callees' parameters it passes it to.
LEMMA InferredCases ==
  ASSUME TypeOK, NEW p \in Params
  PROVE  /\ Inferred(p) \in Effects
         /\ \/ Inferred(p) <= BorrowShared
            \/ <<p, Inferred(p)>> \in program.raises
            \/ \E q \in Params : <<p, q>> \in program.passes /\ Inferred(p) = effect[q]
<1> DEFINE Raises == {e \in Effects : <<p, e>> \in program.raises}
           Passed == {CallEffect(q) : q \in {r \in Params : <<p, r>> \in program.passes}}
           E == {Copy} \cup Raises \cup Passed
<1>1. Copy \in Effects /\ BorrowShared \in Effects
  BY DEF Effects, Copy, BorrowShared, Move
<1>2. \A q \in Params : CallEffect(q) \in Effects
  BY <1>1 DEF CallEffect, TypeOK
<1>3. E \in SUBSET Effects /\ E # {}
  BY <1>1, <1>2
<1>4. Inferred(p) \in E
  <2>1. Inferred(p) = Max(E)
    BY DEF Inferred
  <2> HIDE DEF E
  <2> QED
    BY <1>3, <2>1, MaxEffect
<1>5. ASSUME NEW q \in Params, <<p, q>> \in program.passes, Inferred(p) = CallEffect(q)
      PROVE  \/ Inferred(p) <= BorrowShared
             \/ Inferred(p) = effect[q]
  BY <1>5 DEF CallEffect, BorrowShared
<1>6. Copy <= BorrowShared
  BY DEF Copy, BorrowShared
<1> HIDE DEF E
<1>7. Inferred(p) \in Effects
  BY <1>3, <1>4
<1>8. CASE Inferred(p) = Copy
  BY <1>6, <1>7, <1>8
<1>9. CASE Inferred(p) \in Raises
  BY <1>7, <1>9
<1>10. CASE Inferred(p) \in Passed
  <2>1. PICK q \in Params : <<p, q>> \in program.passes /\ Inferred(p) = CallEffect(q)
    BY <1>10
  <2> QED
    BY <1>5, <1>7, <2>1
<1> QED
  BY <1>4, <1>8, <1>9, <1>10 DEF E

\* A visit of a function replaces its parameters' effects by the inferred ones,
\* or changes nothing.
LEMMA InferEffect ==
  ASSUME TypeOK, NEW f \in Funs, Infer(f), NEW p \in Params
  PROVE  effect'[p] = effect[p] \/ effect'[p] = Inferred(p)
  BY DEF Infer, TypeOK

\* A visit keeps the types of the summaries.
LEMMA InferType ==
  ASSUME TypeOK, NEW f \in Funs, Infer(f)
  PROVE  effect' \in [Params -> Effects] /\ present' \subseteq Funs /\ changed' \in BOOLEAN
<1>1. \A p \in Params : Inferred(p) \in Effects /\ effect[p] \in Effects
  BY InferredCases DEF TypeOK
<1>2. effect' \in [Params -> Effects]
  BY <1>1 DEF Infer, TypeOK
<1>3. present' \subseteq Funs /\ changed' \in BOOLEAN
  BY DEF Infer, TypeOK
<1> QED
  BY <1>2, <1>3

\* A step of a pass visits a function.
LEMMA InferNextVisits ==
  ASSUME TypeOK, InferNext
  PROVE  Head(pending)[at] \in Funs /\ Infer(Head(pending)[at])
<1>1. pending \in Seq(Seq(Funs)) /\ pending # <<>> /\ at \in Nat \ {0}
  BY DEF TypeOK, InferNext
<1>2. Head(pending) \in Seq(Funs)
  BY <1>1
<1>3. at \in 1..Len(Head(pending))
  BY <1>1, <1>2 DEF InferNext
<1> QED
  BY <1>2, <1>3 DEF InferNext

\* Every step keeps the types.
LEMMA StepTypeOK == TypeOK /\ [Next]_vars => TypeOK'
<1> SUFFICES ASSUME TypeOK, [Next]_vars PROVE TypeOK'
  OBVIOUS
<1>1. CASE Root
  BY <1>1, RootType
<1>2. CASE Edge
  BY <1>2, EdgeType
<1>3. CASE Finish
  BY <1>3, FinishType
<1>4. CASE BeginInference
  BY <1>4, BeginType
<1>5. CASE InferNext
  <2>1. effect' \in [Params -> Effects] /\ present' \subseteq Funs /\ changed' \in BOOLEAN
    BY <1>5, InferNextVisits, InferType
  <2>2. at' \in Nat \ {0}
    BY <1>5 DEF InferNext, TypeOK
  <2> QED
    BY <1>5, <2>1, <2>2 DEF InferNext, TypeOK, sccVars
<1>6. CASE PassEnds
  <2>1. pending \in Seq(Seq(Funs)) /\ pending # <<>>
    BY <1>6 DEF PassEnds, TypeOK
  <2>2. pending' \in Seq(Seq(Funs))
    <3>1. Tail(pending) \in Seq(Seq(Funs))
      BY <2>1
    <3>2. pending' = pending \/ pending' = Tail(pending)
      BY <1>6 DEF PassEnds
    <3> QED
      BY <2>1, <3>1, <3>2
  <2>3. at' = 1 /\ at' \in Nat \ {0}
    BY <1>6 DEF PassEnds
  <2>7. changed' \in BOOLEAN
    BY <1>6 DEF PassEnds
  <2>4. /\ UNCHANGED <<program, index, lowlink, stack, frames, out>>
        /\ UNCHANGED <<present, effect, phase>>
    BY <1>6 DEF PassEnds, sccVars
  <2>5. SccTypeOK'
    BY <2>4 DEF TypeOK, SccTypeOK, Indices, FrameType
  <2>6. /\ program' \in Programs /\ present' \subseteq Funs
        /\ effect' \in [Params -> Effects] /\ phase' \in {"scc", "infer", "done"}
    BY <2>4 DEF TypeOK
  <2> QED
    BY <2>2, <2>3, <2>5, <2>6, <2>7 DEF TypeOK, SccTypeOK, Indices, FrameType
<1>7. CASE InferenceEnds
  BY <1>7 DEF InferenceEnds, TypeOK, sccVars, inferVars
<1>8. CASE UNCHANGED vars
  BY <1>8 DEF vars, TypeOK
<1> QED
  BY <1>1, <1>2, <1>3, <1>4, <1>5, <1>6, <1>7, <1>8 DEF Next, Tarjan

\* The pass over the call graph and the summaries is well typed in every
\* execution: indices and lowlinks stay within the number of functions, and
\* every effect is one.
THEOREM TypeCorrect == Spec => []TypeOK
<1> QED
  BY InitTypeOK, StepTypeOK, PTL DEF Spec

-----------------------------------------------------------------------------
(* No summary is stricter than needed *)

\* Every element is reached from itself.
LEMMA ReachSelf ==
  ASSUME NEW S, NEW R, NEW a \in S
  PROVE  a \in Reach(S, R, a)
  BY DEF Reach

\* What is reached from a successor is reached.
LEMMA ReachStep ==
  ASSUME NEW S, NEW R, NEW a \in S, NEW b \in S, <<a, b>> \in R, NEW c \in Reach(S, R, b)
  PROVE  c \in Reach(S, R, a)
<1>1. c \in S
  BY DEF Reach
<1>2. ASSUME NEW T \in SUBSET S, a \in T, \A e \in R : e[1] \in T => e[2] \in T
      PROVE  c \in T
  <2>1. b \in T
    BY <1>2
  <2> QED
    BY <1>2, <2>1 DEF Reach
<1> QED
  BY <1>1, <1>2 DEF Reach

\* An inferred effect stronger than reading is one that the parameter, or one
\* reached from it, is put to, if the summaries so far have that property.
LEMMA InferredNeeded ==
  ASSUME TypeOK, NothingStricterThanNeeded, NEW p \in Params, Inferred(p) > BorrowShared
  PROVE  Inferred(p) \in Uses(program.passes, p)
<1>1. Inferred(p) \in Effects /\ ~(Inferred(p) <= BorrowShared)
  <2> DEFINE e == Inferred(p)
  <2>1. e \in Effects /\ e > BorrowShared
    BY InferredCases
  <2> HIDE DEF e
  <2>2. e \in 0..3 /\ e > 1
    BY <2>1 DEF Effects, Copy, BorrowShared, Move
  <2>3. ~(e <= 1)
    BY <2>2
  <2> QED
    BY <2>1, <2>3 DEF e, BorrowShared
<1>2. CASE <<p, Inferred(p)>> \in program.raises
  BY <1>1, <1>2, ReachSelf DEF Uses
<1>3. CASE \E q \in Params : <<p, q>> \in program.passes /\ Inferred(p) = effect[q]
  <2>1. PICK q \in Params : <<p, q>> \in program.passes /\ Inferred(p) = effect[q]
    BY <1>3
  <2>2. Inferred(p) \in Uses(program.passes, q)
    BY <2>1 DEF NothingStricterThanNeeded
  <2>3. PICK r \in Reach(Params, program.passes, q) : <<r, Inferred(p)>> \in program.raises
    BY <2>2 DEF Uses
  <2>4. r \in Reach(Params, program.passes, p)
    BY <2>1, ReachStep
  <2> QED
    BY <1>1, <2>3, <2>4 DEF Uses
<1> QED
  BY <1>1, <1>2, <1>3, InferredCases

\* Before the inference every effect is Copy.
LEMMA InitNothingStricter == Init => NothingStricterThanNeeded
  BY DEF Init, NothingStricterThanNeeded, Copy, BorrowShared

\* Every step keeps every summary as strict as needed at most.
LEMMA StepNothingStricter ==
  TypeOK /\ NothingStricterThanNeeded /\ [Next]_vars => NothingStricterThanNeeded'
<1> SUFFICES ASSUME TypeOK, NothingStricterThanNeeded, [Next]_vars,
                    NEW p \in Params, effect'[p] > BorrowShared
             PROVE  effect'[p] \in Uses(program.passes, p)'
  BY DEF NothingStricterThanNeeded
<1>1. program' = program /\ Uses(program.passes, p)' = Uses(program.passes, p)
  BY DEF Next, Tarjan, Root, Edge, Finish, BeginInference, InferNext, PassEnds,
         InferenceEnds, vars, Uses
<1>2. effect'[p] = effect[p] \/ effect'[p] = Inferred(p)
  <2>1. CASE InferNext
    BY <2>1, InferNextVisits, InferEffect
  <2>2. CASE ~InferNext
    BY <2>2 DEF Next, Tarjan, Root, Edge, Finish, BeginInference, PassEnds,
                InferenceEnds, vars, inferVars
  <2> QED
    BY <2>1, <2>2
<1> QED
  BY <1>1, <1>2, InferredNeeded DEF NothingStricterThanNeeded

\* The inductive invariant.
IInv == TypeOK /\ NothingStricterThanNeeded

\* Whatever order functions, calls and components are visited in, and however
\* often, a summary never asks for more than reading a parameter unless some
\* chain of calls ends in a body that does that to it.
THEOREM NothingStricterCorrect == Spec => []NothingStricterThanNeeded
<1>1. Init => IInv
  BY InitTypeOK, InitNothingStricter DEF IInv
<1>2. IInv /\ [Next]_vars => IInv'
  BY StepTypeOK, StepNothingStricter DEF IInv
<1>3. IInv => NothingStricterThanNeeded
  BY DEF IInv
<1> QED
  BY <1>1, <1>2, <1>3, PTL DEF Spec

-----------------------------------------------------------------------------
(* tarjan_scc *)

On == {f \in Funs : OnStack(f)}
Found == UNION {Range(out[i]) : i \in DOMAIN out}
R == [f \in Funs |-> Reach(Funs, Calls, f)]

\* v's frame has still to look at w.
Waits(v, w) == \E i \in DOMAIN frames : frames[i].node = v /\ w \in frames[i].edges
Looked(v) == {w \in Callees(v) : ~Waits(v, w)}

\* What is on the stack from a frame's node up to the next one's.
Segment(i) ==
  {v \in On : /\ index[frames[i].node] <= index[v]
              /\ \A k \in DOMAIN frames : i < k => index[v] < index[frames[k].node]}

Numbered == \A f \in Funs : index[f] <= Cardinality(Indexed)
Split == Indexed = On \cup Found /\ On \cap Found = {}
StackSorted == \A i, k \in DOMAIN stack : i < k => index[stack[i]] < index[stack[k]]
FramesSorted ==
  /\ \A i, k \in DOMAIN frames : i < k => index[frames[i].node] < index[frames[k].node]
  /\ \A i \in DOMAIN frames : frames[i].node \in On /\ frames[i].edges \subseteq Callees(frames[i].node)
Covered == \A v \in On : \E i \in DOMAIN frames : v \in Segment(i)
LookedIndexed == \A v \in Indexed : Looked(v) \subseteq Indexed
LowEnough ==
  \A i \in DOMAIN frames :
    /\ lowlink[frames[i].node] <= index[frames[i].node]
    /\ \A v \in Segment(i) : \A w \in Looked(v) \cap On : lowlink[frames[i].node] <= index[w]
LowReached ==
  \A i \in DOMAIN frames : \E w \in On \cap R[frames[i].node] : index[w] = lowlink[frames[i].node]
Mutual ==
  \A i \in DOMAIN frames : \A v \in Segment(i) :
    v \in R[frames[i].node] /\ frames[i].node \in R[v]
Chain == \A i, k \in DOMAIN frames : i < k => frames[k].node \in R[frames[i].node]
Components ==
  \A i \in DOMAIN out :
    /\ Range(out[i]) # {}
    /\ \A f \in Range(out[i]) : Cycle(f) = Range(out[i])
    /\ \A k \in DOMAIN out : Range(out[i]) \cap Range(out[k]) # {} => i = k

Numbers == Numbered /\ Split /\ StackSorted /\ FramesSorted /\ Covered /\ LookedIndexed
Lows == LowEnough /\ LowReached /\ Mutual /\ Chain
TarjanInv == Numbers /\ Lows /\ CalleesComeFirst /\ Components
SearchEnded == phase # "scc" => frames = <<>> /\ Indexed = Funs

-----------------------------------------------------------------------------
(* Reachability *)

\* What is reachable is a set of functions with f, closed under reachability
\* and under calls.
LEMMA Reaching ==
  ASSUME TypeOK, NEW f \in Funs
  PROVE  /\ R[f] \subseteq Funs /\ f \in R[f]
         /\ \A g \in R[f] : R[g] \subseteq R[f]
         /\ Callees(f) \subseteq R[f]
<1>1. R[f] \subseteq Funs /\ f \in R[f]
  BY DEF R, Reach
<1>2. ASSUME NEW g \in R[f], NEW h \in R[g] PROVE h \in R[f]
  BY <1>2 DEF R, Reach
<1>3. ASSUME NEW g \in Callees(f) PROVE g \in R[f]
  <2>1. g \in Funs
    BY CalleesType
  <2>2. <<f, g>> \in Calls
    BY <2>1 DEF Calls
  <2> QED
    BY <2>1, <2>2 DEF R, Reach
<1> QED
  BY <1>1, <1>2, <1>3

\* It is the least such set.
LEMMA ReachStays ==
  ASSUME NEW f \in Funs, NEW T \in SUBSET Funs, f \in T, \A v \in T : Callees(v) \subseteq T
  PROVE  R[f] \subseteq T
<1>1. \A e \in Calls : e[1] \in T => e[2] \in T
  BY DEF Calls
<1> QED
  BY <1>1 DEF R, Reach

\* It does not change.
LEMMA ReachFixed ==
  ASSUME program' = program
  PROVE  /\ R' = R /\ \A f \in Funs : Cycle(f)' = Cycle(f)
         /\ \A f \in Funs : Callees(f)' = Callees(f)
  BY DEF R, Reach, Calls, Callees, Cycle

\* Two functions are in one cycle when they reach each other.
LEMMA CycleFacts ==
  ASSUME TypeOK, NEW f \in Funs
  PROVE  Cycle(f) = {g \in Funs : g \in R[f] /\ f \in R[g]}
  BY Reaching DEF Cycle, R

-----------------------------------------------------------------------------
(* A visit *)

\* g is visited, called from the frames fs, whose last one may have lost the edge to g.
Visits(g, fs) ==
  /\ g \in Funs \ Indexed /\ fs \in Seq(FrameType) /\ DOMAIN fs = DOMAIN frames
  /\ \A i \in DOMAIN frames :
       /\ fs[i].node = frames[i].node
       /\ fs[i].edges \subseteq frames[i].edges /\ frames[i].edges \subseteq fs[i].edges \cup {g}
  /\ StrongConnect(g, fs) /\ program' = program

\* What the visit does to the indices, the stack and the frames; m is g's frame.
Visited(g, fs, m) ==
  /\ \A f \in Funs : index[f] \in Nat /\ index[f] < index'[g]
  /\ \A v \in Funs \ {g} : index'[v] = index[v] /\ lowlink'[v] = lowlink[v]
  /\ index'[g] \in Nat /\ lowlink'[g] = index'[g] /\ index'[g] = Cardinality(Indexed')
  /\ On' = On \cup {g} /\ g \notin On /\ Found' = Found /\ Indexed' = Indexed \cup {g}
  /\ DOMAIN frames' = DOMAIN frames \cup {m} /\ m \notin DOMAIN frames
  /\ m \in Nat /\ \A i \in DOMAIN frames : i < m /\ i \in Nat
  /\ \A i \in DOMAIN frames : frames'[i] = fs[i]
  /\ frames'[m] = [node |-> g, edges |-> Callees(g)]

LEMMA VisitFacts ==
  ASSUME TypeOK, Numbers, NEW g, NEW fs, Visits(g, fs), NEW m, m = Len(frames) + 1
  PROVE  Visited(g, fs, m)
<1> DEFINE N == Cardinality(Indexed)
<1>1. N + 1 \in Indices /\ N \in Nat /\ Cardinality(Funs) \in Nat
  <2>1. IsFiniteSet(Funs) /\ Indexed \in SUBSET Funs /\ g \in Funs \ Indexed
    BY FunsAssumption DEF Indexed, Visits
  <2> QED
    BY <2>1, NextIndex, FS_Subset, FS_CardinalityType
<1>2. Cardinality(Indexed \cup {g}) = N + 1
  <2>1. IsFiniteSet(Indexed)
    BY FunsAssumption, FS_Subset DEF Indexed
  <2> QED
    BY <2>1, FS_AddElement DEF Visits
<1> HIDE DEF N
<1>3. /\ index' = [index EXCEPT ![g] = N + 1] /\ lowlink' = [lowlink EXCEPT ![g] = N + 1]
      /\ stack' = Append(stack, g) /\ out' = out
      /\ frames' = Append(fs, [node |-> g, edges |-> Callees(g)])
      /\ g \in Funs \ Indexed
  BY DEF Visits, StrongConnect, N
<1>4. /\ \A f \in Funs : index[f] \in Nat /\ index[f] < N + 1
      /\ index'[g] = N + 1 /\ lowlink'[g] = N + 1
      /\ \A v \in Funs \ {g} : index'[v] = index[v] /\ lowlink'[v] = lowlink[v]
  BY <1>1, <1>3 DEF TypeOK, Numbers, Numbered, N
<1>5. Indexed' = Indexed \cup {g}
  BY <1>1, <1>3, <1>4 DEF Indexed
<1>6. On' = On \cup {g} /\ g \notin On /\ Found' = Found
  <2>1. \A f \in Funs : (\E i \in DOMAIN Append(stack, g) : Append(stack, g)[i] = f)
                          <=> (\E i \in DOMAIN stack : stack[i] = f) \/ f = g
    <3>1. /\ DOMAIN Append(stack, g) = DOMAIN stack \cup {Len(stack) + 1}
          /\ Append(stack, g)[Len(stack) + 1] = g
          /\ \A i \in DOMAIN stack : Append(stack, g)[i] = stack[i]
      <4>1. stack \in Seq(Funs)
        BY DEF TypeOK
      <4> QED
        BY <4>1, AppendFacts
    <3> QED
      BY <3>1
  <2> QED
    BY <1>3, <2>1 DEF On, OnStack, Found, Numbers, Split
<1>7. /\ DOMAIN frames' = DOMAIN frames \cup {m} /\ m \notin DOMAIN frames
      /\ m \in Nat /\ \A i \in DOMAIN frames : i < m /\ i \in Nat
      /\ \A i \in DOMAIN frames : frames'[i] = fs[i]
      /\ frames'[m] = [node |-> g, edges |-> Callees(g)]
  <2>1. frames \in Seq(FrameType) /\ fs \in Seq(FrameType) /\ Len(fs) = Len(frames)
    BY DEF TypeOK, FrameType, Visits
  <2> QED
    BY <1>3, <2>1
<1>8. index'[g] = Cardinality(Indexed')
  BY <1>2, <1>4, <1>5
<1> QED
  BY <1>1, <1>4, <1>5, <1>6, <1>7, <1>8 DEF Visited

\* The frames' nodes are on the stack.
LEMMA NodesOn == Numbers => \A i \in DOMAIN frames : frames[i].node \in On /\ frames[i].node \in Funs
  BY DEF Numbers, FramesSorted, On

\* The segments and what was looked at, after a visit.
LEMMA VisitSegments ==
  ASSUME TypeOK, Numbers, NEW g, NEW fs, Visits(g, fs), NEW m, m = Len(frames) + 1
  PROVE  /\ \A i \in DOMAIN frames : Segment(i)' = Segment(i)
         /\ Segment(m)' = {g}
         /\ Looked(g)' = {}
         /\ \A v \in Funs \ {g} : Looked(v)' \subseteq Looked(v) \cup {g}
<1>1. Visited(g, fs, m)
  BY VisitFacts
<1>2. \A i \in DOMAIN frames :
        /\ frames[i].node \in On \ {g} /\ frames[i].node \in Funs
        /\ frames'[i].node = frames[i].node
        /\ frames[i].edges \subseteq frames'[i].edges \cup {g}
  BY <1>1, NodesOn DEF Visited, Visits
<1>3. frames'[m].node = g /\ frames'[m].edges = Callees(g) /\ Callees(g)' = Callees(g)
      /\ g \in Funs
  BY <1>1, ReachFixed DEF Visited, Visits
<1>4. ASSUME NEW i \in DOMAIN frames PROVE Segment(i)' = Segment(i)
  BY <1>1, <1>2, <1>3 DEF Visited, Segment, On
<1>5. Segment(m)' = {g}
  BY <1>1, <1>2, <1>3 DEF Visited, Segment, On
<1>6. Looked(g)' = {}
  BY <1>1, <1>3 DEF Visited, Looked, Waits
<1>7. ASSUME NEW v \in Funs \ {g} PROVE Looked(v)' \subseteq Looked(v) \cup {g}
  <2>1. Callees(v)' = Callees(v)
    BY ReachFixed DEF Visits
  <2>2. \A w : Waits(v, w) => Waits(v, w)' \/ w = g
    BY <1>1, <1>2 DEF Visited, Waits
  <2> QED
    BY <2>1, <2>2 DEF Looked
<1> QED
  BY <1>4, <1>5, <1>6, <1>7

LEMMA VisitKeepsNumbers ==
  ASSUME TypeOK, Numbers, NEW g, NEW fs, Visits(g, fs)
  PROVE  Numbers'
<1>0. PICK m : m = Len(frames) + 1
  OBVIOUS
<1>1. Visited(g, fs, m)
  BY <1>0, VisitFacts
<1>2. /\ \A i \in DOMAIN frames : Segment(i)' = Segment(i)
      /\ Segment(m)' = {g} /\ Looked(g)' = {}
      /\ \A v \in Funs \ {g} : Looked(v)' \subseteq Looked(v) \cup {g}
  BY <1>0, VisitSegments
<1>3. /\ \A i \in DOMAIN frames : frames'[i].node = frames[i].node /\ frames'[i].node \in On
      /\ frames'[m].node = g /\ frames'[m].edges = Callees(g)
      /\ g \in Funs \ Indexed
  BY <1>1, NodesOn DEF Visited, Visits
<1>4. Numbered'
  <2>1. ASSUME NEW f \in Funs PROVE index'[f] <= index'[g]
    <3>1. index[f] \in Nat /\ index[f] < index'[g] /\ index'[g] \in Nat
      BY <1>1 DEF Visited
    <3>2. f = g \/ index'[f] = index[f]
      BY <1>1 DEF Visited
    <3> QED
      BY <3>1, <3>2
  <2>2. index'[g] = Cardinality(Indexed')
    BY <1>1 DEF Visited
  <2> QED
    BY <2>1, <2>2 DEF Numbered
<1>5. Split'
  BY <1>1, <1>3 DEF Visited, Numbers, Split
<1>6. StackSorted'
  <2>1. /\ stack \in Seq(Funs) /\ stack' = Append(stack, g)
    BY DEF TypeOK, Visits, StrongConnect
  <2>2. \A i \in DOMAIN stack : stack[i] \in On \ {g} /\ stack[i] \in Funs
    BY <1>1, <2>1 DEF On, OnStack, Visited
  <2>3. /\ DOMAIN stack' = DOMAIN stack \cup {Len(stack) + 1} /\ stack'[Len(stack) + 1] = g
        /\ \A i \in DOMAIN stack : stack'[i] = stack[i] /\ i < Len(stack) + 1 /\ i \in Nat
        /\ Len(stack) + 1 \in Nat
    BY <2>1
  <2>4. ASSUME NEW i \in DOMAIN stack', NEW k \in DOMAIN stack', i < k
        PROVE  index'[stack'[i]] < index'[stack'[k]]
    <3>1. i \in DOMAIN stack
      BY <2>3, <2>4
    <3>2. CASE k \in DOMAIN stack
      BY <1>1, <2>2, <2>3, <2>4, <3>1, <3>2 DEF Visited, Numbers, StackSorted
    <3>3. CASE k = Len(stack) + 1
      BY <1>1, <2>2, <2>3, <3>1, <3>3 DEF Visited
    <3> QED
      BY <2>3, <3>2, <3>3
  <2> QED
    BY <2>4 DEF StackSorted
<1>7. FramesSorted'
  <2>1. ASSUME NEW i \in DOMAIN frames', NEW k \in DOMAIN frames', i < k
        PROVE  index'[frames'[i].node] < index'[frames'[k].node]
    <3>1. i \in DOMAIN frames /\ (k \in DOMAIN frames \/ k = m)
      BY <1>1, <2>1 DEF Visited
    <3>2. CASE k \in DOMAIN frames
      BY <1>1, <1>3, <2>1, <3>1, <3>2, NodesOn DEF Visited, Numbers, FramesSorted
    <3>3. CASE k = m
      BY <1>1, <1>3, <3>1, <3>3, NodesOn DEF Visited
    <3> QED
      BY <3>1, <3>2, <3>3
  <2>2. \A i \in DOMAIN frames' :
          /\ frames'[i].node \in On'
          /\ frames'[i].edges \subseteq program'.calls[frames'[i].node]
    <3>1. \A i \in DOMAIN frames : frames'[i].edges \subseteq program.calls[frames'[i].node]
      BY <1>1, <1>3 DEF Visited, Visits, Numbers, FramesSorted, Callees
    <3> QED
      BY <1>1, <1>3, <3>1 DEF Visited, Callees, Visits
  <2> QED
    BY <2>1, <2>2 DEF FramesSorted, Callees
<1>8. Covered'
  BY <1>1, <1>2 DEF Visited, Numbers, Covered
<1>9. LookedIndexed'
  BY <1>1, <1>2 DEF Visited, Numbers, LookedIndexed, Indexed
<1> QED
  BY <1>4, <1>5, <1>6, <1>7, <1>8, <1>9 DEF Numbers

LEMMA VisitKeepsLows ==
  ASSUME TypeOK, Numbers, Lows, NEW g, NEW fs, Visits(g, fs),
         \A i \in DOMAIN frames : g \in R[frames[i].node]
  PROVE  Lows'
<1>0. PICK m : m = Len(frames) + 1
  OBVIOUS
<1>1. Visited(g, fs, m) /\ g \in Funs
  BY <1>0, VisitFacts DEF Visits
<1>2. /\ \A i \in DOMAIN frames : Segment(i)' = Segment(i)
      /\ Segment(m)' = {g} /\ Looked(g)' = {}
      /\ \A v \in Funs \ {g} : Looked(v)' \subseteq Looked(v) \cup {g}
  BY <1>0, VisitSegments
<1>3. /\ \A i \in DOMAIN frames : frames'[i].node = frames[i].node /\ frames[i].node \in On \ {g}
                                  /\ frames[i].node \in Funs
      /\ frames'[m].node = g
  BY <1>1, NodesOn DEF Visited, Visits
<1>4. R' = R
  BY ReachFixed DEF Visits
<1>5. LowEnough'
  <2>1. ASSUME NEW i \in DOMAIN frames
        PROVE  /\ lowlink'[frames'[i].node] <= index'[frames'[i].node]
               /\ \A v \in Segment(i)' : \A w \in Looked(v)' \cap On' :
                    lowlink'[frames'[i].node] <= index'[w]
    <3>1. lowlink[frames[i].node] <= index[frames[i].node]
          /\ lowlink[frames[i].node] \in Nat
      BY <1>3 DEF Lows, LowEnough, TypeOK
    <3>2. lowlink'[frames'[i].node] = lowlink[frames[i].node]
          /\ index'[frames'[i].node] = index[frames[i].node]
      BY <1>1, <1>3 DEF Visited
    <3>3. ASSUME NEW v \in Segment(i), NEW w \in Looked(v)', w \in On'
          PROVE  lowlink[frames[i].node] <= index'[w]
      <4>1. v \in On /\ v \in Funs \ {g} /\ v \in Indexed
        BY <1>1 DEF Segment, On, Visited, Numbers, Split
      <4>2. CASE w = g
        BY <1>1, <1>3, <3>1, <4>2 DEF Visited
      <4>3. CASE w # g
        <5>1. w \in Looked(v) /\ w \in On /\ w \in Funs \ {g}
          BY <1>1, <1>2, <3>3, <4>1, <4>3 DEF Visited, On
        <5> QED
          BY <1>1, <5>1 DEF Visited, Lows, LowEnough
      <4> QED
        BY <4>2, <4>3
    <3> QED
      BY <1>2, <3>1, <3>2, <3>3
  <2>2. /\ lowlink'[frames'[m].node] <= index'[frames'[m].node]
        /\ \A v \in Segment(m)' : \A w \in Looked(v)' \cap On' :
             lowlink'[frames'[m].node] <= index'[w]
    BY <1>1, <1>2, <1>3 DEF Visited
  <2> QED
    BY <1>1, <2>1, <2>2 DEF LowEnough, Visited
<1>6. LowReached'
  <2>1. ASSUME NEW i \in DOMAIN frames
        PROVE  \E w \in On' \cap R'[frames'[i].node] : index'[w] = lowlink'[frames'[i].node]
    <3>1. PICK w \in On \cap R[frames[i].node] : index[w] = lowlink[frames[i].node]
      BY DEF Lows, LowReached
    <3>2. w \in Funs \ {g} /\ w \in On'
      BY <1>1, <3>1 DEF On, Visited
    <3> QED
      BY <1>1, <1>3, <1>4, <3>1, <3>2 DEF Visited
  <2>2. g \in On' \cap R'[frames'[m].node] /\ index'[g] = lowlink'[frames'[m].node]
    BY <1>1, <1>3, <1>4, Reaching DEF Visited
  <2> QED
    BY <1>1, <2>1, <2>2 DEF LowReached, Visited
<1>7. Mutual'
  <2>1. ASSUME NEW i \in DOMAIN frames, NEW v \in Segment(i)
        PROVE  v \in R'[frames'[i].node] /\ frames'[i].node \in R'[v]
    <3>1. v \in Funs
      BY DEF Segment, On
    <3> QED
      BY <1>3, <1>4, <3>1 DEF Lows, Mutual
  <2>2. g \in R'[frames'[m].node] /\ frames'[m].node \in R'[g]
    BY <1>1, <1>3, <1>4, Reaching
  <2> QED
    BY <1>1, <1>2, <2>1, <2>2 DEF Mutual, Visited
<1>8. Chain'
  <2>1. ASSUME NEW i \in DOMAIN frames', NEW k \in DOMAIN frames', i < k
        PROVE  frames'[k].node \in R'[frames'[i].node]
    <3>1. i \in DOMAIN frames /\ (k \in DOMAIN frames \/ k = m)
      BY <1>1, <2>1 DEF Visited
    <3> QED
      BY <1>3, <1>4, <2>1, <3>1 DEF Lows, Chain
  <2> QED
    BY <2>1 DEF Chain
<1> QED
  BY <1>5, <1>6, <1>7, <1>8 DEF Lows

\* A visit finds no component.
LEMMA OutKept ==
  ASSUME TypeOK, CalleesComeFirst, Components, out' = out, program' = program
  PROVE  CalleesComeFirst' /\ Components'
<1>1. \A i \in DOMAIN out : Range(out[i]) \subseteq Funs
  BY DEF TypeOK, Range
<1>2. \A f \in Funs : Callees(f)' = Callees(f) /\ Cycle(f)' = Cycle(f)
  BY ReachFixed
<1> QED
  BY <1>1, <1>2 DEF CalleesComeFirst, Components
-----------------------------------------------------------------------------
(* A look at an edge to a function that has an index *)

Looks(g) ==
  /\ frames # <<>> /\ g \in Frame.edges /\ g \in Indexed
  /\ LookAt(g) /\ program' = program

\* What it does; m is the last frame.
Saw(g, m) ==
  /\ m \in DOMAIN frames /\ \A i \in DOMAIN frames : i \in Nat /\ i <= m
  /\ DOMAIN frames' = DOMAIN frames
  /\ \A i \in DOMAIN frames : frames'[i].node = frames[i].node
  /\ \A i \in DOMAIN frames : i # m => frames'[i].edges = frames[i].edges
  /\ frames'[m].edges = frames[m].edges \ {g}
  /\ \A v \in Funs \ {frames[m].node} : lowlink'[v] = lowlink[v]
  /\ lowlink'[frames[m].node] = IF g \in On THEN Least(lowlink[frames[m].node], index[g])
                                ELSE lowlink[frames[m].node]
  /\ g \in Callees(frames[m].node) /\ g \in Funs /\ g \in Indexed
  /\ index' = index /\ stack' = stack /\ out' = out
  /\ On' = On /\ Found' = Found /\ Indexed' = Indexed

LEMMA LookFacts ==
  ASSUME TypeOK, Numbers, NEW g, Looks(g), NEW m, m = Len(frames)
  PROVE  Saw(g, m)
<1>1. frames \in Seq(FrameType) /\ frames # <<>>
  BY DEF TypeOK, FrameType, Looks
<1>2. m \in DOMAIN frames /\ \A i \in DOMAIN frames : i \in Nat /\ i <= m
  BY <1>1
<1>3. /\ frames' = [frames EXCEPT ![m].edges = @ \ {g}]
      /\ lowlink' = IF g \in On THEN [lowlink EXCEPT ![frames[m].node] = Least(@, index[g])]
                    ELSE lowlink
      /\ index' = index /\ stack' = stack /\ out' = out
  BY DEF Looks, LookAt, Without, Frame, On, Indexed
<1>4. frames[m] \in FrameType /\ \A i \in DOMAIN frames : frames[i] \in FrameType
  BY <1>1, <1>2
<1>5. /\ DOMAIN frames' = DOMAIN frames
      /\ \A i \in DOMAIN frames : frames'[i].node = frames[i].node
      /\ \A i \in DOMAIN frames : i # m => frames'[i].edges = frames[i].edges
      /\ frames'[m].edges = frames[m].edges \ {g}
  BY <1>1, <1>2, <1>3, <1>4 DEF FrameType
<1>6. /\ \A v \in Funs \ {frames[m].node} : lowlink'[v] = lowlink[v]
      /\ lowlink'[frames[m].node] = IF g \in On THEN Least(lowlink[frames[m].node], index[g])
                                    ELSE lowlink[frames[m].node]
  <2>1. frames[m].node \in Funs /\ lowlink \in [Funs -> 0..Cardinality(Funs)]
    BY <1>4 DEF FrameType, TypeOK
  <2> QED
    BY <1>3, <2>1
<1>7. g \in Callees(frames[m].node) /\ g \in Funs /\ g \in Indexed
  BY <1>2 DEF Looks, Frame, Numbers, FramesSorted, Indexed
<1>8. On' = On /\ Found' = Found /\ Indexed' = Indexed
  BY <1>3 DEF On, OnStack, Found, Indexed
<1> QED
  BY <1>2, <1>3, <1>5, <1>6, <1>7, <1>8 DEF Saw

LEMMA LookSegments ==
  ASSUME TypeOK, Numbers, NEW g, Looks(g), NEW m, m = Len(frames)
  PROVE  /\ \A i \in DOMAIN frames : Segment(i)' = Segment(i)
         /\ \A v \in Funs : Looked(v)' \subseteq Looked(v) \cup {g}
         /\ \A v \in Funs \ {frames[m].node} : Looked(v)' \subseteq Looked(v)
<1>1. Saw(g, m)
  BY LookFacts
<1>2. ASSUME NEW i \in DOMAIN frames PROVE Segment(i)' = Segment(i)
  BY <1>1 DEF Saw, Segment
<1>3. ASSUME NEW v \in Funs PROVE Callees(v)' = Callees(v)
  BY ReachFixed DEF Looks
<1>4. \A v, w : Waits(v, w) => Waits(v, w)' \/ (v = frames[m].node /\ w = g)
  BY <1>1 DEF Saw, Waits
<1> QED
  BY <1>2, <1>3, <1>4 DEF Looked

LEMMA LookKeepsNumbers ==
  ASSUME TypeOK, Numbers, NEW g, Looks(g)
  PROVE  Numbers'
<1>0. PICK m : m = Len(frames)
  OBVIOUS
<1>1. Saw(g, m)
  BY <1>0, LookFacts
<1>2. /\ \A i \in DOMAIN frames : Segment(i)' = Segment(i)
      /\ \A v \in Funs : Looked(v)' \subseteq Looked(v) \cup {g}
  BY <1>0, LookSegments
<1>3. Numbered' /\ Split' /\ StackSorted'
  BY <1>1 DEF Saw, Numbers, Numbered, Split, StackSorted
<1>4. FramesSorted'
  <2>1. \A i \in DOMAIN frames : frames'[i].edges \subseteq frames[i].edges
    BY <1>1 DEF Saw
  <2> QED
    BY <1>1, <2>1 DEF Saw, Looks, Numbers, FramesSorted, Callees
<1>5. Covered'
  BY <1>1, <1>2 DEF Saw, Numbers, Covered
<1>6. LookedIndexed'
  BY <1>1, <1>2 DEF Saw, Numbers, LookedIndexed, Indexed
<1> QED
  BY <1>3, <1>4, <1>5, <1>6 DEF Numbers

LEMMA LookKeepsLows ==
  ASSUME TypeOK, Numbers, Lows, NEW g, Looks(g)
  PROVE  Lows'
<1>0. PICK m : m = Len(frames)
  OBVIOUS
<1>1. Saw(g, m)
  BY <1>0, LookFacts
<1>2. /\ \A i \in DOMAIN frames : Segment(i)' = Segment(i)
      /\ \A v \in Funs : Looked(v)' \subseteq Looked(v) \cup {g}
      /\ \A v \in Funs \ {frames[m].node} : Looked(v)' \subseteq Looked(v)
  BY <1>0, LookSegments
<1>3. R' = R
  BY ReachFixed DEF Looks
<1>4. \A i \in DOMAIN frames :
        /\ frames[i].node \in Funs
        /\ lowlink'[frames[i].node] <= lowlink[frames[i].node]
        /\ lowlink[frames[i].node] \in Nat /\ index[frames[i].node] \in Nat
        /\ lowlink'[frames[i].node] \in Nat
  <2>1. \A v \in Funs : lowlink[v] \in Nat /\ index[v] \in Nat
    BY DEF TypeOK
  <2> QED
    BY <1>1, <2>1, NodesOn DEF Saw, Least
<1>5. LowEnough'
  <2>1. ASSUME NEW i \in DOMAIN frames
        PROVE  /\ lowlink'[frames[i].node] <= index[frames[i].node]
               /\ \A v \in Segment(i) : \A w \in Looked(v)' \cap On :
                    lowlink'[frames[i].node] <= index[w]
    <3>1. lowlink'[frames[i].node] <= index[frames[i].node]
      BY <1>4 DEF Lows, LowEnough
    <3>2. ASSUME NEW v \in Segment(i), NEW w \in Looked(v)', w \in On
          PROVE  lowlink'[frames[i].node] <= index[w]
      <4>1. v \in Funs /\ w \in Funs /\ index[w] \in Nat
        BY <3>2 DEF Segment, On, TypeOK
      <4>2. CASE w \in Looked(v)
        BY <1>4, <3>2, <4>1, <4>2 DEF Lows, LowEnough
      <4>3. CASE w \notin Looked(v)
        <5>1. w = g /\ v = frames[m].node
          BY <1>2, <3>2, <4>1, <4>3
        <5>2. i = m
          BY <1>1, <1>4, <3>2, <5>1 DEF Saw, Segment
        <5> QED
          BY <1>1, <1>4, <3>2, <4>1, <5>1, <5>2 DEF Saw, Least
      <4> QED
        BY <4>2, <4>3
    <3> QED
      BY <3>1, <3>2
  <2> QED
    BY <1>1, <1>2, <2>1 DEF Saw, LowEnough
<1>6. LowReached'
  <2>1. ASSUME NEW i \in DOMAIN frames
        PROVE  \E w \in On \cap R[frames[i].node] : index[w] = lowlink'[frames[i].node]
    <3>1. PICK w \in On \cap R[frames[i].node] : index[w] = lowlink[frames[i].node]
      BY DEF Lows, LowReached
    <3>2. CASE lowlink'[frames[i].node] = lowlink[frames[i].node]
      BY <3>1, <3>2
    <3>3. CASE lowlink'[frames[i].node] # lowlink[frames[i].node]
      <4>1. /\ frames[i].node = frames[m].node /\ g \in On
            /\ lowlink'[frames[i].node] = index[g]
        BY <1>1, <1>4, <3>3 DEF Saw, Least
      <4>2. g \in R[frames[i].node]
        BY <1>1, <1>4, <4>1, Reaching DEF Saw
      <4> QED
        BY <4>1, <4>2
    <3> QED
      BY <3>2, <3>3
  <2> QED
    BY <1>1, <1>3, <2>1 DEF Saw, LowReached
<1>7. Mutual' /\ Chain'
  BY <1>1, <1>2, <1>3 DEF Saw, Lows, Mutual, Chain
<1> QED
  BY <1>5, <1>6, <1>7 DEF Lows
-----------------------------------------------------------------------------
(* The end of a call of strong_connect *)

\* f's frame, the last one m, is taken off.
Ends(f, m) ==
  /\ frames # <<>> /\ m = Len(frames) /\ frames[m].edges = {} /\ f = frames[m].node
  /\ frames' = Front(frames) /\ index' = index /\ program' = program

LEMMA EndFacts ==
  ASSUME TypeOK, Numbers, NEW f, NEW m, Ends(f, m)
  PROVE  /\ f \in Funs /\ f \in On /\ f \in Segment(m)
         /\ m \in DOMAIN frames /\ \A i \in DOMAIN frames : i \in Nat /\ 1 <= i /\ i <= m
         /\ DOMAIN frames' = DOMAIN frames \ {m}
         /\ \A i \in 1..m : i \in DOMAIN frames
         /\ \A i \in DOMAIN frames \ {m} : frames'[i] = frames[i]
         /\ \A i \in DOMAIN frames \ {m} : index[frames[i].node] < index[f]
         /\ Indexed' = Indexed
         /\ \A v \in Funs : Looked(v)' = Looked(v)
         /\ \A v \in On : index[f] <= index[v] => Looked(v) = Callees(v)
         /\ R' = R
<1>1. frames \in Seq(FrameType) /\ frames # <<>> /\ m = Len(frames) /\ frames' = Front(frames)
  BY DEF TypeOK, FrameType, Ends
<1>2. m \in DOMAIN frames /\ \A i \in DOMAIN frames : i \in Nat /\ 1 <= i /\ i <= m
  BY <1>1
<1>3. /\ DOMAIN frames' = DOMAIN frames \ {m}
      /\ \A i \in 1..m : i \in DOMAIN frames
      /\ \A i \in DOMAIN frames \ {m} : frames'[i] = frames[i]
  <2>1. Front(frames) = [i \in 1..(Len(frames) - 1) |-> frames[i]]
    BY <1>1 DEF Front
  <2> QED
    BY <1>1, <2>1
<1>4. f \in Funs /\ f \in On
  BY <1>2, NodesOn DEF Ends
<1>5. \A i \in DOMAIN frames \ {m} : index[frames[i].node] < index[f]
  BY <1>2 DEF Ends, Numbers, FramesSorted
<1>6. \A v \in Funs : index[v] \in Nat
  BY DEF TypeOK
<1>7. f \in Segment(m)
  BY <1>2, <1>4, <1>6 DEF Segment, Ends
<1>8. Indexed' = Indexed
  BY DEF Indexed, Ends
<1>9. \A v, w : Waits(v, w)' <=> Waits(v, w)
  BY <1>3 DEF Waits, Ends
<1>10. R' = R /\ \A v \in Funs : Callees(v)' = Callees(v)
  BY ReachFixed DEF Ends
<1>11. ASSUME NEW v \in On, index[f] <= index[v] PROVE Looked(v) = Callees(v)
  <2>1. v \in Funs
    BY DEF On
  <2>2. \A i \in DOMAIN frames : frames[i].node = v => i = m
    BY <1>4, <1>5, <1>6, <1>11, <2>1
  <2>3. \A w : ~Waits(v, w)
    BY <2>2 DEF Waits, Ends
  <2> QED
    BY <2>3 DEF Looked
<1>12. \A v \in Funs : Looked(v)' = Looked(v)
  BY <1>9, <1>10 DEF Looked
<1> QED
  BY <1>2, <1>3, <1>4, <1>5, <1>7, <1>8, <1>10, <1>11, <1>12

\* The caller's lowlink is lowered to f's.
Lowers(f, m) ==
  lowlink' = IF Front(frames) = <<>> THEN lowlink
             ELSE [lowlink EXCEPT ![Last(Front(frames)).node] = Least(@, lowlink[f])]

LEMMA LowersFacts ==
  ASSUME TypeOK, Numbers, NEW f, NEW m, Ends(f, m), Lowers(f, m)
  PROVE  /\ m = 1 => lowlink' = lowlink
         /\ m > 1 =>
              /\ m - 1 \in DOMAIN frames
              /\ lowlink'[frames[m - 1].node] = Least(lowlink[frames[m - 1].node], lowlink[f])
              /\ \A v \in Funs \ {frames[m - 1].node} : lowlink'[v] = lowlink[v]
<1>1. frames \in Seq(FrameType) /\ frames # <<>> /\ m = Len(frames)
  BY DEF TypeOK, FrameType, Ends
<1>2. Front(frames) = [i \in 1..(m - 1) |-> frames[i]]
  BY <1>1 DEF Front
<1>3. CASE m = 1
  BY <1>1, <1>2, <1>3 DEF Lowers
<1>4. CASE m > 1
  <2>1. Last(Front(frames)) = frames[m - 1] /\ Front(frames) # <<>> /\ m - 1 \in DOMAIN frames
    BY <1>1, <1>2, <1>4 DEF Last
  <2>2. frames[m - 1].node \in Funs /\ lowlink \in [Funs -> 0..Cardinality(Funs)]
    BY <2>1, NodesOn DEF TypeOK
  <2>3. lowlink' = [lowlink EXCEPT ![frames[m - 1].node] =
                                     Least(lowlink[frames[m - 1].node], lowlink[f])]
    BY <2>1 DEF Lowers
  <2> QED
    BY <1>4, <2>1, <2>2, <2>3
<1> QED
  BY <1>1, <1>3, <1>4

\* A function that is not its own lowlink has a caller, and reaches it.
Merges(f, m) ==
  /\ Ends(f, m) /\ Lowers(f, m) /\ lowlink[f] # index[f]
  /\ out' = out /\ stack' = stack

LEMMA CallerReached ==
  ASSUME TypeOK, Numbers, Lows, NEW f, NEW m, Ends(f, m), lowlink[f] # index[f]
  PROVE  m > 1 /\ frames[m - 1].node \in R[f]
<1>1. /\ f \in Funs /\ m \in DOMAIN frames /\ f = frames[m].node
      /\ \A i \in DOMAIN frames : i \in Nat /\ 1 <= i /\ i <= m
      /\ \A i \in 1..m : i \in DOMAIN frames
  BY EndFacts DEF Ends
<1>2. lowlink[f] <= index[f] /\ \A v \in Funs : index[v] \in Nat /\ lowlink[v] \in Nat
  BY <1>1 DEF Lows, LowEnough, TypeOK
<1>3. PICK w \in On \cap R[f] : index[w] = lowlink[f]
  BY <1>1 DEF Lows, LowReached
<1>4. w \in Funs /\ index[w] < index[f]
  BY <1>1, <1>2, <1>3 DEF On
<1>5. PICK k \in DOMAIN frames : w \in Segment(k)
  BY <1>3 DEF Numbers, Covered
<1>6. k < m
  BY <1>1, <1>2, <1>4, <1>5 DEF Segment
<1>7. m > 1 /\ m - 1 \in DOMAIN frames /\ k <= m - 1
  BY <1>1, <1>6
<1>8. /\ frames[k].node \in R[w] /\ frames[k].node \in Funs
      /\ frames[m - 1].node \in Funs
  BY <1>5, <1>7, NodesOn DEF Lows, Mutual
<1>9. frames[m - 1].node \in R[frames[k].node]
  <2>1. CASE k = m - 1
    BY <1>8, <2>1, Reaching
  <2>2. CASE k # m - 1
    BY <1>1, <1>7, <2>2 DEF Lows, Chain
  <2> QED
    BY <2>1, <2>2
<1>10. R[w] \subseteq R[f] /\ R[frames[k].node] \subseteq R[w]
  BY <1>1, <1>3, <1>4, <1>8, Reaching
<1> QED
  BY <1>7, <1>9, <1>10

\* Its segment goes over to its caller.
LEMMA MergeSegments ==
  ASSUME TypeOK, Numbers, NEW f, NEW m, Merges(f, m), m > 1
  PROVE  /\ \A i \in DOMAIN frames \ {m, m - 1} : Segment(i)' = Segment(i)
         /\ Segment(m - 1)' = Segment(m - 1) \cup Segment(m)
<1>1. /\ m \in DOMAIN frames /\ f = frames[m].node
      /\ \A i \in DOMAIN frames : i \in Nat /\ 1 <= i /\ i <= m
      /\ DOMAIN frames' = DOMAIN frames \ {m}
      /\ \A i \in 1..m : i \in DOMAIN frames
      /\ \A i \in DOMAIN frames \ {m} : frames'[i] = frames[i]
      /\ \A i \in DOMAIN frames \ {m} : index[frames[i].node] < index[f]
  BY EndFacts DEF Ends, Merges
<1>2. On' = On /\ index' = index
  BY DEF On, OnStack, Merges, Ends
<1>3. \A v \in Funs : index[v] \in Nat
  BY DEF TypeOK
<1>4. \A i \in DOMAIN frames : frames[i].node \in Funs
  BY NodesOn
<1>5. On \subseteq Funs
  BY DEF On
<1>6. \A i, k \in DOMAIN frames : i < k => index[frames[i].node] < index[frames[k].node]
  BY DEF Numbers, FramesSorted
<1>7. m - 1 \in DOMAIN frames /\ m - 1 # m
  BY <1>1
<1>8. ASSUME NEW i \in DOMAIN frames \ {m, m - 1} PROVE Segment(i)' = Segment(i)
  <2>1. i < m - 1
    BY <1>1, <1>8
  <2>2. ASSUME NEW v \in On, index[v] < index[frames[m - 1].node] PROVE index[v] < index[f]
    BY <1>1, <1>3, <1>4, <1>5, <1>7, <2>2
  <2> QED
    BY <1>1, <1>2, <1>7, <2>1, <2>2 DEF Segment
<1>9. ASSUME NEW v
      PROVE  v \in Segment(m - 1)' <=> v \in Segment(m - 1) \cup Segment(m)
  <2>1. v \in Segment(m - 1)' <=> v \in On /\ index[frames[m - 1].node] <= index[v]
    BY <1>1, <1>2, <1>7 DEF Segment
  <2>2. v \in Segment(m) <=> v \in On /\ index[f] <= index[v]
    BY <1>1 DEF Segment
  <2>3. v \in Segment(m - 1)
          <=> v \in On /\ index[frames[m - 1].node] <= index[v] /\ index[v] < index[f]
    BY <1>1, <1>7 DEF Segment
  <2> QED
    BY <1>1, <1>3, <1>4, <1>5, <1>7, <2>1, <2>2, <2>3
<1> QED
  BY <1>8, <1>9

LEMMA MergeKeepsNumbers ==
  ASSUME TypeOK, Numbers, Lows, NEW f, NEW m, Merges(f, m)
  PROVE  Numbers'
<1>1. /\ m \in DOMAIN frames /\ f = frames[m].node
      /\ \A i \in DOMAIN frames : i \in Nat /\ 1 <= i /\ i <= m
      /\ DOMAIN frames' = DOMAIN frames \ {m}
      /\ \A i \in 1..m : i \in DOMAIN frames
      /\ \A i \in DOMAIN frames \ {m} : frames'[i] = frames[i]
      /\ Indexed' = Indexed
      /\ \A v \in Funs : Looked(v)' = Looked(v)
  BY EndFacts DEF Ends, Merges
<1>2. m > 1
  BY CallerReached DEF Merges
<1>3. On' = On /\ index' = index /\ Found' = Found /\ stack' = stack /\ program' = program
  BY DEF On, OnStack, Found, Merges, Ends
<1>4. Numbered' /\ Split' /\ StackSorted'
  BY <1>1, <1>3 DEF Numbers, Numbered, Split, StackSorted
<1>5. FramesSorted'
  BY <1>1, <1>3 DEF Numbers, FramesSorted, Callees
<1>6. Covered'
  <2>1. /\ \A i \in DOMAIN frames \ {m, m - 1} : Segment(i)' = Segment(i)
        /\ Segment(m - 1)' = Segment(m - 1) \cup Segment(m)
    BY <1>2, MergeSegments
  <2>2. m - 1 \in DOMAIN frames'
    BY <1>1, <1>2
  <2>3. ASSUME NEW v \in On PROVE \E i \in DOMAIN frames' : v \in Segment(i)'
    <3>1. PICK i \in DOMAIN frames : v \in Segment(i)
      BY <2>3 DEF Numbers, Covered
    <3> QED
      BY <1>1, <2>1, <2>2, <3>1
  <2> QED
    BY <1>3, <2>3 DEF Covered
<1>7. LookedIndexed'
  BY <1>1 DEF Numbers, LookedIndexed, Indexed
<1> QED
  BY <1>4, <1>5, <1>6, <1>7 DEF Numbers

LEMMA MergeKeepsLows ==
  ASSUME TypeOK, Numbers, Lows, NEW f, NEW m, Merges(f, m)
  PROVE  Lows'
<1>0. m > 1 /\ frames[m - 1].node \in R[f]
  BY CallerReached DEF Merges
<1>1. /\ m \in DOMAIN frames /\ f = frames[m].node /\ f \in Funs
      /\ \A i \in DOMAIN frames : i \in Nat /\ 1 <= i /\ i <= m
      /\ DOMAIN frames' = DOMAIN frames \ {m}
      /\ \A i \in 1..m : i \in DOMAIN frames
      /\ \A i \in DOMAIN frames \ {m} : frames'[i] = frames[i]
      /\ \A i \in DOMAIN frames \ {m} : index[frames[i].node] < index[f]
      /\ \A v \in Funs : Looked(v)' = Looked(v)
      /\ R' = R
  BY EndFacts DEF Ends, Merges
<1>2. On' = On /\ index' = index
  BY DEF On, OnStack, Merges, Ends
<1>3. /\ \A i \in DOMAIN frames \ {m, m - 1} : Segment(i)' = Segment(i)
      /\ Segment(m - 1)' = Segment(m - 1) \cup Segment(m)
  BY <1>0, MergeSegments
<1> DEFINE p == frames[m - 1].node
<1>4. m - 1 \in DOMAIN frames \ {m} /\ p \in Funs /\ f \in R[p]
  BY <1>0, <1>1, NodesOn DEF Lows, Chain
<1>5. /\ lowlink'[p] = Least(lowlink[p], lowlink[f])
      /\ \A v \in Funs \ {p} : lowlink'[v] = lowlink[v]
  BY <1>0, LowersFacts DEF Merges
<1>6. /\ \A v \in Funs : index[v] \in Nat /\ lowlink[v] \in Nat /\ lowlink'[v] \in Nat
      /\ \A v \in Funs : lowlink'[v] <= lowlink[v]
      /\ lowlink'[p] <= lowlink[f]
  <2>1. \A v \in Funs : index[v] \in Nat /\ lowlink[v] \in Nat
    BY DEF TypeOK
  <2> QED
    BY <1>1, <1>4, <1>5, <2>1 DEF Least
<1>7. \A i \in DOMAIN frames \ {m} : frames[i].node \in Funs /\ (frames[i].node = p => i = m - 1)
  <2>1. ASSUME NEW i \in DOMAIN frames \ {m}, frames[i].node = p PROVE i = m - 1
    BY <1>1, <1>4, <1>6, <2>1 DEF Numbers, FramesSorted
  <2> QED
    BY <2>1, NodesOn
<1> HIDE DEF p
<1>8. LowEnough'
  <2>1. ASSUME NEW i \in DOMAIN frames \ {m}
        PROVE  /\ lowlink'[frames[i].node] <= index[frames[i].node]
               /\ \A v \in Segment(i)' : \A w \in Looked(v) \cap On :
                    lowlink'[frames[i].node] <= index[w]
    <3>1. lowlink'[frames[i].node] <= index[frames[i].node]
      BY <1>6, <1>7 DEF Lows, LowEnough
    <3>2. ASSUME NEW v \in Segment(i)', NEW w \in Looked(v) \cap On
          PROVE  lowlink'[frames[i].node] <= index[w]
      <4>1. w \in Funs /\ index[w] \in Nat
        BY <1>6 DEF On
      <4>2. CASE v \in Segment(i)
        BY <1>6, <1>7, <4>1, <4>2 DEF Lows, LowEnough
      <4>3. CASE v \notin Segment(i)
        <5>1. i = m - 1 /\ v \in Segment(m)
          BY <1>3, <3>2, <4>3
        <5>2. lowlink[f] <= index[w]
          BY <1>1, <5>1 DEF Lows, LowEnough
        <5> QED
          BY <1>1, <1>4, <1>6, <4>1, <5>1, <5>2 DEF p
      <4> QED
        BY <4>2, <4>3
    <3> QED
      BY <3>1, <3>2
  <2>2. \A i \in DOMAIN frames \ {m} : \A v \in Segment(i)' : v \in Funs
    BY <1>3, <1>4 DEF Segment, On
  <2> QED
    BY <1>1, <1>2, <2>1, <2>2 DEF LowEnough
<1>9. LowReached'
  <2>1. ASSUME NEW i \in DOMAIN frames \ {m}
        PROVE  \E w \in On \cap R[frames[i].node] : index[w] = lowlink'[frames[i].node]
    <3>1. PICK w \in On \cap R[frames[i].node] : index[w] = lowlink[frames[i].node]
      BY DEF Lows, LowReached
    <3>2. CASE lowlink'[frames[i].node] = lowlink[frames[i].node]
      BY <3>1, <3>2
    <3>3. CASE lowlink'[frames[i].node] # lowlink[frames[i].node]
      <4>1. frames[i].node = p /\ lowlink'[frames[i].node] = lowlink[f]
        BY <1>5, <1>7, <3>3 DEF Least
      <4>2. PICK u \in On \cap R[f] : index[u] = lowlink[f]
        BY <1>1 DEF Lows, LowReached
      <4>3. R[f] \subseteq R[p]
        BY <1>4, Reaching
      <4> QED
        BY <4>1, <4>2, <4>3
    <3> QED
      BY <3>2, <3>3
  <2> QED
    BY <1>1, <1>2, <2>1 DEF LowReached
<1>10. Mutual'
  <2>1. ASSUME NEW i \in DOMAIN frames \ {m}, NEW v \in Segment(i)'
        PROVE  v \in R[frames[i].node] /\ frames[i].node \in R[v]
    <3>1. CASE v \in Segment(i)
      BY <3>1 DEF Lows, Mutual
    <3>2. CASE v \notin Segment(i)
      <4>1. frames[i].node = p /\ v \in Segment(m) /\ v \in Funs
        BY <1>3, <2>1, <3>2 DEF p, Segment, On
      <4>2. v \in R[f] /\ f \in R[v]
        BY <1>1, <4>1 DEF Lows, Mutual
      <4>3. R[f] \subseteq R[p] /\ R[f] \subseteq R[v]
        BY <1>1, <1>4, <4>1, <4>2, Reaching
      <4>4. p \in R[f]
        BY <1>0 DEF p
      <4> QED
        BY <4>1, <4>2, <4>3, <4>4
    <3> QED
      BY <3>1, <3>2
  <2> QED
    BY <1>1, <2>1 DEF Mutual
<1>11. Chain'
  BY <1>1 DEF Lows, Chain
<1> QED
  BY <1>8, <1>9, <1>10, <1>11 DEF Lows

-----------------------------------------------------------------------------
(* A component is found *)

Pops(f, m) == Ends(f, m) /\ Lowers(f, m) /\ lowlink[f] = index[f] /\ Pop(f)

\* What was on the stack from f on is f's segment, and a component of its own.
Popped(f, m, n) ==
  /\ On' = On \ Segment(m) /\ Found' = Found \cup Segment(m)
  /\ Segment(m) = {v \in On : index[f] <= index[v]}
  /\ stack' \in Seq(Funs) /\ DOMAIN stack' \subseteq DOMAIN stack
  /\ \A i \in DOMAIN stack' : stack'[i] = stack[i]
  /\ n \notin DOMAIN out /\ DOMAIN out' = DOMAIN out \cup {n}
  /\ \A i \in DOMAIN out : i \in 1..n
  /\ \A i \in 1..n : i \in DOMAIN out' /\ 1..i \subseteq DOMAIN out'
  /\ \A i \in DOMAIN out : out'[i] = out[i]
  /\ Range(out'[n]) = Segment(m)

LEMMA CutRange ==
  ASSUME NEW s \in Seq(Funs), NEW b \in DOMAIN s
  PROVE  /\ Range(Reverse(SubSeq(s, b, Len(s)))) = {s[i] : i \in b..Len(s)}
         /\ SubSeq(s, 1, b - 1) \in Seq(Funs)
         /\ DOMAIN SubSeq(s, 1, b - 1) = 1..(b - 1)
         /\ \A i \in 1..(b - 1) : SubSeq(s, 1, b - 1)[i] = s[i]
<1> DEFINE t == SubSeq(s, b, Len(s))
<1>1. b \in 1..Len(s) /\ Len(s) \in Nat
  OBVIOUS
<1>2. Len(t) = Len(s) - b + 1 /\ \A i \in 1..Len(t) : t[i] = s[b + i - 1]
  BY <1>1
<1>3. \A i \in b..Len(s) : i - b + 1 \in 1..Len(t) /\ t[i - b + 1] = s[i]
  BY <1>1, <1>2
<1>4. \A i \in 1..Len(t) : b + i - 1 \in b..Len(s)
  BY <1>1, <1>2
<1>5. Len(t) \in Nat
  BY <1>1, <1>2
<1> HIDE DEF t
<1>6. /\ DOMAIN Reverse(t) = 1..Len(t)
      /\ \A i \in 1..Len(t) : Reverse(t)[i] = t[(Len(t) - i) + 1]
  BY DEF Reverse
<1>7. \A i \in 1..Len(t) : (Len(t) - i) + 1 \in 1..Len(t)
                           /\ (Len(t) - ((Len(t) - i) + 1)) + 1 = i
  BY <1>5
<1>8. ASSUME NEW x PROVE x \in Range(Reverse(t)) <=> x \in {s[i] : i \in b..Len(s)}
  <2>1. x \in Range(Reverse(t)) <=> \E i \in 1..Len(t) : x = t[(Len(t) - i) + 1]
    BY <1>6 DEF Range
  <2>2. ASSUME NEW i \in 1..Len(t), x = t[i] PROVE x \in Range(Reverse(t))
    BY <1>7, <2>1, <2>2
  <2>3. x \in Range(Reverse(t)) => \E i \in 1..Len(t) : x = t[i]
    BY <1>7, <2>1
  <2> QED
    BY <1>2, <1>3, <1>4, <2>2, <2>3
<1>9. /\ SubSeq(s, 1, b - 1) \in Seq(Funs)
      /\ DOMAIN SubSeq(s, 1, b - 1) = 1..(b - 1)
      /\ \A i \in 1..(b - 1) : SubSeq(s, 1, b - 1)[i] = s[i]
  <2>1. 1 \in Int /\ b - 1 \in Int /\ Len(s) \in Nat /\ b - 1 <= Len(s)
    BY <1>1
  <2>2. \A i \in 1..(b - 1) : s[i] \in Funs
    BY <1>1
  <2> QED
    BY <2>1, <2>2, <1>1
<1>10. Range(Reverse(t)) = {s[i] : i \in b..Len(s)}
  BY <1>8
<1> QED
  BY <1>9, <1>10 DEF t

LEMMA PopFacts ==
  ASSUME TypeOK, Numbers, NEW f, NEW m, Pops(f, m), NEW n, n = Len(out) + 1
  PROVE  Popped(f, m, n)
<1>1. /\ f \in On /\ f \in Funs /\ f = frames[m].node /\ m \in DOMAIN frames
      /\ \A i \in DOMAIN frames : i \in Nat /\ i <= m
  BY EndFacts DEF Ends, Pops
<1>2. \A v \in Funs : index[v] \in Nat
  BY DEF TypeOK
<1>3. Segment(m) = {v \in On : index[f] <= index[v]}
  BY <1>1 DEF Segment
<1>4. PICK b \in DOMAIN stack :
        /\ stack[b] = f
        /\ out' = Append(out, Reverse(SubSeq(stack, b, Len(stack))))
        /\ stack' = SubSeq(stack, 1, b - 1)
  BY DEF Pops, Pop, Emitted
<1>5. stack \in Seq(Funs) /\ out \in Seq(Seq(Funs))
  BY DEF TypeOK
<1>6. DOMAIN stack = 1..Len(stack) /\ Len(stack) \in Nat /\ b \in Nat /\ 1 <= b /\ b <= Len(stack)
  BY <1>4, <1>5
<1>7. /\ stack' \in Seq(Funs) /\ DOMAIN stack' = 1..(b - 1)
      /\ \A i \in 1..(b - 1) : stack'[i] = stack[i]
      /\ Range(Reverse(SubSeq(stack, b, Len(stack)))) = {stack[i] : i \in b..Len(stack)}
  BY <1>4, <1>5, CutRange
<1>8. ASSUME NEW i \in DOMAIN stack
      PROVE  stack[i] \in On /\ (stack[i] \in Segment(m) <=> b <= i)
  <2>1. stack[i] \in On /\ stack[i] \in Funs /\ i \in Nat
    BY <1>5, <1>6 DEF On, OnStack
  <2>2. CASE i < b
    BY <1>2, <1>1, <1>3, <1>4, <1>6, <2>1, <2>2 DEF Numbers, StackSorted
  <2>3. CASE i = b
    BY <1>2, <1>1, <1>3, <1>4, <1>6, <2>1, <2>3
  <2>4. CASE b < i
    BY <1>2, <1>1, <1>3, <1>4, <1>6, <2>1, <2>4 DEF Numbers, StackSorted
  <2> QED
    BY <1>6, <2>1, <2>2, <2>3, <2>4
<1>9. {stack[i] : i \in b..Len(stack)} = Segment(m)
  <2>1. \A i \in b..Len(stack) : i \in DOMAIN stack /\ b <= i
    BY <1>6
  <2>2. ASSUME NEW v \in Segment(m) PROVE \E i \in b..Len(stack) : v = stack[i]
    <3>1. PICK i \in DOMAIN stack : stack[i] = v
      BY <1>3 DEF On, OnStack
    <3>2. b <= i
      BY <1>8, <3>1
    <3> QED
      BY <1>6, <3>1, <3>2
  <2> QED
    BY <1>8, <2>1, <2>2
<1>10. On' = On \ Segment(m)
  <2>1. ASSUME NEW v \in On' PROVE v \in On \ Segment(m)
    <3>1. PICK i \in 1..(b - 1) : stack[i] = v
      BY <1>7 DEF On, OnStack
    <3> QED
      BY <1>6, <1>8, <3>1
  <2>2. ASSUME NEW v \in On \ Segment(m) PROVE v \in On'
    <3>1. PICK i \in DOMAIN stack : stack[i] = v
      BY DEF On, OnStack
    <3>2. i \in 1..(b - 1) /\ v \in Funs
      BY <1>6, <1>8, <2>2, <3>1 DEF On
    <3> QED
      BY <1>7, <3>1, <3>2 DEF On, OnStack
  <2> QED
    BY <2>1, <2>2
<1>11. /\ n \notin DOMAIN out /\ DOMAIN out' = DOMAIN out \cup {n}
       /\ \A i \in DOMAIN out : i \in 1..n
       /\ \A i \in 1..n : i \in DOMAIN out' /\ 1..i \subseteq DOMAIN out'
       /\ \A i \in DOMAIN out : out'[i] = out[i]
       /\ out'[n] = Reverse(SubSeq(stack, b, Len(stack)))
  <2> DEFINE c == Reverse(SubSeq(stack, b, Len(stack)))
  <2>1. out' = Append(out, c)
    BY <1>4
  <2> HIDE DEF c
  <2>2. /\ n \notin DOMAIN out /\ DOMAIN out' = DOMAIN out \cup {n}
        /\ \A i \in DOMAIN out : i \in 1..n
        /\ \A i \in 1..n : i \in DOMAIN out' /\ 1..i \subseteq DOMAIN out'
        /\ \A i \in DOMAIN out : out'[i] = out[i]
        /\ out'[n] = c
    BY <1>5, <2>1
  <2> QED
    BY <2>2 DEF c
<1>12. Range(out'[n]) = Segment(m)
  BY <1>7, <1>9, <1>11
<1>13. Found' = Found \cup Segment(m)
  BY <1>11, <1>12 DEF Found
<1>14. DOMAIN stack' \subseteq DOMAIN stack /\ \A i \in DOMAIN stack' : stack'[i] = stack[i]
  BY <1>6, <1>7
<1> QED
  BY <1>3, <1>7, <1>10, <1>11, <1>12, <1>13, <1>14 DEF Popped

LEMMA PopSegments ==
  ASSUME TypeOK, Numbers, NEW f, NEW m, Pops(f, m)
  PROVE  \A i \in DOMAIN frames \ {m} :
           /\ Segment(i)' = Segment(i)
           /\ \A v \in On : index[v] <= index[frames[i].node] => v \in On'
<1>0. PICK n : n = Len(out) + 1
  OBVIOUS
<1>1. Popped(f, m, n)
  BY <1>0, PopFacts
<1>2. /\ m \in DOMAIN frames /\ f = frames[m].node /\ f \in Funs
      /\ \A i \in DOMAIN frames : i \in Nat /\ 1 <= i /\ i <= m
      /\ DOMAIN frames' = DOMAIN frames \ {m}
      /\ \A i \in DOMAIN frames \ {m} : frames'[i] = frames[i]
      /\ \A i \in DOMAIN frames \ {m} : index[frames[i].node] < index[f]
      /\ index' = index
  BY EndFacts DEF Ends, Pops
<1>3. \A v \in Funs : index[v] \in Nat
  BY DEF TypeOK
<1>4. On \subseteq Funs /\ \A i \in DOMAIN frames : frames[i].node \in Funs
  BY NodesOn DEF On
<1>5. ASSUME NEW i \in DOMAIN frames \ {m}
      PROVE  \A v \in On : index[v] <= index[frames[i].node] => v \in On'
  BY <1>1, <1>2, <1>3, <1>4 DEF Popped
<1>6. ASSUME NEW i \in DOMAIN frames \ {m} PROVE Segment(i)' = Segment(i)
  <2>1. i < m
    BY <1>2
  <2>2. \A v \in On : v \in On' <=> index[v] < index[f]
    BY <1>1, <1>2, <1>3, <1>4 DEF Popped
  <2>3. On' \subseteq On
    BY <1>1 DEF Popped
  <2> QED
    BY <1>2, <2>1, <2>2, <2>3 DEF Segment
<1> QED
  BY <1>5, <1>6

LEMMA PopKeepsNumbers ==
  ASSUME TypeOK, Numbers, NEW f, NEW m, Pops(f, m)
  PROVE  Numbers'
<1>0. PICK n : n = Len(out) + 1
  OBVIOUS
<1>1. Popped(f, m, n)
  BY <1>0, PopFacts
<1>2. /\ m \in DOMAIN frames /\ f = frames[m].node /\ f \in Funs
      /\ \A i \in DOMAIN frames : i \in Nat /\ 1 <= i /\ i <= m
      /\ DOMAIN frames' = DOMAIN frames \ {m}
      /\ \A i \in DOMAIN frames \ {m} : frames'[i] = frames[i]
      /\ \A v \in Funs : Looked(v)' = Looked(v)
      /\ Indexed' = Indexed /\ index' = index /\ program' = program
  BY EndFacts DEF Ends, Pops
<1>3. \A i \in DOMAIN frames \ {m} :
        /\ Segment(i)' = Segment(i)
        /\ \A v \in On : index[v] <= index[frames[i].node] => v \in On'
  BY PopSegments
<1>4. Numbered' /\ LookedIndexed'
  BY <1>2 DEF Numbers, Numbered, LookedIndexed, Indexed
<1>5. Split'
  <2>1. Segment(m) \subseteq On
    BY DEF Segment
  <2> QED
    BY <1>1, <1>2, <2>1 DEF Popped, Numbers, Split
<1>6. StackSorted'
  BY <1>1, <1>2 DEF Popped, Numbers, StackSorted
<1>7. FramesSorted'
  <2>1. \A v \in Funs : index[v] \in Nat
    BY DEF TypeOK
  <2> QED
    BY <1>2, <1>3, <2>1, NodesOn DEF Numbers, FramesSorted, Callees
<1>8. Covered'
  <2>1. ASSUME NEW v \in On' PROVE \E i \in DOMAIN frames' : v \in Segment(i)'
    <3>1. v \in On /\ v \notin Segment(m)
      BY <1>1, <2>1 DEF Popped
    <3>2. PICK i \in DOMAIN frames : v \in Segment(i)
      BY <3>1 DEF Numbers, Covered
    <3> QED
      BY <1>2, <1>3, <3>1, <3>2
  <2> QED
    BY <2>1 DEF Covered
<1> QED
  BY <1>4, <1>5, <1>6, <1>7, <1>8 DEF Numbers

LEMMA PopKeepsLows ==
  ASSUME TypeOK, Numbers, Lows, NEW f, NEW m, Pops(f, m)
  PROVE  Lows'
<1>0. PICK n : n = Len(out) + 1
  OBVIOUS
<1>1. Popped(f, m, n)
  BY <1>0, PopFacts
<1>2. /\ m \in DOMAIN frames /\ f = frames[m].node /\ f \in Funs
      /\ \A i \in DOMAIN frames : i \in Nat /\ 1 <= i /\ i <= m
      /\ DOMAIN frames' = DOMAIN frames \ {m}
      /\ \A i \in 1..m : i \in DOMAIN frames
      /\ \A i \in DOMAIN frames \ {m} : frames'[i] = frames[i]
      /\ \A i \in DOMAIN frames \ {m} : index[frames[i].node] < index[f]
      /\ \A v \in Funs : Looked(v)' = Looked(v)
      /\ R' = R /\ index' = index
  BY EndFacts DEF Ends, Pops
<1>3. \A i \in DOMAIN frames \ {m} :
        /\ Segment(i)' = Segment(i)
        /\ \A v \in On : index[v] <= index[frames[i].node] => v \in On'
  BY PopSegments
<1>4. \A v \in Funs : index[v] \in Nat /\ lowlink[v] \in Nat
  BY DEF TypeOK
<1>5. \A i \in DOMAIN frames : frames[i].node \in Funs
  BY NodesOn
<1>6. \A v \in Funs : lowlink'[v] = lowlink[v]
  <2>1. CASE m = 1
    BY <2>1, LowersFacts DEF Pops
  <2>2. CASE m # 1
    <3>1. /\ m > 1 /\ m - 1 \in DOMAIN frames \ {m}
          /\ lowlink'[frames[m - 1].node] = Least(lowlink[frames[m - 1].node], lowlink[f])
          /\ \A v \in Funs \ {frames[m - 1].node} : lowlink'[v] = lowlink[v]
      BY <1>2, <2>2, LowersFacts DEF Pops
    <3>2. lowlink[frames[m - 1].node] <= index[frames[m - 1].node]
      BY <3>1 DEF Lows, LowEnough
    <3>3. lowlink[frames[m - 1].node] < lowlink[f]
      BY <1>2, <1>4, <1>5, <3>1, <3>2 DEF Pops
    <3> QED
      BY <1>2, <1>4, <1>5, <3>1, <3>3 DEF Least
  <2> QED
    BY <2>1, <2>2
<1>7. On' \subseteq On /\ On \subseteq Funs
  BY <1>1 DEF Popped, On
<1>8. LowEnough'
  <2>1. \A i \in DOMAIN frames : Segment(i) \subseteq Funs
    BY <1>7 DEF Segment
  <2> QED
    BY <1>2, <1>3, <1>5, <1>6, <1>7, <2>1 DEF Lows, LowEnough
<1>9. LowReached'
  <2>1. ASSUME NEW i \in DOMAIN frames \ {m}
        PROVE  \E w \in On' \cap R[frames[i].node] : index[w] = lowlink[frames[i].node]
    <3>1. PICK w \in On \cap R[frames[i].node] : index[w] = lowlink[frames[i].node]
      BY DEF Lows, LowReached
    <3>2. lowlink[frames[i].node] <= index[frames[i].node]
      BY DEF Lows, LowEnough
    <3> QED
      BY <1>3, <3>1, <3>2
  <2> QED
    BY <1>2, <1>5, <1>6, <2>1 DEF LowReached
<1>10. Mutual' /\ Chain'
  BY <1>2, <1>3 DEF Lows, Mutual, Chain
<1> QED
  BY <1>8, <1>9, <1>10 DEF Lows

\* Calls out of what is found lead to what is found.
LEMMA FoundClosed ==
  TypeOK /\ CalleesComeFirst => \A v \in Found : Callees(v) \subseteq Found
<1> SUFFICES ASSUME TypeOK, CalleesComeFirst, NEW i \in DOMAIN out, NEW v \in Range(out[i]),
                    NEW w \in Callees(v)
             PROVE  w \in Found
  BY DEF Found
<1>1. PICK k \in 1..i : w \in Range(out[k])
  BY DEF CalleesComeFirst
<1>2. k \in DOMAIN out
  BY DEF TypeOK
<1> QED
  BY <1>1, <1>2 DEF Found

LEMMA PopFindsComponent ==
  ASSUME TypeOK, Numbers, Lows, CalleesComeFirst, NEW f, NEW m, Pops(f, m)
  PROVE  /\ \A v \in Segment(m) : Callees(v) \subseteq Segment(m) \cup Found
         /\ \A v \in Segment(m) : Cycle(v) = Segment(m)
         /\ Segment(m) # {} /\ Segment(m) \cap Found = {}
<1>1. /\ m \in DOMAIN frames /\ f = frames[m].node /\ f \in Funs /\ f \in Segment(m)
      /\ \A v \in On : index[f] <= index[v] => Looked(v) = Callees(v)
  BY EndFacts DEF Ends, Pops
<1>2. \A v \in Segment(m) : v \in On /\ v \in Funs /\ v \in Indexed /\ index[f] <= index[v]
  BY <1>1 DEF Segment, On, Numbers, Split
<1>3. Segment(m) = {v \in On : index[f] <= index[v]}
  <2>1. \A i \in DOMAIN frames : i <= m
    BY EndFacts DEF Pops
  <2>2. \A i \in DOMAIN frames : i \in Nat
    BY EndFacts DEF Pops
  <2> QED
    BY <1>1, <2>1, <2>2 DEF Segment
<1>4. ASSUME NEW v \in Segment(m) PROVE Callees(v) \subseteq Segment(m) \cup Found
  <2>1. Callees(v) = Looked(v) /\ Looked(v) \subseteq Indexed
    BY <1>1, <1>2 DEF Numbers, LookedIndexed
  <2>2. \A w \in Looked(v) \cap On : index[f] <= index[w]
    BY <1>1 DEF Lows, LowEnough, Pops
  <2> QED
    BY <1>3, <2>1, <2>2 DEF Numbers, Split
<1>5. Segment(m) \cap Found = {}
  BY <1>2 DEF Numbers, Split
<1>6. Found \subseteq Funs
  BY DEF Numbers, Split, Indexed
<1>7. ASSUME NEW v \in Segment(m) PROVE Cycle(v) = Segment(m)
  <2>1. Cycle(v) = {g \in Funs : g \in R[v] /\ v \in R[g]}
    BY <1>2, CycleFacts
  <2>2. ASSUME NEW g \in Segment(m) PROVE g \in R[v]
    <3>1. f \in R[v] /\ g \in R[f]
      BY <1>1 DEF Lows, Mutual
    <3> QED
      BY <1>1, <1>2, <3>1, Reaching
  <2>3. ASSUME NEW g \in Segment(m) PROVE v \in R[g]
    <3>1. f \in R[g] /\ v \in R[f]
      BY <1>1 DEF Lows, Mutual
    <3> QED
      BY <1>1, <1>2, <2>3, <3>1, Reaching
  <2>4. R[v] \subseteq Segment(m) \cup Found
    <3>1. Segment(m) \cup Found \in SUBSET Funs /\ v \in Segment(m) \cup Found
      BY <1>2, <1>6
    <3>2. \A w \in Segment(m) \cup Found : Callees(w) \subseteq Segment(m) \cup Found
      BY <1>4, FoundClosed
    <3> QED
      BY <1>2, <3>1, <3>2, ReachStays
  <2>5. ASSUME NEW g \in Found PROVE v \notin R[g]
    <3>1. R[g] \subseteq Found
      BY <1>6, FoundClosed, ReachStays
    <3> QED
      BY <1>5, <3>1
  <2> QED
    BY <1>2, <2>1, <2>2, <2>3, <2>4, <2>5
<1> QED
  BY <1>1, <1>4, <1>5, <1>7

LEMMA PopKeepsComponents ==
  ASSUME TypeOK, Numbers, Lows, CalleesComeFirst, Components, NEW f, NEW m, Pops(f, m)
  PROVE  CalleesComeFirst' /\ Components'
<1>0. PICK n : n = Len(out) + 1
  OBVIOUS
<1>1. Popped(f, m, n)
  BY <1>0, PopFacts
<1>2. /\ \A v \in Segment(m) : Callees(v) \subseteq Segment(m) \cup Found
      /\ \A v \in Segment(m) : Cycle(v) = Segment(m)
      /\ Segment(m) # {} /\ Segment(m) \cap Found = {}
  BY PopFindsComponent
<1>3. \A v \in Funs : Callees(v)' = Callees(v) /\ Cycle(v)' = Cycle(v)
  BY ReachFixed DEF Pops, Ends
<1>4. /\ \A i \in DOMAIN out : out'[i] = out[i] /\ Range(out[i]) \subseteq Found
      /\ Segment(m) \subseteq Funs /\ Found \subseteq Funs
      /\ Range(out'[n]) = Segment(m)
      /\ DOMAIN out' = DOMAIN out \cup {n} /\ n \notin DOMAIN out
  BY <1>1 DEF Popped, Found, Segment, On, Numbers, Split, Indexed
<1>5. CalleesComeFirst'
  <2>1. ASSUME NEW i \in DOMAIN out', NEW v \in Range(out'[i]), NEW w \in Callees(v)
        PROVE  \E k \in 1..i : w \in Range(out'[k])
    <3>1. CASE i = n
      <4>1. w \in Segment(m) \/ w \in Found
        BY <1>2, <1>4, <2>1, <3>1
      <4>2. \A k \in DOMAIN out : k \in 1..n
        BY <1>1 DEF Popped
      <4>3. ASSUME w \in Found PROVE \E k \in 1..n : w \in Range(out'[k])
        <5>1. PICK k \in DOMAIN out : w \in Range(out[k])
          BY <4>3 DEF Found
        <5> QED
          BY <1>4, <4>2, <5>1
      <4>4. n \in 1..n
        BY <1>0 DEF TypeOK
      <4> QED
        BY <1>4, <3>1, <4>1, <4>3, <4>4
    <3>2. CASE i \in DOMAIN out
      <4>1. PICK k \in 1..i : w \in Range(out[k])
        BY <1>4, <2>1, <3>2 DEF CalleesComeFirst
      <4>2. k \in DOMAIN out
        BY <3>2 DEF TypeOK
      <4> QED
        BY <1>4, <4>1, <4>2
    <3> QED
      BY <1>4, <3>1, <3>2
  <2>2. \A i \in DOMAIN out' : \A v \in Range(out'[i]) : v \in Funs
    BY <1>4
  <2> QED
    BY <1>3, <2>1, <2>2 DEF CalleesComeFirst
<1>6. Components'
  <2>1. ASSUME NEW i \in DOMAIN out'
        PROVE  /\ Range(out'[i]) # {}
               /\ \A v \in Range(out'[i]) : Cycle(v) = Range(out'[i])
               /\ \A k \in DOMAIN out' : Range(out'[i]) \cap Range(out'[k]) # {} => i = k
    <3>1. CASE i = n
      BY <1>2, <1>4, <3>1
    <3>2. CASE i \in DOMAIN out
      BY <1>2, <1>4, <3>2 DEF Components
    <3> QED
      BY <1>4, <3>1, <3>2
  <2>2. \A i \in DOMAIN out' : \A v \in Range(out'[i]) : v \in Funs
    BY <1>4
  <2> QED
    BY <1>3, <2>1, <2>2 DEF Components
<1> QED
  BY <1>5, <1>6
-----------------------------------------------------------------------------
(* The whole search *)

LEMMA InvInit == Init => TarjanInv /\ SearchEnded
<1> SUFFICES ASSUME Init PROVE TarjanInv /\ SearchEnded
  OBVIOUS
<1>1. /\ stack = <<>> /\ frames = <<>> /\ out = <<>> /\ phase = "scc"
      /\ \A f \in Funs : index[f] = 0
  BY DEF Init
<1>2. On = {} /\ Found = {} /\ Indexed = {}
  BY <1>1 DEF On, OnStack, Found, Indexed
<1>3. Numbers
  <2>1. Numbered
    BY <1>1, <1>2, FS_EmptySet DEF Numbered
  <2>2. Split /\ StackSorted /\ FramesSorted /\ Covered /\ LookedIndexed
    BY <1>1, <1>2 DEF Split, StackSorted, FramesSorted, Covered, LookedIndexed
  <2> QED
    BY <2>1, <2>2 DEF Numbers
<1>4. Lows
  BY <1>1 DEF Lows, LowEnough, LowReached, Mutual, Chain
<1>5. CalleesComeFirst /\ Components
  BY <1>1 DEF CalleesComeFirst, Components
<1> QED
  BY <1>1, <1>3, <1>4, <1>5 DEF TarjanInv, SearchEnded

LEMMA VisitKeeps ==
  ASSUME TypeOK, TarjanInv, NEW g, NEW fs, Visits(g, fs),
         \A i \in DOMAIN frames : g \in R[frames[i].node]
  PROVE  TarjanInv'
<1>1. Numbers' /\ Lows'
  BY VisitKeepsNumbers, VisitKeepsLows DEF TarjanInv
<1>2. CalleesComeFirst' /\ Components'
  BY OutKept DEF TarjanInv, Visits, StrongConnect
<1> QED
  BY <1>1, <1>2 DEF TarjanInv

LEMMA RootKeeps == TypeOK /\ TarjanInv /\ Root => TarjanInv'
<1> SUFFICES ASSUME TypeOK, TarjanInv, frames = <<>>, program' = program,
                    NEW g \in Funs \ Indexed, StrongConnect(g, frames)
             PROVE  TarjanInv'
  BY DEF Root
<1>1. Visits(g, frames)
  BY DEF Visits, TypeOK, FrameType
<1> QED
  BY <1>1, VisitKeeps

LEMMA EdgeKeeps == TypeOK /\ TarjanInv /\ Edge => TarjanInv'
<1> SUFFICES ASSUME TypeOK, TarjanInv, frames # <<>>, program' = program,
                    NEW g \in Frame.edges, LookAt(g)
             PROVE  TarjanInv'
  BY DEF Edge
<1>0. PICK m : m = Len(frames)
  OBVIOUS
<1>1. /\ frames \in Seq(FrameType) /\ m \in DOMAIN frames
      /\ \A i \in DOMAIN frames : i \in Nat /\ i <= m
  BY <1>0 DEF TypeOK, FrameType
<1>2. frames[m] \in FrameType /\ g \in frames[m].edges
  BY <1>0, <1>1 DEF Frame
<1>3. g \in Funs /\ frames[m].node \in Funs /\ g \in Callees(frames[m].node)
  BY <1>1, <1>2, NodesOn DEF FrameType, TarjanInv, Numbers, FramesSorted
<1>4. CASE g \in Indexed
  <2>1. Looks(g)
    BY <1>4 DEF Looks
  <2>2. out' = out
    BY <1>4 DEF LookAt
  <2> QED
    BY <2>1, <2>2, LookKeepsNumbers, LookKeepsLows, OutKept DEF TarjanInv
<1>5. CASE g \notin Indexed
  <2>1. Without(g) = [frames EXCEPT ![m].edges = @ \ {g}]
    BY <1>0 DEF Without
  <2>2. Without(g) \in Seq(FrameType) /\ DOMAIN Without(g) = DOMAIN frames
    BY <1>1, <1>2, <2>1 DEF FrameType
  <2>3. \A i \in DOMAIN frames :
          /\ Without(g)[i].node = frames[i].node
          /\ Without(g)[i].edges \subseteq frames[i].edges
          /\ frames[i].edges \subseteq Without(g)[i].edges \cup {g}
    BY <1>1, <1>2, <2>1 DEF FrameType
  <2>4. Visits(g, Without(g))
    BY <1>3, <1>5, <2>2, <2>3 DEF Visits, LookAt
  <2>5. ASSUME NEW i \in DOMAIN frames PROVE g \in R[frames[i].node]
    <3>1. g \in R[frames[m].node] /\ frames[i].node \in Funs
      BY <1>3, Reaching, NodesOn DEF TarjanInv
    <3>2. CASE i = m
      BY <3>1, <3>2
    <3>3. CASE i # m
      <4>1. frames[m].node \in R[frames[i].node]
        BY <1>1, <3>3 DEF TarjanInv, Lows, Chain
      <4> QED
        BY <3>1, <4>1, Reaching
    <3> QED
      BY <3>2, <3>3
  <2> QED
    BY <2>4, <2>5, VisitKeeps
<1> QED
  BY <1>4, <1>5

LEMMA FinishKeeps == TypeOK /\ TarjanInv /\ Finish => TarjanInv'
<1> SUFFICES ASSUME TypeOK, TarjanInv, Finish PROVE TarjanInv'
  OBVIOUS
<1>0. PICK m : m = Len(frames)
  OBVIOUS
<1>1. PICK f : f = frames[m].node
  OBVIOUS
<1>2. Ends(f, m)
  BY <1>0, <1>1 DEF Finish, Frame, Ends
<1>3. Lowers(f, m)
  BY <1>0, <1>1 DEF Finish, Frame, Lowers
<1>4. CASE lowlink[f] = index[f]
  <2>1. Pops(f, m)
    BY <1>0, <1>1, <1>2, <1>3, <1>4 DEF Finish, Frame, Pops
  <2> QED
    BY <2>1, PopKeepsNumbers, PopKeepsLows, PopKeepsComponents DEF TarjanInv
<1>5. CASE lowlink[f] # index[f]
  <2>1. Merges(f, m)
    BY <1>0, <1>1, <1>2, <1>3, <1>5 DEF Finish, Frame, Merges
  <2>2. out' = out /\ program' = program
    BY <2>1 DEF Merges, Ends
  <2> QED
    BY <2>1, <2>2, MergeKeepsNumbers, MergeKeepsLows, OutKept DEF TarjanInv
<1> QED
  BY <1>4, <1>5

LEMMA RestKeeps == TypeOK /\ TarjanInv /\ program' = program /\ UNCHANGED sccVars => TarjanInv'
<1> SUFFICES ASSUME TypeOK, TarjanInv, program' = program, UNCHANGED sccVars PROVE TarjanInv'
  OBVIOUS
<1>1. /\ index' = index /\ lowlink' = lowlink /\ stack' = stack /\ frames' = frames
      /\ out' = out
  BY DEF sccVars
<1>2. On' = On /\ Found' = Found /\ Indexed' = Indexed /\ R' = R
  BY <1>1, ReachFixed DEF On, OnStack, Found, Indexed
<1>3. \A i \in DOMAIN frames : Segment(i)' = Segment(i)
  BY <1>1, <1>2 DEF Segment
<1>4. \A v \in Funs : Looked(v)' = Looked(v)
  BY <1>1, ReachFixed DEF Looked, Waits
<1>5. Numbers'
  <2>1. \A v \in Indexed : v \in Funs
    BY DEF Indexed
  <2> QED
    BY <1>1, <1>2, <1>3, <1>4, <2>1
       DEF TarjanInv, Numbers, Numbered, Split, StackSorted, FramesSorted, Covered,
           LookedIndexed, Callees
<1>6. Lows'
  <2>1. \A i \in DOMAIN frames : Segment(i) \subseteq Funs
    BY DEF Segment, On
  <2> QED
    BY <1>1, <1>2, <1>3, <1>4, <2>1
       DEF TarjanInv, Lows, LowEnough, LowReached, Mutual, Chain
<1>7. CalleesComeFirst' /\ Components'
  BY <1>1, OutKept DEF TarjanInv
<1> QED
  BY <1>5, <1>6, <1>7 DEF TarjanInv

LEMMA InvNext ==
  TypeOK /\ TarjanInv /\ SearchEnded /\ [Next]_vars => TarjanInv' /\ SearchEnded'
<1> SUFFICES ASSUME TypeOK, TarjanInv, SearchEnded, [Next]_vars
             PROVE  TarjanInv' /\ SearchEnded'
  OBVIOUS
<1>1. CASE Root
  BY <1>1, RootKeeps DEF Root, SearchEnded
<1>2. CASE Edge
  BY <1>2, EdgeKeeps DEF Edge, SearchEnded
<1>3. CASE Finish
  BY <1>3, FinishKeeps DEF Finish, SearchEnded
<1>4. CASE BeginInference
  BY <1>4, RestKeeps DEF BeginInference, SearchEnded, sccVars, Indexed
<1>5. CASE InferNext
  BY <1>5, RestKeeps DEF InferNext, SearchEnded, sccVars, Indexed
<1>6. CASE PassEnds
  BY <1>6, RestKeeps DEF PassEnds, SearchEnded, sccVars, Indexed
<1>7. CASE InferenceEnds
  BY <1>7, RestKeeps DEF InferenceEnds, SearchEnded, sccVars, Indexed
<1>8. CASE UNCHANGED vars
  BY <1>8, RestKeeps DEF vars, SearchEnded, sccVars, Indexed
<1> QED
  BY <1>1, <1>2, <1>3, <1>4, <1>5, <1>6, <1>7, <1>8 DEF Next, Tarjan

\* The invariant of the search holds throughout: with TypeOK it is inductive.
THEOREM SearchCorrect == Spec => [](TarjanInv /\ SearchEnded)
<1>1. Spec => []TypeOK
  BY TypeCorrect
<1> QED
  BY <1>1, InvInit, InvNext, PTL DEF Spec

\* CalleesComeFirst, for every call graph and every order in which it is
\* visited: a component comes out of tarjan_scc after all that it calls.
THEOREM CalleesComeFirstCorrect == Spec => []CalleesComeFirst
<1>1. TarjanInv => CalleesComeFirst
  BY DEF TarjanInv
<1> QED
  BY <1>1, SearchCorrect, PTL

LEMMA FoundAll == TypeOK /\ TarjanInv /\ SearchEnded => ComponentsExact
<1> SUFFICES ASSUME TypeOK, TarjanInv, SearchEnded, phase # "scc" PROVE ComponentsExact
  BY DEF ComponentsExact
<1>1. On = {}
  BY DEF SearchEnded, TarjanInv, Numbers, Covered
<1>2. Found = Funs
  BY <1>1 DEF SearchEnded, TarjanInv, Numbers, Split
<1>3. ASSUME NEW f \in Funs PROVE \E i \in DOMAIN out : Range(out[i]) = Cycle(f)
  <2>1. PICK i \in DOMAIN out : f \in Range(out[i])
    BY <1>2 DEF Found
  <2> QED
    BY <2>1 DEF TarjanInv, Components
<1>4. ASSUME NEW i \in DOMAIN out PROVE \E f \in Funs : Range(out[i]) = Cycle(f)
  <2>1. PICK f : f \in Range(out[i])
    BY DEF TarjanInv, Components
  <2>2. f \in Funs
    BY <1>2, <2>1 DEF Found
  <2> QED
    BY <2>1, <2>2 DEF TarjanInv, Components
<1>5. {Range(out[i]) : i \in DOMAIN out} = {Cycle(f) : f \in Funs}
  BY <1>3, <1>4
<1>6. \A i, j \in DOMAIN out : Range(out[i]) \cap Range(out[j]) # {} => i = j
  BY DEF TarjanInv, Components
<1> QED
  BY <1>5, <1>6 DEF ComponentsExact

\* ComponentsExact, for every call graph and every order in which it is
\* visited: tarjan_scc finds the strongly connected components, each once.
THEOREM ComponentsExactCorrect == Spec => []ComponentsExact
<1>1. Spec => []TypeOK
  BY TypeCorrect
<1> QED
  BY <1>1, SearchCorrect, FoundAll, PTL
-----------------------------------------------------------------------------
(* The inference *)

\* A parameter of a component that is done asks for no less than its body and
\* the parameters it is passed to inside the component.
Left == UNION {Range(pending[i]) : i \in DOMAIN pending}
Closed(p) ==
  /\ \A e \in Effects : <<p, e>> \in program.raises => e <= effect[p]
  /\ \A q \in Params : <<p, q>> \in Inner => effect[q] <= effect[p]

NotBegun == phase = "scc" => present = {} /\ pending = <<>> /\ at = 1
CallersFirst ==
  \A i \in DOMAIN pending : \A f \in Range(pending[i]) :
    /\ Cycle(f) = Range(pending[i])
    /\ \A g \in Callees(f) : \E k \in DOMAIN pending : i <= k /\ g \in Range(pending[k])
    /\ \A k \in DOMAIN pending : f \in Range(pending[k]) => i = k
LaterAbsent == \A i \in DOMAIN pending : i > 1 => Range(pending[i]) \cap present = {}
AbsentCopy == \A p \in Params : p[1] \notin present => effect[p] = Copy
OnlyInner == \A p \in Params : effect[p] > BorrowShared => effect[p] \in Uses(Inner, p)
PassStable ==
  pending # <<>> /\ ~changed =>
    \A j \in DOMAIN Head(pending) :
      j < at => \A p \in {Head(pending)[j]} \X Slots : effect[p] = Inferred(p)
DoneClosed == phase # "scc" => \A p \in Params : p[1] \notin Left => Closed(p)
AllDone == phase = "done" => pending = <<>>

InferInv ==
  /\ NotBegun /\ CallersFirst /\ LaterAbsent /\ AbsentCopy
  /\ OnlyInner /\ PassStable /\ DoneClosed /\ AllDone

\* Nothing of what the invariant says of a program changes.
LEMMA InnerFixed ==
  ASSUME TypeOK, program' = program
  PROVE  /\ Inner' = Inner
         /\ \A p \in Params : Uses(Inner, p)' = Uses(Inner, p)
         /\ \A f \in Funs : Cycle(f)' = Cycle(f) /\ Callees(f)' = Callees(f)
<1>1. \A f \in Funs : Cycle(f)' = Cycle(f) /\ Callees(f)' = Callees(f)
  BY ReachFixed
<1>2. \A e \in program.passes : e[1][1] \in Funs /\ e[2][1] \in Funs
  BY ProgramsAssumption DEF TypeOK, Program, Params
<1>3. Inner' = Inner
  BY <1>1, <1>2 DEF Inner
<1>4. ASSUME NEW p \in Params PROVE Uses(Inner, p)' = Uses(Inner, p)
  BY <1>3 DEF Uses
<1> QED
  BY <1>1, <1>3, <1>4

\* What is inferred for a parameter is no less than each of the things it is
\* inferred from.
LEMMA InferredBound ==
  ASSUME TypeOK, NEW p \in Params
  PROVE  /\ \A e \in Effects : <<p, e>> \in program.raises => e <= Inferred(p)
         /\ \A q \in Params : <<p, q>> \in program.passes => CallEffect(q) <= Inferred(p)
<1> DEFINE E == {Copy} \cup {e \in Effects : <<p, e>> \in program.raises}
                  \cup {CallEffect(q) : q \in {r \in Params : <<p, r>> \in program.passes}}
<1>1. Inferred(p) = Max(E)
  BY DEF Inferred
<1>2. \A q \in Params : CallEffect(q) \in Effects
  BY DEF CallEffect, TypeOK, Effects, Copy, BorrowShared, Move
<1>3. E \in SUBSET Effects /\ E # {}
  <2>1. Copy \in Effects
    BY DEF Effects, Copy, Move
  <2> QED
    BY <1>2, <2>1
<1>4. /\ \A e \in Effects : <<p, e>> \in program.raises => e \in E
      /\ \A q \in Params : <<p, q>> \in program.passes => CallEffect(q) \in E
  OBVIOUS
<1> HIDE DEF E
<1>5. \A e \in E : e <= Max(E)
  BY <1>3, MaxEffect
<1> QED
  BY <1>1, <1>4, <1>5

\* A parameter passed to one of a function that has a summary, by the function
\* that is visited, is passed to one inside the component.
LEMMA PresentIsInner ==
  ASSUME TypeOK, CallersFirst, LaterAbsent, pending # <<>>, NEW f \in Range(Head(pending)),
         NEW p \in Params, p[1] = f, NEW q \in Params, <<p, q>> \in program.passes,
         q[1] \in present
  PROVE  <<p, q>> \in Inner
<1>1. pending \in Seq(Seq(Funs)) /\ 1 \in DOMAIN pending /\ Head(pending) = pending[1]
      /\ DOMAIN pending \subseteq Nat \ {0}
  BY DEF TypeOK
<1>2. q[1] \in Callees(f)
  BY ProgramsAssumption DEF TypeOK, Callees
<1>3. PICK k \in DOMAIN pending : q[1] \in Range(pending[k])
  BY <1>1, <1>2 DEF CallersFirst
<1>4. k = 1
  <2>1. k \in Nat \ {0}
    BY <1>1
  <2>2. ~(k > 1)
    BY <1>3 DEF LaterAbsent
  <2> QED
    BY <2>1, <2>2
<1>5. Cycle(q[1]) = Range(pending[1])
  BY <1>1, <1>3, <1>4 DEF CallersFirst
<1> QED
  BY <1>1, <1>5 DEF Inner

\* A component that is not the current one shares nothing with it; and who is
\* in a cycle with one of it is in it.
LEMMA CurrentFacts ==
  ASSUME TypeOK, CallersFirst, pending # <<>>, NEW f \in Range(Head(pending))
  PROVE  /\ f \in Left /\ Cycle(f) = Range(Head(pending))
         /\ \A i \in DOMAIN pending : i > 1 => f \notin Range(pending[i])
         /\ Range(Head(pending)) \subseteq Left
<1>1. pending \in Seq(Seq(Funs)) /\ 1 \in DOMAIN pending /\ Head(pending) = pending[1]
      /\ DOMAIN pending \subseteq Nat \ {0}
  BY DEF TypeOK
<1> QED
  BY <1>1 DEF CallersFirst, Left

LEMMA VisitKeepsInfer == TypeOK /\ InferInv /\ InferNext => InferInv'
<1> SUFFICES ASSUME TypeOK, InferInv, InferNext PROVE InferInv'
  OBVIOUS
<1>0. PICK f : f = Head(pending)[at]
  OBVIOUS
<1>1. /\ f \in Funs /\ Infer(f) /\ pending # <<>> /\ phase = "infer" /\ phase' = "infer"
      /\ pending' = pending /\ program' = program /\ at' = at + 1 /\ at \in Nat
      /\ at \in DOMAIN Head(pending) /\ f \in Range(Head(pending))
  <2>1. pending \in Seq(Seq(Funs)) /\ Head(pending) \in Seq(Funs) /\ at \in Nat \ {0}
    BY DEF TypeOK, InferNext
  <2>2. at \in DOMAIN Head(pending)
    BY <2>1 DEF InferNext
  <2> QED
    BY <1>0, <2>1, <2>2, InferNextVisits DEF InferNext, Range
<1>2. /\ f \in Left /\ Cycle(f) = Range(Head(pending))
      /\ \A i \in DOMAIN pending : i > 1 => f \notin Range(pending[i])
  BY <1>1, CurrentFacts DEF InferInv
<1>3. /\ Inner' = Inner /\ \A p \in Params : Uses(Inner, p)' = Uses(Inner, p)
      /\ \A g \in Funs : Cycle(g)' = Cycle(g) /\ Callees(g)' = Callees(g)
  BY <1>1, InnerFixed
<1>4. /\ present \subseteq present' /\ present' \subseteq present \cup {f}
      /\ \A p \in Params : p[1] # f => effect'[p] = effect[p]
      /\ \A p \in Params : effect'[p] = effect[p] \/ (p[1] = f /\ effect'[p] = Inferred(p))
      /\ f \notin present' => effect' = effect
  BY <1>1 DEF Infer, TypeOK, Params
<1>5. NotBegun' /\ AllDone'
  BY <1>1 DEF NotBegun, AllDone
<1>6. CallersFirst'
  <2>1. \A i \in DOMAIN pending : Range(pending[i]) \subseteq Funs
    BY DEF TypeOK, Range
  <2> QED
    BY <1>1, <1>3, <2>1 DEF InferInv, CallersFirst
<1>7. LaterAbsent'
  BY <1>1, <1>2, <1>4 DEF InferInv, LaterAbsent
<1>8. AbsentCopy'
  BY <1>4 DEF InferInv, AbsentCopy
<1>9. OnlyInner'
  <2> SUFFICES ASSUME NEW p \in Params, effect'[p] > BorrowShared
               PROVE  effect'[p] \in Uses(Inner, p)
    BY <1>3 DEF OnlyInner
  <2>1. CASE effect'[p] = effect[p]
    BY <2>1 DEF InferInv, OnlyInner
  <2>2. CASE p[1] = f /\ effect'[p] = Inferred(p)
    <3>1. Inferred(p) \in Effects /\ ~(Inferred(p) <= BorrowShared)
      <4>1. Inferred(p) \in Effects /\ Inferred(p) > BorrowShared
        BY <2>2, InferredCases
      <4> HIDE DEF Inferred
      <4> QED
        BY <4>1 DEF Effects, Copy, Move, BorrowShared
    <3>2. CASE <<p, Inferred(p)>> \in program.raises
      BY <2>2, <3>1, <3>2, ReachSelf DEF Uses
    <3>3. CASE \E q \in Params : <<p, q>> \in program.passes /\ Inferred(p) = effect[q]
      <4>1. PICK q \in Params : <<p, q>> \in program.passes /\ Inferred(p) = effect[q]
        BY <3>3
      <4>2. effect[q] > BorrowShared /\ q[1] \in present
        BY <2>2, <4>1 DEF InferInv, AbsentCopy, Copy, BorrowShared
      <4>3. <<p, q>> \in Inner
        BY <1>1, <2>2, <4>1, <4>2, PresentIsInner DEF InferInv
      <4>4. effect[q] \in Uses(Inner, q)
        BY <4>2 DEF InferInv, OnlyInner
      <4> QED
        BY <2>2, <4>1, <4>3, <4>4, ReachStep DEF Uses
    <3> QED
      BY <3>1, <3>2, <3>3, InferredCases
  <2> QED
    BY <1>4, <2>1, <2>2
<1>10. PassStable'
  <2> SUFFICES ASSUME ~changed', NEW j \in DOMAIN Head(pending), j < at + 1,
                      NEW p \in {Head(pending)[j]} \X Slots
               PROVE  effect'[p] = Inferred(p)'
    BY <1>1 DEF PassStable
  <2>1. /\ effect' = effect /\ present' = present /\ changed' = changed
        /\ \A q \in {f} \X Slots : q \in Params /\ Inferred(q) = effect[q]
    BY <1>1 DEF Infer, Previous, Params
  <2>2. Inferred(p)' = Inferred(p)
    BY <1>1, <2>1 DEF Inferred, CallEffect
  <2>3. Head(pending) \in Seq(Funs)
    BY <1>1 DEF TypeOK
  <2>4. CASE j = at
    BY <1>0, <2>1, <2>2, <2>4
  <2>5. CASE j < at
    BY <1>1, <2>1, <2>2, <2>5 DEF InferInv, PassStable
  <2> QED
    BY <1>1, <2>3, <2>4, <2>5
<1>11. DoneClosed'
  <2> SUFFICES ASSUME NEW p \in Params, p[1] \notin Left PROVE Closed(p)'
    BY <1>1 DEF DoneClosed, Left
  <2>1. Closed(p)
    BY <1>1 DEF InferInv, DoneClosed
  <2>2. effect'[p] = effect[p]
    BY <1>2, <1>4
  <2>3. ASSUME NEW q \in Params, <<p, q>> \in Inner PROVE effect'[q] = effect[q]
    <3>1. p[1] \in Cycle(q[1])
      BY <2>3 DEF Inner
    <3>2. q[1] # f
      BY <1>1, <1>2, <3>1, CurrentFacts DEF InferInv
    <3> QED
      BY <1>4, <3>2
  <2> QED
    BY <1>1, <1>3, <2>1, <2>2, <2>3 DEF Closed
<1> QED
  BY <1>5, <1>6, <1>7, <1>8, <1>9, <1>10, <1>11 DEF InferInv

\* At the end of a pass that changed nothing every summary of the component is
\* what is inferred for it.
LEMMA PassCloses ==
  ASSUME TypeOK, InferInv, PassEnds, ~changed, NEW p \in Params, p[1] \in Range(Head(pending))
  PROVE  Closed(p)
<1>1. PICK j \in DOMAIN Head(pending) : p[1] = Head(pending)[j]
  BY DEF Range
<1>2. j < at
  <2>1. Head(pending) \in Seq(Funs)
    BY DEF TypeOK, PassEnds
  <2> QED
    BY <1>1, <2>1 DEF PassEnds, TypeOK
<1>3. p \in {Head(pending)[j]} \X Slots
  BY <1>1 DEF Params
<1>4. effect[p] = Inferred(p)
  BY <1>1, <1>2, <1>3 DEF InferInv, PassStable, PassEnds
<1>5. ASSUME NEW q \in Params, <<p, q>> \in Inner PROVE effect[q] <= effect[p]
  <2>1. <<p, q>> \in program.passes
    BY <1>5 DEF Inner
  <2>2. CallEffect(q) <= effect[p]
    BY <1>4, <2>1, InferredBound
  <2>3. CASE q[1] \in present
    BY <2>2, <2>3 DEF CallEffect
  <2>4. CASE q[1] \notin present
    <3>1. effect[q] = 0 /\ effect[p] \in 0..3
      BY <2>4 DEF InferInv, AbsentCopy, TypeOK, Effects, Copy, Move
    <3> QED
      BY <3>1
  <2> QED
    BY <2>3, <2>4
<1>6. \A e \in Effects : <<p, e>> \in program.raises => e <= effect[p]
  BY <1>4, InferredBound
<1> QED
  BY <1>5, <1>6 DEF Closed

LEMMA PassEndKeepsInfer == TypeOK /\ InferInv /\ PassEnds => InferInv'
<1> SUFFICES ASSUME TypeOK, InferInv, PassEnds PROVE InferInv'
  OBVIOUS
<1>1. /\ pending \in Seq(Seq(Funs)) /\ pending # <<>> /\ phase' = phase /\ phase = "infer"
      /\ program' = program /\ present' = present /\ effect' = effect
      /\ at' = 1 /\ changed' = FALSE
  BY DEF TypeOK, PassEnds
<1>2. /\ Inner' = Inner /\ \A p \in Params : Uses(Inner, p)' = Uses(Inner, p)
      /\ \A g \in Funs : Cycle(g)' = Cycle(g) /\ Callees(g)' = Callees(g)
  BY <1>1, InnerFixed
<1>3. /\ Head(pending) = pending[1] /\ 1 \in DOMAIN pending
      /\ DOMAIN pending = 1..Len(pending) /\ Len(pending) \in Nat
      /\ \A i \in DOMAIN pending : pending[i] \in Seq(Funs)
  BY <1>1
<1>4. \A i \in DOMAIN pending : Range(pending[i]) \subseteq Funs
  BY <1>3 DEF Range
<1>5. NotBegun' /\ AllDone'
  BY <1>1 DEF NotBegun, AllDone
<1>6. AbsentCopy' /\ OnlyInner'
  BY <1>1, <1>2 DEF InferInv, AbsentCopy, OnlyInner
<1>7. PassStable'
  <2>1. pending' \in Seq(Seq(Funs))
    BY <1>1 DEF PassEnds
  <2>2. pending' # <<>> => \A j \in DOMAIN Head(pending)' : ~(j < 1)
    BY <2>1
  <2> QED
    BY <1>1, <2>2 DEF PassStable
<1>8. CASE changed
  <2>1. pending' = pending
    BY <1>8 DEF PassEnds
  <2>2. CallersFirst' /\ LaterAbsent'
    BY <1>1, <1>2, <1>4, <2>1 DEF InferInv, CallersFirst, LaterAbsent
  <2>3. DoneClosed'
    BY <1>1, <1>2, <2>1 DEF InferInv, DoneClosed, Left, Closed
  <2> QED
    BY <1>5, <1>6, <1>7, <2>2, <2>3 DEF InferInv
<1>9. CASE ~changed
  <2>1. /\ pending' = Tail(pending)
        /\ \A i \in DOMAIN pending' : i + 1 \in DOMAIN pending /\ pending'[i] = pending[i + 1]
                                      /\ i \in Nat /\ i >= 1
        /\ \A i \in DOMAIN pending : i > 1 => i - 1 \in DOMAIN pending' /\ i \in Nat
                                              /\ pending'[i - 1] = pending[i]
    BY <1>1, <1>3, <1>9 DEF PassEnds
  <2>2. CallersFirst'
    <3>1. ASSUME NEW i \in DOMAIN pending', NEW f \in Range(pending'[i])
          PROVE  /\ f \in Funs /\ Cycle(f) = Range(pending'[i])
                 /\ \A g \in Callees(f) :
                      \E k \in DOMAIN pending' : i <= k /\ g \in Range(pending'[k])
                 /\ \A k \in DOMAIN pending' : f \in Range(pending'[k]) => i = k
      <4>1. /\ i + 1 \in DOMAIN pending /\ f \in Range(pending[i + 1]) /\ i \in Nat /\ i >= 1
            /\ pending'[i] = pending[i + 1]
        BY <2>1, <3>1
      <4>2. f \in Funs /\ Cycle(f) = Range(pending'[i])
        BY <1>4, <4>1 DEF InferInv, CallersFirst
      <4>3. ASSUME NEW g \in Callees(f)
            PROVE  \E k \in DOMAIN pending' : i <= k /\ g \in Range(pending'[k])
        <5>1. PICK k \in DOMAIN pending : i + 1 <= k /\ g \in Range(pending[k])
          BY <4>1 DEF InferInv, CallersFirst
        <5>2. k \in Nat /\ k > 1
          BY <1>3, <4>1, <5>1
        <5>3. k - 1 \in DOMAIN pending' /\ i <= k - 1 /\ g \in Range(pending'[k - 1])
          BY <2>1, <4>1, <5>1, <5>2
        <5> QED
          BY <5>3
      <4>4. ASSUME NEW k \in DOMAIN pending', f \in Range(pending'[k]) PROVE i = k
        <5>1. k + 1 \in DOMAIN pending /\ f \in Range(pending[k + 1]) /\ k \in Nat
          BY <2>1, <4>4
        <5>2. i + 1 = k + 1
          BY <4>1, <5>1 DEF InferInv, CallersFirst
        <5> QED
          BY <4>1, <5>1, <5>2
      <4> QED
        BY <4>2, <4>3, <4>4
    <3> QED
      BY <1>2, <3>1 DEF CallersFirst
  <2>3. LaterAbsent'
    <3>1. \A i \in DOMAIN pending' : i + 1 > 1
      BY <2>1
    <3> QED
      BY <1>1, <2>1, <3>1 DEF InferInv, LaterAbsent
  <2>4. DoneClosed'
    <3> SUFFICES ASSUME NEW p \in Params, p[1] \notin Left' PROVE Closed(p)'
      BY DEF DoneClosed
    <3>1. Closed(p)
      <4>1. CASE p[1] \in Left
        <5>1. PICK i \in DOMAIN pending : p[1] \in Range(pending[i])
          BY <4>1 DEF Left
        <5>2. ~(i > 1)
          BY <2>1, <5>1 DEF Left
        <5>3. i = 1
          BY <1>3, <5>2
        <5> QED
          BY <1>3, <1>9, <5>1, <5>3, PassCloses
      <4>2. CASE p[1] \notin Left
        BY <1>1, <4>2 DEF InferInv, DoneClosed
      <4> QED
        BY <4>1, <4>2
    <3> QED
      BY <1>1, <1>2, <3>1 DEF Closed
  <2> QED
    BY <1>5, <1>6, <1>7, <2>2, <2>3, <2>4 DEF InferInv
<1> QED
  BY <1>8, <1>9

\* The components that tarjan_scc found, callers first, are those to do.
LEMMA BeginKeepsInfer == TypeOK /\ TarjanInv /\ InferInv /\ BeginInference => InferInv'
<1> SUFFICES ASSUME TypeOK, TarjanInv, InferInv, BeginInference PROVE InferInv'
  OBVIOUS
<1>1. /\ phase = "scc" /\ frames = <<>> /\ Indexed = Funs /\ phase' = "infer"
      /\ pending' = Reverse(out) /\ program' = program
      /\ at' = at /\ changed' = changed /\ present' = present /\ effect' = effect
  BY DEF BeginInference
<1>2. present = {} /\ at = 1
  BY <1>1 DEF InferInv, NotBegun
<1>3. /\ Inner' = Inner /\ \A p \in Params : Uses(Inner, p)' = Uses(Inner, p)
      /\ \A g \in Funs : Cycle(g)' = Cycle(g) /\ Callees(g)' = Callees(g)
  BY <1>1, InnerFixed
<1>4. Found = Funs
  <2>1. On = {}
    BY <1>1 DEF TarjanInv, Numbers, Covered
  <2> QED
    BY <1>1, <2>1 DEF TarjanInv, Numbers, Split
<1> DEFINE N == Len(out)
<1>5. /\ N \in Nat /\ DOMAIN out = 1..N /\ DOMAIN pending' = 1..N
      /\ \A i \in 1..N : N - i + 1 \in 1..N /\ N - (N - i + 1) + 1 = i
      /\ \A i \in 1..N : pending'[i] = out[N - i + 1]
      /\ \A i \in 1..N : out[i] = pending'[N - i + 1]
  <2>1. out \in Seq(Seq(Funs))
    BY DEF TypeOK
  <2>2. N \in Nat /\ DOMAIN out = 1..N
    BY <2>1
  <2>3. DOMAIN pending' = 1..N /\ \A i \in 1..N : pending'[i] = out[N - i + 1]
    BY <1>1, <2>2 DEF Reverse
  <2> HIDE DEF N
  <2>4. \A i \in 1..N : N - i + 1 \in 1..N /\ N - (N - i + 1) + 1 = i
    BY <2>2
  <2>5. \A i \in 1..N : out[i] = pending'[N - i + 1]
    BY <2>3, <2>4
  <2> QED
    BY <2>2, <2>3, <2>4, <2>5
<1> HIDE DEF N
<1>6. \A i \in 1..N : Range(out[i]) \subseteq Funs
  BY <1>4, <1>5 DEF Found
<1>7. CallersFirst'
  <2>1. ASSUME NEW i \in 1..N, NEW f \in Range(pending'[i])
        PROVE  /\ f \in Funs /\ Cycle(f) = Range(pending'[i])
               /\ \A g \in Callees(f) : \E k \in 1..N : i <= k /\ g \in Range(pending'[k])
               /\ \A k \in 1..N : f \in Range(pending'[k]) => i = k
    <3>1. PICK j \in 1..N : j = N - i + 1 /\ N - j + 1 = i
      BY <1>5
    <3>2. f \in Range(out[j]) /\ pending'[i] = out[j]
      BY <1>5, <2>1, <3>1
    <3>3. f \in Funs /\ Cycle(f) = Range(pending'[i])
      BY <1>5, <1>6, <3>2 DEF TarjanInv, Components
    <3>4. ASSUME NEW g \in Callees(f)
          PROVE  \E k \in 1..N : i <= k /\ g \in Range(pending'[k])
      <4>1. PICK k \in 1..j : g \in Range(out[k])
        BY <1>5, <3>2 DEF TarjanInv, CalleesComeFirst
      <4>2. k \in 1..N /\ i <= N - k + 1 /\ N - k + 1 \in 1..N
        BY <1>5, <3>1, <4>1
      <4> QED
        BY <1>5, <4>1, <4>2
    <3>5. ASSUME NEW k \in 1..N, f \in Range(pending'[k]) PROVE i = k
      <4>1. N - k + 1 \in 1..N /\ f \in Range(out[N - k + 1])
        BY <1>5, <3>5
      <4>2. j = N - k + 1
        BY <1>5, <3>2, <4>1 DEF TarjanInv, Components
      <4> QED
        BY <1>5, <3>1, <4>2
    <3> QED
      BY <3>3, <3>4, <3>5
  <2> QED
    BY <1>3, <1>5, <2>1 DEF CallersFirst
<1>8. LaterAbsent' /\ NotBegun' /\ AllDone'
  BY <1>1, <1>2 DEF LaterAbsent, NotBegun, AllDone
<1>9. AbsentCopy' /\ OnlyInner'
  BY <1>1, <1>3 DEF InferInv, AbsentCopy, OnlyInner
<1>10. PassStable'
  <2>1. pending' \in Seq(Seq(Funs))
    BY <1>1, ReverseOfSeq DEF TypeOK
  <2>2. pending' # <<>> => \A j \in DOMAIN Head(pending)' : ~(j < 1)
    BY <2>1
  <2> QED
    BY <1>1, <1>2, <2>2 DEF PassStable
<1>11. DoneClosed'
  <2>1. Funs \subseteq Left'
    <3> SUFFICES ASSUME NEW f \in Funs PROVE \E i \in DOMAIN pending' : f \in Range(pending'[i])
      BY DEF Left
    <3>1. PICK i \in 1..N : f \in Range(out[i])
      BY <1>4, <1>5 DEF Found
    <3> QED
      BY <1>5, <3>1
  <2> QED
    BY <2>1 DEF DoneClosed, Params
<1> QED
  BY <1>7, <1>8, <1>9, <1>10, <1>11 DEF InferInv

LEMMA RestKeepsInfer ==
  TypeOK /\ InferInv /\ program' = program /\ UNCHANGED <<inferVars, phase>> => InferInv'
<1> SUFFICES ASSUME TypeOK, InferInv, program' = program, UNCHANGED <<inferVars, phase>>
             PROVE  InferInv'
  OBVIOUS
<1>1. /\ pending' = pending /\ at' = at /\ changed' = changed /\ present' = present
      /\ effect' = effect /\ phase' = phase
  BY DEF inferVars
<1>2. /\ Inner' = Inner /\ \A p \in Params : Uses(Inner, p)' = Uses(Inner, p)
      /\ \A g \in Funs : Cycle(g)' = Cycle(g) /\ Callees(g)' = Callees(g)
  BY InnerFixed
<1>3. \A i \in DOMAIN pending : Range(pending[i]) \subseteq Funs
  BY DEF TypeOK, Range
<1>4. NotBegun' /\ LaterAbsent' /\ AbsentCopy' /\ OnlyInner' /\ AllDone'
  BY <1>1, <1>2 DEF InferInv, NotBegun, LaterAbsent, AbsentCopy, OnlyInner, AllDone
<1>5. CallersFirst'
  BY <1>1, <1>2, <1>3 DEF InferInv, CallersFirst
<1>6. PassStable'
  <2>1. \A p : Inferred(p)' = Inferred(p)
    BY <1>1 DEF Inferred, CallEffect
  <2> QED
    BY <1>1, <2>1 DEF InferInv, PassStable
<1>7. DoneClosed'
  BY <1>1, <1>2 DEF InferInv, DoneClosed, Left, Closed
<1> QED
  BY <1>4, <1>5, <1>6, <1>7 DEF InferInv

\* The end: every component is done.
LEMMA EndKeepsInfer == TypeOK /\ InferInv /\ InferenceEnds => InferInv'
<1> SUFFICES ASSUME TypeOK, InferInv, InferenceEnds PROVE InferInv'
  OBVIOUS
<1>1. /\ pending = <<>> /\ pending' = pending /\ at' = at /\ changed' = changed
      /\ present' = present /\ effect' = effect /\ program' = program
      /\ phase = "infer" /\ phase' = "done"
  BY DEF InferenceEnds, inferVars
<1>2. /\ Inner' = Inner /\ \A p \in Params : Uses(Inner, p)' = Uses(Inner, p)
  BY <1>1, InnerFixed
<1>3. NotBegun' /\ CallersFirst' /\ LaterAbsent' /\ PassStable' /\ AllDone'
  BY <1>1 DEF NotBegun, CallersFirst, LaterAbsent, PassStable, AllDone
<1>4. AbsentCopy' /\ OnlyInner'
  BY <1>1, <1>2 DEF InferInv, AbsentCopy, OnlyInner
<1>5. DoneClosed'
  BY <1>1, <1>2 DEF InferInv, DoneClosed, Left, Closed
<1> QED
  BY <1>3, <1>4, <1>5 DEF InferInv

LEMMA InferInit == Init => InferInv
<1> SUFFICES ASSUME Init PROVE InferInv
  OBVIOUS
<1>1. NotBegun /\ CallersFirst /\ LaterAbsent /\ PassStable /\ DoneClosed /\ AllDone
  BY DEF Init, NotBegun, CallersFirst, LaterAbsent, PassStable, DoneClosed, AllDone
<1>2. AbsentCopy /\ OnlyInner
  BY DEF Init, AbsentCopy, OnlyInner, Copy, BorrowShared
<1> QED
  BY <1>1, <1>2 DEF InferInv

LEMMA InferStep == TypeOK /\ TarjanInv /\ InferInv /\ [Next]_vars => InferInv'
<1> SUFFICES ASSUME TypeOK, TarjanInv, InferInv, [Next]_vars PROVE InferInv'
  OBVIOUS
<1>1. CASE Tarjan
  BY <1>1, RestKeepsInfer DEF Tarjan, Root, Edge, Finish
<1>2. CASE BeginInference
  BY <1>2, BeginKeepsInfer
<1>3. CASE InferNext
  BY <1>3, VisitKeepsInfer
<1>4. CASE PassEnds
  BY <1>4, PassEndKeepsInfer
<1>5. CASE InferenceEnds
  BY <1>5, EndKeepsInfer
<1>6. CASE UNCHANGED vars
  BY <1>6, RestKeepsInfer DEF vars, inferVars
<1> QED
  BY <1>1, <1>2, <1>3, <1>4, <1>5, <1>6 DEF Next

\* A closed summary asks for as much as all that is reached from it, and the
\* invariant for no more.
LEMMA ClosedConverge == TypeOK /\ InferInv => CyclesConverge
<1> SUFFICES ASSUME TypeOK, InferInv, phase = "done", NEW p \in Params
             PROVE  Strong({effect[p]}) = Strong({Max({Copy} \cup Uses(Inner, p))})
  BY DEF CyclesConverge
<1>1. \A q \in Params : Closed(q)
  BY DEF InferInv, DoneClosed, AllDone, Left
<1>2. \A q \in Params : effect[q] \in 0..3
  BY DEF TypeOK, Effects, Copy, Move
<1>3. \A q \in Reach(Params, Inner, p) : q \in Params /\ effect[q] <= effect[p]
  <2> DEFINE T == {q \in Params : effect[q] <= effect[p]}
  <2>1. p \in T
    BY <1>2
  <2>2. \A e \in Inner : e[1] \in T => e[2] \in T
    <3> SUFFICES ASSUME NEW e \in Inner, e[1] \in T PROVE e[2] \in T
      OBVIOUS
    <3>1. e[1] \in Params /\ e[2] \in Params /\ <<e[1], e[2]>> \in Inner
      <4>1. program.passes \subseteq Params \X Params
        BY ProgramsAssumption DEF TypeOK, Program
      <4>2. e \in Params \X Params
        BY <4>1 DEF Inner
      <4> QED
        BY <4>2
    <3>2. effect[e[2]] <= effect[e[1]]
      BY <1>1, <3>1 DEF Closed
    <3> QED
      BY <1>2, <3>1, <3>2
  <2> QED
    BY <2>1, <2>2 DEF Reach
<1>4. \A e \in Uses(Inner, p) : e \in Effects /\ e <= effect[p]
  <2> SUFFICES ASSUME NEW e \in Effects, NEW q \in Reach(Params, Inner, p),
                      <<q, e>> \in program.raises
               PROVE  e <= effect[p]
    BY DEF Uses
  <2>1. e <= effect[q] /\ effect[q] <= effect[p] /\ q \in Params
    BY <1>1, <1>3 DEF Closed
  <2> QED
    BY <1>2, <2>1 DEF Effects, Copy, Move
<1> DEFINE E == {Copy} \cup Uses(Inner, p)
           M == Max(E)
<1>5. E \in SUBSET Effects /\ E # {}
  BY <1>4 DEF Effects, Copy, Move
<1>6. \A e \in E : e <= effect[p]
  BY <1>2, <1>4 DEF Copy
<1> HIDE DEF E
<1>7. M \in E /\ \A e \in E : e <= M
  BY <1>5, MaxEffect
<1>8. effect[p] > BorrowShared => effect[p] \in E
  BY DEF InferInv, OnlyInner, E
<1>9. M \in 0..3 /\ M <= effect[p]
  BY <1>5, <1>6, <1>7 DEF Effects, Copy, Move
<1> HIDE DEF M
<1>10. effect[p] > 1 => effect[p] = M
  BY <1>2, <1>7, <1>8, <1>9 DEF BorrowShared
<1>11. M > 1 => effect[p] = M
  BY <1>2, <1>9, <1>10
<1> QED
  BY <1>2, <1>9, <1>10, <1>11 DEF Strong, BorrowShared, M, E

\* CyclesConverge, for every program and every order in which functions, calls
\* and components are visited.
THEOREM CyclesConvergeCorrect == Spec => []CyclesConverge
<1>1. Spec => []TypeOK
  BY TypeCorrect
<1>2. Spec => []TarjanInv
  BY SearchCorrect, PTL
<1>3. Spec => []InferInv
  BY <1>1, <1>2, InferInit, InferStep, PTL DEF Spec
<1> QED
  BY <1>1, <1>3, ClosedConverge, PTL

-----------------------------------------------------------------------------
(* Strong effects rise *)

\* A summary says something of a function that has one only, and what it says above
\* reading rests on the body or on an entry that is no weaker now.
Founded ==
  \A p \in Params :
    /\ effect[p] # Copy => p[1] \in present
    /\ effect[p] > BorrowShared =>
         \/ <<p, effect[p]>> \in program.raises
         \/ \E q \in Params : <<p, q>> \in program.passes /\ effect[q] >= effect[p]

LEMMA EffectsAreInts ==
  ASSUME TypeOK, NEW p \in Params
  PROVE  effect[p] \in Effects /\ effect[p] \in Int /\ Inferred(p) \in Effects /\ Inferred(p) \in Int
<1>1. Effects \subseteq Int
  BY DEF Effects, Copy, Move
<1>2. effect[p] \in Effects
  BY DEF TypeOK
<1>3. Inferred(p) \in Effects
  BY InferredCases
<1> QED
  BY <1>1, <1>2, <1>3

LEMMA NextEffectsAreInts ==
  ASSUME TypeOK', NEW p \in Params
  PROVE  effect'[p] \in Int
<1>1. Effects \subseteq Int
  BY DEF Effects, Copy, Move
<1>2. effect'[p] \in Effects
  BY DEF TypeOK
<1> QED
  BY <1>1, <1>2

\* What an entry rests on, it would be inferred from again.
LEMMA NoneFalls ==
  ASSUME TypeOK, Founded, NEW p \in Params, effect[p] > BorrowShared
  PROVE  Inferred(p) >= effect[p]
<1>1. effect[p] \in Effects /\ effect[p] \in Int /\ Inferred(p) \in Int
  BY EffectsAreInts
<1>2. CASE <<p, effect[p]>> \in program.raises
  <2>1. effect[p] <= Inferred(p)
    BY <1>1, <1>2, InferredBound
  <2> QED
    BY <1>1, <2>1
<1>3. CASE \E q \in Params : <<p, q>> \in program.passes /\ effect[q] >= effect[p]
  <2>1. PICK q \in Params : <<p, q>> \in program.passes /\ effect[q] >= effect[p]
    BY <1>3
  <2>2. effect[q] \in Int /\ effect[q] # Copy
    BY <1>1, <2>1, EffectsAreInts DEF Copy, BorrowShared
  <2>3. CallEffect(q) = effect[q]
    BY <2>2 DEF Founded, CallEffect
  <2>4. effect[q] <= Inferred(p)
    BY <2>1, <2>3, InferredBound
  <2> QED
    BY <1>1, <2>1, <2>2, <2>4
<1> QED
  BY <1>2, <1>3 DEF Founded

\* What a step does to an effect, and to the entries.
LEMMA EffectStep ==
  ASSUME TypeOK, Founded, [Next]_vars
  PROVE  /\ program' = program /\ present \subseteq present'
         /\ \A p \in Params :
              /\ effect'[p] = effect[p] \/ (effect'[p] = Inferred(p) /\ p[1] \in present')
              /\ effect[p] > BorrowShared => effect'[p] >= effect[p]
<1>1. program' = program
  BY DEF Next, Tarjan, Root, Edge, Finish, BeginInference, InferNext, PassEnds,
         InferenceEnds, vars
<1>2. /\ present \subseteq present'
      /\ \A p \in Params :
           effect'[p] = effect[p] \/ (effect'[p] = Inferred(p) /\ p[1] \in present')
  <2>1. CASE InferNext
    <3>1. PICK f \in Funs : Infer(f)
      BY <2>1, InferNextVisits
    <3> QED
      BY <3>1 DEF Infer, TypeOK
  <2>2. CASE ~InferNext
    BY <2>2 DEF Next, Tarjan, Root, Edge, Finish, BeginInference, PassEnds,
                InferenceEnds, vars, inferVars
  <2> QED
    BY <2>1, <2>2
<1>3. ASSUME NEW p \in Params, effect[p] > BorrowShared PROVE effect'[p] >= effect[p]
  <2>1. Inferred(p) >= effect[p]
    BY <1>3, NoneFalls
  <2>2. effect[p] >= effect[p]
    BY EffectsAreInts
  <2> QED
    BY <1>2, <2>1, <2>2
<1> QED
  BY <1>1, <1>2, <1>3

LEMMA InitFounded == Init => Founded
  BY DEF Init, Founded, Copy, BorrowShared

LEMMA StepFounded ==
  ASSUME TypeOK, TypeOK', Founded, [Next]_vars
  PROVE  Founded'
<1> SUFFICES ASSUME NEW p \in Params
             PROVE  /\ effect'[p] # Copy => p[1] \in present'
                    /\ effect'[p] > BorrowShared =>
                         \/ <<p, effect'[p]>> \in program'.raises
                         \/ \E q \in Params : <<p, q>> \in program'.passes /\ effect'[q] >= effect'[p]
  BY DEF Founded
<1>1. /\ program' = program /\ present \subseteq present'
      /\ effect'[p] = effect[p] \/ (effect'[p] = Inferred(p) /\ p[1] \in present')
      /\ \A q \in Params : effect[q] > BorrowShared => effect'[q] >= effect[q]
  BY EffectStep
<1>2. effect'[p] # Copy => p[1] \in present'
  BY <1>1 DEF Founded
<1>3. ASSUME effect'[p] > BorrowShared
      PROVE  \/ <<p, effect'[p]>> \in program.raises
             \/ \E q \in Params : <<p, q>> \in program.passes /\ effect[q] >= effect'[p]
  <2>1. CASE effect'[p] = effect[p]
    BY <1>3, <2>1 DEF Founded
  <2>2. CASE effect'[p] = Inferred(p)
    <3>1. effect'[p] \in Int /\ \A q \in Params : effect[q] \in Int
      BY EffectsAreInts, NextEffectsAreInts
    <3>2. ~(Inferred(p) <= BorrowShared)
      BY <1>3, <2>2, <3>1 DEF BorrowShared
    <3>3. CASE <<p, Inferred(p)>> \in program.raises
      BY <2>2, <3>3
    <3>4. CASE \E q \in Params : <<p, q>> \in program.passes /\ Inferred(p) = effect[q]
      BY <2>2, <3>1, <3>4
    <3> QED
      BY <3>2, <3>3, <3>4, InferredCases
  <2> QED
    BY <1>1, <2>1, <2>2
<1>4. ASSUME NEW q \in Params, effect'[p] > BorrowShared, effect[q] >= effect'[p]
      PROVE  effect'[q] >= effect'[p]
  <2>1. effect[q] \in Int /\ effect'[q] \in Int /\ effect'[p] \in Int
    BY EffectsAreInts, NextEffectsAreInts
  <2>2. effect[q] > BorrowShared
    BY <1>4, <2>1 DEF BorrowShared
  <2>3. effect'[q] >= effect[q]
    BY <1>1, <2>2
  <2> QED
    BY <1>4, <2>1, <2>3
<1> QED
  BY <1>1, <1>2, <1>3, <1>4

\* An effect above reading is never taken back, in any program and whatever the order
\* of functions and passes: so an entry settles, although it is overwritten each time.
THEOREM StrongEffectsRiseCorrect == Spec => StrongEffectsRise
<1>1. Init => TypeOK /\ Founded
  BY InitTypeOK, InitFounded
<1>2. TypeOK /\ Founded /\ [Next]_vars => (TypeOK /\ Founded)'
  BY StepTypeOK, StepFounded
<1>3. TypeOK /\ Founded /\ [Next]_vars
        => [/\ present \subseteq present'
            /\ \A p \in Params : effect[p] > BorrowShared => effect'[p] >= effect[p]]_vars
  BY EffectStep
<1> QED
  BY <1>1, <1>2, <1>3, PTL DEF Spec, StrongEffectsRise
=============================================================================
