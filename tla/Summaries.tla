----------------------------- MODULE Summaries -----------------------------
(***************************************************************************)
(* The inference of function summaries, the first pass of the ownership    *)
(* checker, crates/draton-typeck/src/ownership.rs: how strongly does each  *)
(* function use each of its parameters?                                    *)
(*                                                                         *)
(* tarjan_scc splits the call graph into strongly connected components;    *)
(* infer_function_summaries takes them one after another and recomputes    *)
(* the summaries of a component's functions until none changes.  The graph *)
(* is a HashMap of HashSets, so functions and calls are visited in an      *)
(* arbitrary order, another one in every run of the compiler.              *)
(*                                                                         *)
(* What a body does is reduced to what SummaryWalker takes from it: the    *)
(* effects it raises a parameter to, and the parameters of other functions *)
(* it passes a parameter to.  A method's receiver is one more parameter.   *)
(* Parameters of Copy types have no effect and are left out.               *)
(***************************************************************************)
EXTENDS Integers, Sequences, FiniteSets, FiniteSetsExt, SequencesExt

CONSTANTS
  Funs,      \* the functions and methods with a record
  Slots,     \* the places of a parameter list
  Programs   \* the programs: see Program

\* The ranks of effect_rank.
Copy == 0
BorrowShared == 1
BorrowExclusive == 2
Move == 3
Effects == Copy..Move

Params == Funs \X Slots

\* calls: the functions each function calls;  raises: a parameter and an effect
\* its function's body uses it with;  passes: a parameter and the parameter of
\* a callee it is passed to.
Program == [calls : [Funs -> SUBSET Funs],
            raises : SUBSET (Params \X Effects),
            passes : SUBSET (Params \X Params)]

ASSUME FunsAssumption == IsFiniteSet(Funs) /\ IsFiniteSet(Slots)
ASSUME ProgramsAssumption ==
  /\ Programs \subseteq Program
  /\ \A P \in Programs : \A p \in P.passes : p[2][1] \in P.calls[p[1][1]]

VARIABLES
  program,    \* the program
  index,      \* Tarjan::indices, 0 for a function that has none
  lowlink,    \* Tarjan::lowlink
  stack,      \* Tarjan::stack
  frames,     \* the calls of strong_connect: a node and the edges it has to look at
  out,        \* Tarjan::out
  pending,    \* the components infer_function_summaries has to do, the current one first
  at,         \* where it is in the current component
  changed,    \* its local of that name
  present,    \* the functions with an entry in OwnershipChecker::summaries
  effect,     \* those entries; Copy, as in default_summary, where there is none
  phase       \* "scc", "infer" or "done"

vars == <<program, index, lowlink, stack, frames, out, pending, at, changed, present,
          effect, phase>>
sccVars == <<index, lowlink, stack, frames, out>>
inferVars == <<pending, at, changed, present, effect>>

Init ==
  /\ program \in Programs
  /\ index = [f \in Funs |-> 0]
  /\ lowlink = [f \in Funs |-> 0]
  /\ stack = <<>>
  /\ frames = <<>>
  /\ out = <<>>
  /\ pending = <<>>
  /\ at = 1
  /\ changed = FALSE
  /\ present = {}
  /\ effect = [p \in Params |-> Copy]
  /\ phase = "scc"

-----------------------------------------------------------------------------
(* tarjan_scc *)

Callees(f) == program.calls[f]
Indexed == {f \in Funs : index[f] # 0}
Frame == frames[Len(frames)]
OnStack(f) == \E i \in DOMAIN stack : stack[i] = f
Least(m, n) == IF m < n THEN m ELSE n

\* The first lines of strong_connect(f), called from the frames fs.
StrongConnect(f, fs) ==
  LET next == Cardinality(Indexed) + 1
  IN /\ index' = [index EXCEPT ![f] = next]
     /\ lowlink' = [lowlink EXCEPT ![f] = next]
     /\ stack' = Append(stack, f)
     /\ frames' = Append(fs, [node |-> f, edges |-> Callees(f)])
     /\ UNCHANGED out

Root ==
  /\ phase = "scc" /\ frames = <<>>
  /\ \E f \in Funs \ Indexed : StrongConnect(f, frames)
  /\ UNCHANGED <<program, inferVars, phase>>

\* The frames with g no longer among the edges to look at.
Without(g) == [frames EXCEPT ![Len(frames)].edges = @ \ {g}]

\* Mutant of LookAt: an edge to a finished component counts like one to the stack.
LookAtAnything(g) ==
  IF g \notin Indexed
    THEN StrongConnect(g, Without(g))
    ELSE /\ frames' = Without(g)
         /\ lowlink' = [lowlink EXCEPT ![Frame.node] = Least(@, index[g])]
         /\ UNCHANGED <<index, stack, out>>

LookAt(g) ==
  IF g \notin Indexed
    THEN StrongConnect(g, Without(g))
    ELSE /\ frames' = Without(g)
         /\ lowlink' = IF OnStack(g)
                         THEN [lowlink EXCEPT ![Frame.node] = Least(@, index[g])]
                         ELSE lowlink
         /\ UNCHANGED <<index, stack, out>>

Edge ==
  /\ phase = "scc" /\ frames # <<>>
  /\ \E g \in Frame.edges : LookAt(g)
  /\ UNCHANGED <<program, inferVars, phase>>

\* Mutant of Emitted: components in front of those found before.
EmittedInFront(component) == <<component>> \o out

Emitted(component) == Append(out, component)

\* The last lines of strong_connect: what is on the stack from f on is f's
\* component, and is popped, if f is its own lowlink.
Pop(f) ==
  \E bottom \in DOMAIN stack :
    /\ stack[bottom] = f
    /\ out' = Emitted(Reverse(SubSeq(stack, bottom, Len(stack))))
    /\ stack' = SubSeq(stack, 1, bottom - 1)

Finish ==
  /\ phase = "scc" /\ frames # <<>> /\ Frame.edges = {}
  /\ LET f == Frame.node
         callers == Front(frames)
     IN /\ IF lowlink[f] = index[f] THEN Pop(f) ELSE UNCHANGED <<out, stack>>
        /\ lowlink' = IF callers = <<>> THEN lowlink
                      ELSE [lowlink EXCEPT ![Last(callers).node] = Least(@, lowlink[f])]
        /\ frames' = callers
  /\ UNCHANGED <<program, index, inferVars, phase>>

-----------------------------------------------------------------------------
(* infer_function_summaries *)

\* The components are taken from the last to the first.
BeginInference ==
  /\ phase = "scc" /\ frames = <<>> /\ Indexed = Funs
  /\ phase' = "infer"
  /\ pending' = Reverse(out)
  /\ UNCHANGED <<program, sccVars, at, changed, present, effect>>

\* Mutant of CallEffect: what is not known is borrowed exclusively.
CallEffectExclusive(q) == IF q[1] \in present THEN effect[q] ELSE BorrowExclusive

\* What SummaryWalker takes a call to do to an argument: what the callee's
\* summary says, and to read it when there is none.
CallEffect(q) == IF q[1] \in present THEN effect[q] ELSE BorrowShared

\* infer_summary_for_record, for one parameter.
Inferred(p) ==
  Max({Copy} \cup {e \in Effects : <<p, e>> \in program.raises}
             \cup {CallEffect(q) : q \in {r \in Params : <<p, r>> \in program.passes}})

\* Mutants of Previous: the entry is not looked up; an entry is never replaced.
PreviousDefault(p) == Copy
PreviousKept(p) == IF p[1] \in present THEN Inferred(p) ELSE effect[p]

Previous(p) == effect[p]

Infer(f) ==
  LET own == {f} \X Slots
      next == [p \in Params |-> IF p \in own THEN Inferred(p) ELSE effect[p]]
  IN IF \E p \in own : next[p] # Previous(p)
       THEN effect' = next /\ present' = present \cup {f} /\ changed' = TRUE
       ELSE UNCHANGED <<effect, present, changed>>

InferNext ==
  /\ phase = "infer" /\ pending # <<>>
  /\ at <= Len(Head(pending))
  /\ Infer(Head(pending)[at])
  /\ at' = at + 1
  /\ UNCHANGED <<program, sccVars, pending, phase>>

\* The end of a pass over a component: again if something changed.
PassEnds ==
  /\ phase = "infer" /\ pending # <<>>
  /\ at > Len(Head(pending))
  /\ at' = 1
  /\ changed' = FALSE
  /\ pending' = IF changed THEN pending ELSE Tail(pending)
  /\ UNCHANGED <<program, sccVars, present, effect, phase>>

InferenceEnds ==
  /\ phase = "infer" /\ pending = <<>>
  /\ phase' = "done"
  /\ UNCHANGED <<program, sccVars, inferVars>>

Tarjan == Root \/ Edge \/ Finish
Next == Tarjan \/ BeginInference \/ InferNext \/ PassEnds \/ InferenceEnds

\* The compiler runs.
Spec == Init /\ [][Next]_vars /\ WF_vars(Next)

-----------------------------------------------------------------------------
(* Properties *)

\* Type invariant.
TypeOK ==
  /\ program \in Programs
  /\ index \in [Funs -> 0..Cardinality(Funs)]
  /\ lowlink \in [Funs -> 0..Cardinality(Funs)]
  /\ stack \in Seq(Funs)
  /\ frames \in Seq([node : Funs, edges : SUBSET Funs])
  /\ out \in Seq(Seq(Funs))
  /\ pending \in Seq(Seq(Funs))
  /\ at \in Nat \ {0}
  /\ changed \in BOOLEAN
  /\ present \subseteq Funs
  /\ effect \in [Params -> Effects]
  /\ phase \in {"scc", "infer", "done"}

\* Reach(S, R, a): what can be reached from a in the relation R on S.
Reach(S, R, a) ==
  {b \in S : \A T \in SUBSET S :
               a \in T /\ (\A e \in R : e[1] \in T => e[2] \in T) => b \in T}
Calls == {e \in Funs \X Funs : e[2] \in Callees(e[1])}
Cycle(f) == {g \in Reach(Funs, Calls, f) : f \in Reach(Funs, Calls, g)}

\* Whatever order the maps are visited in, tarjan_scc's components are the
\* strongly connected components, each found once.
ComponentsExact ==
  phase # "scc" =>
    /\ {Range(out[i]) : i \in DOMAIN out} = {Cycle(f) : f \in Funs}
    /\ \A i, j \in DOMAIN out : Range(out[i]) \cap Range(out[j]) # {} => i = j

\* A component comes out of tarjan_scc after every component it calls, also
\* while the search is still going on.
CalleesComeFirst ==
  \A i \in DOMAIN out : \A f \in Range(out[i]) :
    Callees(f) \subseteq UNION {Range(out[k]) : k \in 1..i}

\* No summary asks for more than some path through the bodies does: an effect
\* stronger than reading is one that a parameter reached from it is put to.
\* So no program is rejected, and no owner given up, for nothing.
Uses(R, p) == {e \in Effects : \E q \in Reach(Params, R, p) : <<q, e>> \in program.raises}
NothingStricterThanNeeded ==
  \A p \in Params : effect[p] > BorrowShared => effect[p] \in Uses(program.passes, p)

\* Within a cycle of functions that call each other the strongest effect goes
\* all the way round, whichever function and pass it came from; so for effects
\* stronger than reading the order of the maps does not show in the summaries.
Inner == {e \in program.passes : e[1][1] \in Cycle(e[2][1])}
Strong(E) == {e \in E : e > BorrowShared}
CyclesConverge ==
  phase = "done" =>
    \A p \in Params : Strong({effect[p]}) = Strong({Max({Copy} \cup Uses(Inner, p))})

\* An entry is replaced by what is inferred anew, never joined with it; yet an
\* effect stronger than reading is never taken back, whichever summaries had
\* changed in between and in whichever order, and an entry stays an entry.
StrongEffectsRise ==
  [][/\ present \subseteq present'
     /\ \A p \in Params : effect[p] > BorrowShared => effect'[p] >= effect[p]]_vars

\* The passes over a component come to an end, although an entry that appears
\* may lower an effect (from the reading assumed without it) and so undo what
\* an earlier pass found.
InferenceTerminates == <>(phase = "done")

\* What the ownership specification says of parameters that are handed on: one
\* that is passed to a move parameter is a move parameter.
PassedToMoveIsMove ==
  phase = "done" =>
    \A e \in program.passes : effect[e[2]] = Move => effect[e[1]] = Move
=============================================================================
