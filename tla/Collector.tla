----------------------------- MODULE Collector -----------------------------
(***************************************************************************)
(* The work list of crates/draton-codegen/src/mono.rs: collect walks the   *)
(* items of a program, then each instance of a generic class or function   *)
(* that a walk has mentioned, a class and a function in turn, until        *)
(* neither waits.                                                          *)
(*                                                                         *)
(* A mention and an instance are the same record [k, name, args], k being  *)
(* "class" or "fn".  Two of a kind with one symbol are one to the          *)
(* collector: it remembers the symbols it has seen, and drops a mention    *)
(* whose symbol it knows.  What a walk mentions does not depend on the     *)
(* collector's state, so the walks and the symbols are parameters here     *)
(* (Mono has the real ones), and each look at a mention is a step.         *)
(***************************************************************************)
EXTENDS Integers, Sequences, FiniteSets

CONSTANTS
  Programs,
  ProgramWalk(_),   \* the mentions in the items of a program, in the order of the walk
  InstWalk(_, _),   \* those in an instance, of a program
  Symbol(_),        \* the mangled name of an instance
  MaxInsts          \* bound on the class instances of one program

VARIABLES
  prog,    \* the program
  phase,   \* which queue is next, or how the collection ended
  walk,    \* the mentions of what is walked
  left,    \* the places in it that have not been looked at
  insts,   \* class_insts and fn_insts
  seen,    \* seen_classes and seen_fns
  queue    \* class_queue and fn_queue
vars == <<prog, phase, walk, left, insts, seen, queue>>

Kinds == {"class", "fn"}
Kind(x) == IF x.k = "class" THEN "class" ELSE "fn"
Seen(x) == Symbol(x) \in seen[Kind(x)]

Init ==
  /\ prog \in Programs
  /\ phase = "class"
  /\ walk = ProgramWalk(prog) /\ left = DOMAIN walk
  /\ insts = [k \in Kinds |-> <<>>]
  /\ seen = [k \in Kinds |-> {}]
  /\ queue = [k \in Kinds |-> <<>>]

\* Mutant of Add: an instance that was seen is added again.
AddAgain(x) ==
  /\ insts' = [insts EXCEPT ![Kind(x)] = Append(@, x)]
  /\ queue' = [queue EXCEPT ![Kind(x)] = Append(@, x)]
  /\ UNCHANGED seen

\* Mutant of Add: functions are remembered without their arguments.
AddByName(x) ==
  LET key == IF x.k = "fn" THEN x.name ELSE Symbol(x) IN
  IF key \in seen[Kind(x)] THEN UNCHANGED <<insts, seen, queue>>
  ELSE /\ seen' = [seen EXCEPT ![Kind(x)] = @ \cup {key}]
       /\ insts' = [insts EXCEPT ![Kind(x)] = Append(@, x)]
       /\ queue' = [queue EXCEPT ![Kind(x)] = Append(@, x)]

Add(x) ==
  IF Seen(x) THEN UNCHANGED <<insts, seen, queue>>
  ELSE /\ seen' = [seen EXCEPT ![Kind(x)] = @ \cup {Symbol(x)}]
       /\ insts' = [insts EXCEPT ![Kind(x)] = Append(@, x)]
       /\ queue' = [queue EXCEPT ![Kind(x)] = Append(@, x)]

Visit ==
  /\ phase \in Kinds
  /\ \E i \in left :
       /\ \A j \in left : i <= j
       /\ Add(walk[i])
       /\ left' = left \ {i}
  /\ UNCHANGED <<prog, phase, walk>>

MoreQueued == \E k \in Kinds : queue[k] # <<>>

\* A half of the loop's body: the first of a queue is walked, if there is one.
Turn(k, next) ==
  /\ phase = k /\ left = {}
  /\ phase' = next
  /\ \/ queue[k] = <<>> /\ UNCHANGED <<walk, left, queue>>
     \/ /\ queue[k] # <<>>
        /\ walk' = InstWalk(prog, Head(queue[k]))
        /\ left' = DOMAIN walk'
        /\ queue' = [queue EXCEPT ![k] = Tail(@)]
  /\ UNCHANGED <<prog, insts, seen>>

CollectClass == MoreQueued /\ Len(insts["class"]) <= MaxInsts /\ Turn("class", "fn")
CollectFn == Turn("fn", "class")

Collected ==
  /\ phase = "class" /\ left = {} /\ ~MoreQueued
  /\ phase' = "collected"
  /\ UNCHANGED <<prog, walk, left, insts, seen, queue>>

\* The bound of the model: the code goes on.
CutOff ==
  /\ phase = "class" /\ left = {} /\ MoreQueued /\ Len(insts["class"]) > MaxInsts
  /\ phase' = "cut"
  /\ UNCHANGED <<prog, walk, left, insts, seen, queue>>

Next == Visit \/ CollectClass \/ CollectFn \/ Collected \/ CutOff
Spec == Init /\ [][Next]_vars

-----------------------------------------------------------------------------
(* What a program demands *)

Elements(s) == {s[i] : i \in DOMAIN s}
Instances == UNION {Elements(insts[k]) : k \in Kinds}

\* How many instances of a kind have been walked, or are.
Walked(k) == Len(insts[k]) - Len(queue[k])

\* The set answers what the items mention, and what each of its members mentions.
Closed(S) ==
  /\ Elements(ProgramWalk(prog)) \subseteq S
  /\ \A x \in S : Elements(InstWalk(prog, x)) \subseteq S

\* The least such set: what the program reaches.
Demanded(S) == Closed(S) /\ \A T : Closed(T) => S \subseteq T

\* A symbol names one member of the set only.
SymbolsTell(S) ==
  \A x, y \in S : Kind(x) = Kind(y) /\ Symbol(x) = Symbol(y) => x = y

\* The type invariant.
TypeOK ==
  /\ phase \in Kinds \cup {"collected", "cut"}
  /\ left \subseteq DOMAIN walk
  /\ insts \in [Kinds -> Seq(Instances)]
  /\ seen \in [Kinds -> SUBSET {Symbol(x) : x \in Instances}]
  /\ queue \in [Kinds -> Seq(Instances)]

-----------------------------------------------------------------------------
(* No two instances of a kind have one symbol: what is emitted for them    *)
(* would be defined twice (the sets seen_classes and seen_fns, mono.rs:406 *)
(* and 419).                                                               *)
SymbolsDistinct ==
  \A k \in Kinds : \A i, j \in DOMAIN insts[k] :
    Symbol(insts[k][i]) = Symbol(insts[k][j]) => i = j

(* When the collection has ended, every mention, in an item or in an       *)
(* instance that was found however late, has the symbol of an instance     *)
(* (the loop of collect, mono.rs:73).                                      *)
MentionsServed ==
  phase = "collected" =>
    \A w \in {ProgramWalk(prog)} \cup {InstWalk(prog, x) : x \in Instances} :
      \A i \in DOMAIN w : \E y \in Instances : Kind(y) = Kind(w[i]) /\ Symbol(y) = Symbol(w[i])

(* Where symbols tell what a program reaches apart, the instances are what *)
(* it reaches and nothing else, whatever the order of the walks was.       *)
CollectsExactly ==
  phase = "collected" =>
    \A S : Demanded(S) /\ SymbolsTell(S) => Instances = S

(* Instances are walked in the order in which they were found, each once:  *)
(* what waits is always the end of what was found (class_queue.pop_front,  *)
(* mono.rs:74).                                                            *)
WalkedOnce ==
  \A k \in Kinds :
    /\ Walked(k) >= 0
    /\ \A i \in DOMAIN queue[k] : queue[k][i] = insts[k][Walked(k) + i]

(* A program that reaches finitely many classes and functions needs no     *)
(* more instances than these, however they mention each other: with        *)
(* WalkedOnce, the reason why the loop of collect ends.                    *)
InstancesBounded ==
  \A S : Closed(S) /\ IsFiniteSet(S) =>
    \A k \in Kinds : Len(insts[k]) <= Cardinality(S)
=============================================================================
