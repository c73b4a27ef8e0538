------------------------------- MODULE Frees -------------------------------
(***************************************************************************)
(* What becomes of a function that the ownership checker accepts: code     *)
(* generation (crates/draton-codegen/src/stmt.rs, codegen.rs, item.rs)     *)
(* emits the frees planned by module Ownership, and the function runs.     *)
(*                                                                         *)
(* A run knows who holds which value: values are numbers, 0 is none.  What *)
(* is moved into a callee, an object or the caller is lost to the function *)
(* and no longer its to free.  A loop runs up to Rounds times.             *)
(***************************************************************************)
EXTENDS Ownership

CONSTANTS
  Programs,  \* the functions: their parameters and their body
  Voids,     \* the callees that return nothing
  Rounds

VARIABLES
  program,
  checked,   \* the checker's state at the end of the function
  runs       \* the states in which the function may end

vars == <<program, checked, runs>>

-----------------------------------------------------------------------------
(* The emission of frees *)

\* The bindings whose free is planned at a statement.
PlannedAt(at) == {free[2] : free \in {fr \in checked.frees : fr[1] = at}}

\* What a statement leaves as the value of its block, if it is the last one.
RECURSIVE Ends(_)
Ends(block) ==
  block # <<>> /\ LET s == block[Len(block)] IN
    CASE s.k = "expr" -> s.e.k \notin {"call", "method"} \/ s.e.x \notin Voids
      [] s.k \in {"if", "elif", "block", "pointer"} -> \A i \in DOMAIN s.blocks : Ends(s.blocks[i])
      [] OTHER -> FALSE

\* The frees emitted behind statement i of a block: none behind its value.
FreesAfter(block, at, i) ==
  IF i = Len(block) /\ Ends(block) THEN {} ELSE PlannedAt(Append(at, i))

\* The frees emitted behind a branch or a whole body, for what its last statement does
\* not use; behind an else-if all those of its branches, whichever of them was taken.
TailFrees(block, at) ==
  IF block = <<>> THEN {} ELSE PlannedAt(Append(at, Len(block))) \ StmtUses(block[Len(block)])

RECURSIVE ElseFrees(_, _)
ElseFrees(s, at) ==
  IF s.k = "elif"
    THEN LET child == s.blocks[2][1] IN
         TailFrees(child.blocks[1], at \o <<2, 1, 1>>) \cup ElseFrees(child, at \o <<2, 1>>)
    ELSE TailFrees(s.blocks[2], Append(at, 2))

-----------------------------------------------------------------------------
(* Runs *)

Blank(params) == [
  holds |-> [x \in Names |-> IF x \in params THEN CHOOSE i \in DOMAIN SetToSeq(params) : SetToSeq(params)[i] = x ELSE 0],
  captured |-> [x \in Names |-> {}],
  away |-> {}, lost |-> {}, freed |-> {},
  next |-> Cardinality(params) + 1, over |-> FALSE, wrong |-> {}]

Wrong(st, what) == [st EXCEPT !.wrong = @ \cup {what}]
When(st, condition, what) == IF condition THEN Wrong(st, what) ELSE st

\* A binding is read, written or given away; calling a closure is a use of what it holds.
Touched(st, use) ==
  IF use.x \notin Names THEN st
  ELSE LET values == (st.captured[use.x]) \cup {st.holds[use.x]}
           met == When(When(st, use.x \in st.away, "moved"), values \cap st.freed # {}, "freed")
       IN IF use.how = "move" THEN [met EXCEPT !.away = @ \cup {use.x}] ELSE met

\* The values an expression may have.
RECURSIVE Results(_, _)
Results(st, e) ==
  CASE e.k = "ident" -> {st.holds[e.x]}
    [] e.k = "wrap" -> Results(st, e.args[1])
    [] e.k = "nullish" -> Results(st, e.args[1]) \cup Results(st, e.args[2])
    [] e.k = "match" -> UNION {Results(st, e.args[i]) : i \in (DOMAIN e.args \ {1})}
    [] OTHER -> {st.next}

\* Evaluated, with the value kept by whoever asked for it: what else was moved is lost.
Evaluated(st, e, want, kept) ==
  LET uses == Uses(e, want)
      moved == {st.holds[uses[i].x] : i \in {j \in DOMAIN uses : uses[j].how = "move" /\ uses[j].x \in Names}}
      done == FoldLeft(Touched, st, uses)
  IN [done EXCEPT !.lost = @ \cup (moved \ (kept \cup {0})), !.next = @ + 1]

Freed(st, value, how) ==
  IF value = 0 THEN st
  ELSE [When(st, value \in (st.freed \cup st.lost), how) EXCEPT !.freed = @ \cup {value}]

\* The planned frees of bindings that are in scope.
FreedAll(st, xs) ==
  FoldLeft(LAMBDA acc, x : Freed(When(acc, x \in acc.away, "moved_freed"), acc.holds[x], "twice"),
           st, SetToSeq(xs))

Bound(st, x, value) == [st EXCEPT !.holds[x] = value, !.away = @ \ {x}]

Assignments(st, s) ==
  LET value(v) == Evaluated(st, s.e, "move", {v}) IN
  {Bound(value(v), s.x, v) : v \in Results(st, s.e)}

\* A block is left: what it defined is gone.
Left(st, outer, block) ==
  LET own == UNION {StmtDefines(block[i]) : i \in DOMAIN block} IN
  [st EXCEPT !.holds = [x \in Names |-> IF x \in own THEN outer.holds[x] ELSE @[x]],
             !.away = (@ \ own) \cup (outer.away \cap own)]

RECURSIVE RunBlock(_, _, _)
RECURSIVE RunLoop(_, _, _, _)
RECURSIVE RunIf(_, _, _)

\* The ends of a branch, with the frees behind it.
Closed(ends, xs) == {IF t.over THEN t ELSE FreedAll(t, {x \in xs : t.holds[x] # 0}) : t \in ends}

RunIf(st, s, at) ==
  LET begun == Evaluated(st, s.e, "copy", {}) IN
  Closed(RunBlock(begun, s.blocks[1], Append(at, 1)), TailFrees(s.blocks[1], Append(at, 1)))
    \cup Closed(IF s.k = "elif" THEN RunIf(begun, s.blocks[2][1], at \o <<2, 1>>)
                ELSE RunBlock(begun, s.blocks[2], Append(at, 2)),
                ElseFrees(s, at))

RunLoop(st, s, at, rounds) ==
  LET begun == Evaluated(st, s.e, "copy", {}) IN
  {begun} \cup
  (IF rounds = 0 THEN {}
   ELSE UNION {IF t.over THEN {t} ELSE RunLoop(t, s, at, rounds - 1) : t \in RunBlock(begun, s.blocks[1], Append(at, 1))})

RunStmt(st, s, at) ==
  CASE s.k = "let" /\ s.e.k = "lambda" ->
         {[Bound(st, s.x, 0) EXCEPT !.captured[s.x] = {st.holds[y] : y \in Captures(s.e) \cap Names}]}
    [] s.k = "let" /\ s.e.k # "lambda" -> Assignments(st, s)
    [] s.k = "assign" -> {Freed(t, st.holds[s.x], "twice") : t \in Assignments(st, s)}
    [] s.k = "attach" -> {Evaluated(Touched(st, [x |-> s.x, how |-> "exclusive"]), s.e, "move", {})}
    [] s.k = "return" ->
         LET freed == FreedAll(st, PlannedAt(at) \ Idents(s.e)) IN
         {[Evaluated(freed, s.e, "move", {}) EXCEPT !.over = TRUE]}
    [] s.k = "expr" -> {Evaluated(st, s.e, "shared", {})}
    [] s.k \in {"if", "elif"} -> RunIf(st, s, at)
    [] s.k \in {"for", "while"} -> RunLoop(st, s, at, Rounds)
    [] OTHER -> RunBlock(st, s.blocks[1], Append(at, 1))

RunBlock(st, block, at) ==
  {IF t.over THEN t ELSE Left(t, st, block) :
     t \in FoldLeft(LAMBDA sts, i :
             UNION {IF t.over THEN {t}
                    ELSE {IF u.over THEN u ELSE FreedAll(u, FreesAfter(block, at, i)) :
                            u \in RunStmt(t, block[i], Append(at, i))} : t \in sts},
             {st}, [i \in DOMAIN block |-> i])}

RunFn(params, body) == Closed(RunBlock(Blank(params), body, <<>>), TailFrees(body, <<>>))

-----------------------------------------------------------------------------

None == [errors |-> {}]

Init == program \in Programs /\ checked = None /\ runs = {}

Check ==
  /\ checked = None
  /\ checked' = VisitFn(program.params, program.body)
  /\ UNCHANGED <<program, runs>>

Run ==
  /\ checked # None /\ checked.errors = {} /\ runs = {}
  /\ runs' = RunFn(program.params, program.body)
  /\ UNCHANGED <<program, checked>>

Next == Check \/ Run
Spec == Init /\ [][Next]_vars

-----------------------------------------------------------------------------
(* Properties *)

Accepted == checked # None /\ checked.errors = {}
Happens(what) == \E r \in runs : what \in r.wrong

RECURSIVE Has(_, _)
Has(block, k) == \E i \in DOMAIN block : block[i].k = k \/ \E j \in DOMAIN block[i].blocks : Has(block[i].blocks[j], k)

\* The names that the block of a statement defines.
RECURSIVE Defined(_, _)
Defined(block, at) ==
  IF Len(at) <= 1 THEN UNION {StmtDefines(block[i]) : i \in DOMAIN block}
  ELSE Defined(block[at[1]].blocks[at[2]], SubSeq(at, 3, Len(at)))

\* Every free is planned in the block that defines the binding.
PlannedWhereDefined ==
  \A fr \in checked.frees : Len(fr[1]) <= 1 \/ fr[2] \in Defined(program.body, fr[1])

\* No binding gets the value of another one without a move.
NoAliases == \A i \in DOMAIN program.body : program.body[i].e.k # "nullish"

\* In a function that the checker accepts no run uses a binding after its value was moved,
\* on whatever path and in whatever round of a loop the move was (analyze_expr, join_envs
\* and check_loop_reinit together); but for uses after the binding's free was planned, and
\* in blocks of raw pointers.
MovesAreSeen == Accepted /\ ~checked.missed => ~Happens("moved")

\* The frees that are planned while a binding is owned never reach a run that moved its
\* value away by then, at each of the places where the free of a statement is emitted;
\* but for else-if chains, behind which the frees of all branches are emitted
\* (emit_tail_if_frees).
FreesOnlyOwned == Accepted /\ ~checked.missed /\ ~Has(program.body, "elif") => ~Happens("moved_freed")

\* If the frees are planned in the blocks that define the bindings, no run frees a value
\* twice, frees one it gave away, or uses one that it freed: what compute_live_after_block
\* finds dead in a block, and what an assignment replaces, is dead indeed.  Not so in
\* else-if chains and blocks of raw pointers, when a parameter was only lent, or after an
\* assignment to a binding that had been moved.
FreesAreSafe ==
  Accepted /\ ~checked.renewed /\ program.params = {} /\ NoAliases /\ PlannedWhereDefined
    /\ ~Has(program.body, "elif") /\ ~Has(program.body, "pointer") => \A r \in runs : r.wrong = {}

\* "Inserts generated free() calls after the last owned use": no run of an accepted
\* function uses a value that it freed.
FreedAfterLastUse == Accepted => ~Happens("freed")
=============================================================================
