----------------------------- MODULE Ownership -----------------------------
(***************************************************************************)
(* The second pass of the ownership checker,                               *)
(* crates/draton-typeck/src/ownership.rs: it walks the body of a function  *)
(* with the state of every binding, reports uses of what was moved and     *)
(* clashes of borrows, and plans the frees that code generation emits.     *)
(*                                                                         *)
(* An expression is its kind, a name and its operands.  All of them have   *)
(* an owned type but for the names in Copies (closures); the summaries of  *)
(* the first pass (module Summaries) are Effects.  A method is called with *)
(* its receiver as the first argument.  A statement is its kind, a name,   *)
(* an expression and its blocks; the place of a free is the path to the    *)
(* statement.  Patterns and the blocks of match arms and of spawns, which  *)
(* this pass does not walk, are left out, and so are the spans of reports. *)
(***************************************************************************)
EXTENDS Naturals, Sequences, FiniteSets, SequencesExt

CONSTANTS
  Names,    \* the bindings of a function
  Copies,   \* those whose type is copied
  Effects,  \* of functions and methods, on each of their arguments
  Contracts \* of closures: what the declared type of each says it does to its arguments

Expr(k, x, args) == [k |-> k, x |-> x, args |-> args]
Ident(x) == Expr("ident", x, <<>>)
New == Expr("new", "", <<>>)
Call(f, args) == Expr("call", f, args)
Lambda(param, body) == Expr("lambda", param, <<body>>)
Stmt(k, x, e, blocks) == [k |-> k, x |-> x, e |-> e, blocks |-> blocks]

-----------------------------------------------------------------------------
(* Names in expressions and statements *)

RECURSIVE Idents(_)
Idents(e) ==
  (IF e.k \in {"ident", "call"} THEN {e.x} ELSE {})
    \cup UNION {Idents(e.args[i]) : i \in DOMAIN e.args}

\* The blocks that the syntactic walks look at: of an else-if chain only the first two.
Seen(s) == IF s.k = "elif" THEN <<s.blocks[1], s.blocks[2][1].blocks[1]>> ELSE s.blocks

RECURSIVE StmtUses(_)
StmtUses(s) ==
  (IF s.k \in {"assign", "attach"} THEN {s.x} ELSE {}) \cup Idents(s.e)
    \cup UNION {UNION {StmtUses(Seen(s)[i][j]) : j \in DOMAIN Seen(s)[i]} : i \in DOMAIN Seen(s)}

StmtDefines(s) == IF s.k \in {"let", "for"} THEN {s.x} ELSE {}

\* Mutant of LiveAfter: what the next statement uses.
UsedNext(block, i) == IF i >= Len(block) THEN {} ELSE StmtUses(block[i + 1])

\* What the rest of the block uses; what comes after the block does not count.
RECURSIVE LiveAfter(_, _)
LiveAfter(block, i) ==
  IF i >= Len(block) THEN {}
  ELSE (LiveAfter(block, i + 1) \ StmtDefines(block[i + 1])) \cup StmtUses(block[i + 1])

Captures(e) == Idents(e.args[1]) \ {e.x}

RECURSIVE Base(_)
Base(e) == IF e.k = "field" THEN Base(e.args[1]) ELSE IF e.k = "ident" THEN e.x ELSE ""

Copyable(e) == e.k = "ident" /\ e.x \in Copies

\* What a callee does to its argument i.
Summarised(f, i) == IF i \in DOMAIN Effects[f] THEN Effects[f][i] ELSE "shared"
ArgEffect(e, i) ==
  CASE Copyable(e.args[i]) -> "copy"
    [] ~Copyable(e.args[i]) /\ e.x \in DOMAIN Effects -> Summarised(e.x, i)
    [] ~Copyable(e.args[i]) /\ e.x \in DOMAIN Contracts \ DOMAIN Effects -> Contracts[e.x]
    [] OTHER -> "shared"

\* What is changed in a lambda: arguments of functions, but only receivers of methods.
RECURSIVE ExclusiveCaptures(_)
ExclusiveCaptures(e) ==
  {Base(e.args[i]) : i \in {j \in DOMAIN e.args :
      /\ e.k = "call" \/ (e.k = "method" /\ j = 1)
      /\ e.x \in DOMAIN Effects /\ Summarised(e.x, j) = "exclusive"}}
    \cup UNION {ExclusiveCaptures(e.args[i]) : i \in DOMAIN e.args}

-----------------------------------------------------------------------------
(* Closures bound by a let *)

ExprEscapes(e, x) ==
  CASE e.k = "ident" -> FALSE
    [] e.k = "call" -> e.x # x /\ \E i \in DOMAIN e.args : x \in Idents(e.args[i])
    [] e.k = "method" -> \E i \in DOMAIN e.args \ {1} : x \in Idents(e.args[i])
    [] OTHER -> x \in Idents(e)

RECURSIVE Escapes(_, _)
Escapes(block, x) ==
  \E i \in DOMAIN block :
    LET s == block[i] IN
    \/ s.k \in {"return", "attach"} /\ x \in Idents(s.e)
    \/ s.k = "expr" /\ ExprEscapes(s.e, x)
    \/ \E j \in DOMAIN Seen(s) : Escapes(Seen(s)[j], x)

NoClosure == [captures |-> {}, exclusive |-> {}]

\* The captures of the closure that the name x was last bound to in the statements up
\* to i, unless it escapes.
RECURSIVE ClosureOf(_, _, _, _)
ClosureOf(block, i, x, found) ==
  IF i = 0 THEN found
  ELSE LET s == block[i]
           before == ClosureOf(block, i - 1, x, found)
           here == IF s.k = "let" /\ s.x = x /\ s.e.k = "lambda"
                     THEN IF Escapes(block, x) THEN NoClosure
                          ELSE [captures |-> Captures(s.e), exclusive |-> ExclusiveCaptures(s.e)]
                     ELSE before
       IN FoldLeft(LAMBDA acc, b : ClosureOf(b, Len(b), x, acc), here, Seen(s))

-----------------------------------------------------------------------------
(* The state of the walk *)

\* bind is the state of each binding, origin of its value (0 is none), lent its borrows
\* with whether they outlast the statement, parents the origins attached to others.
\* next, errors and frees belong to the whole function.  missed and renewed are history:
\* whether a binding was used after its free was planned, or in a block of raw pointers
\* that does not report it; and whether one was assigned that had no value of its own, or
\* a value that a closure holds.
Fresh(params) == [
  bind |-> [x \in Names |-> IF x \in params THEN "owned" ELSE "unbound"],
  origin |-> [x \in Names |-> IF x \in params THEN CHOOSE i \in DOMAIN SetToSeq(params) : SetToSeq(params)[i] = x ELSE 0],
  lent |-> [x \in Names |-> {}],
  parents |-> <<>>,
  next |-> Cardinality(params) + 1,
  errors |-> {}, frees |-> {}, missed |-> FALSE, renewed |-> FALSE]

\* The bindings of w with the rest of later.
Rewound(w, later) == [later EXCEPT !.bind = w.bind, !.origin = w.origin, !.lent = w.lent, !.parents = w.parents]
Report(w, error) == [w EXCEPT !.errors = @ \cup {error}]

Clashes(w, x, how) ==
  LET kinds == {b.how : b \in w.lent[x]} IN
  \/ how = "shared" /\ "exclusive" \in kinds
  \/ how = "exclusive" /\ "shared" \in kinds
  \/ how = "move" /\ kinds # {}

\* Mutant of Checked: that a binding was moved is not noticed.
BorrowsChecked(w, use) == IF Clashes(w, use.x, use.how) THEN Report(w, "clash") ELSE w

Checked(w, use) ==
  CASE w.bind[use.x] = "moved" -> Report(w, "use_after_move")
    [] w.bind[use.x] # "moved" /\ Clashes(w, use.x, use.how) -> Report(w, "clash")
    [] OTHER -> [w EXCEPT !.missed = @ \/ w.bind[use.x] = "escaped"]

\* One use of a binding: in evaluation order they are what an expression does.
Used(w, use) ==
  IF use.how = "partial" THEN Report(w, "partial")
  ELSE IF use.x \notin Names \/ (use.x \in Names /\ w.bind[use.x] = "unbound") THEN w
  ELSE CASE use.how = "copy" -> Checked(w, use)
         [] use.how = "ambiguous" -> Report(w, "ambiguous")
         [] use.how = "move" -> [Checked(w, use) EXCEPT !.bind[use.x] = "moved"]
         [] OTHER -> [Checked(w, use) EXCEPT !.bind[use.x] = use.how,
                        !.lent[use.x] = @ \cup {[how |-> use.how, kept |-> use.kept]}]

Use(x, how, kept) == <<[x |-> x, how |-> how, kept |-> kept]>>

\* A binding is called with an owned one: nothing says what it does to it.
Ambiguous(e) ==
  LET owned == {i \in DOMAIN e.args : ~Copyable(e.args[i])} IN
  IF /\ e.x \notin DOMAIN Effects \cup DOMAIN Contracts
     /\ owned # {} /\ Base(e.args[CHOOSE i \in owned : \A j \in owned : i <= j]) # ""
    THEN Use(e.x, "ambiguous", FALSE) ELSE <<>>

\* A closure borrows what it captures for as long as it is known, or takes it along.
CaptureUses(e, want) ==
  LET how(x) == IF want = "move" THEN "move" ELSE IF x \in ExclusiveCaptures(e) THEN "exclusive" ELSE "shared" IN
  FlattenSeq(SetToSeq({Use(x, how(x), want # "move") : x \in Captures(e)}))

\* What an expression that is neither place nor call wants of its operand i.
OperandUse(e, i, want) ==
  CASE e.k = "items" -> IF Copyable(e.args[i]) THEN "copy" ELSE "move"
    [] e.k = "add" /\ i = 1 -> "move"
    [] e.k = "wrap" -> want
    [] OTHER -> "shared"

RECURSIVE Uses(_, _)
Uses(e, want) ==
  LET Each(how(_)) == FlattenSeq([i \in DOMAIN e.args |-> Uses(e.args[i], how(i))]) IN
  CASE e.k = "ident" -> Use(e.x, IF Copyable(e) THEN "copy" ELSE want, FALSE)
    [] e.k = "field" ->
         Uses(e.args[1], IF want = "exclusive" THEN want ELSE "shared")
           \o (IF want = "move" /\ Base(e) # "self" THEN Use(Base(e), "partial", FALSE) ELSE <<>>)
    [] e.k = "call" -> Ambiguous(e) \o Use(e.x, "copy", FALSE) \o Each(LAMBDA i : ArgEffect(e, i))
    [] e.k = "method" -> Each(LAMBDA i : ArgEffect(e, i))
    [] e.k = "lambda" -> CaptureUses(e, want)
    [] OTHER -> Each(LAMBDA i : OperandUse(e, i, want))

Analyzed(w, e, want) == FoldLeft(Used, w, Uses(e, want))

\* The origin of the value of an expression, 0 if it is a new one.
RECURSIVE Origin(_, _)
Origin(w, e) ==
  LET moved == {i \in DOMAIN e.args : ArgEffect(e, i) = "move"} IN
  CASE e.k = "ident" -> IF e.x \in Names THEN w.origin[e.x] ELSE 0
    [] e.k \in {"field", "wrap"} -> Origin(w, e.args[1])
    [] e.k = "call" /\ moved # {} -> Origin(w, e.args[CHOOSE i \in moved : \A j \in moved : j <= i])
    [] e.k = "method" /\ e.x \in {"push", "pop"} -> Origin(w, e.args[1])
    [] OTHER -> 0

\* What becomes of a value that a binding or an object gets.
Wanted(e) == IF Copyable(e) THEN "copy" ELSE IF e.k = "lambda" THEN "shared" ELSE "move"

\* The binding x gets the value of e.
Initialized(w, x, e) ==
  LET done == Analyzed(w, e, Wanted(e))
      from == Origin(w, e)
  IN [done EXCEPT !.bind[x] = "owned",
        !.origin[x] = IF x \in Copies THEN 0 ELSE IF from = 0 THEN w.next ELSE from,
        !.next = @ + 1]

-----------------------------------------------------------------------------
(* Statements *)

RECURSIVE HasAncestor(_, _, _)
HasAncestor(parents, o, target) ==
  o = target \/ (o \in DOMAIN parents /\ HasAncestor(parents, parents[o], target))

\* x.f = e
Attached(w, x, e) ==
  LET done == Analyzed(Analyzed(w, Ident(x), "exclusive"), e, Wanted(e))
      parent == w.origin[x]
      child == IF Origin(w, e) = 0 THEN w.next ELSE Origin(w, e)
  IN IF Copyable(e) THEN done
     ELSE IF HasAncestor(w.parents, parent, child) \/ child \in DOMAIN w.parents
       THEN Report(done, "cycle")
       ELSE [done EXCEPT !.parents = [o \in DOMAIN @ \cup {child} |-> IF o = child THEN parent ELSE @[o]],
                         !.next = @ + 1]

Assigned(w, x, e) ==
  LET before == Analyzed(w, e, Wanted(e)) IN
  [Initialized(w, x, e) EXCEPT
     !.renewed = @ \/ before.bind[x] \in {"moved", "escaped"} \/ \E b \in before.lent[x] : b.kept]

Returned(w, e) ==
  LET done == Analyzed(w, e, "move") IN
  [done EXCEPT !.bind = [x \in Names |->
     IF @[x] = "owned" /\ x \notin Copies /\ (Origin(w, e) = 0 \/ w.origin[x] # Origin(w, e))
       THEN "escaped" ELSE @[x]]]

\* The borrows of a closure that does not escape.
ClosureApplied(w, x, closures) ==
  FoldLeft(Used, w, FlattenSeq(SetToSeq(
    {Use(y, IF y \in closures[x].exclusive THEN "exclusive" ELSE "shared", TRUE) :
       y \in closures[x].captures})))

\* Mutant of JoinedState: what one branch moved may be used when the other did not move it.
MoveOfBoth(l, r) == IF l = r /\ l \in {"moved", "escaped"} THEN l ELSE "owned"

JoinedState(l, r) ==
  CASE "moved" \in {l, r} -> "moved"
    [] l = "escaped" /\ r = "escaped" -> "escaped"
    [] OTHER -> "owned"

\* The bindings of l where control may also come from r; what l has no binding for is
\* out of scope, and every borrow ends.
Join(l, r) ==
  [r EXCEPT
     !.bind = [x \in Names |-> IF "unbound" \in {l.bind[x], r.bind[x]} THEN l.bind[x]
                               ELSE JoinedState(l.bind[x], r.bind[x])],
     !.origin = [x \in Names |-> IF l.bind[x] # "unbound" /\ l.origin[x] = 0 THEN r.origin[x] ELSE l.origin[x]],
     !.lent = [x \in Names |-> {}],
     !.parents = l.parents]

\* Mutant of CheckLoopReinit: the body is walked as if it ran once.
CheckLoopOnce(before, after) == after

CheckLoopReinit(before, after) ==
  IF \E x \in Names : before.bind[x] = "owned" /\ after.bind[x] = "moved"
    THEN Report(after, "loop_move") ELSE after

Planned(w, at, xs) == [w EXCEPT !.frees = @ \cup {<<at, x>> : x \in xs}]

\* Mutant of Dying: whoever is the owner.
Unused(w, live) == {x \in Names \ Copies : w.bind[x] # "unbound" /\ x \notin live}

Dying(w, live) == {x \in Names \ Copies : w.bind[x] = "owned" /\ x \notin live}
FreeUnused(w, at, live) ==
  [Planned(w, at, Dying(w, live)) EXCEPT !.bind = [x \in Names |-> IF x \in Dying(w, live) THEN "escaped" ELSE @[x]]]

ClearTemporaryBorrows(w) ==
  LET kept == [x \in Names |-> {b \in w.lent[x] : b.kept}] IN
  [w EXCEPT !.lent = kept,
            !.bind = [x \in Names |-> IF w.lent[x] # {} /\ kept[x] = {} /\ @[x] \in {"shared", "exclusive"}
                                        THEN "owned" ELSE @[x]]]

RECURSIVE Mentions(_)
Mentions(s) ==
  Idents(s.e) \cup (IF s.k \in {"assign", "attach"} THEN {s.x} ELSE {})
    \cup UNION {UNION {Mentions(s.blocks[i][j]) : j \in DOMAIN s.blocks[i]} : i \in DOMAIN s.blocks}

\* A value of the checker may not be known to a block of raw pointers too; what else
\* happens in the block is not looked at.
PointerBlockChecked(w, s) ==
  LET crossing == Mentions(s) \cap (Names \ Copies) IN
  IF \E x \in crossing : w.bind[x] = "owned" THEN Report(w, "raw_alias")
  ELSE [w EXCEPT !.missed = @ \/ \E x \in crossing : w.bind[x] # "unbound"]

RECURSIVE AnalyzeBlock(_, _, _, _)
RECURSIVE AnalyzeIf(_, _, _, _)

AnalyzeLoop(w, s, at, closures) ==
  LET begun == Analyzed(w, s.e, IF s.k = "for" THEN "shared" ELSE "copy")
      entered == IF s.k = "for" THEN [begun EXCEPT !.bind[s.x] = "owned", !.origin[s.x] = 0] ELSE begun
      body == AnalyzeBlock(entered, s.blocks[1], Append(at, 1), closures)
  IN Join(begun, CheckLoopReinit(begun, body))

AnalyzeIf(w, s, at, closures) ==
  LET begun == Analyzed(w, s.e, "copy")
      then == AnalyzeBlock(begun, s.blocks[1], Append(at, 1), closures)
      else == IF s.k = "elif" THEN AnalyzeIf(Rewound(begun, then), s.blocks[2][1], at \o <<2, 1>>, closures)
              ELSE AnalyzeBlock(Rewound(begun, then), s.blocks[2], Append(at, 2), closures)
  IN Join(then, else)

AnalyzeStmt(w, s, at, closures) ==
  CASE s.k = "let" -> ClosureApplied(Initialized(w, s.x, s.e), s.x, closures)
    [] s.k = "assign" ->
         Assigned(Planned(w, <<0>>, {x \in {s.x} \ Copies : w.bind[x] = "owned"}), s.x, s.e)
    [] s.k = "attach" -> Attached(w, s.x, s.e)
    [] s.k = "return" -> Returned(w, s.e)
    [] s.k = "expr" -> Analyzed(w, s.e, "shared")
    [] s.k \in {"if", "elif"} -> AnalyzeIf(w, s, at, closures)
    [] s.k \in {"for", "while"} -> AnalyzeLoop(w, s, at, closures)
    [] s.k = "block" -> Join(w, AnalyzeBlock(w, s.blocks[1], Append(at, 1), closures))
    [] s.k = "pointer" -> PointerBlockChecked(w, s)
    [] OTHER -> w

AnalyzeBlock(w, block, at, closures) ==
  FoldLeft(LAMBDA acc, i :
             ClearTemporaryBorrows(FreeUnused(AnalyzeStmt(acc, block[i], Append(at, i), closures),
                                              Append(at, i), LiveAfter(block, i))),
           w, [i \in DOMAIN block |-> i])

\* The check of a function: its parameters are owned, and what is left is freed at its end.
VisitFn(params, body) ==
  LET closures == [x \in Names |-> ClosureOf(body, Len(body), x, NoClosure)]
      done == AnalyzeBlock(Fresh(params), body, <<>>, closures)
  IN Planned(done, <<>>, Dying(done, {}))
=============================================================================
