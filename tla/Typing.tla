------------------------------- MODULE Typing -------------------------------
(***************************************************************************)
(* A program is checked (module Infer) and, whatever the checker says of   *)
(* it, its function main runs by what the language means: every operation  *)
(* takes the values it is defined on or is stuck.                          *)
(*                                                                         *)
(* A value is its kind v, a name x (a literal's text, a variant, a class)  *)
(* and its parts a.  An outcome is how the evaluation went on - "ok",      *)
(* "return", "abort" (defined failures: an empty array, a None, too deep   *)
(* a recursion), "fell" (no arm took the subject), "stuck" - the value,    *)
(* the scopes and the arms that were taken.  What a comparison yields is   *)
(* chosen once for a run.                                                  *)
(***************************************************************************)
EXTENDS Infer

CONSTANTS
  Families,  \* sets of programs; a program is a sequence of items
  Depth      \* how deep calls nest before a run aborts

VARIABLES
  program,
  nodes,     \* the items checked so far, with what the checker knows and the scopes
  checked,   \* what the checker knows at the end: errors, redundant arms
  run,       \* the outcome of main
  pc

vars == <<program, nodes, checked, run, pc>>

-----------------------------------------------------------------------------
(* Values *)

Val(v, x, a) == [v |-> v, x |-> x, a |-> a]
UnitVal == Val("Unit", "", <<>>)
IntVal == Val("Int", "7", <<>>)
StrVal == Val("String", "s", <<>>)
Some(a) == Val("Option", "Some", <<a>>)
None == Val("Option", "None", <<>>)
Closure(ps, e, block, env) == Val("fn", "", [ps |-> ps, e |-> e, block |-> block, env |-> env])

O(how, v, env, hits) == [how |-> how, v |-> v, env |-> env, hits |-> hits]
Ok(o, v) == [o EXCEPT !.v = v]
Stuck(o) == [o EXCEPT !.how = "stuck"]
Abort(o) == [o EXCEPT !.how = "abort"]
Check(o, condition, v) == IF condition THEN Ok(o, v) ELSE Stuck(o)

Items(k, x) == SelectSeq(program, LAMBDA item : item.k = k /\ item.x = x)
ClassMethod(c, m) == SelectSeq(Items("class", c)[1].items, LAMBDA f : f.x = m)
MethodOf(c, m) == FlattenSeq([i \in DOMAIN Lineage(c) |-> ClassMethod(Lineage(c)[i], m)])
FieldsOf(c) == UNION {DOMAIN Classes[Lineage(c)[i]].fields : i \in DOMAIN Lineage(c)}

Scope(names, values) == [x \in Range(names) |-> values[CHOOSE i \in DOMAIN names : names[i] = x]]
With(o, names, values) == [o EXCEPT !.env = Append(@, Scope(names, values))]
Left(o, outer) == [o EXCEPT !.env = SubSeq(@, 1, Len(outer.env))]
Updated(env, x, v) ==
  LET i == CHOOSE j \in Binds(env, x) : \A k \in Binds(env, x) : k <= j IN [env EXCEPT ![i][x] = v]

-----------------------------------------------------------------------------
(* Patterns: what they bind, if they take the value; "stuck" if it is of another kind. *)

RECURSIVE Takes(_, _)
Takes(p, v) ==
  LET inner(ps, vs) ==
        LET each == [i \in DOMAIN ps |-> Takes(ps[i], vs[i])] IN
        IF \E i \in DOMAIN ps : each[i].how = "stuck" THEN [how |-> "stuck", names |-> NoFields]
        ELSE IF \E i \in DOMAIN ps : each[i].how = "no" THEN [how |-> "no", names |-> NoFields]
        ELSE [how |-> "yes", names |-> FoldLeft(LAMBDA acc, r : r.names @@ acc, NoFields, each)]
      label(kind, x) == IF v.v # kind THEN "stuck" ELSE IF v.x = x THEN "yes" ELSE "no"
      constructor(kind, x, ps) ==
        IF label(kind, x) = "yes" THEN inner(ps, v.a) ELSE [how |-> label(kind, x), names |-> NoFields]
  IN CASE p.k = "id" -> [how |-> "yes", names |-> IF p.x = "_" THEN NoFields ELSE p.x :> v]
       [] p.k = "lit" -> [how |-> label(p.x, p.n), names |-> NoFields]
       [] p.k = "none" -> [how |-> label("Option", "None"), names |-> NoFields]
       [] p.k = "variant" -> [how |-> label(p.x, p.n), names |-> NoFields]
       [] p.k = "tuple" -> IF v.v = "Tuple" /\ Len(v.a) = Len(p.args) THEN inner(p.args, v.a)
                           ELSE [how |-> "stuck", names |-> NoFields]
       [] p.k \in {"Ok", "Err"} -> constructor("Result", p.k, p.args)
       [] p.k = "call" -> constructor("Option", p.args[1].x, Tail(p.args))

-----------------------------------------------------------------------------
(* Expressions; o is the outcome so far, g what comparisons yield, n the depth left. *)

RECURSIVE Eval(_, _, _, _), EvalAll(_, _, _, _, _), Run(_, _, _, _), RunStmt(_, _, _, _), MapAll(_, _, _, _, _)

EvalAll(o, g, n, es, done) ==
  IF es = <<>> THEN Ok(o, done)
  ELSE LET r == Eval(o, g, n, Head(es)) IN
       IF r.how = "ok" THEN EvalAll(r, g, n, Tail(es), Append(done, r.v)) ELSE r

Global(x) ==
  CASE Items("fn", x) # <<>> -> LET f == Items("fn", x)[1] IN <<Closure(f.ps, <<>>, f.body, <<>>)>>
    [] x \in {"print", "input", "Some"} -> <<Val("builtin", x, <<>>)>>
    [] x \in Variants -> <<Val(CHOOSE e \in DOMAIN Enums : x \in Range(Enums[e]), x, <<>>)>>
    [] OTHER -> <<>>

\* A call of a function with its arguments.  What it returns is its value, the scopes are
\* those of the caller again.
CallFn(o, g, n, f, args) ==
  CASE f.v = "builtin" ->
         Check(o, Len(args) = 1, IF f.x = "Some" THEN Some(args[1]) ELSE IF f.x = "input" THEN StrVal ELSE UnitVal)
    [] f.v = "fn" ->
         IF n = 0 THEN Abort(o)
         ELSE IF Len(f.a.ps) # Len(args) THEN Stuck(o)
         ELSE LET inside == With([o EXCEPT !.env = f.a.env], f.a.ps, args)
                  r == IF f.a.e = <<>> THEN Run(inside, g, n - 1, f.a.block) ELSE Eval(inside, g, n - 1, f.a.e[1])
              IN [r EXCEPT !.env = o.env, !.how = IF @ = "return" THEN "ok" ELSE @]
    [] OTHER -> Stuck(o)

MapAll(o, g, n, f, vs) ==
  IF vs = <<>> THEN Ok(o, <<>>)
  ELSE LET r == CallFn(o, g, n, f, <<Head(vs)>>)
           rest == MapAll(r, g, n, f, Tail(vs))
       IN IF r.how # "ok" THEN r ELSE IF rest.how # "ok" THEN rest ELSE Ok(rest, <<r.v>> \o rest.v)

Kinds(vs) == {vs[i].v : i \in DOMAIN vs}
Numeric(vs) == Kinds(vs) \subseteq Numbers /\ Cardinality(Kinds(vs)) = 1
BoolVal(g) == Val("Bool", g, <<>>)

Operate(o, g, op, vs) ==
  CASE op \in Arithmetic -> Check(o, Numeric(vs), Val(vs[1].v, "7", <<>>))
    [] op \in Orders -> Check(o, Numeric(vs), BoolVal(g))
    [] op \in Equalities -> Check(o, Cardinality(Kinds(vs)) = 1, BoolVal(g))
    [] op \in Logic -> Check(o, Kinds(vs) = {"Bool"}, vs[1])
    [] op \in Bits -> Check(o, Kinds(vs) = {"Int"}, IntVal)
    [] op = ".." -> Check(o, Kinds(vs) = {"Int"}, Val("Array", "", vs))

\* What a map or a filter of the values vs makes of the results.
Collected(r, m, vs) ==
  IF r.how # "ok" THEN r ELSE Check(r, m = "map" \/ Kinds(r.v) \subseteq {"Bool"}, Val("Array", "", IF m = "map" THEN r.v ELSE vs))

\* A built-in method, and what the receiver is afterwards.
BuiltInCall(o, g, n, m, v, args) ==
  LET strings == [i \in DOMAIN args |-> args[i].v] IN
  CASE m = "toString" /\ args = <<>> /\ v.v \in Numbers \cup {"String", "Bool"} \cup DOMAIN Enums -> Ok(o, StrVal)
    [] v.v = "Array" /\ m = "len" /\ args = <<>> -> Ok(o, IntVal)
    [] v.v = "Array" /\ m \in {"push", "contains"} /\ Len(args) = 1 -> Ok(o, IF m = "push" THEN UnitVal ELSE BoolVal(g))
    [] v.v = "Array" /\ m = "pop" /\ args = <<>> -> Ok(o, IF v.a = <<>> THEN None ELSE Some(Last(v.a)))
    [] v.v = "Array" /\ m \in {"map", "filter"} /\ Len(args) = 1 ->
         Collected(MapAll(o, g, n, args[1], v.a), m, v.a)
    [] v.v = "String" /\ m \in {"len", "trim", "contains", "slice"} ->
         Check(o, strings = (CASE m = "contains" -> <<"String">> [] m = "slice" -> <<"Int", "Int">> [] OTHER -> <<>>),
               CASE m = "len" -> IntVal [] m = "contains" -> BoolVal(g) [] OTHER -> StrVal)
    [] v.v = "Chan" /\ m = "send" /\ Len(args) = 1 -> Ok(o, UnitVal)
    [] v.v = "Chan" /\ m = "recv" /\ args = <<>> -> IF v.a = <<>> THEN Abort(o) ELSE Ok(o, Head(v.a))
    [] OTHER -> Stuck(o)

\* push and send put the value into the receiver, whatever is in it.
AfterBuiltIn(c, e, vs) ==
  LET target == e.args[1] IN
  IF c.how = "ok" /\ e.x \in {"push", "send"} /\ target.k = "id" /\ Binds(c.env, target.x) # {}
  THEN [c EXCEPT !.env = Updated(@, target.x, [vs[1] EXCEPT !.a = Append(@, vs[2])])] ELSE c
CallMethod(o, g, n, found, vs) ==
  IF found = <<>> THEN Stuck(o)
  ELSE LET m == found[1]
           names == IF m.ps # <<>> /\ m.ps[1] = "self" THEN Tail(m.ps) ELSE m.ps
       IN CallFn(o, g, n, Closure(<<"self">> \o names, <<>>, m.body, <<>>), vs)
EvalMethod(o, g, n, e, vs) ==
  IF vs[1].v # "object" THEN AfterBuiltIn(BuiltInCall(o, g, n, e.x, vs[1], Tail(vs)), e, vs)
  ELSE CallMethod(o, g, n, MethodOf(vs[1].x, e.x), vs)

EvalIndex(o, vs) ==
  CASE vs[1].v \in {"Array", "String"} /\ vs[2].v = "Int" ->
         IF vs[1].v = "String" THEN Ok(o, Val("Char", "", <<>>)) ELSE IF vs[1].a = <<>> THEN Abort(o) ELSE Ok(o, vs[1].a[1])
    [] vs[1].v = "Map" -> IF vs[1].a = <<>> THEN Abort(o) ELSE Check(o, vs[1].a[1].v = vs[2].v, vs[1].a[2])
    [] OTHER -> Stuck(o)

\* The first arm that takes the subject.
RECURSIVE EvalArms(_, _, _, _, _, _)
ArmDone(arm, r) ==
  IF r.how = "ok" /\ arm.block # <<>> /\ (arm.block[1] = <<>> \/ Last(arm.block[1]).k # "expr") THEN Ok(r, UnitVal) ELSE r
EvalArm(o, g, n, arm, hit, names) ==
  LET inside == [o EXCEPT !.env = Append(@, names), !.hits = @ \cup {hit}]
  IN ArmDone(arm, Left(IF arm.block = <<>> THEN Eval(inside, g, n, arm.e[1]) ELSE Run(inside, g, n, arm.block[1]), o))
TakeArm(o, g, n, e, v, i, take) ==
  CASE take.how = "stuck" -> Stuck(o)
    [] take.how = "no" -> EvalArms(o, g, n, e, v, i + 1)
    [] take.how = "yes" -> EvalArm(o, g, n, e.arms[i], <<e, i>>, take.names)
EvalArms(o, g, n, e, v, i) ==
  IF i > Len(e.arms) THEN [o EXCEPT !.how = "fell"] ELSE TakeArm(o, g, n, e, v, i, Takes(e.arms[i].p, v))

\* a ?? b yields what is in a, or leaves the function with the error b.
EvalNullish(o, g, n, e) ==
  LET r == Eval(o, g, n, e.args[1])
      other == Eval(r, g, n, e.args[2]) IN
  CASE r.how # "ok" -> r
    [] r.how = "ok" /\ r.v.v = "Option" -> IF r.v.x = "Some" THEN Ok(r, r.v.a[1]) ELSE Abort(r)
    [] r.how = "ok" /\ r.v.v = "Result" ->
         IF r.v.x = "Ok" THEN Ok(r, r.v.a[1])
         ELSE IF other.how # "ok" THEN other ELSE [other EXCEPT !.how = "return", !.v = Val("Result", "Err", <<@>>)]
    [] OTHER -> Stuck(r)

EvalOperands(o, g, n, e, vs) ==
  CASE e.k = "fstr" -> Ok(o, StrVal)
    [] e.k = "array" -> Ok(o, Val("Array", "", vs))
    [] e.k = "set" -> Ok(o, Val("Set", "", vs))
    [] e.k = "map" -> Ok(o, Val("Map", "", vs))
    [] e.k = "tuple" -> Ok(o, Val("Tuple", "", vs))
    [] e.k = "bin" -> Operate(o, g, e.x, vs)
    [] e.k = "un" -> Check(o, IF e.x = "-" THEN Numeric(vs) ELSE Kinds(vs) = {"Bool"}, vs[1])
    [] e.k = "new" -> Check(o, Range(e.ps) \subseteq FieldsOf(e.x), Val("object", e.x, Scope(e.ps, vs)))
    [] e.k = "method" -> EvalMethod(o, g, n, e, vs)
    [] e.k = "call" -> CallFn(o, g, n, vs[1], Tail(vs))
    [] e.k = "field" -> IF vs[1].v # "object" THEN Stuck(o)
                        ELSE IF e.x \notin FieldsOf(vs[1].x) THEN Stuck(o)
                        ELSE IF e.x \in DOMAIN vs[1].a THEN Ok(o, vs[1].a[e.x]) ELSE Abort(o)
    [] e.k = "index" -> EvalIndex(o, vs)
    [] e.k = "cast" -> Check(o, Castable(Base(vs[1].v), e.ty), Val(e.ty.n, vs[1].x, vs[1].a))
    [] e.k \in {"Ok", "Err"} -> Ok(o, Val("Result", e.k, vs))

\* A bare name is the map's key itself.
OperandsOf(e) == IF e.k = "map" /\ e.args # <<>> /\ e.args[1].k = "id" THEN <<Lit("String", "s"), e.args[2]>> ELSE e.args

EvalOn(r, g, n, e) == IF r.how = "ok" THEN EvalOperands(r, g, n, e, r.v) ELSE r
Eval(o, g, n, e) ==
  CASE e.k = "lit" -> Ok(o, Val(e.x, e.n, <<>>))
    [] e.k = "none" -> Ok(o, None)
    [] e.k = "id" -> IF Binds(o.env, e.x) # {} THEN Ok(o, Lookup(o.env, e.x))
                     ELSE LET v == Global(e.x) IN
                          IF v # <<>> THEN Ok(o, v[1])
                          ELSE IF Items("const", e.x) # <<>> THEN Eval(o, g, n, Items("const", e.x)[1].es[1])
                          ELSE Stuck(o)
    [] e.k = "variant" -> Ok(o, Val(e.x, e.n, <<>>))
    [] e.k = "chan" -> Ok(o, Val("Chan", "", <<>>))
    [] e.k = "lambda" -> Ok(o, Closure(e.ps, e.args, <<>>, o.env))
    [] e.k = "nullish" -> EvalNullish(o, g, n, e)
    [] e.k = "match" -> LET r == Eval(o, g, n, e.args[1]) IN
                        IF r.how = "ok" THEN EvalArms(r, g, n, e, r.v, 1) ELSE r
    [] OTHER -> EvalOn(EvalAll(o, g, n, OperandsOf(e), <<>>), g, n, e)

-----------------------------------------------------------------------------
(* Statements: the value is that of the last one. *)

Bound(o, x, v) == [o EXCEPT !.env[Len(o.env)] = (x :> v) @@ @, !.v = UnitVal]

RunAssign(o, st) ==
  LET target == st.es[1]
      s1 == IF st.x = "=" THEN o ELSE Check(o, Numeric(o.v), o.v)
  IN IF s1.how # "ok" THEN s1
     ELSE IF target.k = "id" /\ Binds(s1.env, target.x) # {}
          THEN [s1 EXCEPT !.env = Updated(@, target.x, IF st.x = "=" THEN Last(s1.v) ELSE s1.v[1]), !.v = UnitVal]
          ELSE Ok(s1, UnitVal)

RECURSIVE RunEach(_, _, _, _, _, _)
RunEach(o, g, n, x, vs, block) ==
  IF vs = <<>> THEN Ok(o, UnitVal)
  ELSE LET r == Left(Run(With(o, <<x>>, <<Head(vs)>>), g, n, block), o) IN
       IF r.how = "ok" THEN RunEach(r, g, n, x, Tail(vs), block) ELSE r

RunIf(o, g, n, st) ==
  IF o.v.v # "Bool" THEN Stuck(o)
  ELSE LET i == IF o.v.x = "true" THEN 1 ELSE 2 IN
       IF i > Len(st.blocks) THEN Ok(o, UnitVal)
       ELSE LET r == Left(Run(o, g, n, st.blocks[i]), o) IN
            IF r.how = "ok" /\ Len(st.blocks) < 2 THEN Ok(r, UnitVal) ELSE r

\* The statement, when its own expressions have been evaluated.
RunRest(r, g, n, st) ==
  CASE st.k = "let" -> Bound(r, st.x, IF r.v = <<>> THEN UnitVal ELSE r.v[1])
    [] st.k = "destructure" ->
         LET v == r.v[1] IN
         IF v.v # "Tuple" THEN Stuck(r) ELSE IF Len(v.a) # Len(st.ps) THEN Stuck(r)
         ELSE FoldLeft(LAMBDA acc, i : Bound(acc, st.ps[i], v.a[i]), r, [i \in DOMAIN st.ps |-> i])
    [] st.k = "return" -> [r EXCEPT !.how = "return", !.v = IF r.v = <<>> THEN UnitVal ELSE @[1]]
    [] st.k = "expr" -> Ok(r, r.v[1])
    [] st.k = "assign" -> RunAssign(r, st)
    [] st.k = "for" -> IF r.v[1].v \in {"Array", "Set", "Chan"} THEN RunEach(r, g, n, st.x, r.v[1].a, st.blocks[1]) ELSE Stuck(r)
    [] st.k \in {"if", "ifcompile", "while"} -> LET c == RunIf(Ok(r, r.v[1]), g, n, st) IN
         IF st.k = "if" \/ c.how # "ok" THEN c ELSE Ok(c, UnitVal)
    [] st.k \in {"spawn", "block"} ->
         LET c == Left(Run(r, g, n, st.blocks[1]), r) IN
         IF c.how = "ok" \/ (c.how = "return" /\ st.k = "spawn") THEN Ok([c EXCEPT !.how = "ok"], UnitVal) ELSE c

RunOn(r, g, n, st) == IF r.how = "ok" THEN RunRest(r, g, n, st) ELSE r
RunStmt(o, g, n, st) == RunOn(EvalAll(o, g, n, st.es, <<>>), g, n, st)

Run(o, g, n, block) ==
  LET inside == [o EXCEPT !.env = Append(@, NoFields), !.v = UnitVal]
      r == FoldLeft(LAMBDA acc, st : IF acc.how = "ok" THEN RunStmt(acc, g, n, st) ELSE acc, inside, block)
  IN Left(r, o)

Main(g) == CallFn(O("ok", UnitVal, <<>>, {}), g, Depth, Global("main")[1], <<>>)

-----------------------------------------------------------------------------
(* The specification *)

Init == (\E i \in DOMAIN Families : program \in Families[i]) /\ nodes = <<>> /\ checked = <<>> /\ run = <<>> /\ pc = "declare"

Report(s) == [errors |-> s.errors, waved |-> s.waved, redundant |-> s.redundant]

\* TypeChecker::check
DeclareStep ==
  /\ pc = "declare"
  /\ nodes' = CheckStart(program)
  /\ pc' = "check"
  /\ UNCHANGED <<program, checked, run>>

ItemStep ==
  /\ pc = "check"
  /\ Len(nodes.x) < Len(program)
  /\ nodes' = CheckItem(nodes, program[Len(nodes.x) + 1])
  /\ UNCHANGED <<program, checked, run, pc>>

CheckStep ==
  /\ pc = "check"
  /\ Len(nodes.x) = Len(program)
  /\ checked' = Report(CheckEnd(nodes))
  /\ nodes' = <<>>
  /\ pc' = "run"
  /\ UNCHANGED <<program, run>>

RunStep ==
  /\ pc = "run"
  /\ \E g \in {"true", "false"} : run' = Main(g)
  /\ pc' = "done"
  /\ UNCHANGED <<program, nodes, checked>>

Next == DeclareStep \/ ItemStep \/ CheckStep \/ RunStep
Spec == Init /\ [][Next]_vars

-----------------------------------------------------------------------------
(* Properties *)

\* The checker vouches for the program: no error, and no step that leaves something open.
Vouched == pc = "done" /\ checked.errors = {} /\ checked.waved = {}

\* A program that the checker accepts without leaving a step unchecked never meets a value
\* that an operation is not defined on (check.rs:111, the whole of the inference).
AcceptedRunsWell == Vouched => run.how # "stuck"

\* Nor does one of its matches find a subject that no arm takes (exhaust.rs): what is inside
\* of a constructor is not looked at, hence "nested" is among the steps left open.
MatchesCover == Vouched => run.how # "fell"

\* An arm that is reported as redundant is never the one that is taken.
RedundantNeverRuns == Vouched => run.hits \cap checked.redundant = {}

\* The inference is a Hindley-Milner one (docs/runtime/inferred-ownership-spec.md:8), so a let
\* generalizes nothing that the bindings around it still use.
GeneralTypesHold == pc = "done" /\ checked.errors = {} /\ checked.waved \subseteq {"general"} => run.how # "stuck"

\* A match is exhaustive (README.md:101): whatever the subject is, some arm takes it.
EveryMatchCovers == pc = "done" /\ checked.errors = {} /\ checked.waved \subseteq {"nested"} => run.how # "fell"
=============================================================================
