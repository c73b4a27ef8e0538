------------------------------- MODULE Infer -------------------------------
(***************************************************************************)
(* How the type checker walks a program, crates/draton-typeck/src/check.rs.*)
(*                                                                         *)
(* An expression is its kind, a name and its operands; a literal also has  *)
(* its text n, a lambda its parameters ps, a match its arms, a cast and a  *)
(* channel a type.  A statement is its kind, a name, a hint (none or one), *)
(* expressions and blocks; the hints of @type blocks stand with what they  *)
(* are about.  The scopes env are an argument; what the walk learns is s   *)
(* (module Types).  The typed tree keeps of every node its type and        *)
(* whether the variables in it may stay open.  Generic classes, pointers,  *)
(* error and extern items, and spans are left out.                         *)
(***************************************************************************)
EXTENDS Exhaust

Expr(k, x, args) == [k |-> k, x |-> x, n |-> "", args |-> args]
Lit(type, text) == [k |-> "lit", x |-> type, n |-> text, args |-> <<>>]
Stmt(k, x, hint, es, blocks) == [k |-> k, x |-> x, hint |-> hint, es |-> es, blocks |-> blocks]

Node(k, t, open, kids, blocks) ==
  [k |-> k, t |-> t, open |-> open, vars |-> IF open THEN FreeVars(t) ELSE {}, kids |-> kids, blocks |-> blocks]
E(s, t, x) == [s |-> s, t |-> t, x |-> x]

\* What a list of nodes was inferred to, and one more of them.
Empty(s) == [s |-> s, ts |-> <<>>, xs |-> <<>>]
Joined(acc, r) == [s |-> r.s, ts |-> Append(acc.ts, r.t), xs |-> Append(acc.xs, r.x)]

\* The node of an expression, with its type as far as it is solved now.
Opens == {"none", "id", "Ok", "Err", "lambda"}
MayStayOpen(e) == e.k \in Opens \/ (e.k \in {"array", "set", "map"} /\ e.args = <<>>) \/ (e.k = "tuple" /\ e.args # <<>>)
NodeOf(e, s, t, kids) == E(s, t, Node(e.k, t, MayStayOpen(e), kids, <<>>))
Typed(e, s, ty, kids) == NodeOf(e, s, Apply(s.sub, ty), kids)
Solved(r) == [r EXCEPT !.t = Apply(r.s.sub, @)]
TypedAs(e, r, kids) == Typed(e, r.s, r.t, kids)
Retyped(r, s, t) == E(s, t, Node(r.x.k, t, r.x.open, r.x.kids, r.x.blocks))

\* Annotations: "_" is inferred, and a name in tps is a type parameter.
RECURSIVE Annotated(_, _, _)
Annotated(s, tps, te) ==
  IF te.n = "_" THEN R(Taken(s, 1), NewVar(s, 0))
  ELSE IF te.n \in DOMAIN tps THEN R(s, tps[te.n])
  ELSE LET done == FoldLeft(LAMBDA acc, a : LET r == Annotated(acc.s, tps, a) IN [s |-> r.s, ts |-> Append(acc.ts, r.t)],
                            [s |-> s, ts |-> <<>>], te.args)
       IN R(done.s, Con(te.n, done.ts))
Hinted(s, tps, hint) == IF hint = <<>> THEN R(Taken(s, 1), NewVar(s, 0)) ELSE Annotated(s, tps, hint[1])

Numbers == {"Int", "Int8", "Int64", "Float"}
NumericSolved(s, t) ==
  CASE t.k = "con" /\ t.n \in Numbers -> R(s, t)
    [] t.k = "var" -> Unify(s, t, IntType)
    [] OTHER -> R(Fail(s, "mismatch"), t)
ExpectNumeric(s, ty) == NumericSolved(s, Apply(s.sub, ty))

Castable(a, b) ==
  \/ a = b
  \/ a.k = "con" /\ b.k = "con" /\ <<a.n, b.n>> \in {<<"Int", "Float">>, <<"Float", "Int">>, <<"Int", "Int8">>, <<"Int", "Int64">>}

-----------------------------------------------------------------------------
(* Built-in methods *)

ArrayOf(t) == Con("Array", <<t>>)
OptionOf(t) == Con("Option", <<t>>)
ResultOf(t, u) == Con("Result", <<t, u>>)
ToStringOnly == [toString |-> Fn(<<>>, StrType)]
OfArray(item, out) ==
  [map |-> Fn(<<Fn(<<item>>, out)>>, ArrayOf(out)), filter |-> Fn(<<Fn(<<item>>, BoolType)>>, ArrayOf(item)),
   len |-> Fn(<<>>, IntType), push |-> Fn(<<item>>, Unit), pop |-> Fn(<<>>, OptionOf(item)), contains |-> Fn(<<item>>, BoolType)]
OfString ==
  ToStringOnly @@ [trim |-> Fn(<<>>, StrType), len |-> Fn(<<>>, IntType), contains |-> Fn(<<StrType>>, BoolType),
               slice |-> Fn(<<IntType, IntType>>, StrType)]
OfChan(item) == [recv |-> Fn(<<>>, item), send |-> Fn(<<item>>, Unit)]
OfUnknown(item) ==
  ToStringOnly @@ [len |-> Fn(<<>>, IntType), slice |-> Fn(<<IntType, IntType>>, StrType), push |-> Fn(<<item>>, Unit)]

BuiltIn(t, out) ==
  CASE t.k = "var" -> OfUnknown(out)
    [] IsCon(t, "Array") -> OfArray(t.args[1], out)
    [] IsCon(t, "String") -> OfString
    [] IsCon(t, "Chan") -> OfChan(t.args[1])
    [] OTHER -> ToStringOnly

HasBuiltIns(t) == t.k = "var" \/ (t.k = "con" /\ t.n \in {"Array", "String", "Chan", "Int", "Float", "Bool"})

BuiltInScheme(s, t, m, table) ==
  [s |-> WaveIf(Taken(s, 1), t.k = "var" \/ m \notin DOMAIN table, "method"),
   schemes |-> IF m \in DOMAIN table THEN <<Scheme({s.next}, table[m])>> ELSE <<>>]
\* owners are the classes of the lineage that have the method.
ClassScheme(s, c) ==
  [s |-> WaveIf(s, ~(FreeVars(Apply(s.sub, c.t)) \subseteq c.q), "forward"), schemes |-> <<c>>]

\* The method's scheme, if it is found.  A method that a built-in type lacks, and any
\* method of a receiver that is not known yet, gets a type without a check; a method that
\* is declared further down has placeholders that its own types never meet.
MethodScheme(s, t, m) ==
  LET owners == IF IsNamed(t) /\ t.n \in DOMAIN Classes THEN MethodOwner(s, t.n, m) ELSE <<>> IN
  CASE HasBuiltIns(t) -> BuiltInScheme(s, t, m, BuiltIn(t, NewVar(s, 0)))
    [] owners # <<>> -> ClassScheme(s, s.methods[<<owners[1], m>>])
    [] IsNamed(t) /\ t.n \in DOMAIN Interfaces /\ m \in DOMAIN Interfaces[t.n] ->
         [s |-> s, schemes |-> <<Mono(Interfaces[t.n][m])>>]
    [] IsNamed(t) /\ t.n \in DOMAIN Enums /\ m \in DOMAIN ToStringOnly -> [s |-> s, schemes |-> <<Mono(ToStringOnly[m])>>]
    [] OTHER -> [s |-> Fail(s, "no field"), schemes |-> <<>>]

Effect(u) == [u.s EXCEPT !.effect = <<u.t>>]
RecordEffect(s, err) == Effect(IF s.effect = <<>> THEN R(s, err) ELSE Unify(s, s.effect[1], err))

-----------------------------------------------------------------------------
(* Expressions *)

RECURSIVE Infer(_, _, _), InferAs(_, _, _, _), InferPattern(_, _, _, _), InferBlock(_, _, _)

\* Expressions one after the other, each with what is expected of it: nothing or a type.
InferArgs(s, env, es, expected) ==
  FoldLeft(LAMBDA acc, i : Joined(acc, InferAs(acc.s, env, es[i], expected[i])), Empty(s), [i \in DOMAIN es |-> i])

InferAll(s, env, es) == FoldLeft(LAMBDA acc, e : Joined(acc, Infer(acc.s, env, e)), Empty(s), es)

\* The elements of a collection, each unified with the type of all of them.
Same(acc, t, r) == [s |-> Unify(r.s, t, r.t).s, ts |-> acc.ts, xs |-> Append(acc.xs, r.x)]
InferSame(s, env, es, t) == FoldLeft(LAMBDA acc, e : Same(acc, t, Infer(acc.s, env, e)), Empty(s), es)

CollectionOf(e, t, r) == Typed(e, r.s, Con(IF e.k = "array" THEN "Array" ELSE "Set", <<t>>), r.xs)
InferCollection(s, env, e) == CollectionOf(e, NewVar(s, 0), InferSame(Taken(s, 1), env, e.args, NewVar(s, 0)))

\* A map with one entry, its key and its value; a name as key stands for its text.
MapOperands(es) == IF es # <<>> /\ es[1].k = "id" THEN <<Lit("String", "s"), es[2]>> ELSE es
InferMap(e, r) ==
  LET types == <<NewVar(r.s, 0), NewVar(r.s, 1)>>
  IN R(UnifyAll(Taken(r.s, 2), SubSeq(types, 1, Len(r.ts)), r.ts).s, Con("Map", types))

InferId(s, env, e) ==
  TypedAs(e, IF Binds(env, e.x) = {} THEN R(Taken(Fail(s, "undefined"), 1), NewVar(s, 0)) ELSE Instantiate(s, Lookup(env, e.x)), <<>>)

Arithmetic == {"+", "-"}
Orders == {"<", ">="}
Equalities == {"==", "!="}
Logic == {"and", "or"}
Bits == {"&", "<<"}

AlsoNumeric(l, u) == LET r == ExpectNumeric(l.s, u) IN Unify(r.s, l.t, r.t)
BothNumeric(s, t, u) == AlsoNumeric(ExpectNumeric(s, t), u)

\* In a comparison the second operand is expected to be what the first one is, but None
\* takes its type from the other.
Compares(e) == e.x \in Equalities \cup Orders
SecondOperand(env, e, two, one) ==
  Joined(Joined(Empty(one.s), one), InferAs(one.s, env, two, IF Compares(e) THEN <<one.t>> ELSE <<>>))
Operands(s, env, e) ==
  LET swapped == Compares(e) /\ e.args[1].k = "none"
      es == IF swapped THEN Reverse(e.args) ELSE e.args
  IN [SecondOperand(env, e, es[2], Infer(s, env, es[1])) EXCEPT !.ts = IF swapped THEN Reverse(@) ELSE @]

BinOpOf(e, r) ==
  LET numeric == BothNumeric(r.s, r.ts[1], r.ts[2])
      both(type, result) == R(UnifyAll(r.s, r.ts, <<type, type>>).s, result)
  IN CASE e.x \in Arithmetic -> numeric
       [] e.x \in Orders -> R(numeric.s, BoolType)
       [] e.x \in Equalities -> R(Unify(r.s, r.ts[1], r.ts[2]).s, BoolType)
       [] e.x \in Logic -> both(BoolType, BoolType)
       [] e.x \in Bits -> both(IntType, IntType)
       [] e.x = ".." -> both(IntType, ArrayOf(IntType))
BinOp(e, r) == TypedAs(e, BinOpOf(e, r), r.xs)
InferBinOp(s, env, e) == BinOp(e, Operands(s, env, e))

InferUnOp(e, r) ==
  IF e.x = "-" THEN ExpectNumeric(r.s, r.ts[1]) ELSE R(Unify(r.s, r.ts[1], BoolType).s, BoolType)

\* A class literal: the operands are the values of the fields e.ps.
ClassLiteral(e, expected, r) ==
  LET known == SelectSeq([i \in DOMAIN e.ps |-> i], LAMBDA i : expected[i] # <<>>)
      s1 == FoldLeft(LAMBDA acc, i : Unify(acc, r.ts[i], expected[i][1]).s, r.s, known)
  IN Typed(e, FailIf(s1, Len(known) < Len(e.ps), "no field"), Base(e.x), r.xs)
InferNew(s, env, e) ==
  LET owner(f) == FieldOwner(s, e.x, f)
      expected == [i \in DOMAIN e.ps |-> IF owner(e.ps[i]) = <<>> THEN <<>> ELSE <<s.fields[owner(e.ps[i])[1]][e.ps[i]]>>]
  IN ClassLiteral(e, expected, InferArgs(s, env, e.args, expected))

\* What the parameters of a function type, without the first few, expect of the arguments.
Expected(f, args, skipped) ==
  [i \in DOMAIN args |-> IF IsCon(f, "Fn") /\ i + skipped < Len(f.args) THEN <<f.args[i + skipped]>> ELSE <<>>]

\* Mutant of CallOf: the arguments are not compared with the parameters.
CallOfLoose(env, e, callee) ==
  LET r == InferAll(callee.s, env, Tail(e.args))
  IN Typed(e, Taken(r.s, 1), IF IsCon(callee.t, "Fn") THEN Ret(callee.t) ELSE NewVar(r.s, 0), <<callee.x>> \o r.xs)

Applied(e, callee, r) ==
  Typed(e, Unify(Taken(r.s, 1), callee.t, Fn(r.ts, NewVar(r.s, 0))).s, NewVar(r.s, 0), <<callee.x>> \o r.xs)
CallOf(env, e, callee) == Applied(e, callee, InferArgs(callee.s, env, Tail(e.args), Expected(callee.t, Tail(e.args), 0)))

InferCall(s, env, e) == CallOf(env, e, Solved(Infer(s, env, e.args[1])))

\* A change of a binding whose type is used at many instances.
Reassigns(env, target) == target.k = "id" /\ Binds(env, target.x) # {} /\ Lookup(env, target.x).q # {}

\* A method of a class or an interface has its receiver as first parameter; m is the
\* method's type as it was solved before the arguments.
MethodType(found, n) ==
  IF found.schemes # <<>> THEN Instantiate(found.s, found.schemes[1])
  ELSE R(Taken(found.s, n + 1), Fn([i \in 1..n |-> NewVar(found.s, i)], NewVar(found.s, 0)))
MethodApplied(env, e, target, self, m, r) ==
  LET s1 == FailIf(r.s, Len(m.t.args) - 1 # Len(self) + Len(r.ts), "arguments")
      u == Unify(Taken(s1, 1), m.t, Fn(self \o r.ts, NewVar(s1, 0)))
      s2 == WaveIf(u.s, e.x \in {"push", "send"} /\ Reassigns(env, e.args[1]), "mutable")
  IN Typed(e, s2, NewVar(s1, 0), <<target.x>> \o r.xs)
MethodWith(env, e, target, m) ==
  LET self == IF ~IsNamed(target.t) THEN <<>> ELSE IF Len(m.t.args) > 1 THEN <<m.t.args[1]>> ELSE <<target.t>>
  IN MethodApplied(env, e, target, self, m, InferArgs(m.s, env, Tail(e.args), Expected(m.t, Tail(e.args), Len(self))))
MethodOn(env, e, target) ==
  MethodWith(env, e, target, Solved(MethodType(MethodScheme(target.s, target.t, e.x), Len(e.args) - 1)))
InferMethod(s, env, e) == MethodOn(env, e, Solved(Infer(s, env, e.args[1])))

\* In the following, t is the solved type of the first operand.

\* A field of a class, or a row that has it and an open rest.
InferField(e, r, t) ==
  LET owner == IF IsNamed(t) /\ t.n \in DOMAIN Classes THEN FieldOwner(r.s, t.n, e.x) ELSE <<>>
      row == Row(e.x :> NewVar(r.s, 0), <<NewVar(r.s, 1)>>)
  IN IF ~IsNamed(t) THEN R(Unify(Taken(r.s, 2), t, row).s, NewVar(r.s, 0))
     ELSE IF owner # <<>> THEN R(r.s, r.s.fields[owner[1]][e.x])
     ELSE R(Taken(Fail(r.s, "no field"), 1), NewVar(r.s, 0))

InferIndex(e, r, t) ==
  LET item == NewVar(r.s, 0)
      at(s, i, type) == R(Unify(s, r.ts[2], i).s, type)
  IN CASE IsCon(t, "Array") -> at(r.s, IntType, t.args[1])
       [] IsCon(t, "Map") -> at(r.s, t.args[1], t.args[2])
       [] IsCon(t, "String") -> at(r.s, IntType, Base("Char"))
       [] t.k = "var" -> at(Unify(Taken(r.s, 1), t, ArrayOf(item)).s, IntType, item)
       [] OTHER -> R(Taken(Fail(r.s, "mismatch"), 1), item)

CastTo(t, to) == R(FailIf(to.s, ~Castable(Apply(to.s.sub, t), Apply(to.s.sub, to.t)), "cast"), to.t)
InferCast(e, r, t) == CastTo(t, Annotated(r.s, NoFields, e.ty))

InferResult(e, r) ==
  R(Taken(r.s, 1), IF e.k = "Ok" THEN ResultOf(r.ts[1], NewVar(r.s, 0)) ELSE ResultOf(NewVar(r.s, 0), r.ts[1]))

\* a ?? b: an error of a becomes b, and the function returns it.
InferNullish(e, r, t) ==
  LET ok == NewVar(r.s, 0)
      err == NewVar(r.s, 1)
      s1 == Unify(Unify(Taken(r.s, 2), t, ResultOf(ok, err)).s, err, r.ts[2]).s
  IN CASE IsCon(t, "Result") -> R(RecordEffect(Unify(r.s, t.args[2], r.ts[2]).s, t.args[2]), t.args[1])
       [] IsCon(t, "Option") -> R(r.s, t.args[1])
       [] t.k = "var" -> R(RecordEffect(s1, err), ok)
       [] OTHER -> R(Taken(Fail(r.s, "mismatch"), 1), ok)

\* Expressions whose operands are inferred first, with nothing expected of them.
Operation(e, r, t) ==
  CASE e.k = "fstr" -> R(r.s, StrType)
    [] e.k = "tuple" -> R(r.s, Con("Tuple", r.ts))
    [] e.k = "map" -> InferMap(e, r)
    [] e.k = "un" -> InferUnOp(e, r)
    [] e.k = "field" -> InferField(e, r, t)
    [] e.k = "index" -> InferIndex(e, r, t)
    [] e.k = "cast" -> InferCast(e, r, t)
    [] e.k \in {"Ok", "Err"} -> InferResult(e, r)
    [] e.k = "nullish" -> InferNullish(e, r, t)
OperationOf(e, r) == TypedAs(e, Operation(e, r, Apply(r.s.sub, r.ts[1])), r.xs)
InferOperation(s, env, e) == OperationOf(e, InferAll(s, env, IF e.k = "map" THEN MapOperands(e.args) ELSE e.args))

\* The parameters of a lambda take their types from the function f that is expected.
LambdaParam(acc, x, u) == [s |-> u.s, ts |-> Append(acc.ts, u.t), env |-> Define(acc.env, x, Mono(u.t))]
LambdaParams(s, env, ps, f) ==
  FoldLeft(LAMBDA acc, i :
             LambdaParam(acc, ps[i], IF IsCon(f, "Fn") /\ i < Len(f.args) THEN Unify(Taken(acc.s, 1), NewVar(acc.s, 0), f.args[i])
                                     ELSE R(Taken(acc.s, 1), NewVar(acc.s, 0))),
           [s |-> s, ts |-> <<>>, env |-> Push(env)], [i \in DOMAIN ps |-> i])
LambdaResult(f, body) ==
  IF IsCon(f, "Fn") THEN LET u == Unify(body.s, body.t, Ret(f)) IN E(u.s, u.t, body.x) ELSE body
LambdaOf(e, effect, bound, body) == Typed(e, WaveIf(body.s, body.s.effect # effect, "effect"), Fn(bound.ts, body.t), <<body.x>>)
LambdaBody(e, effect, f, bound) ==
  LambdaOf(e, effect, bound, LambdaResult(f, InferAs(bound.s, bound.env, e.args[1], IF IsCon(f, "Fn") THEN <<Ret(f)>> ELSE <<>>)))
LambdaAs(s, env, e, f) == LambdaBody(e, s.effect, f, LambdaParams(s, env, e.ps, f))
InferLambda(s, env, e, expected) == LambdaAs(s, env, e, IF expected = <<>> THEN Unit ELSE Apply(s.sub, expected[1]))

-----------------------------------------------------------------------------
(* Matches *)

Irrefutable(p) == p.k = "id"
Nested(p) ==
  LET inner == IF p.k = "call" THEN Tail(p.args) ELSE p.args IN
  p.k \in {"Ok", "Err", "tuple", "call"} /\ \E i \in DOMAIN inner : ~Irrefutable(inner[i])

\* What a pattern was inferred to comes with the scopes that have its names.
WithEnv(r, env) == [s |-> r.s, env |-> env, t |-> r.t, x |-> r.x]
PTyped(p, s, env, ty, kids) == WithEnv(Typed(p, s, ty, kids), env)

JoinedPattern(acc, r) == [s |-> r.s, env |-> r.env, ts |-> Append(acc.ts, r.t), xs |-> Append(acc.xs, r.x)]
InferPatterns(s, env, ps, expected) ==
  FoldLeft(LAMBDA acc, i : JoinedPattern(acc, InferPattern(acc.s, acc.env, ps[i], expected[i])),
           [s |-> s, env |-> env, ts |-> <<>>, xs |-> <<>>], [i \in DOMAIN ps |-> i])

\* A constructor with its arguments; a name that is not bound yet is taken for one, too.
ConstructorType(expected, s, c, n) ==
  LET fresh == Fn([i \in 1..n |-> NewVar(s, i)], IF expected = <<>> THEN NewVar(s, 0) ELSE expected[1])
  IN CASE IsCon(c, "Fn") -> R(s, c)
       [] c.k = "var" -> Unify(Taken(s, n + 1), c, fresh)
       [] OTHER -> R(Taken(Fail(s, "mismatch"), n + 1), Fn([i \in 1..n |-> NewVar(s, i)], NewVar(s, 0)))
ConstructorOf(p, callee, f, r) == PTyped(p, r.s, r.env, Ret(f.t), <<callee.x>> \o r.xs)
ConstructorWith(p, callee, f) ==
  LET args == Tail(p.args)
      s1 == FailIf(f.s, Len(f.t.args) - 1 # Len(args), "arguments")
  IN ConstructorOf(p, callee, f, InferPatterns(s1, callee.env, args, Expected(f.t, args, 0)))
Constructor(p, expected, callee) ==
  ConstructorWith(p, callee, ConstructorType(expected, callee.s, Apply(callee.s.sub, callee.t), Len(p.args) - 1))
InferPatternCall(s, env, p, expected) ==
  Constructor(p, expected, [InferPattern(s, env, p.args[1], <<>>) EXCEPT !.s.waved = s.waved])

\* A name that is bound already is compared with the subject's type, not bound again.
InferPatternId(s, env, p, t) ==
  IF p.x # "_" /\ Binds(env, p.x) # {} THEN WithEnv([InferId(s, env, p) EXCEPT !.s = Wave(@, "name")], env)
  ELSE PTyped(p, Taken(s, 1), IF p.x = "_" THEN env ELSE Define(env, p.x, Mono(t)), t, <<>>)

InferPatternNone(s, env, p, expected, t) ==
  LET u == IF expected = <<>> THEN R(s, OptionOf(t))
           ELSE IF IsCon(Apply(s.sub, t), "Option") THEN R(s, t)
           ELSE Unify(Taken(s, 1), t, OptionOf(NewVar(s, 0)))
  IN PTyped(p, Taken(u.s, 1), env, u.t, <<>>)

InferPattern(s, env, p, expected) ==
  LET t == IF expected = <<>> THEN NewVar(s, 0) ELSE expected[1]
      part(i) == IF expected # <<>> /\ IsCon(expected[1], "Result") THEN <<expected[1].args[i]>> ELSE <<>> IN
  CASE p.k = "id" -> InferPatternId(s, env, p, t)
    [] p.k = "none" -> InferPatternNone(s, env, p, expected, t)
    [] p.k = "tuple" ->
         LET known == expected # <<>> /\ IsCon(t, "Tuple") /\ Len(t.args) = Len(p.args)
             r == InferPatterns(s, env, p.args, [i \in DOMAIN p.args |-> IF known THEN <<t.args[i]>> ELSE <<>>])
         IN PTyped(p, r.s, r.env, Con("Tuple", r.ts), r.xs)
    [] p.k \in {"Ok", "Err"} ->
         LET i == IF p.k = "Ok" THEN 1 ELSE 2
             r == InferPattern(s, env, p.args[1], part(i))
             other == IF part(3 - i) = <<>> THEN NewVar(r.s, 0) ELSE part(3 - i)[1]
         IN PTyped(p, Taken(r.s, 1), r.env, IF i = 1 THEN ResultOf(r.t, other) ELSE ResultOf(other, r.t), <<r.x>>)
    [] p.k = "call" -> InferPatternCall(s, env, p, expected)
    [] OTHER -> WithEnv(InferAs(s, env, p, IF p.k \in {"lit", "variant"} THEN <<>> ELSE expected), env)

\* An arm is [p |-> a pattern, e |-> expressions, block |-> blocks].
ArmOf(acc, arm, result, p, r) ==
  [s |-> WaveIf(Unify(r.s, result, r.t).s, Nested(arm.p), "nested"),
   xs |-> acc.xs \o <<p.x>> \o (IF arm.block = <<>> THEN <<r.x>> ELSE <<>>),
   blocks |-> acc.blocks \o (IF arm.block = <<>> THEN <<>> ELSE <<r.x>>)]
ArmBody(s, env, arm, result) ==
  IF arm.block = <<>> THEN InferAs(s, env, arm.e[1], <<result>>) ELSE InferBlock(s, env, arm.block[1])
InferArm(acc, arm, subject, result, p) ==
  ArmOf(acc, arm, result, p, ArmBody(Unify(p.s, subject.t, p.t).s, p.env, arm, result))
\* known is the subject's type as it was solved before the arms.
InferArms(s, env, arms, subject, known, result) ==
  FoldLeft(LAMBDA acc, arm : InferArm(acc, arm, subject, result, InferPattern(acc.s, Push(env), arm.p, <<known>>)),
           [s |-> s, xs |-> <<>>, blocks |-> <<>>], arms)

MatchOf(e, subject, known, result, r) ==
  LET ps == [i \in DOMAIN e.arms |-> e.arms[i].p]
      t == Apply(r.s.sub, known)
      s1 == FailIf(r.s, Missing(ps, t) # {}, "missing")
      s2 == [s1 EXCEPT !.redundant = @ \cup {<<e, i>> : i \in Redundant(ps, t)}]
  IN [Typed(e, s2, result, <<subject.x>> \o r.xs) EXCEPT !.x.blocks = r.blocks]
MatchOn(env, e, expected, subject) ==
  LET result == IF expected = <<>> THEN NewVar(subject.s, 0) ELSE expected[1]
      known == Apply(subject.s.sub, subject.t)
  IN MatchOf(e, subject, known, result, InferArms(Taken(subject.s, 1), env, e.arms, subject, known, result))
InferMatch(s, env, e, expected) == MatchOn(env, e, expected, Infer(s, env, e.args[1]))

Infer(s, env, e) ==
  CASE e.k \in {"lit", "variant"} -> Typed(e, s, Base(e.x), <<>>)
    [] e.k = "none" -> Typed(e, Taken(s, 1), OptionOf(NewVar(s, 0)), <<>>)
    [] e.k = "chan" -> LET r == Annotated(s, NoFields, e.ty) IN Typed(e, r.s, Con("Chan", <<r.t>>), <<>>)
    [] e.k = "id" -> InferId(s, env, e)
    [] e.k \in {"array", "set"} -> InferCollection(s, env, e)
    [] e.k \in {"fstr", "tuple", "map", "un", "field", "index", "cast", "Ok", "Err", "nullish"} -> InferOperation(s, env, e)
    [] e.k = "bin" -> InferBinOp(s, env, e)
    [] e.k = "new" -> InferNew(s, env, e)
    [] e.k = "call" -> InferCall(s, env, e)
    [] e.k = "method" -> InferMethod(s, env, e)
    [] e.k \in {"lambda", "match"} -> InferAs(s, env, e, <<>>)

VariantOf(x, t) == t.k = "con" /\ t.args = <<>> /\ t.n \in DOMAIN Enums /\ x \in Range(Enums[t.n])
Upcast(from, to) == Implements(from, to) /\ to.n \in DOMAIN Interfaces

\* An expression of which a type is expected: unified with it, or cast to the interface.
Converted(r, from, to, u) ==
  IF Upcast(from, to) THEN E([u.s EXCEPT !.waved = r.s.waved], to, Node("cast", to, FALSE, <<r.x>>, <<>>))
  ELSE Retyped(r, u.s, Apply(u.s.sub, u.t))
Expect(r, expected) ==
  IF expected = <<>> THEN r
  ELSE Converted(r, Apply(r.s.sub, r.t), Apply(r.s.sub, expected[1]), Unify(r.s, r.t, expected[1]))

\* A variant's name stands for the variant where its enum is expected.
VariantExpected(s, e, expected) == e.k = "id" /\ expected # <<>> /\ VariantOf(e.x, Apply(s.sub, expected[1]))
InferAs(s, env, e, expected) ==
  CASE e.k = "lambda" -> InferLambda(s, env, e, expected)
    [] e.k = "match" -> InferMatch(s, env, e, expected)
    [] VariantExpected(s, e, expected) -> LET t == Apply(s.sub, expected[1]) IN E(s, t, Node("id", t, TRUE, <<>>, <<>>))
    [] OTHER -> Expect(Infer(s, env, e), expected)

-----------------------------------------------------------------------------
(* Statements *)

T(s, env, node) == [s |-> s, env |-> env, x |-> node]
Done(st, s, env, kids, blocks) == T(s, env, Node(st.k, Unit, FALSE, kids, blocks))

\* r is what the statement's expressions were inferred to, wanted the hint, if there is one.
LetOf(env, st, x, c) == T(c.s, Define(env, st.x, c.t), [Node("let", c.t.t, FALSE, <<x>>, <<>>) EXCEPT !.vars = x.vars])
LetValue(r) ==
  IF r.ts = <<>> THEN E(Taken(r.s, 1), NewVar(r.s, 0), Node("lit", Unit, FALSE, <<>>, <<>>)) ELSE E(r.s, r.ts[1], r.xs[1])
InferLet(env, st, r, wanted) ==
  LET x == LetValue(r)
      u == IF wanted = <<>> THEN R(x.s, x.t) ELSE Unify(x.s, x.t, wanted[1])
  IN LetOf(env, st, x.x, Generalized(u.s, env, u.t))

\* st.ps are the names of the slots.
DestructureOf(env, st, r, slots, u) ==
  LET named == SelectSeq([i \in DOMAIN slots |-> i], LAMBDA i : st.ps[i] # "_")
      bound == FoldLeft(LAMBDA acc, i : Define(acc, st.ps[i], Mono(Apply(u.s.sub, slots[i]))), env, named)
  IN T(u.s, bound, [Node("destructure", Apply(u.s.sub, u.t), FALSE, r.xs, <<>>) EXCEPT !.vars = r.xs[1].vars])
InferDestructure(env, st, r) ==
  LET slots == [i \in DOMAIN st.ps |-> NewVar(r.s, i)]
  IN DestructureOf(env, st, r, slots, Unify(Taken(r.s, Len(slots) + 1), r.ts[1], Con("Tuple", slots)))

\* st.x is the operator.
InferAssign(env, st, r) ==
  LET s1 == WaveIf(r.s, Reassigns(env, st.es[1]), "mutable")
      s2 == IF st.x = "=" THEN s1 ELSE ExpectNumeric(ExpectNumeric(s1, r.ts[1]).s, r.ts[Len(st.es)]).s
  IN Done(st, IF st.x = "++" THEN s2 ELSE Unify(s2, r.ts[1], r.ts[2]).s, env, r.xs, <<>>)

InferReturn(env, st, r) ==
  IF r.ts = <<>> THEN Done(st, Unify(r.s, r.s.ret, Unit).s, env, <<>>, <<>>)
  ELSE LET u == Unify(r.s, r.s.ret, r.ts[1])
       IN T(u.s, env, Node("return", Apply(u.s.sub, r.ts[1]), FALSE, r.xs, <<>>))

\* The items of what a for loop ranges over, and the condition of an if, while or @if.
InferFor(r) ==
  LET t == Apply(r.s.sub, r.ts[1]) IN
  CASE t.k = "con" /\ t.n \in {"Array", "Set", "Chan"} -> R(r.s, t.args[1])
    [] t.k = "var" -> R(Unify(Taken(r.s, 1), t, ArrayOf(NewVar(r.s, 0))).s, NewVar(r.s, 0))
    [] OTHER -> R(Taken(Fail(r.s, "mismatch"), 1), NewVar(r.s, 0))
InferCondition(st, r) == R(IF st.k \in {"spawn", "block"} THEN r.s ELSE Unify(r.s, r.ts[1], BoolType).s, Unit)

\* The blocks of a statement, in their order.
BlocksOf(env, st, kids, t, blocks) == T(blocks.s, env, Node(st.k, Apply(blocks.s.sub, t), FALSE, kids, blocks.xs))
BlocksAfter(env, st, kids, head) ==
  LET scope == IF st.k = "for" THEN Define(Push(env), st.x, Mono(head.t)) ELSE env
  IN BlocksOf(env, st, kids, head.t, FoldLeft(LAMBDA acc, b : Joined(acc, InferBlock(acc.s, scope, b)), Empty(head.s), st.blocks))
InferBlocks(env, st, r) == BlocksAfter(env, st, r.xs, IF st.k = "for" THEN InferFor(r) ELSE InferCondition(st, r))

StmtOf(env, st, wanted, r) ==
  CASE st.k = "let" -> InferLet(env, st, r, wanted)
    [] st.k = "destructure" -> InferDestructure(env, st, r)
    [] st.k = "assign" -> InferAssign(env, st, r)
    [] st.k = "return" -> InferReturn(env, st, r)
    [] st.k = "expr" -> Done(st, r.s, env, r.xs, <<>>)
    [] st.k \in {"for", "if", "while", "spawn", "block", "ifcompile"} -> InferBlocks(env, st, r)

\* What is expected of a statement's expression: the type a hint gives or the function returns.
Wanted(s, st) ==
  CASE st.k = "let" /\ st.hint # <<>> -> LET r == Annotated(s, NoFields, st.hint[1]) IN [s |-> r.s, ts |-> <<r.t>>]
    [] st.k = "return" -> [s |-> s, ts |-> <<s.ret>>]
    [] OTHER -> [s |-> s, ts |-> <<>>]
InferStmt(s, env, st) ==
  LET wanted == Wanted(s, st)
  IN StmtOf(env, st, wanted.ts, InferArgs(wanted.s, env, st.es, [i \in DOMAIN st.es |-> wanted.ts]))

AddNode(acc, d) == T(d.s, d.env, Append(acc.x, d.x))
BlockOf(block, r) ==
  E(r.s, Apply(r.s.sub, IF block # <<>> /\ Last(block).k = "expr" THEN Last(r.x).kids[1].t ELSE Unit), r.x)
InferBlock(s, env, block) ==
  BlockOf(block, FoldLeft(LAMBDA acc, st : AddNode(acc, InferStmt(acc.s, acc.env, st)), T(s, Push(env), <<>>), block))

\* The type of an if at the end of a function: of the last expressions of its branches.
RECURSIVE IfType(_, _)
BlockType(s, nodes) ==
  IF nodes = <<>> THEN R(s, Unit)
  ELSE CASE Last(nodes).k = "expr" -> R(s, Last(nodes).kids[1].t)
         [] Last(nodes).k = "if" -> IfType(s, Last(nodes))
         [] OTHER -> R(s, Unit)
IfType(s, node) ==
  IF Len(node.blocks) < 2 THEN R(s, Unit)
  ELSE LET a == BlockType(s, node.blocks[1])
           b == BlockType(a.s, node.blocks[2])
           u == Unify(b.s, a.t, b.t)
       IN R(u.s, Apply(u.s.sub, u.t))

-----------------------------------------------------------------------------
(* Items *)

TypeParams(s, f) == [x \in Range(f.tps) |-> NewVar(s, (CHOOSE i \in DOMAIN f.tps : f.tps[i] = x) - 1)]

\* The types that the hints of a function give to its parameters and its result.
WithResult(ps, r) == [s |-> r.s, params |-> ps.ts, ret |-> r.t]
SignatureResult(ps, tps, hint) == WithResult(ps, Hinted(ps.s, tps, hint))
Signature(s, f, class) ==
  LET tps == TypeParams(s, f)
      param(s1, i) == IF class # "" /\ f.ps[i] = "self" THEN R(s1, Base(class)) ELSE Hinted(s1, tps, f.hints[i])
  IN SignatureResult(FoldLeft(LAMBDA acc, i : Unified(acc, param(acc.s, i)), [s |-> Taken(s, Len(f.tps)), ts |-> <<>>],
                              [i \in DOMAIN f.ps |-> i]), tps, f.ret)

WithSelf(class, f, params) == IF class = "" \/ (f.ps # <<>> /\ f.ps[1] = "self") THEN params ELSE <<Base(class)>> \o params

PlaceholderOf(f, class, sig) == R(sig.s, Fn(WithSelf(class, f, sig.params), sig.ret))
FunctionPlaceholder(s, f, class) == PlaceholderOf(f, class, Signature(s, f, class))

Removed(env, x) ==
  IF Binds(env, x) = {} THEN env
  ELSE LET i == CHOOSE j \in Binds(env, x) : \A k \in Binds(env, x) : k <= j IN
       [env EXCEPT ![i] = [y \in DOMAIN env[i] \ {x} |-> env[i][y]]]

\* The signature, unified with what the name stood for so far.
SolvedSignature(sig, u) ==
  LET t == Apply(u.s.sub, u.t)
  IN [s |-> u.s, params |-> IF IsCon(t, "Fn") THEN Params(t) ELSE sig.params, ret |-> IF IsCon(t, "Fn") THEN Ret(t) ELSE sig.ret]
KnownSignature(known, placed, sig) ==
  SolvedSignature(sig, IF known THEN Unify(sig.s, Fn(sig.params, sig.ret), placed.t) ELSE R(sig.s, Fn(sig.params, sig.ret)))
FnSignature(env, f, class, placed) == KnownSignature(Binds(env, f.x) # {}, placed, Signature(placed.s, f, class))

FnScope(env, f, class, params) ==
  FoldLeft(LAMBDA acc, i : Define(acc, f.ps[i], Mono(params[i])),
           IF class = "" THEN Push(env) ELSE Define(Push(env), "self", Mono(Base(class))),
           [i \in 1..Len(SubSeq(f.ps, 1, Len(params))) |-> i])

\* A body ends with a return, an if or the value of its block.
FnEnd(f, body) ==
  LET last == CASE f.body # <<>> /\ Last(f.body).k = "return" -> R(body.s, body.s.ret)
                [] f.body # <<>> /\ Last(f.body).k = "if" -> IfType(body.s, Last(body.x))
                [] OTHER -> R(body.s, body.t)
  IN Unify(last.s, body.s.ret, last.t).s

\* The errors that the body lets through become those of the result.
WithEffect(s, plain) ==
  LET effect == IF s.effect = <<>> THEN Unit ELSE Apply(s.sub, s.effect[1]) IN
  CASE s.effect = <<>> -> R(s, plain)
    [] s.effect # <<>> /\ IsCon(plain, "Result") -> R(Unify(s, plain.args[2], effect).s, ResultOf(plain.args[1], effect))
    [] OTHER -> R(Wave(s, "effect"), ResultOf(plain, effect))

FnBound(s, env, f, class, full, block, c) ==
  LET s1 == [c.s EXCEPT !.ret = s.ret, !.effect = s.effect]
      node == Node("fn", full, TRUE, <<>>, <<block>>)
  IN IF class = "" THEN T(s1, Define(env, f.x, c.t), node)
     ELSE T([s1 EXCEPT !.methods = (<<class, f.x>> :> c.t) @@ @], env, node)
FnGeneralized(s, env, f, class, block, r) == FnBound(s, env, f, class, r.t, block, Generalized(r.s, env, r.t))
FnResult(f, class, params, s, r) == R(r.s, Fn(WithSelf(class, f, [i \in DOMAIN params |-> Apply(s.sub, params[i])]), r.t))
FnAfter(s, env, f, class, sig, block, s1) ==
  FnGeneralized(s, Removed(env, f.x), f, class, block, FnResult(f, class, sig.params, s1, WithEffect(s1, Apply(s1.sub, sig.ret))))
FnWithBody(s, env, f, class, sig, body) == FnAfter(s, env, f, class, sig, body.x, FnEnd(f, body))
FnWith(s, env, f, class, sig) ==
  FnWithBody(s, env, f, class, sig,
             InferBlock([sig.s EXCEPT !.ret = sig.ret, !.effect = <<>>], FnScope(env, f, class, sig.params), f.body))

\* A function or, if class is not "", a method.
InferFnItem(s, env, f, class) ==
  FnWith(s, env, f, class,
         FnSignature(env, f, class, IF Binds(env, f.x) = {} THEN R(s, Unit) ELSE Instantiate(s, Lookup(env, f.x))))

ConstBound(env, c, r, g) == T(g.s, Define(env, c.x, g.t), Node("const", g.t.t, FALSE, <<r.x>>, <<>>))
ConstHinted(env, c, r, hint) ==
  LET u == IF c.hint = <<>> THEN hint ELSE Unify(hint.s, r.t, hint.t)
  IN ConstBound(env, c, r, Generalized(u.s, env, u.t))
ConstWith(env, c, r) ==
  ConstHinted(Removed(env, c.x), c, r, IF c.hint = <<>> THEN R(r.s, r.t) ELSE Annotated(r.s, NoFields, c.hint[1]))
InferConstItem(s, env, c) == ConstWith(env, c, InferAs(s, env, c.es[1], <<>>))

WithoutSelf(s, t) == LET u == Apply(s.sub, t) IN IF IsCon(u, "Fn") /\ Len(u.args) > 1 THEN Con("Fn", Tail(u.args)) ELSE u

\* Mutant of CheckInterfaceImpl: an interface is checked by the names of its methods.
CheckInterfaceNames(s, class) ==
  IF \A i \in Classes[class].impl : \A m \in DOMAIN Interfaces[i] : MethodOwner(s, class, m) # <<>>
  THEN s ELSE Fail(s, "interface")

CheckInterfaceImpl(s, class) ==
  IF \A i \in Classes[class].impl : \A m \in DOMAIN Interfaces[i] :
       LET owner == MethodOwner(s, class, m) IN
       owner # <<>> /\ WithoutSelf(s, Interfaces[i][m]) = WithoutSelf(s, s.methods[<<owner[1], m>>].t)
  THEN s ELSE Fail(s, "interface")

\* A function stands alone; the methods of a class see self, and the class is checked then.
FnItemsOf(class, r) ==
  IF class = "" THEN [r EXCEPT !.x = @[1]]
  ELSE T(CheckInterfaceImpl(r.s, class), Front(r.env), Node("class", Unit, FALSE, r.x, <<>>))
InferFnItems(s, env, item) ==
  LET class == IF item.k = "class" THEN item.x ELSE ""
      scope == IF class = "" THEN env ELSE Define(Push(env), "self", Mono(Base(class)))
  IN FnItemsOf(class, FoldLeft(LAMBDA acc, f : AddNode(acc, InferFnItem(acc.s, acc.env, f, class)), T(s, scope, <<>>),
                               IF class = "" THEN <<item>> ELSE item.items))

InferItem(s, env, item) == IF item.k = "const" THEN InferConstItem(s, env, item) ELSE InferFnItems(s, env, item)

DeclareName(acc, x, r) == [s |-> r.s, env |-> Define(acc.env, x, Mono(r.t))]
AddField(acc, f, r) == [s |-> r.s, fields |-> (f :> r.t) @@ acc.fields]
FieldTypes(s, class) ==
  FoldLeft(LAMBDA acc, f : AddField(acc, f, Annotated(acc.s, NoFields, Classes[class].fields[f])),
           [s |-> s, fields |-> NoFields], SetToSeq(DOMAIN Classes[class].fields))
DeclareFields(class, r) == [r.s EXCEPT !.fields = (class :> r.fields) @@ @]
DeclareMethod(class, m, r) == [r.s EXCEPT !.methods = (<<class, m.x>> :> Mono(r.t)) @@ @]
DeclareClass(s, c) ==
  FoldLeft(LAMBDA acc, m : DeclareMethod(c.x, m, FunctionPlaceholder(acc, m, c.x)),
           DeclareFields(c.x, FieldTypes(s, c.x)), c.items)
Declared(acc, item) ==
  DeclareName(acc, item.x, CASE item.k = "fn" -> FunctionPlaceholder(acc.s, item, "")
                             [] item.k = "const" -> R(Taken(acc.s, 1), NewVar(acc.s, 0))
                             [] item.k = "class" -> R(DeclareClass(acc.s, item), Fn(<<>>, Base(item.x))))

Builtins ==
  [print |-> Scheme({0}, Fn(<<Var(0)>>, Unit)), input |-> Mono(Fn(<<StrType>>, StrType)),
   Some |-> Scheme({1}, Fn(<<Var(1)>>, OptionOf(Var(1))))]
Variants == UNION {Range(Enums[n]) : n \in DOMAIN Enums}
Start ==
  [s |-> [sub |-> NoFields, next |-> 2, errors |-> {}, waved |-> {}, redundant |-> {}, fields |-> NoFields,
          methods |-> NoFields, ret |-> Unit, effect |-> <<>>],
   env |-> <<Builtins @@ [v \in Variants |-> Mono(Base(CHOOSE n \in DOMAIN Enums : v \in Range(Enums[n])))]>>]

\* A node whose type has a variable that neither the function's type nor the expressions
\* around it explain.
RECURSIVE Unresolved(_, _, _)
Unresolved(s, node, allowed) ==
  LET open == allowed \cup node.vars IN
  \/ ~(FreeVars(Apply(s.sub, node.t)) \subseteq open)
  \/ \E i \in DOMAIN node.kids : Unresolved(s, node.kids[i], open)
  \/ node.k # "ifcompile" /\ \E i \in DOMAIN node.blocks : \E j \in DOMAIN node.blocks[i] : Unresolved(s, node.blocks[i][j], open)

CheckUnresolved(s, nodes) ==
  FailIf(s, \E i \in DOMAIN nodes : Unresolved(s, nodes[i], {}), "cannot infer")

\* A program is checked item by item, after everything it declares has a placeholder; what
\* is left of a check at the end is r, with the nodes of the items.
CheckStart(items) == LET declared == FoldLeft(Declared, Start, items) IN T(declared.s, declared.env, <<>>)
CheckItem(r, item) == AddNode(r, InferItem(r.s, r.env, item))
CheckEnd(r) == CheckUnresolved(r.s, r.x)
=============================================================================
