------------------------------- MODULE Types -------------------------------
(***************************************************************************)
(* The types of the checker and how it solves equations between them:      *)
(* crates/draton-typeck/src/infer.rs (substitutions), env.rs (schemes) and *)
(* the unifier of check.rs.                                                *)
(*                                                                         *)
(* A type is a variable, a constructor with its arguments (a function has  *)
(* its result last) or a row of fields with at most one rest.  What the    *)
(* checker knows, s, is the substitution, the next variable, the errors,   *)
(* the types of fields and methods, and the result type and the effect of  *)
(* the function it is in.  s.waved is history: the kinds of steps taken    *)
(* that leave something unchecked.                                         *)
(***************************************************************************)
EXTENDS Naturals, Sequences, FiniteSets, SequencesExt

CONSTANTS
  Classes,     \* of every class: its parent or "", the interfaces it implements, its fields
  Interfaces,  \* of every interface: the types of its methods
  Enums        \* of every enum: its variants

Var(i) == [k |-> "var", id |-> i]
Con(n, args) == [k |-> "con", n |-> n, args |-> args]
Row(fields, rest) == [k |-> "row", fields |-> fields, rest |-> rest]
Base(n) == Con(n, <<>>)
IntType == Base("Int")
BoolType == Base("Bool")
Unit == Base("Unit")
StrType == Base("String")
Fn(params, ret) == Con("Fn", Append(params, ret))
Params(t) == Front(t.args)
Ret(t) == Last(t.args)
IsCon(t, n) == t.k = "con" /\ t.n = n

Fail(s, what) == [s EXCEPT !.errors = @ \cup {what}]
Wave(s, what) == [s EXCEPT !.waved = @ \cup {what}]
FailIf(s, condition, what) == IF condition THEN Fail(s, what) ELSE s
WaveIf(s, condition, what) == IF condition THEN Wave(s, what) ELSE s
NewVar(s, i) == Var(s.next + i)
Taken(s, n) == [s EXCEPT !.next = @ + n]
R(s, t) == [s |-> s, t |-> t]

-----------------------------------------------------------------------------
(* Substitutions and schemes *)

RECURSIVE Apply(_, _)
Apply(sub, t) ==
  CASE t.k = "var" -> IF t.id \in DOMAIN sub THEN Apply(sub, sub[t.id]) ELSE t
    [] t.k = "con" -> Con(t.n, [i \in DOMAIN t.args |-> Apply(sub, t.args[i])])
    [] t.k = "row" -> Row([f \in DOMAIN t.fields |-> Apply(sub, t.fields[f])],
                          [i \in DOMAIN t.rest |-> Apply(sub, t.rest[i])])

RECURSIVE FreeVars(_)
FreeVars(t) ==
  CASE t.k = "var" -> {t.id}
    [] t.k = "con" -> UNION {FreeVars(t.args[i]) : i \in DOMAIN t.args}
    [] t.k = "row" -> UNION ({FreeVars(t.fields[f]) : f \in DOMAIN t.fields}
                               \cup {FreeVars(t.rest[i]) : i \in DOMAIN t.rest})

Occurs(v, t) == v \in FreeVars(t)

Bind(sub, v, t) == (v :> t) @@ [x \in DOMAIN sub |-> Apply(v :> t, sub[x])]

\* t is solved already.
BindVar(s, v, t) ==
  IF t = Var(v) THEN R(s, t)
  ELSE IF Occurs(v, t) THEN R(Fail(s, "infinite type"), Var(v))
  ELSE R([s EXCEPT !.sub = Bind(@, v, t)], t)

Scheme(q, t) == [q |-> q, t |-> t]
Mono(t) == Scheme({}, t)

\* The innermost scope that binds the name.
Binds(env, x) == {i \in DOMAIN env : x \in DOMAIN env[i]}
Lookup(env, x) == env[CHOOSE i \in Binds(env, x) : \A j \in Binds(env, x) : j <= i][x]
Define(env, x, scheme) == [env EXCEPT ![Len(env)] = (x :> scheme) @@ @]
Push(env) == Append(env, [x \in {} |-> Mono(Unit)])

\* A fresh variable for each quantified one.
Instantiate(s, scheme) ==
  LET vars == SetToSeq(scheme.q)
      fresh == [v \in scheme.q |-> NewVar(s, CHOOSE i \in DOMAIN vars : vars[i] = v)] IN
  R(Taken(s, Len(vars) + 1), Apply(fresh, scheme.t))

SchemesOf(env) == UNION {{env[i][x] : x \in DOMAIN env[i]} : i \in DOMAIN env}
EnvVars(env) == UNION {FreeVars(c.t) \ c.q : c \in SchemesOf(env)}
\* What a binding around this one still stands for: the variables of its solved type.
SolvedEnvVars(s, env) == UNION {FreeVars(Apply(s.sub, Var(v))) : v \in EnvVars(env)}

\* Quantifies every variable that the schemes of the environment, as they were written, lack.
GeneralizedSolved(s, env, t) ==
  LET q == FreeVars(t) \ EnvVars(env)
  IN R(WaveIf(s, q \cap SolvedEnvVars(s, env) # {}, "general"), Scheme(q, t))
Generalized(s, env, ty) == GeneralizedSolved(s, env, Apply(s.sub, ty))

-----------------------------------------------------------------------------
(* Classes and interfaces *)

RECURSIVE Lineage(_)
Lineage(c) == IF c = "" THEN <<>> ELSE <<c>> \o Lineage(Classes[c].parent)

\* The first class of the lineage that has the member.
FieldOwner(s, c, f) == SelectSeq(Lineage(c), LAMBDA d : f \in DOMAIN s.fields[d])
MethodOwner(s, c, m) == SelectSeq(Lineage(c), LAMBDA d : <<d, m>> \in DOMAIN s.methods)

IsNamed(t) == t.k = "con" /\ t.n \in DOMAIN Classes \cup DOMAIN Enums \cup DOMAIN Interfaces
Implements(a, b) ==
  /\ a.k = "con" /\ b.k = "con" /\ a.args = <<>> /\ b.args = <<>> /\ a.n \in DOMAIN Classes
  /\ \E i \in DOMAIN Lineage(a.n) : b.n \in Classes[Lineage(a.n)[i]].impl

-----------------------------------------------------------------------------
(* Unification *)

RECURSIVE Unify(_, _, _)

Unified(acc, u) == [s |-> u.s, ts |-> Append(acc.ts, u.t)]
UnifyAll(s, as, bs) ==
  FoldLeft(LAMBDA acc, i : Unified(acc, Unify(acc.s, as[i], bs[i])), [s |-> s, ts |-> <<>>], [i \in DOMAIN as |-> i])

NoFields == [f \in {} |-> Unit]
Only(fields, names) == [f \in names |-> fields[f]]

\* The fields of both rows; what they unify to.
UnifiedField(acc, f, u) == [s |-> u.s, fields |-> (f :> u.t) @@ acc.fields]
UnifyFields(s, as, bs) ==
  FoldLeft(LAMBDA acc, f : UnifiedField(acc, f, Unify(acc.s, as[f], bs[f])), [s |-> s, fields |-> NoFields],
           SetToSeq(DOMAIN as \cap DOMAIN bs))

\* A field that one row has and the other lacks joins the result, which the callers drop:
\* nothing binds the other row's rest to it.
MergedRow(r, fields, rests) == R(r.s, Apply(r.s.sub, Row(fields, IF Len(rests) = 2 THEN <<r.t>> ELSE rests)))
UnifyRests(u, a, b) ==
  LET as == DOMAIN a.fields \ DOMAIN b.fields
      bs == DOMAIN b.fields \ DOMAIN a.fields
      opena == a.rest # <<>>
      openb == b.rest # <<>>
      s1 == WaveIf(FailIf(u.s, (as # {} /\ ~openb) \/ (bs # {} /\ ~opena), "no field"), as \cup bs # {} \/ opena # openb, "row")
      merged == u.fields @@ Only(a.fields, IF openb THEN as ELSE {}) @@ Only(b.fields, IF opena THEN bs ELSE {})
  IN MergedRow(IF opena /\ openb THEN Unify(s1, a.rest[1], b.rest[1]) ELSE R(s1, Unit), merged, a.rest \o b.rest)
UnifyRows(s, a, b) == UnifyRests(UnifyFields(s, a.fields, b.fields), a, b)

\* A row met by a class: the class's own fields, and the rest takes the remaining ones.
BindRest(s, row, left) == IF row.rest = <<>> THEN s ELSE Unify(s, row.rest[1], left).s
UnifyNamed(s, row, t) ==
  IF t.n \notin DOMAIN s.fields THEN R(Fail(s, "mismatch"), t)
  ELSE LET own == s.fields[t.n]
           names == DOMAIN row.fields
           s1 == FailIf(UnifyFields(s, row.fields, own).s, ~(names \subseteq DOMAIN own), "no field")
           left == Row([f \in DOMAIN own \ names |-> Apply(s.sub, own[f])], <<>>)
       IN R(BindRest(s1, row, left), t)

UnifyCons(s, a, b) ==
  IF Implements(a, b) THEN R(Wave(s, "interface"), b)
  ELSE IF Implements(b, a) THEN R(Wave(s, "interface"), a)
  ELSE IF a.n = b.n /\ Len(a.args) = Len(b.args)
       THEN LET u == UnifyAll(s, a.args, b.args) IN R(u.s, Con(a.n, u.ts))
  ELSE IF a.n = b.n /\ a.n = "Tuple" THEN R(Taken(Fail(s, "mismatch"), 2), NewVar(s, 1))
  ELSE R(Fail(s, "mismatch"), a)

UnifySolved(s, a, b) ==
  CASE a.k = "var" -> BindVar(s, a.id, b)
    [] a.k # "var" /\ b.k = "var" -> BindVar(s, b.id, a)
    [] a.k = "con" /\ b.k = "con" -> UnifyCons(s, a, b)
    [] a.k = "row" /\ b.k = "row" -> UnifyRows(s, a, b)
    [] {a.k, b.k} = {"row", "con"} ->
         LET row == IF a.k = "row" THEN a ELSE b
             t == IF a.k = "row" THEN b ELSE a
         IN IF IsNamed(t) THEN UnifyNamed(s, row, t) ELSE R(Fail(s, "mismatch"), a)
Unify(s, lhs, rhs) == UnifySolved(s, Apply(s.sub, lhs), Apply(s.sub, rhs))
=============================================================================
