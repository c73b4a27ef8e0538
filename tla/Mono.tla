-------------------------------- MODULE Mono --------------------------------
(***************************************************************************)
(* Generic classes and functions become plain ones before code is made of  *)
(* them: crates/draton-codegen/src/mono.rs collects the instances a        *)
(* program needs from a work list, mangle.rs names them, and item.rs       *)
(* declares and emits them.  Emission finds an instance by its name only,  *)
(* so what it looks up must have been collected under that name.           *)
(*                                                                         *)
(* A type is a variable, or a constructor with its arguments; a class is a *)
(* constructor with user = TRUE.  A name is the sequence of its words and  *)
(* underscores, because the joined names of two instances may be equal.    *)
(* A body is what it mentions, in the order of the walk: types it stores,  *)
(* calls of top-level functions, functions taken as values, method calls.  *)
(* Row types, constants and the bodies of compile-time conditions are left *)
(* out.                                                                    *)
(***************************************************************************)
EXTENDS Naturals, Sequences, FiniteSets, SequencesExt

CONSTANTS
  Programs,   \* sequences of typed items
  MaxInsts    \* bound on the class instances of one program

Var(i) == [var |-> i]
Built(n, args) == [user |-> FALSE, n |-> <<n>>, args |-> args]
Class(n, args) == [user |-> TRUE, n |-> n, args |-> args]
IsVar(t) == "var" \in DOMAIN t
FnType(f) == Built("Fn", f.self \o Append(f.params, f.ret))

RECURSIVE FreeTypeVars(_)
FreeTypeVars(t) ==
  IF IsVar(t) THEN {t.var} ELSE UNION {FreeTypeVars(t.args[i]) : i \in DOMAIN t.args}
Ground(t) == FreeTypeVars(t) = {}

RECURSIVE SubstituteType(_, _)
SubstituteType(t, sub) ==
  IF IsVar(t) THEN IF t.var \in DOMAIN sub THEN sub[t.var] ELSE t
  ELSE [t EXCEPT !.args = [i \in DOMAIN @ |-> SubstituteType(@[i], sub)]]
SubstituteTypes(ts, sub) == [i \in DOMAIN ts |-> SubstituteType(ts[i], sub)]

-----------------------------------------------------------------------------
(* Names of instances *)

Joined(names) == FoldLeft(LAMBDA a, n : IF a = <<>> THEN n ELSE a \o <<"_">> \o n, <<>>, names)

RECURSIVE MangleType(_)
MangleType(t) ==
  LET args == [i \in DOMAIN t.args |-> MangleType(t.args[i])] IN
  CASE t.args = <<>> -> t.n
    [] t.user -> t.n \o <<"_", "_">> \o Joined(args)
    [] t.n = <<"Fn">> -> <<"Fn", "_">> \o Joined(Front(args)) \o <<"_", "to", "_">> \o Last(args)
    [] OTHER -> t.n \o <<"_">> \o Joined(args) \o <<"_">>

MangleClass(name, args) == MangleType(Class(name, args))
MangleFn(name, args) == MangleType(Class(name, args))

Inst(k, name, args) == [k |-> k, name |-> name, args |-> args]
Mangled(x) == IF x.k = "class" THEN MangleClass(x.name, x.args) ELSE MangleFn(x.name, x.args)

\* The type of a specialised body: an instance of a class is a class of its own, and in a
\* class so is its bare name.  self is the instance the body belongs to, if it does to one.
RECURSIVE Materialized(_, _)
Materialized(t, self) ==
  IF IsVar(t) THEN t
  ELSE LET args == [i \in DOMAIN t.args |-> Materialized(t.args[i], self)] IN
       CASE t.user /\ args # <<>> -> Class(MangleClass(t.n, args), <<>>)
         [] t.user /\ args = <<>> /\ \E i \in DOMAIN self : t.n = self[i].name ->
              Class(Mangled(self[1]), <<>>)
         [] OTHER -> [t EXCEPT !.args = args]
MaterializeType(t, sub, self) == Materialized(SubstituteType(t, sub), self)

-----------------------------------------------------------------------------
(* Which definitions are generic, and for which arguments *)

Ascending(vars) == SetToSortSeq(vars, <)

TypeVars(item) ==
  Ascending(IF item.k = "fn" THEN FreeTypeVars(FnType(item))
            ELSE UNION ({FreeTypeVars(item.fields[i]) : i \in DOMAIN item.fields}
                          \cup {FreeTypeVars(FnType(item.methods[i])) : i \in DOMAIN item.methods}))
Generic(item) == TypeVars(item) # <<>>

BuildVarSubst(vars, args) ==
  [v \in {vars[i] : i \in 1..(IF Len(vars) < Len(args) THEN Len(vars) ELSE Len(args))} |->
     args[CHOOSE i \in DOMAIN vars : vars[i] = v]]

\* The bindings under which the pattern is the type, alone in a sequence, or <<>>.
RECURSIVE MatchTypePattern(_, _, _)
MatchTypePattern(pattern, actual, bound) ==
  IF IsVar(pattern)
    THEN IF pattern.var \in DOMAIN bound
           THEN IF bound[pattern.var] = actual THEN <<bound>> ELSE <<>>
           ELSE <<(pattern.var :> actual) @@ bound>>
  ELSE IF IsVar(actual) THEN <<>>
  ELSE IF <<pattern.user, pattern.n, Len(pattern.args)>> # <<actual.user, actual.n, Len(actual.args)>>
    THEN <<>>
  ELSE FoldLeft(LAMBDA r, i : IF r = <<>> THEN r
                              ELSE MatchTypePattern(pattern.args[i], actual.args[i], r[1]),
                <<bound>>, [i \in DOMAIN pattern.args |-> i])

ResolveFunctionTypeArgs(f, actual) ==
  LET r == MatchTypePattern(Built("Tuple", f.params), Built("Tuple", actual), <<>>)
      vars == TypeVars(f) IN
  IF r # <<>> /\ \A i \in DOMAIN vars : vars[i] \in DOMAIN r[1] /\ Ground(r[1][vars[i]])
    THEN <<[i \in DOMAIN vars |-> r[1][vars[i]]]>>
    ELSE <<>>

Named(prog, k, name) == SelectSeq(prog, LAMBDA item : item.k = k /\ item.name = name)
GenericNamed(prog, k, name) == SelectSeq(Named(prog, k, name), Generic)

-----------------------------------------------------------------------------
(* The walks of the collector: what they mention, in their order *)

RECURSIVE VisitType(_)
VisitType(t) ==
  IF IsVar(t) THEN <<>>
  ELSE (IF t.user /\ t.args # <<>> /\ Ground(t) THEN <<Inst("class", t.n, t.args)>> ELSE <<>>)
         \o FlattenSeq([i \in DOMAIN t.args |-> VisitType(t.args[i])])
VisitTypes(ts) == FlattenSeq([i \in DOMAIN ts |-> VisitType(ts[i])])

\* A call of a generic function mentions its instance when the arguments settle every variable.
VisitCall(program, name, actual) ==
  LET f == GenericNamed(program, "fn", name)
      r == IF f = <<>> THEN <<>> ELSE ResolveFunctionTypeArgs(Last(f), actual) IN
  IF r = <<>> THEN <<>> ELSE <<Inst("fn", name, r[1])>>

VisitUse(program, use, sub) ==
  LET t == SubstituteType(use.t, sub) IN
  VisitType(t) \o (IF use.k = "call" THEN VisitCall(program, use.name, Front(t.args)) ELSE <<>>)

VisitFn(program, f, sub) ==
  VisitTypes(SubstituteTypes(<<FnType(f), f.ret>> \o f.params, sub))
    \o FlattenSeq([i \in DOMAIN f.body |-> VisitUse(program, f.body[i], sub)])

\* Mutant of VisitClass: the bodies and signatures of methods are not walked.
VisitClassFields(program, class, sub) == VisitTypes(SubstituteTypes(class.fields, sub))

VisitClass(program, class, sub) ==
  VisitTypes(SubstituteTypes(class.fields, sub))
    \o FlattenSeq([i \in DOMAIN class.methods |-> VisitFn(program, class.methods[i], sub)])

VisitItem(program, item) ==
  IF item.k = "fn" THEN VisitFn(program, item, <<>>) ELSE VisitClass(program, item, <<>>)

VisitItems(program) == FlattenSeq([i \in DOMAIN program |-> VisitItem(program, program[i])])

ProcessClassInst(program, inst) ==
  LET class == GenericNamed(program, "class", inst.name) IN
  IF class = <<>> THEN <<>>
  ELSE VisitClass(program, Last(class), BuildVarSubst(TypeVars(Last(class)), inst.args))

ProcessFnInst(program, inst) ==
  LET f == GenericNamed(program, "fn", inst.name) IN
  IF f = <<>> THEN <<>>
  ELSE VisitFn(program, Last(f), BuildVarSubst(TypeVars(Last(f)), inst.args))

ProcessInst(program, inst) ==
  IF inst.k = "class" THEN ProcessClassInst(program, inst) ELSE ProcessFnInst(program, inst)

-----------------------------------------------------------------------------
(* What the emission of a piece looks up, in its order *)

Need(k, name, t) == [k |-> k, name |-> name, t |-> t]

RuntimeName(t) == IF t.args = <<>> THEN t.n ELSE MangleClass(t.n, t.args)

\* The layouts that the LLVM form of a type depends on: channels and closures are opaque.
RECURSIVE LlvmNeeds(_)
LlvmNeeds(t) ==
  CASE IsVar(t) -> <<Need("var", <<>>, t)>>
    [] ~IsVar(t) /\ t.user -> <<Need("layout", RuntimeName(t), t)>>
    [] ~IsVar(t) /\ ~t.user -> IF t.n \in {<<"Fn">>, <<"Chan">>} THEN <<>>
                               ELSE FlattenSeq([i \in DOMAIN t.args |-> LlvmNeeds(t.args[i])])
LlvmNeedsOf(ts) == FlattenSeq([i \in DOMAIN ts |-> LlvmNeeds(ts[i])])

UseNeeds(use) ==
  CASE use.k = "type" -> LlvmNeeds(use.t)
    [] use.k \in {"call", "value"} -> <<Need(use.k, use.name, use.t)>>
    [] use.k = "method" -> <<Need("method", RuntimeName(use.t) \o <<".">> \o use.name, use.t)>>

SpecializeUse(use, sub, self) == [use EXCEPT !.t = MaterializeType(@, sub, self)]
SpecializeFunction(f, sub, self, name) ==
  [f EXCEPT !.name = name, !.ret = MaterializeType(@, sub, self),
            !.params = [i \in DOMAIN @ |-> MaterializeType(@[i], sub, self)],
            !.self = [i \in DOMAIN @ |-> MaterializeType(@[i], sub, self)],
            !.body = [i \in DOMAIN @ |-> SpecializeUse(@[i], sub, self)]]
SpecializeClass(class, inst) ==
  LET sub == BuildVarSubst(TypeVars(class), inst.args)
      self == <<inst>> IN
  [class EXCEPT !.name = Mangled(inst),
                !.fields = [i \in DOMAIN @ |-> MaterializeType(@[i], sub, self)],
                !.methods = [i \in DOMAIN @ |-> SpecializeFunction(@[i], sub, self, @[i].name)]]

PlainItems(prog, k) == SelectSeq(prog, LAMBDA item : item.k = k /\ ~Generic(item))
MonoClasses(program, found) ==
  LET generic == SelectSeq(found, LAMBDA i : GenericNamed(program, "class", i.name) # <<>>) IN
  [i \in DOMAIN generic |->
     SpecializeClass(Last(GenericNamed(program, "class", generic[i].name)), generic[i])]
MonoFunctions(program, found) ==
  LET instance(i) ==
        LET f == Last(GenericNamed(program, "fn", found[i].name)) IN
        SpecializeFunction(f, BuildVarSubst(TypeVars(f), found[i].args), <<>>, Mangled(found[i])) IN
  [i \in DOMAIN found |-> instance(i)]

SignatureNeeds(f) == LlvmNeedsOf(Append(f.params, f.ret))
BodyNeeds(f) == FlattenSeq([i \in DOMAIN f.body |-> UseNeeds(f.body[i])])
FieldNeeds(classes) == FlattenSeq([i \in DOMAIN classes |-> LlvmNeedsOf(classes[i].fields)])
Methods(classes) == FlattenSeq([i \in DOMAIN classes |-> classes[i].methods])
MethodNames(class) == {class.name \o <<".">> \o class.methods[i].name : i \in DOMAIN class.methods}

\* resolve_function_symbol: the plain function of that name, or the instance the arguments ask for.
Resolves(prog, need, known) ==
  LET f == GenericNamed(prog, "fn", need.name)
      r == IF f = <<>> THEN <<>> ELSE ResolveFunctionTypeArgs(Last(f), Front(need.t.args)) IN
  need.name \in known.functions \/ (r # <<>> /\ MangleFn(need.name, r[1]) \in known.functions)

Found(prog, need, known) ==
  CASE need.k = "var" -> FALSE
    [] need.k = "layout" -> need.name \in known.layouts
    [] need.k = "method" -> need.name \in known.functions
    [] need.k \in {"call", "value"} -> Resolves(prog, need, known)

-----------------------------------------------------------------------------
VARIABLES
  prog,     \* the typed program
  phase,    \* the collector's phase, then the step of CodeGen::emit that comes next
  walk, left, insts, seen, queue,   \* the collector's
  known,    \* the layouts and the functions declared so far
  missing   \* what the emission did not find: the need and where it arose
collector == <<walk, left, insts, seen, queue>>
vars == <<prog, phase, collector, known, missing>>

MonoCollector ==
  INSTANCE Collector WITH ProgramWalk <- VisitItems, InstWalk <- ProcessInst, Symbol <- Mangled

Init ==
  /\ MonoCollector!Init
  /\ known = [layouts |-> {}, functions |-> {}] /\ missing = <<>>

Visit == MonoCollector!Visit /\ UNCHANGED <<known, missing>>
CollectClass == MonoCollector!CollectClass /\ UNCHANGED <<known, missing>>
CollectFn == MonoCollector!CollectFn /\ UNCHANGED <<known, missing>>
Collected == MonoCollector!Collected /\ UNCHANGED <<known, missing>>
CutOff == MonoCollector!CutOff /\ UNCHANGED <<known, missing>>

\* A stage of declaration or emission ends at the first thing it does not find.
Stage(this, next, needs, with) ==
  /\ phase = this
  /\ known' = with
  /\ LET lost == SelectSeq(needs, LAMBDA n : ~Found(prog, n, with)) IN
       IF lost = <<>> THEN phase' = next /\ missing' = missing
       ELSE phase' = "failed" /\ missing' = <<[need |-> lost[1], stage |-> this]>>
  /\ UNCHANGED <<prog, collector>>

Names(items) == {items[i].name : i \in DOMAIN items}
WithLayouts(names) == [known EXCEPT !.layouts = @ \cup names]
WithFunctions(names) == [known EXCEPT !.functions = @ \cup names]
ClassFunctions(classes) == UNION {MethodNames(classes[i]) : i \in DOMAIN classes}
AllSignatures(functions) == FlattenSeq([i \in DOMAIN functions |-> SignatureNeeds(functions[i])])
AllBodies(functions) == FlattenSeq([i \in DOMAIN functions |-> BodyNeeds(functions[i])])

DeclareClasses ==
  LET classes == PlainItems(prog, "class") IN
  Stage("collected", "mono_classes", FieldNeeds(classes), WithLayouts(Names(classes)))

DeclareMonoClasses ==
  LET classes == MonoClasses(prog, insts["class"])
      opaque == WithLayouts({Mangled(i) : i \in ToSet(insts["class"])}) IN
  Stage("mono_classes", "functions", FieldNeeds(classes) \o AllSignatures(Methods(classes)),
        [opaque EXCEPT !.functions = @ \cup ClassFunctions(classes)])

DeclareFunctions ==
  LET classes == PlainItems(prog, "class")
      functions == PlainItems(prog, "fn") IN
  Stage("functions", "mono_functions", AllSignatures(functions \o Methods(classes)),
        WithFunctions(Names(functions) \cup ClassFunctions(classes)))

DeclareMonoFunctions ==
  LET functions == MonoFunctions(prog, insts["fn"]) IN
  Stage("mono_functions", "emit", AllSignatures(functions), WithFunctions(Names(functions)))

EmitItems ==
  Stage("emit", "emit_mono",
        AllBodies(PlainItems(prog, "fn") \o Methods(PlainItems(prog, "class"))), known)

EmitMono ==
  Stage("emit_mono", "done",
        AllBodies(Methods(MonoClasses(prog, insts["class"])) \o MonoFunctions(prog, insts["fn"])), known)

Next == Visit \/ CollectClass \/ CollectFn \/ Collected \/ CutOff \/ DeclareClasses \/ DeclareMonoClasses
          \/ DeclareFunctions \/ DeclareMonoFunctions \/ EmitItems \/ EmitMono
Spec == Init /\ [][Next]_vars

-----------------------------------------------------------------------------
(* What a program needs, from the declared parameters and without a work list *)

\* The items and instances a set of them leads to; a plain item is an instance without arguments.
ClassesIn(ts) ==
  LET RECURSIVE sub(_)
      sub(t) == IF IsVar(t) THEN {}
                ELSE (IF t.user /\ t.args # <<>> /\ Ground(t) THEN {<<"class", t.n, t.args>>} ELSE {})
                       \cup UNION {sub(t.args[i]) : i \in DOMAIN t.args} IN
  UNION {sub(t) : t \in ts}

CallsIn(f, sub) ==
  UNION {LET g == GenericNamed(prog, "fn", use.name) IN
         IF use.k # "call" \/ g = <<>> THEN {}
         ELSE {<<"fn", use.name, args>> :
                 args \in ToSet(ResolveFunctionTypeArgs(Last(g), Front(SubstituteType(use.t, sub).args)))} :
           use \in ToSet(f.body)}

MentionedBy(f, sub) ==
  LET types == ToSet(f.self) \cup ToSet(f.params) \cup {f.ret} \cup {use.t : use \in ToSet(f.body)} IN
  ClassesIn({SubstituteType(t, sub) : t \in types}) \cup CallsIn(f, sub)

Mentioned(item, sub) ==
  IF item.k = "fn" THEN MentionedBy(item, sub)
  ELSE ClassesIn({SubstituteType(t, sub) : t \in ToSet(item.fields)})
         \cup UNION {MentionedBy(f, sub) : f \in ToSet(item.methods)}

LeadsTo(x) ==
  LET items == GenericNamed(prog, x[1], x[2]) IN
  IF items = <<>> THEN {} ELSE Mentioned(Last(items), BuildVarSubst(Last(items).type_params, x[3]))

RECURSIVE Closure(_)
Closure(found) ==
  LET more == found \cup UNION {LeadsTo(x) : x \in found} IN
  IF more = found THEN found ELSE Closure(more)
Reached == Closure(UNION {Mentioned(item, <<>>) : item \in ToSet(prog)})

Instances == {<<x.k, x.name, x.args>> : x \in MonoCollector!Instances}

\* Class names with underscores: two of the instances have the same symbol.
NamesClash ==
  \E x, y \in Reached : x # y /\ x[1] = y[1] /\ MangleClass(x[2], x[3]) = MangleClass(y[2], y[3])

\* A generic class without methods has a parameter that no field mentions.
HiddenParam ==
  \E x \in Reached : \E class \in ToSet(GenericNamed(prog, x[1], x[2])) :
    class.type_params # TypeVars(class)

\* A generic class holds itself at a larger argument.
Growing ==
  \E class \in ToSet(SelectSeq(prog, LAMBDA item : item.k = "class")) :
    \E t \in ToSet(class.fields) :
      \E x \in ClassesIn({SubstituteType(t, [v \in ToSet(class.type_params) |-> Built("Int", <<>>)])}) :
        x[2] = class.name /\ x[3] # [i \in DOMAIN x[3] |-> Built("Int", <<>>)]

-----------------------------------------------------------------------------
(* Every generic class and function that some code of the program reaches  *)
(* at given arguments is an instance when the work list is empty, bound to *)
(* these arguments, whatever the order in which the list met it            *)
(* (MonoCollector::collect, mono.rs:65).  The two exceptions are real: see *)
(* NamesClash and HiddenParam.                                             *)
NothingMissed ==
  phase = "collected" => NamesClash \/ HiddenParam \/ Reached \subseteq Instances

(* Code generation finds every layout and function it looks up, although   *)
(* it asks with other types than the collector had: in a specialised body  *)
(* instances of classes have become plain classes (materialize_type).      *)
(* Three lookups may fail for a program the checker accepts: a generic     *)
(* function taken as a value, a field of a plain class whose type is an    *)
(* instance (plain classes are laid out first, item.rs:62), and in a       *)
(* specialised body a call whose parameter spells out a generic class.     *)
EmissionFinds ==
  phase = "failed" =>
    \/ missing[1].need.k = "value"
    \/ missing[1].stage = "collected" /\ missing[1].need.t.args # <<>>
    \/ /\ missing[1].stage = "emit_mono" /\ missing[1].need.k = "call"
       /\ \E p \in ToSet(Last(GenericNamed(prog, "fn", missing[1].need.name)).params) :
            ClassesIn({SubstituteType(p, [v \in FreeTypeVars(p) |-> Built("Int", <<>>)])}) # {}

(* The work list runs empty, also for classes and functions that mention  *)
(* themselves or each other: no program needs more instances than the      *)
(* bound unless a class holds itself at a larger argument, and then the    *)
(* loop of collect has no end (mono.rs:73).  Every round takes an instance *)
(* off a queue, and no instance enters one twice.                          *)
CollectionEnds == phase = "cut" => Growing
=============================================================================
