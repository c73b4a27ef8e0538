------------------------------ MODULE MCTyping ------------------------------
(***************************************************************************)
(* Programs of a function or two: what is done to a parameter and then to  *)
(* the result, for every kind of argument; functions used before they are  *)
(* declared; lambdas used twice; records, classes and an interface; and    *)
(* matches with up to three arms.                                          *)
(***************************************************************************)
EXTENDS Typing

Box == Base("Box")
MCClasses ==
  [Box |-> [parent |-> "", impl |-> {"Show"}, fields |-> [x |-> IntType]],
   Crate |-> [parent |-> "Box", impl |-> {}, fields |-> [y |-> StrType]]]
MCInterfaces == [Show |-> [show |-> Fn(<<Base("Show")>>, IntType)]]
MCEnums == [Color |-> <<"Red", "Blue">>]

One == Lit("Int", "1")
Two == Lit("Int", "2")
Str == Lit("String", "s")
True == Lit("Bool", "true")
Float == Lit("Float", "1.5")
Id(x) == Expr("id", x, <<>>)
P1 == Id("p")
Y == Id("y")
Z == Id("z")
NoneE == Expr("none", "", <<>>)
Call(f, args) == Expr("call", "", <<Id(f)>> \o args)
Method(m, args) == Expr("method", m, args)
Bin(op, a, b) == Expr("bin", op, <<a, b>>)
OkE(a) == Expr("Ok", "", <<a>>)
ErrE(a) == Expr("Err", "", <<a>>)
SomeE(a) == Call("Some", <<a>>)
Variant(v) == [k |-> "variant", x |-> "Color", n |-> v, args |-> <<>>]
Lambda(ps, e) == [k |-> "lambda", x |-> "", n |-> "", ps |-> ps, args |-> <<e>>]
NewOf(c, ps, args) == [k |-> "new", x |-> c, n |-> "", ps |-> ps, args |-> args]
Cast(e, t) == [k |-> "cast", x |-> "", n |-> "", ty |-> t, args |-> <<e>>]
Arm(p, e) == [p |-> p, e |-> <<e>>, block |-> <<>>]
ArmBlock(p, b) == [p |-> p, e |-> <<>>, block |-> <<b>>]
Match(e, arms) == [k |-> "match", x |-> "", n |-> "", arms |-> arms, args |-> <<e>>]
ABox == NewOf("Box", <<"x">>, <<One>>)
ACrate == NewOf("Crate", <<"x", "y">>, <<One, Str>>)

Let(x, e) == Stmt("let", x, <<>>, <<e>>, <<>>)
LetAs(x, t, e) == Stmt("let", x, <<t>>, <<e>>, <<>>)
Do(e) == Stmt("expr", "", <<>>, <<e>>, <<>>)
Return(e) == Stmt("return", "", <<>>, <<e>>, <<>>)
If(c, a, b) == Stmt("if", "", <<>>, <<c>>, <<a, b>>)
Assign(op, es) == Stmt("assign", op, <<>>, es, <<>>)
FnOf(x, tps, ps, hints, ret, body) ==
  [k |-> "fn", x |-> x, tps |-> tps, ps |-> ps, hints |-> hints, ret |-> ret, body |-> body]
Fn1(x, ps, body) == FnOf(x, <<>>, ps, [i \in DOMAIN ps |-> <<>>], <<>>, body)
Main0(body) == Fn1("main", <<>>, body)
ClassOf(c, items) == [k |-> "class", x |-> c, items |-> items]
ConstOf(x, hint, e) == [k |-> "const", x |-> x, hint |-> hint, es |-> <<e>>]

-----------------------------------------------------------------------------
Args == {One, Str, Float, NoneE, SomeE(One), Expr("array", "", <<One>>), Expr("array", "", <<>>),
         Expr("tuple", "", <<One, Str>>), OkE(One), ErrE(Str), Variant("Red"), Lambda(<<"q">>, Bin("+", Id("q"), One)),
         Expr("map", "", <<Id("q"), One>>)}

\* What can be done to e.
Uses(e) ==
  {e, Bin("+", e, One), Bin("==", e, Str), Bin("<", One, e), Bin("and", e, True), Bin("&", e, One), Bin("..", One, e),
   Expr("un", "-", <<e>>), Expr("fstr", "", <<e>>), Expr("array", "", <<e, One>>), Expr("map", "", <<e, One>>),
   Expr("tuple", "", <<e, Str>>), Expr("index", "", <<e, One>>), Expr("index", "", <<e, Str>>), Expr("call", "", <<e, One>>),
   SomeE(e), OkE(e), Method("len", <<e>>), Method("pop", <<e>>), Method("slice", <<e, One, One>>),
   Method("map", <<e, Lambda(<<"q">>, Bin("+", Id("q"), One))>>), Expr("nullish", "", <<e, One>>), Cast(e, Base("Float")),
   Match(e, <<Arm(OkE(Id("v")), Id("v")), Arm(ErrE(Id("w")), One)>>),
   Match(e, <<Arm(SomeE(Id("v")), Bin("+", Id("v"), One)), Arm(NoneE, One)>>)}
Acts(e) == {Do(u) : u \in Uses(e)} \cup
  {Assign("=", <<e, Str>>), Assign("+=", <<e, One>>), Assign("++", <<e>>), Return(Bin("+", e, One)),
   Stmt("for", "i", <<>>, <<e>>, <<<<Do(Bin("+", Id("i"), One))>>>>), If(e, <<Do(One)>>, <<Do(Str)>>), If(e, <<Do(One)>>, <<Do(Two)>>),
   Stmt("while", "", <<>>, <<e>>, <<<<>>>>), Stmt("spawn", "", <<>>, <<>>, <<<<Do(Bin("+", e, One))>>>>),
   [k |-> "destructure", x |-> "", ps |-> <<"a", "b">>, hint |-> <<>>, es |-> <<e>>, blocks |-> <<>>],
   Do(Method("push", <<e, Str>>)), Stmt("ifcompile", "", <<>>, <<e>>, <<<<Do(One)>>>>)}

\* f(p) uses its parameter, and then the result.
Calling(body, arg) == <<Fn1("f", <<"p">>, body), Main0(<<Return(Call("f", <<arg>>))>>)>>
Chains == {Calling(<<Let("y", u), s>>, a) : u \in Uses(P1), s \in Acts(Y), a \in Args \ {Float, NoneE, ErrE(Str)}}
Twice == {Calling(<<Do(u), Let("y", P1), s>>, a) : u \in Uses(P1), s \in Acts(Y), a \in {Str}}

\* f is used before it is declared, and its result is used.
Forward == {<<Main0(<<Let("y", Call("f", <<a>>)), s>>), FnOf("f", <<"T">>, <<"p">>, <<h>>, <<>>, <<Return(u)>>)>> :
              u \in Uses(P1), a \in {One, Str, OkE(One), Expr("array", "", <<One>>)}, h \in {<<>>, <<IntType>>, <<Base("T")>>},
              s \in {Do(Y), Do(Bin("+", Y, One)), Do(Bin("==", Y, Str)), Do(Call("f", <<Str>>))}}

\* A lambda that is used twice, and a binding with a hint.
Lambdas == {<<Main0(<<Let("g", Lambda(<<"q">>, u)), Do(Call("g", <<a>>)), Do(Call("g", <<b>>))>>)>> :
              u \in Uses(Id("q")), a \in Args, b \in {One, Str}}
Hints == {<<ConstOf("c", <<IntType>>, One), Main0(<<LetAs("y", t, e), Do(Bin("+", Y, Id("c")))>>)>> :
            t \in {IntType, StrType, OptionOf(IntType), Fn(<<IntType>>, IntType), Base("_")}, e \in Args \cup {Id("c")}}

\* A function that leaves early with an error, and its caller.
Results == {<<Fn1("f", <<"p">>, <<Let("y", Expr("nullish", "", <<P1, b>>)), s>>),
              Main0(<<Let("z", Call("f", <<a>>)), Do(u)>>)>> :
              b \in {One, Str}, a \in {OkE(One), ErrE(One), ErrE(Str), SomeE(One), NoneE, One},
              s \in {Return(Y), Return(OkE(Y)), Do(Bin("+", Y, One)), Do(OkE(Bin("+", Y, One))), Return(ErrE(One))},
              u \in {Z, Bin("+", Z, One), Match(Z, <<Arm(OkE(Id("v")), Bin("+", Id("v"), One)), Arm(ErrE(Id("w")), Bin("+", Id("w"), One))>>),
                     Expr("nullish", "", <<Z, One>>)}}

-----------------------------------------------------------------------------
(* Matches: of a value itself, and of a parameter of which nothing else is known. *)

Blank == Id("_")
PTuple(a, b) == Expr("tuple", "", <<a, b>>)
Patterns == {Blank, Id("v"), Id("Red"), One, True, NoneE, SomeE(Id("v")), SomeE(One), OkE(Id("v")), OkE(One), ErrE(Id("w")),
             Variant("Red"), Variant("Blue"), PTuple(Id("v"), Id("w")), PTuple(One, Blank)}
Arms(ps) == [i \in DOMAIN ps |-> IF i = 1 THEN ArmBlock(ps[i], <<Do(Two)>>) ELSE Arm(ps[i], One)]
MatchPrograms(S, PS) == {<<Fn1("f", <<"p">>, <<Do(Match(P1, Arms(ps)))>>), Main0(<<Do(Call("f", <<a>>))>>)>> : a \in S, ps \in PS}
Seqs(S, n) == [1..n -> S]
Matched == Args \cup {True, Variant("Blue"), OkE(Two), SomeE(Two)}
OneArm == MatchPrograms(Matched, Seqs(Patterns, 1))
TwoArms == MatchPrograms({One, True, NoneE, SomeE(Two), OkE(Two), ErrE(Str), Variant("Blue"), PTuple(One, Str)}, Seqs(Patterns, 2))
ResultArms == MatchPrograms({OkE(One), OkE(Two), ErrE(Str)}, Seqs({Blank, OkE(Id("v")), OkE(One), ErrE(Id("w")), ErrE(Blank)}, 3))
OptionArms == MatchPrograms({SomeE(One), NoneE}, Seqs({Blank, SomeE(Id("v")), SomeE(One), NoneE}, 3))
EnumArms == MatchPrograms({Variant("Red"), Variant("Blue")}, Seqs({Blank, Variant("Red"), Variant("Blue"), Id("Red")}, 3))

-----------------------------------------------------------------------------
(* Classes: show and other may come in either order, and call each other. *)

SelfE == Id("self")
Shows == {Return(Expr("field", "x", <<SelfE>>)), Return(Str), Return(Method("other", <<SelfE, One>>)), Return(One)}
Others == {Return(Id("k")), Return(Bin("+", Id("k"), One)), Return(Method("show", <<SelfE>>))}
Boxes == {ClassOf("Box", ms) : ms \in UNION {{<<Fn1("show", <<>>, <<s>>), Fn1("other", <<"k">>, <<o>>)>>,
                                              <<Fn1("other", <<"self", "k">>, <<o>>), Fn1("show", <<"self">>, <<s>>)>>} : s \in Shows, o \in Others}}
OfObjects(e) ==
  {Do(Method("show", <<e>>)), Let("y", Bin("+", Method("show", <<e>>), One)), Do(Expr("field", "x", <<e>>)),
   Do(Bin("+", Expr("field", "x", <<e>>), One)), Do(Bin("==", Expr("field", "y", <<e>>), Str)),
   Do(Bin("+", Expr("field", "x", <<e>>), Expr("field", "y", <<e>>))), Do(Bin("+", Method("other", <<e, One>>), One)),
   Do(Bin("==", Method("other", <<e, Str>>), Str)), Do(Bin("+", e, One))}
Objects == {<<box, ClassOf("Crate", <<>>), FnOf("f", <<>>, <<"p">>, <<h>>, <<>>, <<s>>), Main0(<<Do(Call("f", <<a>>))>>)>> :
              box \in Boxes, h \in {<<>>, <<Base("Show")>>, <<Box>>, <<Base("Crate")>>}, s \in OfObjects(P1),
              a \in {ABox, ACrate}}

\* Programs in which a let generalizes too much, and matches of nested patterns.
MCLets == <<Twice>>
MCNested == <<OneArm, ResultArms>>

MCFamilies == <<Chains, Twice, Forward, Lambdas, Hints, Results, OneArm, TwoArms, ResultArms, OptionArms, EnumArms, Objects>>
=============================================================================
