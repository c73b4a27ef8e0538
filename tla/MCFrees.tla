------------------------------- MODULE MCFrees ------------------------------
(***************************************************************************)
(* Functions with two owned bindings and closures: straight ones of up to  *)
(* four statements, and ones around an if, an else-if chain, a loop or a   *)
(* block.                                                                  *)
(***************************************************************************)
EXTENDS Frees

MCEffects == [sink |-> <<"move">>, change |-> <<"exclusive">>, pass |-> <<"move">>, both |-> <<"shared", "move">>,
              put |-> <<"shared", "exclusive">>]
\* g is declared as a closure that takes its argument, f says nothing.
MCContracts == [g |-> "move"]

A == Ident("a")
B == Ident("b")
Let(x, e) == Stmt("let", x, e, <<>>)
Set(x, e) == Stmt("assign", x, e, <<>>)
Do(e) == Stmt("expr", "", e, <<>>)
Return(e) == Stmt("return", "", e, <<>>)
Idle == Call("idle", <<>>)
On(f, x) == Call(f, <<x>>)

Lets == {Let("a", New), Let("b", A), Let("b", New), Let("b", On("pass", A)), Let("b", On("read", A)),
         Let("b", Expr("nullish", "", <<A, New>>)), Let("b", Expr("items", "", <<A>>)),
         Let("f", Lambda("p", On("read", A))), Let("f", Lambda("p", On("change", A))),
         Let("f", Lambda("p", Expr("method", "put", <<Ident("p"), A>>))),
         Let("g", Lambda("p", On("pass", Ident("p"))))}
Acts == {Do(On("read", A)), Do(On("sink", A)), Do(On("change", A)), Do(On("read", B)), Do(On("sink", B)),
         Do(Call("both", <<A, B>>)), Do(Call("both", <<A, A>>)), Do(Call("f", <<>>)), Do(On("f", A)), Do(On("g", A)), Do(On("sink", Expr("field", "x", <<A>>))),
         Do(On("sink", Ident("f"))), Do(Expr("method", "show", <<A, B>>)), Do(Expr("add", "", <<A, B>>)),
         Set("a", New), Set("a", B), Set("b", A), Stmt("attach", "a", B, <<>>), Stmt("attach", "b", A, <<>>),
         Return(A), Return(On("read", A)), Do(Idle)}
Simple == Lets \cup Acts

\* Names are defined once, before they are used.
RECURSIVE Scoped(_, _)
Scoped(body, names) ==
  \/ body = <<>>
  \/ LET s == Head(body) IN
     /\ Mentions(s) \cap Names \subseteq names
     /\ s.k = "let" => s.x \notin names
     /\ Scoped(Tail(body), names \cup StmtDefines(s))

UpTo(S, n) == UNION {[1..m -> S] : m \in 0..n}
Endings == {Do(On("read", A)), Do(On("sink", A)), Do(On("read", B)), Do(Call("f", <<>>)), Set("a", B), Do(Idle), Return(A)}
Straight ==
  {[params |-> {}, body |-> <<Let("a", New)>> \o body] :
     body \in {b \in UpTo(Simple, 2) \cup {c \o d : c \in [1..2 -> Simple], d \in [1..1 -> Endings]} : Scoped(b, {"a"})}}
  \cup {[params |-> {"a"}, body |-> body] : body \in {b \in UpTo(Simple, 2) : Scoped(b, {"a"})}}

Inner == {Do(On("read", A)), Do(On("sink", A)), Set("a", New), Do(Idle), Return(New), Let("b", A)}
Short == UpTo(Inner, 1)
Long == {b \in UpTo(Inner, 2) : Scoped(b, {"a"})}
If(then, else) == Stmt("if", "", Idle, <<then, else>>)
Compound == {If(t, e) : t \in Long, e \in Short}
  \cup {Stmt("elif", "", Idle, <<t, <<If(u, e)>>>>) : t \in Short, u \in Short, e \in Short}
  \cup {Stmt(k, "", Idle, <<b>>) : k \in {"while", "block", "pointer"}, b \in Long}
  \cup {Stmt("for", "i", Idle, <<b>>) : b \in Short}
  \cup {Stmt("while", "", Idle, <<<<If(t, e)>>>>) : t \in Short, e \in Short}
Around == {<<>>, <<Do(On("read", A))>>, <<Do(On("sink", A))>>, <<Set("a", New)>>}
Nested == {[params |-> {}, body |-> <<Let("a", New)>> \o before \o <<c>> \o after] :
             before \in {<<>>, <<Do(On("sink", A))>>, <<Let("f", Lambda("p", On("read", A)))>>}, c \in Compound, after \in Around}
MCPrograms == Straight \cup Nested

\* Branches, with what follows.
MCBranches == {p \in Nested : p.body[2].k = "if"}
=============================================================================
