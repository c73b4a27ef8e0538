------------------------------- MODULE MCMono -------------------------------
(***************************************************************************)
(* Programs of Mono: the generic classes and functions below, one or two   *)
(* functions that use them, and one or two plain classes.                  *)
(***************************************************************************)
EXTENDS Mono

IntT == Built("Int", <<>>)
StrT == Built("String", <<>>)
Opt(t) == Built("Option", <<t>>)
ArrayOf(t) == Built("Array", <<t>>)
Box(t) == Class(<<"Box">>, <<t>>)
Pair(s, t) == Class(<<"Pair">>, <<s, t>>)
Tag(s, t) == Class(<<"Tag">>, <<s, t>>)
Node(t) == Class(<<"Node">>, <<t>>)
Ring(t) == Class(<<"Ring">>, <<t>>)
Grow(t) == Class(<<"Grow">>, <<t>>)
Plain(name) == Class(name, <<>>)
T == Var(1)
U == Var(2)

ClassItem(name, type_params, fields, methods) ==
  [k |-> "class", name |-> name, type_params |-> type_params, fields |-> fields, methods |-> methods]
FnItem(name, type_params, params, ret, body) ==
  [k |-> "fn", name |-> name, type_params |-> type_params, self |-> <<>>, params |-> params,
   ret |-> ret, body |-> body]
Method(self, name, ret, body) ==
  [k |-> "fn", name |-> name, type_params |-> <<>>, self |-> <<self>>, params |-> <<>>,
   ret |-> ret, body |-> body]
Use(k, name, t) == [k |-> k, name |-> name, t |-> t]
Call(f, args, ret) == Use("call", <<f>>, Built("Fn", Append(args, ret)))
Value(f, args, ret) == Use("value", <<f>>, Built("Fn", Append(args, ret)))
Stored(t) == Use("type", <<>>, t)

\* Type variables are numbered by the checker, those of a class before its methods' own.
Generics ==
  << ClassItem(<<"Box">>, <<1>>, <<T>>, <<Method(Box(T), <<"get">>, T, <<Call("id", <<T>>, T)>>)>>),
     ClassItem(<<"Pair">>, <<1, 2>>, <<T, U>>, <<>>),
     ClassItem(<<"Tag">>, <<1, 2>>, <<Box(U)>>, <<>>),
     ClassItem(<<"Node">>, <<1>>, <<T, Opt(Node(T))>>, <<Method(Node(T), <<"next">>, Opt(Node(T)), <<>>)>>),
     ClassItem(<<"Ring">>, <<1>>, <<T, Opt(Plain(<<"Ring">>))>>,
               <<Method(Ring(T), <<"next">>, Plain(<<"Ring">>), <<Use("method", <<"next">>, Plain(<<"Ring">>))>>)>>),
     FnItem(<<"id">>, <<1>>, <<T>>, T, <<>>),
     FnItem(<<"unbox">>, <<1>>, <<Box(T)>>, IntT, <<Stored(Box(T)), Use("method", <<"get">>, Box(T))>>),
     FnItem(<<"outer">>, <<1>>, <<Box(T)>>, IntT, <<Call("unbox", <<Box(T)>>, IntT)>>),
     FnItem(<<"ping">>, <<1>>, <<T>>, T, <<Call("pong", <<T, Opt(T)>>, T)>>),
     FnItem(<<"pong">>, <<1>>, <<T, Opt(T)>>, T, <<Stored(Pair(T, Opt(T))), Call("ping", <<T>>, T)>>),
     FnItem(<<"wrap">>, <<1>>, <<ArrayOf(T), Box(T)>>, IntT,
            <<Call("id", <<Box(T)>>, Box(T)), Call("id", <<ArrayOf(T)>>, ArrayOf(T))>>) >>

Growth == ClassItem(<<"Grow">>, <<1>>, <<Opt(Grow(Box(T)))>>, <<>>)

Args == {IntT, StrT, Box(IntT), Pair(IntT, StrT), Box(Box(IntT))}

Uses ==
  {Stored(t) : t \in {Tag(IntT, StrT), Tag(IntT, IntT), Node(IntT), Node(Node(StrT)), Ring(StrT), Opt(Pair(IntT, Box(StrT))),
                      Pair(Plain(<<"A", "_", "B">>), Plain(<<"C">>)),
                      Pair(Plain(<<"A">>), Plain(<<"B", "_", "C">>))}}
    \cup {Call("id", <<t>>, t) : t \in Args}
    \cup {Call("ping", <<t>>, t) : t \in Args}
    \cup {Call("unbox", <<Box(t)>>, IntT) : t \in {IntT, Box(IntT)}}
    \cup {Call("outer", <<Box(t)>>, IntT) : t \in {IntT, Box(IntT)}}
    \cup {Call("wrap", <<ArrayOf(t), Box(t)>>, IntT) : t \in {IntT, StrT}}
    \cup {Value("id", <<t>>, t) : t \in {IntT, Box(IntT)}}
    \cup {Use("method", <<"get">>, Box(t)) : t \in {IntT, StrT}}

Names4 == << <<"A">>, <<"C">>, <<"A", "_", "B">>, <<"B", "_", "C">> >>
Smalls == [i \in 1..4 |-> ClassItem(Names4[i], <<>>, <<>>, <<>>)]
Holders == { <<>>, <<ClassItem(<<"Holder">>, <<>>, <<Box(IntT)>>, <<>>)>> }
Main(body) == FnItem(<<"main">>, <<>>, <<>>, IntT, body)

MCPrograms ==
  {<<Main(body)>> \o Generics \o Smalls \o h : body \in {<<a, b>> : a, b \in Uses}, h \in Holders}
    \cup {Generics \o Smalls \o <<Main(<<a>>)>> : a \in Uses}
    \cup {Generics \o <<Growth, Main(<<a>>)>> : a \in {Stored(Grow(IntT)), Stored(Node(Grow(StrT)))}}
=============================================================================
