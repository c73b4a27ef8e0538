------------------------------ MODULE MCParser ------------------------------
(***************************************************************************)
(* Every token, after openings that lead into each of the parser's loops.  *)
(* The facts of CodeFlow are computed from the code.                       *)
(***************************************************************************)
EXTENDS Parser, CodeFlow

MCKinds == ItemStarts \cup (StmtStops \ {"}"}) \cup
  {"layer", "mut", "else", "in", "match", "lambda", "chan", "as", "from", "extends", "implements",
   "ident", "lit", "badlit", "badfstr", "(", ")", "[", "]", "{", "}", ",", ":", ";", "=", "++",
   ".", "->", "=>", "??", "-", "!", "op", "doc", "junk"}

\* Into the items, the members, the statements and the expressions.
Fn == <<"fn", "ident", "(", ")", "{">>
Class == <<"class", "ident", "{">>
Const == <<"const", "ident", "=">>
Items == {<<k>> : k \in ItemStarts \cup {"layer", "doc", "ident", "elif"}} \cup
  {<<"@type", "{">>, <<"@extern", "lit", "{">>, <<"interface", "ident", "{">>, <<"interface", "ident", "{", "fn", "ident", "(", ")">>, <<"enum", "ident", "{", "ident">>,
   <<"import", "{", "ident", "as", "ident", "}">>, <<"error", "ident", "(", "ident", ":">>,
   <<"fn", "ident", "[", "ident">>, <<"fn", "ident", "(", ")", "->", "fn", "(">>,
   <<"class", "ident", "extends", "ident", "implements", "ident">>, <<"layer", "ident", "{", "{">>}
Members == {Class, Class \o <<"let", "mut", "ident", ":", "ident", "[">>, Class \o <<"layer", "ident", "{">>,
            Class \o <<"layer", "ident", "{", "layer", "ident", "{">>}
Stmts == {Fn \o o : o \in {<<>>, <<"let", "(", "ident">>, <<"let", "ident", ":">>, <<"if", "(", "ident">>,
            <<"if", "lit", "{", "}">>, <<"if", "lit", "{", "}", "else">>, <<"for", "ident", "in">>, <<"while", "lit", "{">>, <<"@asm", "{">>,
            <<"@gc_config", "{", "ident", "=">>, <<"ident", "=">>, <<"return", "ident", "{", "ident", ":">>}}
Exprs == {Const \o o : o \in {<<>>, <<"match", "lit", "{", "lit", "=>">>, <<"{", "ident", ":", "ident">>,
            <<"{", "ident", ",">>, <<"(", "ident", ",">>, <<"lambda", "ident">>, <<"chan", "[", "ident">>,
            <<"lit", "as", "(", "ident">>, <<"[", "lit">>, <<"ident", "(", "ident">>, <<"ident", "[", "(", "]">>,
            <<"ident", "[", "[", "ident", "]">>}}
MCOpenings == Items \cup Members \cup Stmts \cup Exprs

-----------------------------------------------------------------------------
(* The facts: the least ones that follow from the beginning of the first function *)

Unreached == [due |-> {}, shown |-> {}, moved |-> TRUE]
Joined(facts) ==
  [due |-> UNION {a.due : a \in facts}, shown |-> UNION {a.shown : a \in facts},
   moved |-> \A a \in facts : a.moved]

\* What an instruction hands on, and to whom: <<function, instruction, fact>>.
HandedOn(f, i, a) ==
  LET s == ParserCode[f][i] IN
  IF a.shown = {} THEN {}
  ELSE
  {x \in {<<f, i + y[1], y[2]>> : y \in Leads(s, a)}
           \cup {<<y[1], 1, [y[2] EXCEPT !.moved = FALSE]>> : y \in Successors(s, a)}
           \cup (IF s.op \in Calls THEN {<<s.call, 1, Fresh(AtCall(s, a))>>} ELSE {})
           \cup (IF s.op \in SkipsDocs /\ "doc" \in a.shown THEN {<<f, i, Anywhere(a)>>} ELSE {}) :
     x[3].shown # {}}

\* One round: what is known of the functions in fresh is handed on.  (TLC keeps the
\* values of a function it has compared.)
Settle(p) ==
  LET handed == UNION {UNION {HandedOn(f, i, p.known[f][i]) : i \in DOMAIN ParserCode[f]} : f \in p.fresh}
      to == [f \in DOMAIN ParserCode |-> {x \in handed : x[1] = f}]
      next == [f \in DOMAIN ParserCode |->
                 IF to[f] = {} THEN p.known[f]
                 ELSE [i \in DOMAIN p.known[f] |->
                         Joined({p.known[f][i]} \cup {x[3] : x \in {x \in to[f] : x[2] = i}})]] IN
  IF next = p.known THEN [p EXCEPT !.fresh = {}]
  ELSE [known |-> next, fresh |-> {f \in DOMAIN next : next[f] # p.known[f]}]

Beginning ==
  [known |-> [f \in DOMAIN ParserCode |-> [i \in 1..(Len(ParserCode[f]) + 1) |->
      IF f = "parse" /\ i = 1 THEN [due |-> {<<>>}, shown |-> Tokens, moved |-> FALSE] ELSE Unreached]],
   fresh |-> {"parse"}]

\* The levels: the longest chains of calls without a token.
Below(known, f) ==
  UNION {LET s == ParserCode[f][i]
             a == known[f][i] IN
         IF a.moved THEN {}
         ELSE {<<x[1], 0>> : x \in Successors(s, a)} \cup (IF s.op \in Calls THEN {<<s.call, 1>>} ELSE {}) :
           i \in DOMAIN ParserCode[f]}
Longest(S) == IF S = {} THEN 0 ELSE CHOOSE n \in S : \A m \in S : m <= n

\* The fixpoint is reached within Rounds, the levels within Rungs, or the assumption fails.
Rounds == 40
Rungs == 12
Flow ==
  LET after[n \in 0..Rounds] == IF n = 0 THEN Beginning ELSE Settle(after[n - 1])
      known == after[Rounds].known
      below == [f \in DOMAIN ParserCode |-> Below(known, f)]
      level[n \in 0..Rungs] ==
        IF n = 0 THEN [f \in DOMAIN below |-> 0]
        ELSE LET last == level[n - 1]
                 next == [f \in DOMAIN below |-> Longest({last[x[1]] + x[2] : x \in below[f]})] IN
             IF next = last THEN last ELSE next IN
  [known |-> known,
   level |-> level[Rungs]]

\* (TLC evaluates a definition without parameters once, and a constant each time.)
MCCode == ParserCode
MCKnown == Flow.known
MCLevel == Flow.level
=============================================================================
