-------------------------- MODULE RecursiveDescent --------------------------
(***************************************************************************)
(* The machine under the Draton parser, crates/draton-parser/src:          *)
(* a cursor over the tokens, the calls of the parsing functions, and the   *)
(* errors they record.  A parsing function is a sequence of instructions,  *)
(* one per call it makes on the cursor or on another parsing function;     *)
(* module Parser has them.  It returns "some" or "none", as the Option of  *)
(* the code; the body of a loop may also return "stop" (break).            *)
(*                                                                         *)
(* Tokens are known by their kind only.  The text is an opening and up to  *)
(* Free tokens that are chosen when the cursor, or one of the two          *)
(* lookaheads, gets to them.  What is built is left out.                   *)
(***************************************************************************)
EXTENDS Naturals, Sequences, FiniteSets

CONSTANTS
  Kinds,     \* the kinds of tokens, "eof" not among them
  Openings,  \* the beginnings of the text
  Free,      \* how many tokens follow at most
  Code,      \* the parsing functions: a sequence of instructions for each name
  Start      \* the one that is called first

Open == {"(", "[", "{"}
Closer == [k \in Open |-> CASE k = "(" -> ")" [] k = "[" -> "]" [] k = "{" -> "}"]

\* The instructions; those that guard are followed by the one they guard.
Need(k) == [op |-> "need", kinds |-> {k}]        \* expect(k) or consume_ident, else return None
Want(k) == [op |-> "want", kinds |-> {k}]        \* let _ = expect(k)
May(k) == [op |-> "may", kinds |-> {k}]          \* let _ = match_kind(k)
When(k) == [op |-> "when", kinds |-> {k}]        \* guard: if match_kind(k)
StopUnless(k) == [op |-> "stop_unless", kinds |-> {k}]  \* if !match_kind(k) { break; }
IfAt(K) == [op |-> "if", kinds |-> K]            \* guard: if the current token is in K
IfNot(K) == [op |-> "if", kinds |-> (Kinds \cup {"eof"}) \ K]
StopAt(K) == [op |-> "stop_at", kinds |-> K]     \* if the current token is in K { break; }
Docs == [op |-> "docs"]                          \* skip_doc_comments()
Take == [op |-> "take"]                          \* advance()
Skip == [op |-> "skip"]                          \* advance(), over what is not parsed
Sub(f) == [op |-> "sub", call |-> f]             \* f()?
Try(f) == [op |-> "try", call |-> f]             \* f(), whatever it returns
Goto(f) == [op |-> "goto", call |-> f]           \* return f()
IfFails(f) == [op |-> "if_fails", call |-> f]    \* guard: if f().is_none()
IfStuck(f) == [op |-> "if_stuck", call |-> f]    \* guard: the same, and f took no token
Pick(table, other) == [op |-> "pick", table |-> table, other |-> other]  \* match current_kind()
Each(K, f) == [op |-> "each", kinds |-> K, call |-> f]   \* while !is_eof() and not at K { f()? }
While(K, f) == [op |-> "while", kinds |-> K, call |-> f] \* while, comments skipped, at K { f()? }
Note == [op |-> "note"]                          \* errors.push
Fail == [op |-> "fail"]                          \* errors.push, return None
Doubt == [op |-> "doubt"]                        \* the same, if the tree is not as expected
Maybe == [op |-> "maybe"]                        \* guard: if the tree is as expected
IfClassLiteral == [op |-> "looks_like", what |-> "class_literal"] \* guard: looks_like_class_literal()
IfTypeArgs == [op |-> "looks_like", what |-> "type_args"]         \* guard: looks_like_type_arg_list()
Surrender(f) == [op |-> "surrender", call |-> f] \* f(), return None

Guards == {"when", "if", "if_fails", "if_stuck", "maybe", "looks_like"}
SkipsDocs == {"need", "want", "may", "when", "stop_unless", "docs", "while"}
Calls == {"sub", "try", "if_fails", "if_stuck", "each", "while", "surrender"}

Instructions == UNION {{Code[f][i] : i \in DOMAIN Code[f]} : f \in DOMAIN Code}

\* The calls name functions, and None is returned without a new error only where one
\* has just been recorded.
ASSUME CodeAssumption ==
  /\ Start \in DOMAIN Code
  /\ Code \in [DOMAIN Code -> Seq(Instructions)]
  /\ \A f \in DOMAIN Code : \A i \in 1..Len(Code[f]) :
       LET step == Code[f][i] IN
       /\ step.op \in Calls \cup {"goto"} => step.call \in DOMAIN Code
       /\ step.op = "pick" =>
            step.other \in DOMAIN Code /\ \A k \in DOMAIN step.table : step.table[k] \in DOMAIN Code
       /\ step.op = "surrender" =>
            /\ i > 1 /\ Code[f][i - 1].op \in {"if_fails", "note"}
            /\ i > 2 => Code[f][i - 2].op \notin Guards
ASSUME TextAssumption == Openings \subseteq Seq(Kinds) \ {<<>>} /\ Free \in Nat /\ "eof" \notin Kinds

VARIABLES
  look,   \* the kind of the current token
  ahead,  \* the kinds known of the tokens after it
  left,   \* how many tokens may follow those, the eof counted
  stack,  \* the calls: a function, the instruction it is at, where its call began
  ret,    \* what the last call returned, "-" when its caller has taken note
  told,   \* how many of the calls, from the first one on, saw an error since they began
  open    \* history: the closers due for the brackets parsed, until the first error

vars == <<look, ahead, left, stack, ret, told, open>>
cursor == <<look, ahead, left>>

Frame(f) == [f |-> f, at |-> 1, from |-> 0]

Init ==
  /\ \E o \in Openings : look = Head(o) /\ ahead = Tail(o)
  /\ left = Free + 1
  /\ stack = <<Frame(Start)>>
  /\ ret = "-"
  /\ told = 0
  /\ open = <<>>

-----------------------------------------------------------------------------
(* The cursor *)

\* A token that is not known yet; the last one is the eof.
Choice(k) ==
  /\ k \in IF left = 1 THEN {"eof"} ELSE Kinds \cup {"eof"}
  /\ left' = IF k = "eof" THEN 0 ELSE left - 1

\* advance: the cursor stays on the last token.
Advance ==
  \/ look = "eof" /\ UNCHANGED cursor
  \/ look # "eof" /\ ahead # <<>> /\ look' = Head(ahead) /\ ahead' = Tail(ahead) /\ UNCHANGED left
  \/ look # "eof" /\ ahead = <<>> /\ Choice(look') /\ UNCHANGED ahead

\* How many tokens there may be from the cursor on: less whenever it has moved.
Rest == Len(ahead) + left

\* The brackets with the current token parsed.
Counted ==
  IF told > 0 THEN <<>>
  ELSE IF look \in Open THEN <<Closer[look]>> \o open
  ELSE IF \E b \in Open : Closer[b] = look
         THEN IF open # <<>> /\ Head(open) = look THEN Tail(open) ELSE <<"none">> \o open
  ELSE open

-----------------------------------------------------------------------------
(* The instructions *)

Top == stack[Len(stack)]
Body == Code[Top.f]
Running == stack # <<>> /\ ret = "-"
\* The instruction that the last call is at, if it executes one.
Current == IF Running /\ Top.at <= Len(Body) THEN {Body[Top.at]} ELSE {}

Go(n) == stack' = [stack EXCEPT ![Len(stack)].at = @ + n]
Step == Go(1)
Hop == Go(2)
Leave(value) == stack' = SubSeq(stack, 1, Len(stack) - 1) /\ ret' = value
Push(f) == stack' = Append(stack, Frame(f))
Instead(f) == stack' = [stack EXCEPT ![Len(stack)] = Frame(f)]
Error == told' = Len(stack) /\ open' = <<>>
Silent == UNCHANGED <<told, open>>

SkipDoc(i) ==
  i.op \in SkipsDocs /\ look = "doc" /\ Advance /\ UNCHANGED <<stack, ret, told, open>>

Matching == {"need", "want", "may", "when", "stop_unless"}
Matched(i) ==
  /\ i.op \in Matching /\ look \in i.kinds
  /\ Advance /\ open' = Counted /\ Step /\ UNCHANGED <<ret, told>>

Missed(i, op) == i.op = op /\ look # "doc" /\ look \notin i.kinds /\ UNCHANGED cursor
\* Mutant of NeedMissed: the error is not recorded.
NeedMissedSilently(i) == Missed(i, "need") /\ Silent /\ Leave("none")
NeedMissed(i) == Missed(i, "need") /\ Error /\ Leave("none")
\* Mutant of WantMissed: the error is not recorded.
WantMissedSilently(i) == Missed(i, "want") /\ Silent /\ Step /\ UNCHANGED ret
WantMissed(i) == Missed(i, "want") /\ Error /\ Step /\ UNCHANGED ret
MayMissed(i) == Missed(i, "may") /\ Step /\ Silent /\ UNCHANGED ret
WhenMissed(i) == Missed(i, "when") /\ Hop /\ Silent /\ UNCHANGED ret
StopUnlessMissed(i) == Missed(i, "stop_unless") /\ Leave("stop") /\ Silent

DoIfAt(i) ==
  /\ i.op = "if"
  /\ IF look \in i.kinds THEN Step ELSE Hop
  /\ UNCHANGED <<cursor, ret, told, open>>

DoStopAt(i) ==
  /\ i.op = "stop_at"
  /\ IF look \in i.kinds THEN Leave("stop") ELSE Step /\ UNCHANGED ret
  /\ UNCHANGED <<cursor, told, open>>

DoDocs(i) == i.op = "docs" /\ look # "doc" /\ Step /\ UNCHANGED <<cursor, ret, told, open>>
\* Mutant of DoTake: the token is only looked at.
DoTakeNothing(i) == i.op = "take" /\ UNCHANGED cursor /\ Step /\ UNCHANGED <<ret, told, open>>
DoTake(i) == i.op = "take" /\ Advance /\ open' = Counted /\ Step /\ UNCHANGED <<ret, told>>
DoSkip(i) == i.op = "skip" /\ Advance /\ Step /\ UNCHANGED <<ret, told, open>>
DoNote(i) == i.op = "note" /\ Error /\ Step /\ UNCHANGED <<cursor, ret>>
DoFail(i) == i.op \in {"fail", "doubt"} /\ Error /\ Leave("none") /\ UNCHANGED cursor
DoMaybe(i) ==
  /\ \/ i.op \in {"maybe", "doubt"} /\ Step
     \/ i.op = "maybe" /\ Hop
  /\ UNCHANGED <<cursor, ret, told, open>>

\* looks_like_class_literal: up to two tokens after the brace are looked at.
\* looks_like_type_arg_list: all up to the one after the bracket's partner, the
\* first place ahead with more closing than opening brackets.
Among(k, n) == Cardinality({m \in 1..n : ahead[m] = k})
Closings == {n \in DOMAIN ahead : Among("]", n) > Among("[", n)}
NeedsToken(what) ==
  /\ left > 0
  /\ \/ what = "class_literal" /\ look = "{" /\ (ahead = <<>> \/ ahead = <<"ident">>)
     \/ what = "type_args" /\ look = "[" /\ Closings \subseteq {Len(ahead)}
LooksLike(what) ==
  \/ /\ what = "class_literal" /\ look = "{" /\ ahead # <<>>
     /\ \/ ahead[1] = "}"
        \/ Len(ahead) > 1 /\ ahead[1] = "ident" /\ ahead[2] = ":"
  \/ /\ what = "type_args" /\ look = "["
     /\ \E n \in Closings : /\ \A m \in Closings : n <= m
                            /\ n < Len(ahead) /\ ahead[n + 1] = "{"
LookAhead(i) ==
  /\ i.op = "looks_like" /\ NeedsToken(i.what)
  /\ \E k \in Kinds \cup {"eof"} : Choice(k) /\ ahead' = Append(ahead, k)
  /\ UNCHANGED <<look, stack, ret, told, open>>
DoIfLooksLike(i) ==
  /\ i.op = "looks_like" /\ ~NeedsToken(i.what)
  /\ IF LooksLike(i.what) THEN Step ELSE Hop
  /\ UNCHANGED <<cursor, ret, told, open>>

-----------------------------------------------------------------------------
(* Calls and returns *)

DoCall(i) ==
  /\ \/ i.op \in {"sub", "try", "if_fails", "surrender"}
     \/ i.op = "each" /\ look \notin i.kinds \cup {"eof"}
     \/ i.op = "while" /\ look \in i.kinds
  /\ Push(i.call)
  /\ UNCHANGED <<cursor, ret, told, open>>

CallMarked(i) ==
  /\ i.op = "if_stuck"
  /\ stack' = Append([stack EXCEPT ![Len(stack)].from = Rest], Frame(i.call))
  /\ UNCHANGED <<cursor, ret, told, open>>

LoopEnds(i) ==
  /\ \/ i.op = "each" /\ look \in i.kinds \cup {"eof"}
     \/ i.op = "while" /\ look \notin i.kinds \cup {"doc"}
  /\ Step /\ UNCHANGED <<cursor, ret, told, open>>

DoGoto(i) ==
  /\ \/ i.op = "goto" /\ Instead(i.call)
     \/ i.op = "pick" /\ Instead(IF look \in DOMAIN i.table THEN i.table[look] ELSE i.other)
  /\ UNCHANGED <<cursor, ret, told, open>>

Return ==
  /\ Running /\ Top.at > Len(Body) /\ Leave("some")
  /\ UNCHANGED <<cursor, told, open>>

Returned(ops, values) == ret \in values /\ Body[Top.at].op \in ops
Resume ==
  /\ told' = IF told > Len(stack) THEN Len(stack) ELSE told
  /\ UNCHANGED <<cursor, open>>
GoOn ==
  /\ \/ Returned({"sub"}, {"some"}) /\ Step
     \/ Returned({"try"}, {"some", "none"}) /\ Step
     \/ Returned({"if_fails", "if_stuck"}, {"some"}) /\ Hop
     \/ Returned({"if_fails"}, {"none"}) /\ Step
     \/ Returned({"if_stuck"}, {"none"}) /\ IF Top.from = Rest THEN Step ELSE Hop
     \/ Returned({"each", "while"}, {"some"}) /\ UNCHANGED stack
     \/ Returned({"each", "while"}, {"stop"}) /\ Step
  /\ ret' = "-" /\ Resume
PassOn ==
  /\ \/ Returned({"sub", "each", "while"}, {"none"})
     \/ Returned({"surrender"}, {"some", "none"})
  /\ Leave("none") /\ Resume

Execute(i) ==
  \/ SkipDoc(i) \/ Matched(i)
  \/ NeedMissed(i) \/ WantMissed(i) \/ MayMissed(i) \/ WhenMissed(i) \/ StopUnlessMissed(i)
  \/ DoIfAt(i) \/ DoStopAt(i) \/ DoDocs(i) \/ DoTake(i) \/ DoSkip(i)
  \/ DoNote(i) \/ DoFail(i) \/ DoMaybe(i) \/ LookAhead(i) \/ DoIfLooksLike(i)
  \/ DoCall(i) \/ CallMarked(i) \/ LoopEnds(i) \/ DoGoto(i)

Next ==
  \/ \E i \in Current : Execute(i)
  \/ Return
  \/ stack # <<>> /\ (GoOn \/ PassOn)

\* The parser is one sequential computation: while it can step it does.
Spec == Init /\ [][Next]_vars /\ WF_vars(Next)

-----------------------------------------------------------------------------
(* Properties *)

Tokens == Kinds \cup {"eof"}
Frames == [f : DOMAIN Code, at : Nat \ {0}, from : Nat]

TypeOK ==
  /\ look \in Tokens /\ ahead \in Seq(Tokens) /\ left \in 0..(Free + 1)
  /\ stack \in Seq(Frames)
  /\ ret \in {"-", "some", "none", "stop"}
  /\ told \in Nat
  /\ open \in Seq({Closer[b] : b \in Open} \cup {"none"})

\* None is never silent: when a parsing function returns None, an error was recorded
\* since it was called, so what its callers drop without a word has been reported.
NoneIsReported == ret = "none" => told > Len(stack)

\* In a text without errors the brackets that were parsed are in pairs, whatever
\* recovery and lookahead did: no closing one is missing, left over or of another
\* kind.  What is passed over unparsed is not looked at: the body of an @asm block
\* and the type arguments of a generic class (Box[(]{} and @asm { ( } are accepted).
Parsed == stack = <<>>
AcceptedIsBalanced == Parsed /\ told = 0 => open = <<>>
=============================================================================
