------------------------------ MODULE CodeFlow ------------------------------
(***************************************************************************)
(* What can be told from a code of RecursiveDescent without running it: at *)
(* each instruction of each parsing function, and at its end, a fact about *)
(* every call that gets there.  Known gives the facts, FlowAssumption says *)
(* that they follow from each other along the instructions.  What they     *)
(* imply of the texts that are accepted and of the depth of calls is a     *)
(* theorem for texts of any length; that they hold of the parser is a      *)
(* finite check of its code.                                               *)
(***************************************************************************)
EXTENDS RecursiveDescent

CONSTANTS
  Known,          \* for each function, the fact at each of its instructions and at its end
  Level,          \* for each function, how deep the calls go that it makes and that take no token
  CallsPerToken,  \* more than each of these
  Length          \* no text has more tokens, the eof counted

Closers == {Closer[b] : b \in Open}

\* due: the closers that the call may have come to owe, if there was no error so far;
\* shown: what the current token may be;  moved: the call has surely taken a token.
Facts == [due : SUBSET Seq(Closers), shown : SUBSET Tokens, moved : BOOLEAN]

\* Whatever a allows b allows; no call gets to where no token can be.
Within(a, b) ==
  a.shown = {} \/ (a.due \subseteq b.due /\ a.shown \subseteq b.shown /\ (b.moved => a.moved))

-----------------------------------------------------------------------------
(* From one fact to the next *)

At(a, K) == [a EXCEPT !.shown = @ \cap K]
NotAt(a, K) == [a EXCEPT !.shown = @ \ K]
Anywhere(a) == [a EXCEPT !.shown = Tokens]
Spoilt(a) == [a EXCEPT !.due = {}]

\* A token is taken: a closer only if it is the one that the call itself owes.
MayTake(a) == \A k \in a.shown \cap Closers : \A d \in a.due : d # <<>> /\ Head(d) = k
Owed(d, k) == IF k \in Open THEN <<Closer[k]>> \o d ELSE IF k \in Closers THEN Tail(d) ELSE d
Passed(a) == [due |-> a.due, shown |-> Tokens, moved |-> a.moved \/ "eof" \notin a.shown]
Taken(a) == [Passed(a) EXCEPT !.due = {Owed(d, k) : d \in a.due, k \in a.shown}]

\* Where a call may go from instruction s, a known there: how many instructions on,
\* and what is known then.
Leads(s, a) ==
  CASE s.op = "need" -> {<<1, Taken(At(a, s.kinds))>>}
    [] s.op = "want" -> {<<1, Taken(At(a, s.kinds))>>, <<1, Spoilt(NotAt(a, s.kinds))>>}
    [] s.op = "may" -> {<<1, Taken(At(a, s.kinds))>>, <<1, NotAt(a, s.kinds)>>}
    [] s.op = "when" -> {<<1, Taken(At(a, s.kinds))>>, <<2, NotAt(a, s.kinds)>>}
    [] s.op = "stop_unless" -> {<<1, Taken(At(a, s.kinds))>>}
    [] s.op = "if" -> {<<1, At(a, s.kinds)>>, <<2, NotAt(a, s.kinds)>>}
    [] s.op = "stop_at" -> {<<1, NotAt(a, s.kinds)>>}
    [] s.op = "take" -> {<<1, Taken(a)>>}
    [] s.op = "skip" -> {<<1, Passed(a)>>}
    [] s.op = "note" -> {<<1, Spoilt(a)>>}
    [] s.op \in {"docs", "doubt"} -> {<<1, a>>}
    [] s.op \in {"maybe", "looks_like"} -> {<<1, a>>, <<2, a>>}
    [] s.op \in {"sub", "try"} -> {<<1, Anywhere(a)>>}
    [] s.op \in {"if_fails", "if_stuck"} -> {<<1, Spoilt(Anywhere(a))>>, <<2, Anywhere(a)>>}
    [] s.op \in {"each", "while"} -> {<<0, Anywhere(a)>>, <<1, Anywhere(a)>>}
    [] OTHER -> {}

\* What is known where s calls its function.
AtCall(s, a) ==
  CASE s.op = "each" -> NotAt(a, s.kinds \cup {"eof"})
    [] s.op = "while" -> At(a, s.kinds)
    [] OTHER -> a
Fresh(a) == [due |-> {<<>> : d \in a.due}, shown |-> a.shown, moved |-> FALSE]

\* The functions that s may go on as.
Successors(s, a) ==
  IF s.op = "goto" THEN {<<s.call, a>>}
  ELSE IF s.op # "pick" THEN {}
  ELSE {<<IF k \in DOMAIN s.table THEN s.table[k] ELSE s.other, At(a, {k})>> : k \in a.shown}

FlowsWell(f, i) ==
  LET s == Code[f][i]
      a == Known[f][i] IN
  /\ \A x \in Leads(s, a) :
       i + x[1] <= Len(Code[f]) + 1 /\ Within(x[2], Known[f][i + x[1]])
  /\ s.op \in SkipsDocs /\ "doc" \in a.shown => a.shown = Tokens
  /\ s.op \in Matching => MayTake(At(a, s.kinds))
  /\ s.op = "take" => MayTake(a)
  /\ s.op \in {"stop_unless", "stop_at"} => a.due \subseteq {<<>>}
  /\ s.op \in Calls =>
       /\ Within(Fresh(AtCall(s, a)), Known[s.call][1])
       /\ a.moved \/ Level[s.call] < Level[f]
  /\ \A x \in Successors(s, a) :
       /\ Within([x[2] EXCEPT !.moved = FALSE], Known[x[1]][1])
       /\ a.moved \/ Level[x[1]] <= Level[f]

ASSUME FlowAssumption ==
  /\ CallsPerToken \in Nat
  /\ Level \in [DOMAIN Code -> 0..(CallsPerToken - 1)]
  /\ Known \in [DOMAIN Code -> Seq(Facts)]
  /\ Within([due |-> {<<>>}, shown |-> Kinds, moved |-> FALSE], Known[Start][1])
  /\ \A f \in DOMAIN Code :
       /\ Len(Known[f]) = Len(Code[f]) + 1
       /\ Known[f][Len(Code[f]) + 1].due \subseteq {<<>>}
       /\ \A i \in 1..Len(Code[f]) : FlowsWell(f, i)

ASSUME LengthAssumption == Length \in Nat /\ \A o \in Openings : Len(o) + Free + 1 <= Length

-----------------------------------------------------------------------------
(* Properties *)

\* No function calls itself again before a token is taken: the depth of the calls
\* is bounded by the number of tokens.
DepthBounded == Len(stack) <= CallsPerToken * (Length - Rest)
=============================================================================
