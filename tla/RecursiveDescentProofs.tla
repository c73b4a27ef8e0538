----------------------- MODULE RecursiveDescentProofs -----------------------
(***************************************************************************)
(* Proofs about RecursiveDescent, for every code that CodeAssumption       *)
(* admits, every set of tokens and every text.                             *)
(*                                                                         *)
(* None is never returned without an error.  The inductive invariant,      *)
(* Calling, says of the calls that every caller is at an instruction, and  *)
(* that one about to return None by itself (surrender) has seen an error.  *)
(*                                                                         *)
(* For a code about which FlowAssumption holds: a text without errors has  *)
(* its brackets in pairs, and the calls are no deeper than the tokens      *)
(* allow.  The inductive invariant, Flowing, says that what is known of    *)
(* the place of each call holds, that the closers due are split among the  *)
(* calls, each of which owes what is known there, and that a call at depth *)
(* p leaves tokens enough for the calls it may make before it takes one.   *)
(***************************************************************************)
EXTENDS CodeFlow, Integers, SequenceTheorems, TLAPS

AtStep(c) == c.at <= Len(Code[c.f])
Surrendering(c) == AtStep(c) /\ Code[c.f][c.at].op = "surrender"

Values == {"-", "some", "none", "stop"}

Calling ==
  /\ stack \in Seq(Frames) /\ told \in Nat /\ ret \in Values
  /\ ret = "none" => told > Len(stack)
  /\ \A j \in 1..Len(stack) :
       /\ j < Len(stack) \/ ret # "-" => AtStep(stack[j])
       /\ Surrendering(stack[j]) => told >= j

-----------------------------------------------------------------------------
(* The code *)

\* A call begins at an instruction that does not return None by itself.
LEMMA StartsWell ==
  ASSUME NEW f \in DOMAIN Code
  PROVE  Frame(f) \in Frames /\ ~Surrendering(Frame(f))
<1>1. Frame(f) \in Frames
  BY DEF Frame, Frames
<1>2. Len(Code[f]) \in Nat
  BY CodeAssumption
<1>3. 1 \in 1..Len(Code[f]) => Code[f][1].op # "surrender"
  BY CodeAssumption
<1> QED
  BY <1>1, <1>2, <1>3 DEF Frame, Surrendering, AtStep

\* What is called has code.
LEMMA CalledHasCode ==
  ASSUME NEW c \in Frames, AtStep(c)
  PROVE  LET i == Code[c.f][c.at] IN
         /\ i.op \in Calls \cup {"goto"} => i.call \in DOMAIN Code
         /\ i.op = "pick" => i.other \in DOMAIN Code
                             /\ \A k \in DOMAIN i.table : i.table[k] \in DOMAIN Code
<1>1. c.f \in DOMAIN Code /\ c.at \in 1..Len(Code[c.f])
  BY CodeAssumption DEF Frames, AtStep
<1> QED
  BY <1>1, CodeAssumption

\* An instruction that returns None by itself is reached from the one before it only,
\* which has just recorded an error or seen a call that did.
LEMMA SurrenderReached ==
  ASSUME NEW c \in Frames, AtStep(c), NEW n \in {1, 2},
         Surrendering([c EXCEPT !.at = @ + n])
  PROVE  /\ n = 1 => Code[c.f][c.at].op \in {"if_fails", "note"}
         /\ n = 2 => Code[c.f][c.at].op \notin Guards
<1> DEFINE k == c.at + n
<1>1. c.f \in DOMAIN Code /\ c.at \in Nat \ {0} /\ Len(Code[c.f]) \in Nat
  BY CodeAssumption DEF Frames
<1>2. k \in 1..Len(Code[c.f]) /\ Code[c.f][k].op = "surrender"
  BY <1>1 DEF Frames, Surrendering, AtStep
<1>3. Code[c.f][k - 1].op \in {"if_fails", "note"} /\ (k > 2 => Code[c.f][k - 2].op \notin Guards)
  BY <1>1, <1>2, CodeAssumption
<1>4. CASE n = 1
  BY <1>1, <1>3, <1>4
<1>5. CASE n = 2
  <2>1. k > 2 /\ k - 2 = c.at
    BY <1>1, <1>5
  <2> QED
    BY <1>3, <1>5, <2>1
<1> QED
  BY <1>4, <1>5

-----------------------------------------------------------------------------
(* The effects of a step on the calls *)

LEMMA TopType ==
  ASSUME Calling, stack # <<>>
  PROVE  /\ Len(stack) \in Nat \ {0} /\ Top \in Frames /\ Top.f \in DOMAIN Code
         /\ Len(stack) \in 1..Len(stack) /\ Top = stack[Len(stack)]
<1>1. stack \in Seq(Frames)
  BY DEF Calling
<1>2. Len(stack) \in Nat \ {0} /\ Len(stack) \in 1..Len(stack)
  BY <1>1
<1>3. stack[Len(stack)] \in Frames
  BY <1>1, <1>2
<1> QED
  BY <1>2, <1>3 DEF Top, Frames

\* The last call goes on by n instructions.
LEMMA GoKeeps ==
  ASSUME Calling, stack # <<>>, NEW n \in {1, 2}, Go(n), ret' = "-",
         told' = told \/ told' = Len(stack),
         Surrendering([Top EXCEPT !.at = @ + n]) => told' = Len(stack)
  PROVE  Calling'
<1> USE TopType
<1> DEFINE c == [Top EXCEPT !.at = @ + n]
<1>1. c \in Frames
  BY DEF Frames
<1>2. stack' = [stack EXCEPT ![Len(stack)] = c]
  BY DEF Go, Top
<1>3. stack' \in Seq(Frames) /\ Len(stack') = Len(stack)
  BY <1>1, <1>2 DEF Calling
<1>4. told' \in Nat /\ ret' \in Values
  BY DEF Calling, Values
<1>5. ASSUME NEW j \in 1..Len(stack')
      PROVE  /\ j < Len(stack') => AtStep(stack'[j])
             /\ Surrendering(stack'[j]) => told' >= j
  <2>1. CASE j = Len(stack)
    <3>1. stack'[j] = c
      BY <1>2, <1>3, <2>1 DEF Calling
    <3> QED
      BY <1>3, <2>1, <3>1
  <2>2. CASE j < Len(stack)
    <3>1. stack'[j] = stack[j] /\ j \in 1..Len(stack)
      BY <1>2, <1>3, <2>2 DEF Calling
    <3> QED
      BY <1>3, <2>2, <3>1 DEF Calling
  <2> QED
    BY <1>3, <2>1, <2>2
<1>6. /\ \A j \in 1..Len(stack') : j < Len(stack') => AtStep(stack'[j])
      /\ \A j \in 1..Len(stack') : Surrendering(stack'[j]) => told' >= j
  BY <1>5
<1> QED
  BY <1>3, <1>4, <1>6 DEF Calling, Surrendering, AtStep

\* The last call returns; if it returns None it has seen an error.
LEMMA LeaveKeeps ==
  ASSUME Calling, stack # <<>>, NEW v \in Values, Leave(v),
         told' = told \/ told' = Len(stack),
         v = "none" => told' >= Len(stack)
  PROVE  Calling'
<1> USE TopType
<1>1. /\ stack' \in Seq(Frames) /\ Len(stack') = Len(stack) - 1
      /\ \A j \in 1..Len(stack') : stack'[j] = stack[j]
  <2> DEFINE n == Len(stack) - 1
  <2>1. stack' = SubSeq(stack, 1, n) /\ stack \in Seq(Frames) /\ n \in 0..Len(stack)
    BY DEF Calling, Leave
  <2>2. n \in Int /\ 1 \in Int /\ \A j \in 1..n : stack[j] \in Frames
    BY <2>1
  <2>3. /\ SubSeq(stack, 1, n) \in Seq(Frames)
        /\ Len(SubSeq(stack, 1, n)) = IF 1 <= n THEN n - 1 + 1 ELSE 0
        /\ \A j \in 1..(n - 1 + 1) : SubSeq(stack, 1, n)[j] = stack[1 + j - 1]
    <3> HIDE DEF n
    <3> QED
      BY <2>2, SubSeqProperties
  <2>4. n - 1 + 1 = n /\ (IF 1 <= n THEN n - 1 + 1 ELSE 0) = n /\ \A j \in 1..n : 1 + j - 1 = j
    <3>1. n \in Nat
      BY <2>1
    <3> HIDE DEF n
    <3>2. n - 1 + 1 = n /\ \A j \in 1..n : 1 + j - 1 = j
      BY <3>1
    <3>3. 1 <= n \/ n = 0
      BY <3>1
    <3> QED
      BY <3>2, <3>3
  <2>5. Len(stack') = n /\ stack' \in Seq(Frames)
    BY <2>1, <2>3, <2>4
  <2>6. \A j \in 1..n : stack'[j] = stack[j]
    BY <2>1, <2>3, <2>4
  <2> QED
    BY <2>5, <2>6
<1>2. told' \in Nat /\ ret' = v
  BY DEF Calling, Leave
<1>3. ASSUME NEW j \in 1..Len(stack')
      PROVE  AtStep(stack'[j]) /\ (Surrendering(stack'[j]) => told' >= j)
  <2>1. j \in 1..Len(stack) /\ j < Len(stack) /\ stack'[j] = stack[j]
    BY <1>1
  <2> QED
    BY <2>1 DEF Calling
<1>4. v = "none" => told' > Len(stack')
  BY <1>1, <1>2
<1> QED
  BY <1>1, <1>2, <1>3, <1>4 DEF Calling, Surrendering, AtStep

\* The last call, at an instruction, makes a call; it may mark its frame first.
LEMMA PushKeeps ==
  ASSUME Calling, Running, AtStep(Top), NEW f \in DOMAIN Code, NEW m \in Nat,
         \/ stack' = Append(stack, Frame(f))
         \/ stack' = Append([stack EXCEPT ![Len(stack)].from = m], Frame(f)),
         UNCHANGED <<ret, told>>
  PROVE  Calling'
<1>0. stack # <<>> /\ ret = "-"
  BY DEF Running
<1> USE TopType, StartsWell
<1>1. PICK s : /\ s \in {stack, [stack EXCEPT ![Len(stack)].from = m]}
               /\ stack' = Append(s, Frame(f))
  OBVIOUS
<1>2. /\ s \in Seq(Frames) /\ Len(s) = Len(stack)
      /\ \A j \in 1..Len(s) : s[j].f = stack[j].f /\ s[j].at = stack[j].at
  <2>1. CASE s = stack
    BY <2>1 DEF Calling
  <2>2. CASE s = [stack EXCEPT ![Len(stack)].from = m]
    <3> DEFINE x == [stack[Len(stack)] EXCEPT !.from = m]
    <3>1. x \in Frames /\ x.f = stack[Len(stack)].f /\ x.at = stack[Len(stack)].at
      BY <1>0 DEF Frames
    <3>2. s = [stack EXCEPT ![Len(stack)] = x] /\ stack \in Seq(Frames)
      BY <2>2 DEF Calling
    <3> HIDE DEF x
    <3>3. /\ s \in Seq(Frames) /\ Len(s) = Len(stack)
          /\ \A j \in 1..Len(s) : s[j] = IF j = Len(stack) THEN x ELSE stack[j]
      BY <1>0, <3>1, <3>2
    <3> QED
      BY <3>1, <3>3
  <2> QED
    BY <1>1, <2>1, <2>2
<1>3. /\ stack' \in Seq(Frames) /\ Len(stack') = Len(stack) + 1
      /\ \A j \in 1..Len(stack) : stack'[j] = s[j]
      /\ stack'[Len(stack) + 1] = Frame(f)
  BY <1>0, <1>1, <1>2
<1>4. ASSUME NEW j \in 1..Len(stack')
      PROVE  /\ j < Len(stack') => AtStep(stack'[j])
             /\ Surrendering(stack'[j]) => told' >= j
  <2>1. CASE j = Len(stack) + 1
    BY <1>0, <1>3, <2>1
  <2>2. CASE j \in 1..Len(stack)
    <3>1. AtStep(stack[j]) /\ (Surrendering(stack[j]) => told >= j)
      BY <1>0, <2>2 DEF Calling
    <3> QED
      BY <1>2, <1>3, <2>2, <3>1 DEF AtStep, Surrendering
  <2> QED
    BY <1>0, <1>3, <2>1, <2>2
<1>5. told' \in Nat /\ ret' = "-"
  BY <1>0 DEF Calling
<1>6. /\ \A j \in 1..Len(stack') : j < Len(stack') => AtStep(stack'[j])
      /\ \A j \in 1..Len(stack') : Surrendering(stack'[j]) => told' >= j
  BY <1>4
<1> QED
  BY <1>3, <1>5, <1>6 DEF Calling, Surrendering, AtStep, Values

\* The last call is replaced by the call of another function.
LEMMA InsteadKeeps ==
  ASSUME Calling, Running, NEW f \in DOMAIN Code, Instead(f), UNCHANGED <<ret, told>>
  PROVE  Calling'
<1>0. stack # <<>> /\ ret = "-"
  BY DEF Running
<1> USE TopType, StartsWell
<1>1. /\ stack' \in Seq(Frames) /\ Len(stack') = Len(stack)
      /\ stack'[Len(stack)] = Frame(f)
      /\ \A j \in 1..Len(stack) : j < Len(stack) => stack'[j] = stack[j]
  BY <1>0 DEF Calling, Instead
<1>2. /\ \A j \in 1..Len(stack') : j < Len(stack') => AtStep(stack'[j])
      /\ \A j \in 1..Len(stack') : Surrendering(stack'[j]) => told' >= j
  BY <1>0, <1>1 DEF Calling
<1>3. told' \in Nat /\ ret' = "-"
  BY <1>0 DEF Calling
<1> QED
  BY <1>1, <1>2, <1>3 DEF Calling, Surrendering, AtStep, Values

-----------------------------------------------------------------------------
(* The steps *)

LEMMA InitCalling ==
  ASSUME Init
  PROVE  Calling
<1>1. Frame(Start) \in Frames /\ ~Surrendering(Frame(Start))
  BY StartsWell, CodeAssumption
<1>2. stack = <<Frame(Start)>> /\ ret = "-" /\ told = 0
  BY DEF Init
<1> QED
  BY <1>1, <1>2 DEF Calling, Values

\* An instruction that guards is not followed, two places on, by a surrender, and
\* only one that has just recorded an error is followed by one.
LEMMA GoesWell ==
  ASSUME Calling, stack # <<>>, AtStep(Top), NEW n \in {1, 2}
  PROVE  /\ n = 1 /\ Body[Top.at].op \notin {"if_fails", "note"}
              => ~Surrendering([Top EXCEPT !.at = @ + n])
         /\ n = 2 /\ Body[Top.at].op \in Guards
              => ~Surrendering([Top EXCEPT !.at = @ + n])
  BY TopType, SurrenderReached DEF Body

LEMMA CurrentType ==
  ASSUME Calling, NEW i \in Current
  PROVE  /\ Running /\ stack # <<>> /\ ret = "-" /\ AtStep(Top) /\ i = Body[Top.at]
         /\ i.op \in Calls \cup {"goto"} => i.call \in DOMAIN Code
         /\ i.op = "pick" => i.other \in DOMAIN Code
                             /\ \A k \in DOMAIN i.table : i.table[k] \in DOMAIN Code
<1>1. Running /\ stack # <<>> /\ ret = "-" /\ AtStep(Top) /\ i = Body[Top.at]
  BY DEF Current, Running, AtStep, Body
<1> QED
  BY <1>1, TopType, CalledHasCode DEF Body

\* Instructions that end with the last call one or two places on, or returned.
LEMMA InstructionKeeps ==
  ASSUME Calling, NEW i \in Current,
         \/ SkipDoc(i) \/ Matched(i)
         \/ NeedMissed(i) \/ WantMissed(i) \/ MayMissed(i) \/ WhenMissed(i) \/ StopUnlessMissed(i)
         \/ DoIfAt(i) \/ DoStopAt(i) \/ DoDocs(i) \/ DoTake(i) \/ DoSkip(i)
         \/ DoNote(i) \/ DoFail(i) \/ DoMaybe(i) \/ LookAhead(i) \/ DoIfLooksLike(i)
         \/ LoopEnds(i)
  PROVE  Calling'
<1> USE CurrentType
<1>0. Len(stack) \in Nat /\ told \in Nat
  BY TopType DEF Calling
<1>1. CASE UNCHANGED <<stack, ret, told>>
  BY <1>1 DEF Calling, Surrendering, AtStep
<1>2. ASSUME Go(1), UNCHANGED ret, told' = told, i.op \notin {"if_fails", "note"}
      PROVE  Calling'
  BY <1>2, GoKeeps, GoesWell
<1>3. ASSUME Go(2), UNCHANGED ret, told' = told, i.op \in Guards
      PROVE  Calling'
  BY <1>3, GoKeeps, GoesWell
<1>4. ASSUME Go(1), UNCHANGED ret, told' = Len(stack)
      PROVE  Calling'
  BY <1>4, GoKeeps
<1>5. ASSUME Leave("none"), told' = Len(stack)
      PROVE  Calling'
  BY <1>0, <1>5, LeaveKeeps DEF Values
<1>6. ASSUME Leave("stop"), told' = told
      PROVE  Calling'
  BY <1>6, LeaveKeeps DEF Values
<1>7. CASE SkipDoc(i) \/ LookAhead(i)
  BY <1>1, <1>7 DEF SkipDoc, LookAhead
<1>8. CASE Matched(i)
  BY <1>2, <1>8 DEF Matched, Matching, Step
<1>9. CASE NeedMissed(i)
  BY <1>5, <1>9 DEF NeedMissed, Error
<1>10. CASE WantMissed(i)
  BY <1>4, <1>10 DEF WantMissed, Error, Step
<1>11. CASE MayMissed(i)
  BY <1>2, <1>11 DEF MayMissed, Missed, Silent, Step
<1>12. CASE WhenMissed(i)
  BY <1>3, <1>12 DEF WhenMissed, Missed, Silent, Hop, Guards
<1>13. CASE StopUnlessMissed(i)
  BY <1>6, <1>13 DEF StopUnlessMissed, Silent
<1>14. CASE DoIfAt(i)
  BY <1>2, <1>3, <1>14 DEF DoIfAt, Step, Hop, Guards
<1>15. CASE DoStopAt(i)
  BY <1>2, <1>6, <1>15 DEF DoStopAt, Step
<1>16. CASE DoDocs(i) \/ DoTake(i) \/ DoSkip(i) \/ LoopEnds(i)
  BY <1>2, <1>16 DEF DoDocs, DoTake, DoSkip, LoopEnds, Step
<1>17. CASE DoNote(i)
  BY <1>4, <1>17 DEF DoNote, Error, Step
<1>18. CASE DoFail(i)
  BY <1>5, <1>18 DEF DoFail, Error
<1>19. CASE DoMaybe(i)
  BY <1>2, <1>3, <1>19 DEF DoMaybe, Step, Hop, Guards
<1>20. CASE DoIfLooksLike(i)
  BY <1>2, <1>3, <1>20 DEF DoIfLooksLike, Step, Hop, Guards
<1> QED
  BY <1>7, <1>8, <1>9, <1>10, <1>11, <1>12, <1>13, <1>14, <1>15, <1>16, <1>17, <1>18, <1>19, <1>20

LEMMA CallKeeps ==
  ASSUME Calling, NEW i \in Current, DoCall(i) \/ CallMarked(i) \/ DoGoto(i), Rest \in Nat
  PROVE  Calling'
<1> USE CurrentType
<1>1. CASE DoCall(i)
  BY <1>1, PushKeeps DEF DoCall, Push, Calls
<1>2. CASE CallMarked(i)
  BY <1>2, PushKeeps DEF CallMarked, Calls
<1>3. CASE DoGoto(i)
  BY <1>3, InsteadKeeps DEF DoGoto
<1> QED
  BY <1>1, <1>2, <1>3

LEMMA ReturnKeeps ==
  ASSUME Calling, Return
  PROVE  Calling'
  BY LeaveKeeps DEF Return, Running, Values

\* A caller takes note of what was returned.
LEMMA ResumeKeeps ==
  ASSUME Calling, stack # <<>>, GoOn \/ PassOn
  PROVE  Calling'
<1> USE TopType
<1>1. ret # "-" /\ AtStep(Top)
  <2>1. ret # "-"
    BY DEF GoOn, PassOn, Returned
  <2> QED
    BY <2>1 DEF Calling, Top
<1>2. told' = told \/ told' = Len(stack)
  BY DEF GoOn, PassOn, Resume
<1>3. ret = "none" => told' = Len(stack)
  BY DEF GoOn, PassOn, Resume, Calling
<1>4. ASSUME Go(1), ret' = "-", Body[Top.at].op \notin {"if_fails", "note"}
      PROVE  Calling'
  BY <1>1, <1>2, <1>4, GoKeeps, GoesWell
<1>5. ASSUME Go(2), ret' = "-", Body[Top.at].op \in Guards
      PROVE  Calling'
  BY <1>1, <1>2, <1>5, GoKeeps, GoesWell
<1>6. ASSUME Go(1), ret' = "-", ret = "none"
      PROVE  Calling'
  BY <1>3, <1>6, GoKeeps
<1>7. CASE GoOn
  <2>1. CASE UNCHANGED stack
    <3>1. told' \in Nat /\ ret' = "-"
      BY <1>2, <1>7 DEF GoOn, Calling
    <3>2. ASSUME NEW j \in 1..Len(stack)
          PROVE  AtStep(stack[j]) /\ (Surrendering(stack[j]) => told' >= j)
      BY <1>1, <1>2, <3>2 DEF Calling
    <3> QED
      BY <2>1, <3>1, <3>2 DEF Calling, Surrendering, AtStep, Values
  <2>2. CASE Go(1) /\ Body[Top.at].op \notin {"if_fails", "note"}
    BY <1>4, <1>7, <2>2 DEF GoOn
  <2>3. CASE Go(1) /\ Body[Top.at].op = "if_fails" /\ ret = "none"
    BY <1>6, <1>7, <2>3 DEF GoOn
  <2>4. CASE Go(2) /\ Body[Top.at].op \in Guards
    BY <1>5, <1>7, <2>4 DEF GoOn
  <2> QED
    BY <1>7, <2>1, <2>2, <2>3, <2>4 DEF GoOn, Returned, Step, Hop, Guards
<1>8. CASE PassOn
  <2>1. told' >= Len(stack)
    <3>1. CASE ret = "none"
      BY <1>3, <3>1
    <3>2. CASE Body[Top.at].op = "surrender"
      <4>1. Surrendering(Top)
        BY <1>1, <3>2 DEF Surrendering, Body
      <4>2. told >= Len(stack)
        BY <4>1 DEF Calling
      <4> QED
        BY <1>2, <4>2
    <3> QED
      BY <1>8, <3>1, <3>2 DEF PassOn, Returned
  <2> QED
    BY <1>2, <1>8, <2>1, LeaveKeeps DEF PassOn, Values
<1> QED
  BY <1>7, <1>8

-----------------------------------------------------------------------------
(* The cursor *)

\* When no token is left to choose, the last one known is the eof.
Cursor ==
  /\ look \in Tokens /\ ahead \in Seq(Tokens) /\ left \in 0..(Free + 1)
  /\ left = 0 => look = "eof" \/ (ahead # <<>> /\ ahead[Len(ahead)] = "eof")

Brackets == {Closer[b] : b \in Open} \cup {"none"}

LEMMA ChoiceType ==
  ASSUME NEW k, left \in 1..(Free + 1), Choice(k)
  PROVE  k \in Tokens /\ left' \in 0..(Free + 1) /\ (left' = 0 => k = "eof")
<1>1. Free \in Nat
  BY TextAssumption
<1> QED
  BY <1>1 DEF Choice, Tokens

LEMMA AdvanceCursor ==
  ASSUME Cursor, Advance
  PROVE  Cursor'
<1>0. Free \in Nat
  BY TextAssumption
<1>1. CASE UNCHANGED cursor
  BY <1>1 DEF cursor, Cursor
<1>2. CASE look # "eof" /\ ahead # <<>> /\ look' = Head(ahead) /\ ahead' = Tail(ahead) /\ UNCHANGED left
  <2>1. ahead \in Seq(Tokens) /\ Len(ahead) \in Nat /\ Len(ahead) >= 1
    BY <1>2 DEF Cursor
  <2>2. look' \in Tokens /\ ahead' \in Seq(Tokens) /\ Len(ahead') = Len(ahead) - 1
    BY <1>2, <2>1
  <2>3. CASE Len(ahead) = 1
    BY <1>2, <2>1, <2>2, <2>3 DEF Cursor
  <2>4. CASE Len(ahead) > 1
    <3>1. \A j \in 1..Len(Tail(ahead)) : Tail(ahead)[j] = ahead[j + 1]
      BY <1>2, <2>1, HeadTailProperties
    <3>2. Len(ahead') \in 1..Len(ahead') /\ Len(ahead') + 1 = Len(ahead) /\ ahead' # <<>>
      BY <2>1, <2>2, <2>4
    <3>3. ahead'[Len(ahead')] = ahead[Len(ahead)]
      BY <1>2, <3>1, <3>2
    <3> QED
      BY <1>2, <2>2, <3>2, <3>3 DEF Cursor
  <2>5. Len(ahead) = 1 \/ Len(ahead) > 1
    <3>1. \A n \in Nat : n >= 1 => n = 1 \/ n > 1
      OBVIOUS
    <3> QED
      BY <2>1, <3>1
  <2> QED
    BY <2>3, <2>4, <2>5
<1>3. CASE look # "eof" /\ ahead = <<>> /\ Choice(look') /\ UNCHANGED ahead
  <2>1. left \in 1..(Free + 1)
    BY <1>0, <1>3 DEF Cursor
  <2>2. look' \in Tokens /\ left' \in 0..(Free + 1) /\ (left' = 0 => look' = "eof")
    BY <1>3, <2>1, ChoiceType
  <2> QED
    BY <1>3, <2>2 DEF Cursor
<1> QED
  BY <1>1, <1>2, <1>3 DEF Advance

LEMMA LookAheadCursor ==
  ASSUME Cursor, NEW i, LookAhead(i)
  PROVE  Cursor'
<1>0. Free \in Nat
  BY TextAssumption
<1>1. PICK k : k \in Tokens /\ Choice(k) /\ ahead' = Append(ahead, k)
  BY DEF LookAhead, Tokens
<1>2. left \in 1..(Free + 1) /\ look' = look
  <2>1. left > 0 /\ look' = look
    BY DEF LookAhead, NeedsToken
  <2>2. left \in 0..(Free + 1)
    BY DEF Cursor
  <2> QED
    BY <1>0, <2>1, <2>2
<1>3. left' \in 0..(Free + 1) /\ (left' = 0 => k = "eof")
  BY <1>1, <1>2, ChoiceType
<1>4. ahead \in Seq(Tokens)
  BY DEF Cursor
<1>5. ahead' \in Seq(Tokens) /\ Len(ahead') = Len(ahead) + 1 /\ ahead'[Len(ahead) + 1] = k
  BY <1>1, <1>4, AppendProperties
<1>6. ahead' # <<>>
  BY <1>4, <1>5
<1> QED
  BY <1>2, <1>3, <1>5, <1>6 DEF Cursor

LEMMA CountedType ==
  ASSUME open \in Seq(Brackets)
  PROVE  Counted \in Seq(Brackets)
<1>1. ASSUME NEW b \in Brackets
      PROVE  <<b>> \o open \in Seq(Brackets)
  BY <1>1
<1>2. look \in Open => Closer[look] \in Brackets
  BY DEF Brackets
<1>3. "none" \in Brackets /\ <<>> \in Seq(Brackets)
  BY DEF Brackets
<1>4. open # <<>> => Tail(open) \in Seq(Brackets)
  OBVIOUS
<1> QED
  BY <1>1, <1>2, <1>3, <1>4 DEF Counted

LEMMA NextCursor ==
  ASSUME Cursor, open \in Seq(Brackets), Next
  PROVE  Cursor' /\ open' \in Seq(Brackets)
<1>0. <<>> \in Seq(Brackets)
  OBVIOUS
<1>1. CASE UNCHANGED <<cursor, open>>
  BY <1>1 DEF cursor, Cursor
<1>2. CASE UNCHANGED cursor /\ open' = <<>>
  BY <1>0, <1>2 DEF cursor, Cursor
<1>3. CASE Advance /\ open' \in {open, Counted}
  BY <1>3, AdvanceCursor, CountedType
<1>4. ASSUME NEW i \in Current, Execute(i)
      PROVE  Cursor' /\ open' \in Seq(Brackets)
  <2>1. CASE SkipDoc(i) \/ Matched(i) \/ DoTake(i) \/ DoSkip(i)
    BY <1>3, <2>1 DEF SkipDoc, Matched, DoTake, DoSkip
  <2>2. CASE NeedMissed(i) \/ WantMissed(i) \/ DoNote(i) \/ DoFail(i)
    BY <1>2, <2>2 DEF NeedMissed, WantMissed, DoNote, DoFail, Missed, Error
  <2>3. CASE MayMissed(i) \/ WhenMissed(i) \/ StopUnlessMissed(i)
    BY <1>1, <2>3 DEF MayMissed, WhenMissed, StopUnlessMissed, Missed, Silent
  <2>4. CASE DoIfAt(i) \/ DoStopAt(i) \/ DoDocs(i) \/ DoMaybe(i) \/ DoIfLooksLike(i)
    BY <1>1, <2>4 DEF DoIfAt, DoStopAt, DoDocs, DoMaybe, DoIfLooksLike
  <2>5. CASE DoCall(i) \/ CallMarked(i) \/ LoopEnds(i) \/ DoGoto(i)
    BY <1>1, <2>5 DEF DoCall, CallMarked, LoopEnds, DoGoto
  <2>6. CASE LookAhead(i)
    BY <2>6, LookAheadCursor DEF LookAhead
  <2> QED
    BY <1>4, <2>1, <2>2, <2>3, <2>4, <2>5, <2>6 DEF Execute
<1>5. CASE Return \/ GoOn \/ PassOn
  BY <1>1, <1>5 DEF Return, GoOn, PassOn, Resume
<1> QED
  BY <1>4, <1>5 DEF Next

-----------------------------------------------------------------------------
(* The theorems *)

LEMMA NextCalling ==
  ASSUME Calling, Cursor, Next
  PROVE  Calling'
<1>1. Rest \in Nat
  BY TextAssumption DEF Cursor, Rest
<1>2. ASSUME NEW i \in Current, Execute(i)
      PROVE  Calling'
  BY <1>1, <1>2, InstructionKeeps, CallKeeps DEF Execute
<1> QED
  BY <1>2, ReturnKeeps, ResumeKeeps DEF Next

IInv == Calling /\ Cursor /\ open \in Seq(Brackets)

LEMMA InvariantHolds == Spec => []IInv
<1>1. ASSUME Init
      PROVE  IInv
  <2>1. Cursor
    <3>1. PICK o \in Openings : look = Head(o) /\ ahead = Tail(o)
      BY <1>1 DEF Init
    <3>2. o \in Seq(Kinds) /\ o # <<>> /\ Free \in Nat
      BY TextAssumption
    <3>3. o \in Seq(Tokens)
      BY <3>2 DEF Tokens
    <3>4. look \in Tokens /\ ahead \in Seq(Tokens)
      BY <3>1, <3>2, <3>3
    <3>5. left = Free + 1
      BY <1>1 DEF Init
    <3>6. left \in 0..(Free + 1) /\ left # 0
      BY <3>2, <3>5
    <3> QED
      BY <3>4, <3>6 DEF Cursor
  <2>2. open \in Seq(Brackets)
    BY <1>1 DEF Init
  <2> QED
    BY <1>1, <2>1, <2>2, InitCalling DEF IInv
<1>2. ASSUME IInv, [Next]_vars
      PROVE  IInv'
  <2>1. CASE UNCHANGED vars
    <3>1. UNCHANGED <<look, ahead, left>> /\ UNCHANGED <<stack, ret, told>> /\ UNCHANGED open
      BY <2>1 DEF vars
    <3>2. Calling'
      BY <1>2, <3>1 DEF IInv, Calling, Surrendering, AtStep
    <3>3. Cursor'
      BY <1>2, <3>1 DEF IInv, Cursor
    <3> QED
      BY <1>2, <3>1, <3>2, <3>3 DEF IInv
  <2>2. CASE Next
    BY <1>2, <2>2, NextCalling, NextCursor DEF IInv
  <2> QED
    BY <1>2, <2>1, <2>2
<1> QED
  BY <1>1, <1>2, PTL DEF Spec

\* The state of the machine is of the type it is meant to be, for every code and text.
THEOREM TypeCorrect == Spec => []TypeOK
<1>1. IInv => TypeOK
  BY DEF IInv, Calling, Cursor, Brackets, TypeOK, Values
<1> QED
  BY <1>1, InvariantHolds, PTL

\* Whatever the parsing functions are, as long as they return None by themselves only
\* after an error: none of them returns None without an error since it was called.
THEOREM NoneReported == Spec => []NoneIsReported
<1>1. IInv => NoneIsReported
  BY DEF IInv, Calling, NoneIsReported
<1> QED
  BY <1>1, InvariantHolds, PTL

-----------------------------------------------------------------------------
(* What the calls owe *)

\* What the calls owe: call p owes part of o, one of the sequences in D[p], and the
\* parts follow each other in o, that of the last call first.  In the splitting, the
\* first p calls owe the last depth[p] elements of o.
Owes(o, depth, p, d) ==
  /\ Len(d) = depth[p] - depth[p - 1]
  /\ \A k \in 1..Len(d) : o[Len(o) - depth[p] + k] = d[k]
Splits(o, n, D, depth) ==
  /\ depth \in [0..n -> 0..Len(o)] /\ depth[0] = 0 /\ depth[n] = Len(o)
  /\ \A p, q \in 0..n : p <= q => depth[p] <= depth[q]
  /\ \A p \in 1..n : \E d \in D[p] : Owes(o, depth, p, d)
Splittable(o, n, D) == \E depth \in [0..n -> Nat] : Splits(o, n, D, depth)
Dues(n) == [1..n -> SUBSET Seq(Closers)]

\* No calls owe nothing.
LEMMA SplitOfNone ==
  ASSUME NEW T, NEW o \in Seq(T), NEW D, Splittable(o, 0, D)
  PROVE  o = <<>>
<1>1. Len(o) = 0
  BY DEF Splittable, Splits
<1> QED
  BY <1>1

\* More may be owed.
LEMMA SplitWider ==
  ASSUME NEW T, NEW o \in Seq(T), NEW n \in Nat, NEW D, NEW E, Splittable(o, n, D),
         \A p \in 1..n : D[p] \subseteq E[p]
  PROVE  Splittable(o, n, E)
  BY DEF Splittable, Splits

\* A new call owes nothing.
LEMMA SplitCall ==
  ASSUME NEW T, NEW o \in Seq(T), NEW n \in Nat, NEW D, NEW E, Splittable(o, n, D),
         \A p \in 1..n : D[p] \subseteq E[p], <<>> \in E[n + 1]
  PROVE  Splittable(o, n + 1, E)
<1>1. PICK depth \in [0..n -> Nat] : Splits(o, n, D, depth)
  BY DEF Splittable
<1> DEFINE new == [p \in 0..(n + 1) |-> IF p <= n THEN depth[p] ELSE Len(o)]
<1>2. new \in [0..(n + 1) -> 0..Len(o)] /\ new[0] = 0 /\ new[n + 1] = Len(o)
  BY <1>1 DEF Splits
<1>3. \A p, q \in 0..(n + 1) : p <= q => new[p] <= new[q]
  <2> SUFFICES ASSUME NEW p \in 0..(n + 1), NEW q \in 0..(n + 1), p <= q PROVE new[p] <= new[q]
    OBVIOUS
  <2>1. CASE q <= n
    BY <2>1, <1>1 DEF Splits
  <2>2. CASE q = n + 1
    BY <2>2, <1>2
  <2> QED
    BY <2>1, <2>2
<1>4. ASSUME NEW p \in 1..(n + 1) PROVE \E d \in E[p] : Owes(o, new, p, d)
  <2>1. CASE p <= n
    <3>1. p \in 1..n /\ p - 1 \in 0..n /\ new[p] = depth[p] /\ new[p - 1] = depth[p - 1]
      BY <2>1
    <3>2. PICK d \in D[p] : Owes(o, depth, p, d)
      BY <1>1, <3>1 DEF Splits
    <3> QED
      BY <3>1, <3>2 DEF Owes
  <2>2. CASE p = n + 1
    <3>1. new[p] = Len(o) /\ new[p - 1] = Len(o) /\ Len(o) \in Nat
      BY <1>1, <2>2 DEF Splits
    <3>2. Owes(o, new, p, <<>>)
      BY <3>1 DEF Owes
    <3> QED
      BY <2>2, <3>2
  <2>3. p <= n \/ p = n + 1
    OBVIOUS
  <2> HIDE DEF new
  <2> QED
    BY <2>1, <2>2, <2>3
<1>5. new \in [0..(n + 1) -> Nat]
  BY <1>2
<1> QED
  BY <1>2, <1>3, <1>4, <1>5 DEF Splittable, Splits

\* A call that owes nothing may return.
LEMMA SplitReturn ==
  ASSUME NEW T, NEW o \in Seq(T), NEW n \in Nat, NEW D, NEW E, Splittable(o, n + 1, D),
         \A p \in 1..n : D[p] \subseteq E[p], D[n + 1] \subseteq {<<>>}
  PROVE  Splittable(o, n, E)
<1>1. PICK depth \in [0..(n + 1) -> Nat] : Splits(o, n + 1, D, depth)
  BY DEF Splittable
<1> DEFINE new == [p \in 0..n |-> depth[p]]
<1>2. depth[n] = Len(o)
  <2>1. n + 1 \in 1..(n + 1) /\ n \in 0..(n + 1) /\ n + 1 - 1 = n
    OBVIOUS
  <2>2. Owes(o, depth, n + 1, <<>>)
    BY <1>1, <2>1 DEF Splits
  <2>3. 0 = depth[n + 1] - depth[n]
    BY <2>1, <2>2 DEF Owes
  <2>4. depth[n + 1] = Len(o) /\ depth[n] \in Nat /\ Len(o) \in Nat
    BY <1>1, <2>1 DEF Splits
  <2> QED
    BY <2>3, <2>4
<1>3. new \in [0..n -> 0..Len(o)] /\ new[0] = 0 /\ new[n] = Len(o)
  BY <1>1, <1>2 DEF Splits
<1>4. \A p, q \in 0..n : p <= q => new[p] <= new[q]
  BY <1>1 DEF Splits
<1>5. ASSUME NEW p \in 1..n PROVE \E d \in E[p] : Owes(o, new, p, d)
  <2>1. p \in 1..(n + 1) /\ p - 1 \in 0..n /\ new[p] = depth[p] /\ new[p - 1] = depth[p - 1]
    OBVIOUS
  <2>2. PICK d \in D[p] : Owes(o, depth, p, d)
    BY <1>1, <2>1 DEF Splits
  <2> QED
    BY <2>1, <2>2 DEF Owes
<1>6. new \in [0..n -> Nat]
  BY <1>3
<1> QED
  BY <1>3, <1>4, <1>5, <1>6 DEF Splittable, Splits

\* The last call comes to owe one more.
LEMMA SplitMore ==
  ASSUME NEW T, NEW o \in Seq(T), NEW c \in T, NEW n \in Nat, NEW D \in Dues(n + 1), NEW E,
         Splittable(o, n + 1, D), \A p \in 1..n : D[p] \subseteq E[p],
         \A d \in D[n + 1] : <<c>> \o d \in E[n + 1]
  PROVE  Splittable(<<c>> \o o, n + 1, E)
<1>1. PICK depth \in [0..(n + 1) -> Nat] : Splits(o, n + 1, D, depth)
  BY DEF Splittable
<1> DEFINE r == <<c>> \o o
           new == [depth EXCEPT ![n + 1] = @ + 1]
<1>2. /\ Len(r) = Len(o) + 1 /\ Len(o) \in Nat /\ r[1] = c
      /\ \A k \in 1..Len(o) : r[k + 1] = o[k]
  OBVIOUS
<1> HIDE DEF r
<1>3. new \in [0..(n + 1) -> 0..Len(r)] /\ new[0] = 0 /\ new[n + 1] = Len(r)
  BY <1>1, <1>2 DEF Splits
<1>4. \A p, q \in 0..(n + 1) : p <= q => new[p] <= new[q]
  BY <1>1, <1>2 DEF Splits
<1>5. ASSUME NEW p \in 1..(n + 1) PROVE \E d \in E[p] : Owes(r, new, p, d)
  <2>0. PICK d \in D[p] : Owes(o, depth, p, d)
    BY <1>1 DEF Splits
  <2>1. d \in Seq(Closers) /\ Len(d) \in Nat
    BY <2>0 DEF Dues
  <2>2. CASE p <= n
    <3>1. /\ new[p] = depth[p] /\ new[p - 1] = depth[p - 1]
          /\ depth[p] \in 0..Len(o) /\ depth[p - 1] \in 0..Len(o)
      BY <1>1, <2>2 DEF Splits
    <3>2. Len(d) = depth[p] - depth[p - 1] /\ \A k \in 1..Len(d) : o[Len(o) - depth[p] + k] = d[k]
      BY <2>0 DEF Owes
    <3> HIDE DEF new
    <3>3. ASSUME NEW k \in 1..Len(d) PROVE r[Len(r) - depth[p] + k] = d[k]
      <4>0. \A l, a, b, m, i \in Int :
              a \in 0..l /\ b \in 0..l /\ m = a - b /\ i \in 1..m
                => l - a + i \in 1..l /\ (l + 1) - a + i = (l - a + i) + 1
        OBVIOUS
      <4>1. /\ Len(o) \in Int /\ depth[p] \in Int /\ depth[p - 1] \in Int /\ Len(d) \in Int /\ k \in Int
            /\ depth[p] \in 0..Len(o) /\ depth[p - 1] \in 0..Len(o) /\ k \in 1..Len(d)
        BY <1>2, <2>1, <3>1
      <4>2. Len(o) - depth[p] + k \in 1..Len(o) /\ (Len(o) + 1) - depth[p] + k = (Len(o) - depth[p] + k) + 1
        BY <3>2, <4>0, <4>1
      <4>3. Len(r) - depth[p] + k = (Len(o) - depth[p] + k) + 1
        BY <1>2, <4>2
      <4> QED
        BY <1>2, <3>2, <4>2, <4>3
    <3>5. Owes(r, new, p, d)
      BY <3>1, <3>2, <3>3 DEF Owes
    <3>6. p \in 1..n
      BY <2>2
    <3> QED
      BY <2>0, <3>5, <3>6
  <2>3. CASE p = n + 1
    <3> DEFINE e == <<c>> \o d
    <3>1. e \in E[p] /\ Len(e) = Len(d) + 1 /\ e[1] = c /\ \A k \in 1..Len(d) : e[k + 1] = d[k]
      BY <2>0, <2>1, <2>3
    <3>2. new[p] = Len(r) /\ new[p - 1] = depth[n] /\ depth[n] \in 0..Len(o) /\ depth[p] = Len(o)
      BY <1>1, <1>3, <2>3 DEF Splits
    <3>3. Len(d) = Len(o) - depth[n] /\ \A k \in 1..Len(d) : o[Len(o) - Len(o) + k] = d[k]
      BY <2>0, <2>3, <3>2 DEF Owes
    <3>7. \A k \in 1..Len(d) : Len(o) - Len(o) + k = k
      BY <1>2
    <3>8. \A k \in 1..Len(d) : o[k] = d[k]
      BY <3>3, <3>7
    <3> HIDE DEF new
    <3>4. ASSUME NEW k \in 1..Len(e) PROVE r[Len(r) - Len(r) + k] = e[k]
      <4> HIDE DEF e
      <4>1. CASE k = 1
        BY <1>2, <3>1, <4>1
      <4>2. CASE k > 1
        <5>0. Len(d) <= Len(o)
          BY <1>2, <2>1, <3>2, <3>3
        <5>1. k - 1 \in 1..Len(d) /\ k - 1 \in 1..Len(o) /\ (k - 1) + 1 = k
          BY <1>2, <2>1, <3>1, <5>0, <4>2
        <5>2. e[k] = d[k - 1] /\ r[k] = o[k - 1]
          BY <1>2, <3>1, <5>1
        <5>3. o[k - 1] = d[k - 1]
          BY <3>8, <5>1
        <5> QED
          BY <1>2, <2>1, <3>1, <5>2, <5>3
      <4> QED
        BY <2>1, <3>1, <4>1, <4>2
    <3>5. Len(e) = new[p] - new[p - 1]
      BY <1>2, <2>1, <3>1, <3>2, <3>3
    <3> HIDE DEF e
    <3> QED
      BY <2>3, <3>1, <3>2, <3>4, <3>5 DEF Owes
  <2>4. p <= n \/ p = n + 1
    OBVIOUS
  <2> HIDE DEF new
  <2> QED
    BY <2>2, <2>3, <2>4
<1>6. new \in [0..(n + 1) -> Nat]
  BY <1>3
<1> QED
  BY <1>3, <1>4, <1>5, <1>6 DEF Splittable, Splits, r

\* The last call comes to owe one less: what it owed first.
LEMMA SplitLess ==
  ASSUME NEW T, NEW o \in Seq(T), NEW c, NEW n \in Nat, NEW D \in Dues(n + 1), NEW E,
         Splittable(o, n + 1, D), \A p \in 1..n : D[p] \subseteq E[p],
         \A d \in D[n + 1] : d # <<>> /\ Head(d) = c /\ Tail(d) \in E[n + 1]
  PROVE  o # <<>> /\ Head(o) = c /\ Splittable(Tail(o), n + 1, E)
<1>1. PICK depth \in [0..(n + 1) -> Nat] : Splits(o, n + 1, D, depth)
  BY DEF Splittable
<1>2. PICK own \in D[n + 1] : Owes(o, depth, n + 1, own)
  BY <1>1 DEF Splits
<1>3. own \in Seq(Closers) /\ own # <<>> /\ Len(own) \in Nat \ {0} /\ own[1] = c
  BY <1>2 DEF Dues
<1>4. /\ depth[n + 1] = Len(o) /\ depth[n] \in 0..Len(o) /\ Len(o) \in Nat
      /\ Len(own) = Len(o) - depth[n] /\ \A k \in 1..Len(own) : o[Len(o) - Len(o) + k] = own[k]
  BY <1>1, <1>2 DEF Splits, Owes
<1>5. Len(o) >= 1 /\ o # <<>> /\ o[1] = c /\ depth[n] <= Len(o) - 1
  <2>1. Len(o) >= 1 /\ depth[n] <= Len(o) - 1
    BY <1>3, <1>4
  <2>2. 1 \in 1..Len(own) /\ Len(o) - Len(o) + 1 = 1
    BY <1>3, <1>4
  <2>3. o[1] = own[1]
    BY <1>4, <2>2
  <2> QED
    BY <1>3, <2>1, <2>3
<1> DEFINE r == Tail(o)
           new == [depth EXCEPT ![n + 1] = @ - 1]
<1>6. Len(r) = Len(o) - 1 /\ Len(r) \in Nat /\ \A k \in 1..Len(r) : r[k] = o[k + 1]
  BY <1>5, HeadTailProperties
<1> HIDE DEF r
<1>7. ASSUME NEW p \in 0..n
      PROVE  new[p] = depth[p] /\ depth[p] \in 0..Len(r)
  <2>1. p \in 0..(n + 1) /\ n \in 0..(n + 1) /\ p # n + 1 /\ p <= n
    OBVIOUS
  <2>2. new[p] = depth[p] /\ depth[p] \in Nat
    BY <2>1
  <2>3. depth[p] <= depth[n]
    BY <1>1, <2>1 DEF Splits
  <2> HIDE DEF new
  <2> QED
    BY <1>4, <1>5, <1>6, <2>2, <2>3
<1>8. new \in [0..(n + 1) -> 0..Len(r)] /\ new[0] = 0 /\ new[n + 1] = Len(r)
  BY <1>1, <1>4, <1>6, <1>7 DEF Splits
<1>9. \A p, q \in 0..(n + 1) : p <= q => new[p] <= new[q]
  <2> SUFFICES ASSUME NEW p \in 0..(n + 1), NEW q \in 0..(n + 1), p <= q PROVE new[p] <= new[q]
    OBVIOUS
  <2>1. CASE q <= n
    BY <1>1, <1>7, <2>1 DEF Splits
  <2>2. CASE q = n + 1
    BY <1>6, <1>8, <2>2
  <2> QED
    BY <2>1, <2>2
<1>10. ASSUME NEW p \in 1..(n + 1) PROVE \E d \in E[p] : Owes(r, new, p, d)
  <2>1. CASE p <= n
    <3>0. PICK d \in D[p] : Owes(o, depth, p, d)
      BY <1>1 DEF Splits
    <3>1. d \in Seq(Closers) /\ Len(d) \in Nat
      <4>1. D[p] \in SUBSET Seq(Closers)
        BY DEF Dues
      <4> QED
        BY <3>0, <4>1
    <3>2. /\ new[p] = depth[p] /\ new[p - 1] = depth[p - 1]
          /\ depth[p] \in 0..Len(r) /\ depth[p - 1] \in 0..Len(r)
      <4>1. p \in 0..n /\ p - 1 \in 0..n
        BY <2>1
      <4> QED
        BY <1>7, <4>1
    <3>3. Len(d) = depth[p] - depth[p - 1] /\ \A k \in 1..Len(d) : o[Len(o) - depth[p] + k] = d[k]
      BY <3>0 DEF Owes
    <3> HIDE DEF new
    <3>4. ASSUME NEW k \in 1..Len(d) PROVE r[Len(r) - depth[p] + k] = d[k]
      <4>1. Len(r) - depth[p] + k \in 1..Len(r)
        BY <1>6, <3>1, <3>2, <3>3
      <4>2. (Len(r) - depth[p] + k) + 1 = Len(o) - depth[p] + k
        <5>1. \A l, m, q, j \in Int : m = l - 1 => (m - q + j) + 1 = l - q + j
          OBVIOUS
        <5>2. Len(o) \in Int /\ Len(r) \in Int /\ depth[p] \in Int /\ k \in Int
          BY <1>4, <1>6, <3>1, <3>2
        <5>3. Len(r) = Len(o) - 1
          BY <1>6
        <5> QED
          BY <5>1, <5>2, <5>3
      <4>3. o[Len(o) - depth[p] + k] = d[k]
        BY <3>3
      <4> DEFINE i == Len(r) - depth[p] + k
      <4>4. i \in 1..Len(r) /\ o[i + 1] = d[k]
        BY <4>1, <4>2, <4>3, Zenon
      <4> HIDE DEF i
      <4>5. r[i] = o[i + 1]
        BY <1>6, <4>4
      <4>6. r[i] = d[k]
        BY <4>4, <4>5
      <4> QED
        BY <4>6 DEF i
    <3>5. Owes(r, new, p, d)
      BY <3>2, <3>3, <3>4 DEF Owes
    <3>6. p \in 1..n
      BY <2>1
    <3> QED
      BY <3>0, <3>5, <3>6
  <2>2. CASE p = n + 1
    <3> DEFINE e == Tail(own)
    <3>1. e \in E[p] /\ Len(e) = Len(own) - 1 /\ \A k \in 1..Len(e) : e[k] = own[k + 1]
      BY <1>2, <1>3, <2>2, HeadTailProperties
    <3>2. new[p] = Len(r) /\ new[p - 1] = depth[n]
      BY <1>7, <1>8, <2>2
    <3> HIDE DEF new
    <3>3. ASSUME NEW k \in 1..Len(e) PROVE r[Len(r) - Len(r) + k] = e[k]
      <4> HIDE DEF e
      <4>0. Len(own) <= Len(o)
        BY <1>3, <1>4
      <4>1. k \in 1..Len(r) /\ k + 1 \in 1..Len(own) /\ Len(r) - Len(r) + k = k
        BY <1>3, <4>0, <1>6, <3>1
      <4>2. r[k] = o[k + 1] /\ e[k] = own[k + 1]
        BY <1>6, <3>1, <4>1
      <4>3. o[k + 1] = own[k + 1]
        BY <1>4, <4>1
      <4> QED
        BY <4>1, <4>2, <4>3
    <3>4. Len(e) = new[p] - new[p - 1]
      BY <1>3, <1>4, <1>6, <3>1, <3>2
    <3> HIDE DEF e
    <3> QED
      BY <2>2, <3>1, <3>2, <3>3, <3>4 DEF Owes
  <2>3. p <= n \/ p = n + 1
    OBVIOUS
  <2> HIDE DEF new
  <2> QED
    BY <2>1, <2>2, <2>3
<1>11. new \in [0..(n + 1) -> Nat]
  BY <1>6, <1>8
<1>12. Head(o) = c
  BY <1>5
<1> QED
  BY <1>5, <1>8, <1>9, <1>10, <1>11, <1>12 DEF Splittable, Splits, r

-----------------------------------------------------------------------------
(* The tokens left *)

LEMMA Budget ==
  ASSUME NEW c \in Nat, NEW x \in Int, NEW y \in Int
  PROVE  /\ c * x \in Int
         /\ x <= y => c * x <= c * y
         /\ x < y => c * x + c <= c * y
<1> DEFINE d == y - x
<1>1. d \in Int /\ y = x + d
  OBVIOUS
<1>2. c * y = c * x + c * d
  BY <1>1
<1>3. d >= 0 => c * d >= 0
  OBVIOUS
<1>4. d >= 1 => c * d >= c
  <2>1. c * d = c * (d - 1) + c
    OBVIOUS
  <2>2. d - 1 >= 0 => c * (d - 1) >= 0
    OBVIOUS
  <2>3. c * (d - 1) \in Int /\ c * d \in Int
    OBVIOUS
  <2> QED
    BY <2>1, <2>2, <2>3
<1>5. c * d \in Int /\ c * x \in Int /\ c * y \in Int
  OBVIOUS
<1>6. (x <= y => d >= 0) /\ (x < y => d >= 1)
  OBVIOUS
<1> HIDE DEF d
<1> QED
  BY <1>2, <1>3, <1>4, <1>5, <1>6

\* What may be left of the text.
LEMMA RestType ==
  ASSUME Cursor
  PROVE  Rest \in Nat /\ Len(ahead) \in Nat /\ left \in Nat /\ Length - Rest \in Int
<1>1. Len(ahead) \in Nat /\ left \in Nat
  BY TextAssumption DEF Cursor
<1> QED
  BY <1>1, LengthAssumption DEF Rest

LEMMA ChoiceShrinks ==
  ASSUME NEW k, left \in Nat \ {0}, Choice(k)
  PROVE  left' \in Nat /\ left' < left
  BY DEF Choice

\* A token less is left when the cursor moves.
LEMMA RestShrinks ==
  ASSUME Cursor, Advance
  PROVE  Rest' \in Nat /\ Rest' <= Rest /\ (look # "eof" => Rest' < Rest)
<1> USE RestType
<1>1. CASE look = "eof" /\ UNCHANGED cursor
  <2>1. Rest' = Rest
    BY <1>1 DEF Rest, cursor
  <2> QED
    BY <1>1, <2>1
<1>2. CASE look # "eof" /\ ahead # <<>> /\ look' = Head(ahead) /\ ahead' = Tail(ahead) /\ UNCHANGED left
  <2>1. Len(ahead') = Len(ahead) - 1 /\ Len(ahead) >= 1
    BY <1>2 DEF Cursor
  <2> QED
    BY <1>2, <2>1 DEF Rest
<1>3. CASE look # "eof" /\ ahead = <<>> /\ Choice(look') /\ UNCHANGED ahead
  <2>1. left \in Nat \ {0}
    BY <1>3 DEF Cursor
  <2>2. left' \in Nat /\ left' < left
    BY <1>3, <2>1, ChoiceShrinks
  <2>3. Rest' = Len(ahead) + left' /\ Rest = Len(ahead) + left
    BY <1>3 DEF Rest
  <2> HIDE DEF Rest
  <2> QED
    BY <2>1, <2>2, <2>3
<1> QED
  BY <1>1, <1>2, <1>3 DEF Advance

LEMMA RestLooked ==
  ASSUME Cursor, NEW i, LookAhead(i)
  PROVE  Rest' \in Nat /\ Rest' <= Rest
<1> USE RestType
<1>1. PICK k : Choice(k) /\ ahead' = Append(ahead, k) /\ k \in Tokens
  BY DEF LookAhead, Tokens
<1>2. left \in Nat \ {0}
  <2>1. left > 0
    BY DEF LookAhead, NeedsToken
  <2> QED
    BY <2>1
<1>3. left' \in Nat /\ left' < left
  BY <1>1, <1>2, ChoiceShrinks
<1>4. Len(ahead') = Len(ahead) + 1
  BY <1>1 DEF Cursor
<1> QED
  BY <1>3, <1>4 DEF Rest

\* The bound on the depth of calls grows as tokens are taken.
LEMMA BoundGrows ==
  ASSUME Cursor, Rest' \in Nat, Rest' <= Rest
  PROVE  LET now == CallsPerToken * (Length - Rest)
             then == CallsPerToken * (Length - Rest') IN
         now \in Int /\ then \in Int /\ now <= then /\ (Rest' < Rest => now + CallsPerToken <= then)
<1>1. CallsPerToken \in Nat /\ Length - Rest \in Int /\ Length - Rest' \in Int
  BY RestType, FlowAssumption, LengthAssumption
<1>2. Length - Rest <= Length - Rest' /\ (Rest' < Rest => Length - Rest < Length - Rest')
  BY RestType, LengthAssumption
<1> QED
  BY <1>1, <1>2, Budget

-----------------------------------------------------------------------------
(* What holds of the calls *)

Here(c) == Known[c.f][c.at]
Debts == [p \in 1..Len(stack) |-> Here(stack[p]).due]
Weight(c) == Level[c.f] + IF Here(c).moved THEN CallsPerToken ELSE 0

Placed == \A p \in 1..Len(stack) : stack[p].at \in 1..(Len(Code[stack[p].f]) + 1)
Shows == Running => look \in Here(Top).shown
Shallow ==
  /\ Rest < Length
  /\ \A p \in 1..Len(stack) : p + Weight(stack[p]) <= CallsPerToken * (Length - Rest)
Paired == told = 0 => Splittable(open, Len(stack), Debts)

Flowing == Placed /\ Shows /\ Shallow /\ Paired

-----------------------------------------------------------------------------
(* The facts *)

LEMMA FactType ==
  ASSUME NEW a \in Facts
  PROVE  /\ a.due \in SUBSET Seq(Closers) /\ a.shown \in SUBSET Tokens /\ a.moved \in BOOLEAN
         /\ \A K : /\ At(a, K).due = a.due /\ At(a, K).shown = a.shown \cap K /\ At(a, K).moved = a.moved
                   /\ NotAt(a, K).due = a.due /\ NotAt(a, K).shown = a.shown \ K /\ NotAt(a, K).moved = a.moved
         /\ Anywhere(a).due = a.due /\ Anywhere(a).shown = Tokens /\ Anywhere(a).moved = a.moved
         /\ Spoilt(a).due = {} /\ Spoilt(a).shown = a.shown /\ Spoilt(a).moved = a.moved
         /\ Passed(a).due = a.due /\ Passed(a).shown = Tokens
         /\ Passed(a).moved = (a.moved \/ "eof" \notin a.shown)
         /\ Taken(a).due = {Owed(d, k) : d \in a.due, k \in a.shown} /\ Taken(a).shown = Tokens
         /\ Taken(a).moved = (a.moved \/ "eof" \notin a.shown)
  BY DEF Facts, At, NotAt, Anywhere, Spoilt, Passed, Taken

\* What is known of a place in the code, and how the calls go on from there.
LEMMA PlaceType ==
  ASSUME NEW f \in DOMAIN Code, NEW n \in 1..(Len(Code[f]) + 1)
  PROVE  /\ Known[f][n] \in Facts /\ Level[f] \in 0..(CallsPerToken - 1) /\ Len(Code[f]) \in Nat
         /\ n <= Len(Code[f]) => FlowsWell(f, n)
         /\ n > Len(Code[f]) => Known[f][n].due \subseteq {<<>>}
<1>1. Len(Code[f]) \in Nat
  BY CodeAssumption
<1>2. Known[f] \in Seq(Facts) /\ Len(Known[f]) = Len(Code[f]) + 1
  BY FlowAssumption
<1>3. Known[f][n] \in Facts
  BY <1>1, <1>2
<1>4. n <= Len(Code[f]) => n \in 1..Len(Code[f])
  BY <1>1
<1>5. n > Len(Code[f]) => n = Len(Code[f]) + 1
  BY <1>1
<1> QED
  BY <1>1, <1>3, <1>4, <1>5, FlowAssumption

LEMMA FrameType ==
  ASSUME Calling, Placed, NEW p \in 1..Len(stack)
  PROVE  /\ stack[p] \in Frames /\ stack[p].f \in DOMAIN Code /\ stack[p].at \in Nat
         /\ stack[p].at \in 1..(Len(Code[stack[p].f]) + 1)
         /\ Here(stack[p]) \in Facts /\ Level[stack[p].f] \in 0..(CallsPerToken - 1)
<1>1. stack[p] \in Frames
  BY DEF Calling
<1>2. stack[p].f \in DOMAIN Code /\ stack[p].at \in Nat
  BY <1>1 DEF Frames
<1>3. stack[p].at \in 1..(Len(Code[stack[p].f]) + 1)
  BY DEF Placed
<1> QED
  BY <1>1, <1>2, <1>3, PlaceType DEF Here

LEMMA TopFact ==
  ASSUME Calling, Placed, stack # <<>>
  PROVE  /\ Here(Top) \in Facts /\ Level[Top.f] \in 0..(CallsPerToken - 1)
         /\ Top.at \in 1..(Len(Code[Top.f]) + 1) /\ Top.at \in Nat
         /\ AtStep(Top) => FlowsWell(Top.f, Top.at)
         /\ ~AtStep(Top) => Here(Top).due \subseteq {<<>>}
<1> USE TopType
<1>1. Top \in Frames /\ Top.f \in DOMAIN Code /\ Top.at \in 1..(Len(Code[Top.f]) + 1)
      /\ Here(Top) \in Facts /\ Level[Top.f] \in 0..(CallsPerToken - 1) /\ Top.at \in Nat
  BY FrameType
<1>2. Top.at > Len(Code[Top.f]) <=> ~AtStep(Top)
  BY <1>1, PlaceType DEF AtStep
<1> QED
  BY <1>1, <1>2, PlaceType DEF AtStep, Here

LEMMA DebtsType ==
  ASSUME Calling, Placed
  PROVE  Debts \in Dues(Len(stack)) /\ Len(stack) \in Nat
<1>1. \A p \in 1..Len(stack) : Here(stack[p]).due \in SUBSET Seq(Closers)
  BY FrameType, FactType
<1>2. Len(stack) \in Nat
  BY DEF Calling
<1> QED
  BY <1>1, <1>2 DEF Debts, Dues

-----------------------------------------------------------------------------
(* The effects of a step on what is known *)

\* The last call goes on at another place, knowing what is known there.
LEMMA BecomesKeeps ==
  ASSUME Calling, Cursor, Flowing, stack # <<>>,
         NEW c \in Frames, stack' = [stack EXCEPT ![Len(stack)] = c],
         c.at \in 1..(Len(Code[c.f]) + 1),
         look' \in Here(c).shown,
         \/ Level[c.f] <= Level[Top.f] /\ (Here(c).moved => Here(Top).moved \/ Rest' < Rest)
         \/ Here(Top).moved /\ ~Here(c).moved,
         NEW D, D \subseteq Here(c).due,
         told' = 0 => told = 0 /\ Splittable(open', Len(stack), [Debts EXCEPT ![Len(stack)] = D]),
         open' \in Seq(Brackets),
         Rest' \in Nat, Rest' <= Rest
  PROVE  Flowing'
<1> USE TopType
<1>1. Placed
  BY DEF Flowing
<1>2. stack \in Seq(Frames) /\ Len(stack) \in Nat
  BY DEF Calling
<1>3. /\ Len(stack') = Len(stack) /\ stack'[Len(stack)] = c /\ Top' = c
      /\ \A p \in 1..Len(stack) : p < Len(stack) => stack'[p] = stack[p]
  BY <1>2 DEF Top
<1>4. c.f \in DOMAIN Code
  BY DEF Frames
<1>5. Here(c) \in Facts /\ Level[c.f] \in 0..(CallsPerToken - 1)
  BY <1>4, PlaceType DEF Here
<1>6. Placed'
  <2> SUFFICES ASSUME NEW p \in 1..Len(stack)
               PROVE  stack'[p].at \in 1..(Len(Code[stack'[p].f]) + 1)
    BY <1>3 DEF Placed
  <2>1. CASE p = Len(stack)
    BY <1>3, <2>1
  <2>2. CASE p < Len(stack)
    BY <1>1, <1>2, <1>3, <2>2 DEF Placed
  <2>4. p = Len(stack) \/ p < Len(stack)
    BY <1>2
  <2> QED
    BY <2>1, <2>2, <2>4
<1>7. Shows'
  BY <1>3 DEF Shows, Here
<1>8. Shallow'
  <2> DEFINE now == CallsPerToken * (Length - Rest)
             then == CallsPerToken * (Length - Rest')
  <2>1. now \in Int /\ then \in Int /\ now <= then /\ (Rest' < Rest => now + CallsPerToken <= then)
    BY BoundGrows
  <2>2. CallsPerToken \in Nat /\ Rest \in Nat /\ Length \in Nat /\ Rest < Length
    BY FlowAssumption, LengthAssumption, RestType DEF Flowing, Shallow
  <2>3. \A p \in 1..Len(stack) : p + Weight(stack[p]) <= now
    BY DEF Flowing, Shallow
  <2>4. \A p \in 1..Len(stack) : Weight(stack[p]) \in Nat
    BY <1>1, <2>2, FrameType DEF Weight
  <2> HIDE DEF now, then
  <2>5. Weight(c) \in Nat /\ Len(stack) + Weight(c) <= then
    <3>1. Len(stack) + Weight(Top) <= now
      BY <2>3
    <3>2. Weight(Top) = Level[Top.f] + (IF Here(Top).moved THEN CallsPerToken ELSE 0)
      BY DEF Weight
    <3>3. Weight(c) = Level[c.f] + (IF Here(c).moved THEN CallsPerToken ELSE 0)
      BY DEF Weight
    <3>4. Level[Top.f] \in 0..(CallsPerToken - 1) /\ Level[c.f] \in Nat /\ Level[c.f] < CallsPerToken
      BY <1>1, <1>5, <2>2, TopFact
    <3>5. CASE Level[c.f] <= Level[Top.f] /\ (Here(c).moved => Here(Top).moved)
      <4>1. Weight(c) <= Weight(Top) /\ Weight(c) \in Nat /\ Weight(Top) \in Nat
        <5>1. CASE Here(c).moved
          <6>1. Weight(c) = Level[c.f] + CallsPerToken /\ Weight(Top) = Level[Top.f] + CallsPerToken
            BY <3>2, <3>3, <3>5, <5>1
          <6>2. \A x, y, k \in Nat : x <= y => x + k <= y + k /\ x + k \in Nat /\ y + k \in Nat
            OBVIOUS
          <6>3. Level[c.f] \in Nat /\ Level[Top.f] \in Nat /\ Level[c.f] <= Level[Top.f]
            BY <2>2, <3>4, <3>5
          <6> DEFINE x == Level[c.f]
                     y == Level[Top.f]
          <6>4. x \in Nat /\ y \in Nat /\ x <= y
            BY <6>3
          <6> HIDE DEF x, y
          <6>5. x + CallsPerToken <= y + CallsPerToken
            BY <2>2, <6>2, <6>4
          <6>6. x + CallsPerToken \in Nat /\ y + CallsPerToken \in Nat
            BY <2>2, <6>2, <6>4
          <6>7. Weight(c) = x + CallsPerToken /\ Weight(Top) = y + CallsPerToken
            BY <6>1 DEF x, y
          <6> QED
            BY <6>5, <6>6, <6>7, Zenon
        <5>2. CASE ~Here(c).moved
          BY <2>2, <3>2, <3>3, <3>4, <3>5, <5>2
        <5> QED
          BY <5>1, <5>2
      <4>2. \A l, t, k, n, e \in Int : l + t <= n /\ n <= e /\ k <= t => l + k <= e
        OBVIOUS
      <4> QED
        BY <1>2, <2>1, <3>1, <4>1, <4>2
    <3>6. CASE Level[c.f] <= Level[Top.f] /\ ~Here(Top).moved /\ Here(c).moved /\ Rest' < Rest
      <4>1. Weight(Top) = Level[Top.f] /\ Weight(c) = Level[c.f] + CallsPerToken
        BY <2>2, <3>2, <3>3, <3>4, <3>6
      <4>2. now + CallsPerToken <= then
        BY <2>1, <3>6
      <4>3. \A l, t, k, m, n, e \in Int :
              l + t <= n /\ n + m <= e /\ k <= t => l + (k + m) <= e
        OBVIOUS
      <4>4. Len(stack) + (Level[c.f] + CallsPerToken) <= then
        BY <1>2, <2>1, <2>2, <3>1, <3>4, <3>6, <4>1, <4>2, <4>3
      <4> QED
        BY <2>2, <3>4, <4>1, <4>4
    <3>7. CASE Here(Top).moved /\ ~Here(c).moved
      <4>1. Weight(Top) = Level[Top.f] + CallsPerToken /\ Weight(c) = Level[c.f]
        BY <2>2, <3>2, <3>3, <3>4, <3>7
      <4>2. \A l, t, k, m, n, e \in Int :
              l + (t + m) <= n /\ n <= e /\ 0 <= t /\ k < m => l + k <= e
        OBVIOUS
      <4>3. Len(stack) + Level[c.f] <= then
        BY <1>2, <2>1, <2>2, <3>1, <3>4, <4>1, <4>2
      <4> QED
        BY <3>4, <4>1, <4>3
    <3> QED
      BY <3>5, <3>6, <3>7
  <2>6. ASSUME NEW p \in 1..Len(stack')
        PROVE  p + Weight(stack'[p]) <= then
    <3>1. CASE p = Len(stack)
      BY <1>3, <2>5, <3>1
    <3>2. CASE p < Len(stack)
      <4>1. stack'[p] = stack[p] /\ p \in 1..Len(stack)
        BY <1>2, <1>3, <3>2
      <4>2. p + Weight(stack[p]) <= now /\ p + Weight(stack[p]) \in Int
        BY <2>3, <2>4, <4>1
      <4> QED
        BY <2>1, <4>1, <4>2
    <3>3. p \in 1..Len(stack)
      BY <1>3
    <3>4. p = Len(stack) \/ p < Len(stack)
      BY <1>2, <3>3
    <3> QED
      BY <3>1, <3>2, <3>4
  <2>7. Rest' < Length
    BY <2>2
  <2> QED
    BY <2>6, <2>7 DEF Shallow, then, Weight, Here
<1>9. Paired'
  <2> SUFFICES ASSUME told' = 0 PROVE Splittable(open', Len(stack), Debts')
    BY <1>3 DEF Paired
  <2> DEFINE old == [Debts EXCEPT ![Len(stack)] = D]
  <2>1. ASSUME NEW p \in 1..Len(stack)
        PROVE  old[p] \subseteq Debts'[p]
    <3>1. Debts'[p] = Here(stack'[p]).due
      BY <1>3 DEF Debts, Here
    <3>2. CASE p = Len(stack)
      BY <1>3, <3>1, <3>2 DEF Debts
    <3>3. CASE p < Len(stack)
      BY <1>3, <3>1, <3>3 DEF Debts, Here
    <3>4. p = Len(stack) \/ p < Len(stack)
      BY <1>2
    <3> QED
      BY <3>2, <3>3, <3>4
  <2> QED
    BY <1>2, <2>1, SplitWider
<1> QED
  BY <1>6, <1>7, <1>8, <1>9 DEF Flowing

\* The last call calls a function that goes less deep, or for which a token was taken.
LEMMA PushFlows ==
  ASSUME Calling, Cursor, Flowing, Running, AtStep(Top), Body[Top.at].op \in Calls,
         look \in AtCall(Body[Top.at], Here(Top)).shown,
         NEW m \in Nat,
         \/ stack' = Append(stack, Frame(Body[Top.at].call))
         \/ stack' = Append([stack EXCEPT ![Len(stack)].from = m], Frame(Body[Top.at].call)),
         UNCHANGED <<cursor, ret, told, open>>, open \in Seq(Brackets)
  PROVE  Flowing'
<1>0. stack # <<>> /\ Placed
  BY DEF Running, Flowing
<1> USE TopType
<1> DEFINE s == Body[Top.at]
           a == Here(Top)
           b == Known[s.call][1]
           c == Frame(s.call)
<1>1. stack \in Seq(Frames) /\ Len(stack) \in Nat /\ s.call \in DOMAIN Code
  BY <1>0, CalledHasCode DEF Calling, Body
<1>2. c \in Frames /\ c.f = s.call /\ c.at = 1
  BY <1>1, StartsWell DEF Frame
<1>3. PICK t : /\ t \in {stack, [stack EXCEPT ![Len(stack)].from = m]}
               /\ stack' = Append(t, c)
  OBVIOUS
<1>4. /\ t \in Seq(Frames) /\ Len(t) = Len(stack)
      /\ \A j \in 1..Len(t) : t[j].f = stack[j].f /\ t[j].at = stack[j].at
  <2>1. CASE t = stack
    BY <2>1 DEF Calling
  <2>2. CASE t = [stack EXCEPT ![Len(stack)].from = m]
    <3> DEFINE x == [stack[Len(stack)] EXCEPT !.from = m]
    <3>1. x \in Frames /\ x.f = stack[Len(stack)].f /\ x.at = stack[Len(stack)].at
      BY <1>0 DEF Frames
    <3>2. t = [stack EXCEPT ![Len(stack)] = x]
      BY <2>2
    <3> HIDE DEF x
    <3>3. /\ t \in Seq(Frames) /\ Len(t) = Len(stack)
          /\ \A j \in 1..Len(t) : t[j] = IF j = Len(stack) THEN x ELSE stack[j]
      BY <1>0, <1>1, <3>1, <3>2
    <3> QED
      BY <3>1, <3>3
  <2> QED
    BY <1>3, <2>1, <2>2
<1> HIDE DEF c
<1>5. /\ Len(stack') = Len(stack) + 1 /\ stack'[Len(stack) + 1] = c /\ Top' = c
      /\ \A j \in 1..Len(stack) : stack'[j] = t[j]
  BY <1>1, <1>2, <1>3, <1>4 DEF Top
<1>6. \A j \in 1..Len(stack) : stack'[j].f = stack[j].f /\ stack'[j].at = stack[j].at
  BY <1>4, <1>5
<1>7. /\ Within(Fresh(AtCall(s, a)), b) /\ (a.moved \/ Level[s.call] < Level[Top.f])
      /\ a \in Facts /\ Level[Top.f] \in 0..(CallsPerToken - 1) /\ Top.at \in Nat
  BY <1>0, TopFact DEF FlowsWell, Body, Here
<1>8. AtCall(s, a).due = a.due
  BY <1>7, FactType DEF AtCall
<1>9. {<<>> : d \in a.due} \subseteq b.due /\ look \in b.shown /\ ~b.moved
  BY <1>7, <1>8 DEF Within, Fresh
<1>10. Here(c) = b /\ \A j \in 1..Len(stack) : Here(stack'[j]) = Here(stack[j])
  BY <1>2, <1>6 DEF Here
<1>11. Level[s.call] \in 0..(CallsPerToken - 1) /\ Len(Code[s.call]) \in Nat /\ CallsPerToken \in Nat
  <2>1. Len(Code[s.call]) \in Nat
    BY <1>1, CodeAssumption
  <2> QED
    BY <1>1, <2>1, FlowAssumption
<1>12. Placed'
  <2> SUFFICES ASSUME NEW p \in 1..Len(stack')
               PROVE  stack'[p].at \in 1..(Len(Code[stack'[p].f]) + 1)
    BY DEF Placed
  <2>1. CASE p = Len(stack) + 1
    BY <1>2, <1>5, <1>11, <2>1
  <2>2. CASE p \in 1..Len(stack)
    BY <1>0, <1>6, <2>2 DEF Placed
  <2> QED
    BY <1>1, <1>5, <2>1, <2>2
<1>13. look' = look /\ told' = told /\ open' = open /\ Rest' = Rest
  BY DEF cursor, Rest
<1>14. Shows'
  BY <1>5, <1>9, <1>10, <1>13 DEF Shows, Here
<1>15. Shallow'
  <2> DEFINE now == CallsPerToken * (Length - Rest)
  <2>1. now \in Int /\ Rest < Length /\ \A p \in 1..Len(stack) : p + Weight(stack[p]) <= now
    <3>1. now \in Int
      BY Budget, RestType, FlowAssumption
    <3> QED
      BY <3>1 DEF Flowing, Shallow
  <2> HIDE DEF now
  <2>2. Weight(c) = Level[s.call]
    BY <1>2, <1>9, <1>10, <1>11 DEF Weight
  <2>3. Weight(Top) = Level[Top.f] + (IF a.moved THEN CallsPerToken ELSE 0)
    BY DEF Weight
  <2>4. Len(stack) + 1 + Weight(c) <= now
    <3>1. Len(stack) + Weight(Top) <= now
      BY <1>0, <2>1
    <3>2. Level[s.call] \in Nat /\ Level[s.call] + 1 <= CallsPerToken /\ Level[Top.f] \in Nat
      BY <1>7, <1>11
    <3>3. 1 + Weight(c) <= Weight(Top) /\ Weight(c) \in Nat /\ Weight(Top) \in Nat
      <4>1. CASE a.moved
        <5>1. Weight(Top) = Level[Top.f] + CallsPerToken
          BY <2>3, <4>1
        <5>2. \A x, y, k \in Nat : x + 1 <= k => 1 + x <= y + k /\ y + k \in Nat
          OBVIOUS
        <5>3. 1 + Level[s.call] <= Level[Top.f] + CallsPerToken /\ Level[Top.f] + CallsPerToken \in Nat
          BY <1>11, <3>2, <5>2
        <5> QED
          BY <2>2, <3>2, <5>1, <5>3
      <4>2. CASE ~a.moved
        <5>1. Level[s.call] < Level[Top.f]
          BY <1>7, <4>2
        <5>2. Weight(Top) = Level[Top.f]
          BY <2>3, <3>2, <4>2
        <5> QED
          BY <2>2, <3>2, <5>1, <5>2
      <4> QED
        BY <4>1, <4>2
    <3> QED
      BY <1>1, <2>1, <3>1, <3>3
  <2>5. ASSUME NEW p \in 1..Len(stack')
        PROVE  p + Weight(stack'[p]) <= now
    <3>1. CASE p = Len(stack) + 1
      BY <1>5, <2>4, <3>1
    <3>2. CASE p \in 1..Len(stack)
      <4>1. Weight(stack'[p]) = Weight(stack[p])
        BY <1>6, <1>10, <3>2 DEF Weight
      <4> QED
        BY <2>1, <3>2, <4>1
    <3> QED
      BY <1>1, <1>5, <3>1, <3>2
  <2> QED
    BY <1>13, <2>1, <2>5 DEF Shallow, now, Weight, Here
<1>16. Paired'
  <2> SUFFICES ASSUME told = 0 PROVE Splittable(open, Len(stack) + 1, Debts')
    BY <1>5, <1>13 DEF Paired
  <2>1. Splittable(open, Len(stack), Debts)
    BY DEF Flowing, Paired
  <2>2. PICK d : d \in Debts[Len(stack)]
    BY <1>0, <2>1 DEF Splittable, Splits
  <2>3. d \in a.due
    BY <1>0, <2>2 DEF Debts
  <2>6. \A p \in 1..(Len(stack) + 1) : Debts'[p] = Here(stack'[p]).due
    BY <1>1, <1>5 DEF Debts, Here
  <2>7. /\ \A p \in 1..Len(stack) : p \in 1..(Len(stack) + 1)
        /\ Len(stack) + 1 \in 1..(Len(stack) + 1)
    BY <1>1
  <2>4. \A p \in 1..Len(stack) : Debts[p] \subseteq Debts'[p]
    <3>1. \A p \in 1..Len(stack) : Debts[p] = Here(stack[p]).due
      BY DEF Debts
    <3> QED
      BY <1>10, <2>6, <2>7, <3>1
  <2>5. <<>> \in Debts'[Len(stack) + 1]
    <3>1. Debts'[Len(stack) + 1] = b.due
      BY <1>5, <1>10, <2>6, <2>7
    <3> QED
      BY <1>9, <2>3, <3>1
  <2> QED
    BY <1>1, <2>1, <2>4, <2>5, SplitCall
<1> QED
  BY <1>12, <1>14, <1>15, <1>16 DEF Flowing

\* The last call returns; if there was no error it owes nothing.
LEMMA LeaveFlows ==
  ASSUME Calling, Cursor, Flowing, stack # <<>>, NEW v, Leave(v), v # "-", UNCHANGED cursor,
         told' = 0 => told = 0 /\ open' = open /\ Here(Top).due \subseteq {<<>>},
         open \in Seq(Brackets)
  PROVE  Flowing'
<1> USE TopType
<1>0. stack \in Seq(Frames) /\ Placed
  BY DEF Calling, Flowing
<1> DEFINE n == Len(stack) - 1
<1>1. n \in Nat /\ n + 1 = Len(stack)
  OBVIOUS
<1>2. stack' = SubSeq(stack, 1, n)
  BY DEF Leave
<1> HIDE DEF n
<1>3. Len(stack') = n /\ \A p \in 1..n : stack'[p] = stack[p] /\ p \in 1..Len(stack)
  BY <1>0, <1>1, <1>2
<1>4. Placed'
  BY <1>0, <1>3 DEF Placed
<1>5. Shows'
  BY DEF Leave, Shows, Running
<1>6. Shallow'
  BY <1>3 DEF Flowing, Shallow, Weight, Here, Rest, cursor
<1>7. Paired'
  <2> SUFFICES ASSUME told' = 0 PROVE Splittable(open', n, Debts')
    BY <1>3 DEF Paired
  <2>1. Splittable(open, n + 1, Debts) /\ open' = open
    BY <1>1 DEF Flowing, Paired
  <2>2. Debts[n + 1] \subseteq {<<>>}
    BY <1>1 DEF Debts, Top
  <2>3. \A p \in 1..n : Debts[p] \subseteq Debts'[p]
    BY <1>3 DEF Debts, Here
  <2> QED
    BY <1>1, <2>1, <2>2, <2>3, SplitReturn
<1> QED
  BY <1>4, <1>5, <1>6, <1>7 DEF Flowing

\* The last call goes on from an instruction to one that Leads has, and what is known
\* there holds.
LEMMA GoesOn ==
  ASSUME Calling, Cursor, Flowing, stack # <<>>, AtStep(Top),
         NEW n \in {0, 1, 2}, Go(n),
         NEW x, <<n, x>> \in Leads(Body[Top.at], Here(Top)),
         look' \in x.shown, x.moved => Here(Top).moved \/ Rest' < Rest,
         told' = 0 => told = 0 /\ Splittable(open', Len(stack), [Debts EXCEPT ![Len(stack)] = x.due]),
         open' \in Seq(Brackets),
         Rest' \in Nat, Rest' <= Rest
  PROVE  Flowing'
<1> USE TopType
<1> DEFINE c == [Top EXCEPT !.at = @ + n]
           b == Known[Top.f][Top.at + n]
<1>1. Placed
  BY DEF Flowing
<1>2. /\ Top.at + n <= Len(Code[Top.f]) + 1 /\ Within(x, b)
      /\ Top.at \in Nat \ {0} /\ Len(Code[Top.f]) \in Nat
  <2>1. FlowsWell(Top.f, Top.at) /\ Top.at \in 1..(Len(Code[Top.f]) + 1)
    BY <1>1, TopFact
  <2>2. \A y \in Leads(Body[Top.at], Here(Top)) :
          Top.at + y[1] <= Len(Code[Top.f]) + 1 /\ Within(y[2], Known[Top.f][Top.at + y[1]])
    BY <2>1 DEF FlowsWell, Body, Here
  <2>3. Len(Code[Top.f]) \in Nat
    BY CodeAssumption
  <2> QED
    BY <2>1, <2>2, <2>3
<1>3. c \in Frames /\ c.f = Top.f /\ c.at = Top.at + n /\ c.at \in 1..(Len(Code[c.f]) + 1)
  BY <1>2 DEF Frames
<1>4. stack' = [stack EXCEPT ![Len(stack)] = c]
  BY DEF Go, Top
<1>5. x.due \subseteq b.due /\ look' \in b.shown /\ (b.moved => x.moved)
  BY <1>2 DEF Within
<1>6. Here(c) = b
  BY <1>3 DEF Here
<1>7. Level[c.f] <= Level[Top.f]
  BY <1>1, <1>3, TopFact
<1> HIDE DEF c, b
<1> QED
  BY <1>3, <1>4, <1>5, <1>6, <1>7, BecomesKeeps

\* The last call goes on and owes what it owed.
LEMMA OwesOn ==
  ASSUME Calling, Cursor, Flowing, stack # <<>>, AtStep(Top),
         NEW n \in {0, 1, 2}, Go(n),
         NEW x, <<n, x>> \in Leads(Body[Top.at], Here(Top)),
         look' \in x.shown, x.moved => Here(Top).moved \/ Rest' < Rest,
         told' = 0 => told = 0 /\ Here(Top).due \subseteq x.due, open' = open, open \in Seq(Brackets),
         Rest' \in Nat, Rest' <= Rest
  PROVE  Flowing'
<1> USE TopType
<1>1. Len(stack) \in Nat
  BY DEF Calling
<1>2. ASSUME told' = 0
      PROVE  Splittable(open', Len(stack), [Debts EXCEPT ![Len(stack)] = x.due])
  <2>1. Splittable(open, Len(stack), Debts)
    BY <1>2 DEF Flowing, Paired
  <2> DEFINE E == [Debts EXCEPT ![Len(stack)] = x.due]
  <2>2. \A p \in 1..Len(stack) : Debts[p] \subseteq E[p]
    BY <1>2 DEF Debts
  <2> HIDE DEF E
  <2>3. Splittable(open, Len(stack), E)
    BY <1>1, <2>1, <2>2, SplitWider
  <2> QED
    BY <2>3 DEF E
<1> QED
  BY <1>2, GoesOn

\* A token is taken, and counted.
LEMMA TakesOn ==
  ASSUME Calling, Cursor, Flowing, stack # <<>>, AtStep(Top), Go(1), open \in Seq(Brackets),
         NEW b \in Facts, b.due = Here(Top).due, b.moved = Here(Top).moved, look \in b.shown,
         MayTake(b), <<1, Taken(b)>> \in Leads(Body[Top.at], Here(Top)),
         Advance, open' = Counted, told' = told
  PROVE  Flowing'
<1> USE TopType
<1> DEFINE x == Taken(b)
<1>1. look' \in x.shown
  BY AdvanceCursor, FactType DEF Cursor
<1>2. x.moved => Here(Top).moved \/ Rest' < Rest
  BY RestShrinks, FactType
<1>3. Rest' \in Nat /\ Rest' <= Rest /\ open' \in Seq(Brackets)
  BY RestShrinks, CountedType
<1>4. ASSUME told = 0
      PROVE  Splittable(open', Len(stack), [Debts EXCEPT ![Len(stack)] = x.due])
  <2> DEFINE E == [Debts EXCEPT ![Len(stack)] = x.due]
             n == Len(stack) - 1
  <2>0. n \in Nat /\ n + 1 = Len(stack)
    OBVIOUS
  <2>1. Splittable(open, n + 1, Debts) /\ Debts \in Dues(n + 1)
    BY <1>4, <2>0, DebtsType DEF Flowing, Paired
  <2>2. Debts[n + 1] = b.due
    BY <2>0 DEF Debts, Top
  <2>3. E[n + 1] = {Owed(d, k) : d \in b.due, k \in b.shown}
    BY <2>0, FactType DEF Debts
  <2>4. \A p \in 1..n : Debts[p] \subseteq E[p]
    BY <2>0 DEF Debts
  <2> HIDE DEF n, E, x
  <2>5. CASE look \in Open
    <3>1. Counted = <<Closer[look]>> \o open /\ Closer[look] \in Brackets
      BY <1>4, <2>5 DEF Counted, Brackets
    <3>2. \A d \in Debts[n + 1] : <<Closer[look]>> \o d \in E[n + 1]
      BY <2>2, <2>3, <2>5 DEF Owed
    <3>3. Splittable(<<Closer[look]>> \o open, n + 1, E)
      <4> DEFINE closer == Closer[look]
      <4> HIDE DEF closer
      <4>1. closer \in Brackets /\ \A d \in Debts[n + 1] : <<closer>> \o d \in E[n + 1]
        BY <3>1, <3>2 DEF closer
      <4>2. Splittable(<<closer>> \o open, n + 1, E)
        BY <2>0, <2>1, <2>4, <4>1, SplitMore
      <4> QED
        BY <4>2 DEF closer
    <3> QED
      BY <2>0, <3>1, <3>3 DEF E
  <2>6. CASE look \notin Open /\ look \in Closers
    <3>1. \A d \in b.due : d # <<>> /\ Head(d) = look
      BY <2>6 DEF MayTake
    <3>2. \A d \in Debts[n + 1] : d # <<>> /\ Head(d) = look /\ Tail(d) \in E[n + 1]
      BY <2>2, <2>3, <2>6, <3>1 DEF Owed
    <3>3. open # <<>> /\ Head(open) = look /\ Splittable(Tail(open), n + 1, E)
      BY <2>0, <2>1, <2>4, <3>2, SplitLess
    <3>4. Counted = Tail(open)
      BY <1>4, <2>6, <3>3 DEF Counted, Closers
    <3> QED
      BY <2>0, <3>3, <3>4 DEF E
  <2>7. CASE look \notin Open /\ look \notin Closers
    <3>1. Counted = open
      BY <1>4, <2>7 DEF Counted, Closers
    <3>2. \A d \in Debts[n + 1] : d \in E[n + 1]
      BY <2>2, <2>3, <2>7 DEF Owed
    <3>3. \A p \in 1..(n + 1) : Debts[p] \subseteq E[p]
      BY <2>0, <2>4, <3>2
    <3>4. Splittable(open, n + 1, E)
      BY <2>0, <2>1, <3>3, SplitWider
    <3> QED
      BY <2>0, <3>1, <3>4 DEF E
  <2> QED
    BY <2>5, <2>6, <2>7
<1> HIDE DEF x
<1> QED
  BY <1>1, <1>2, <1>3, <1>4, GoesOn DEF x

\* The last call stays where it is.
LEMMA StaysThere ==
  ASSUME Calling, Cursor, Flowing, stack # <<>>, UNCHANGED <<stack, told, open>>, open \in Seq(Brackets),
         look' \in Here(Top).shown, Rest' \in Nat, Rest' <= Rest
  PROVE  Flowing'
<1> USE TopType
<1>1. Top \in Frames /\ stack' = [stack EXCEPT ![Len(stack)] = Top]
  BY DEF Calling, Top
<1>2. Top.at \in 1..(Len(Code[Top.f]) + 1) /\ Level[Top.f] <= Level[Top.f]
  BY TopFact DEF Flowing
<1>3. Len(stack) \in Nat
  BY DEF Calling
<1>4. ASSUME told' = 0
      PROVE  told = 0 /\ Splittable(open', Len(stack), [Debts EXCEPT ![Len(stack)] = Here(Top).due])
  <2>1. Splittable(open, Len(stack), Debts)
    BY <1>4 DEF Flowing, Paired
  <2> DEFINE E == [Debts EXCEPT ![Len(stack)] = Here(Top).due]
  <2>2. \A p \in 1..Len(stack) : Debts[p] \subseteq E[p]
    BY DEF Debts
  <2> HIDE DEF E
  <2>3. Splittable(open, Len(stack), E)
    BY <1>3, <2>1, <2>2, SplitWider
  <2> QED
    BY <1>4, <2>3 DEF E
<1> QED
  BY <1>1, <1>2, <1>4, BecomesKeeps

-----------------------------------------------------------------------------
(* The steps keep what is known *)

\* What is known where the last call executes an instruction.
LEMMA KnownNow ==
  ASSUME Calling, Cursor, Flowing, NEW i \in Current
  PROVE  /\ stack # <<>> /\ AtStep(Top) /\ i = Body[Top.at] /\ Running /\ ret = "-"
         /\ Here(Top) \in Facts /\ look \in Here(Top).shown /\ look \in Tokens
         /\ i.op \in SkipsDocs /\ "doc" \in Here(Top).shown => Here(Top).shown = Tokens
         /\ i.op \in Matching => MayTake(At(Here(Top), i.kinds))
         /\ i.op = "take" => MayTake(Here(Top))
         /\ i.op \in {"stop_unless", "stop_at"} => Here(Top).due \subseteq {<<>>}
         /\ Rest \in Nat
<1>1. stack # <<>> /\ AtStep(Top) /\ i = Body[Top.at] /\ Running /\ ret = "-"
  BY CurrentType
<1>2. Here(Top) \in Facts /\ FlowsWell(Top.f, Top.at)
  BY <1>1, TopFact DEF Flowing
<1>3. look \in Here(Top).shown /\ look \in Tokens /\ Rest \in Nat
  BY <1>1, RestType DEF Flowing, Shows, Cursor
<1> QED
  BY <1>1, <1>2, <1>3 DEF FlowsWell, Body, Here

\* The token is left; the call goes on owing what it owed.
LEMMA LooksOn ==
  ASSUME Calling, Cursor, Flowing, open \in Seq(Brackets), NEW i \in Current, UNCHANGED cursor,
         NEW n \in {0, 1, 2}, Go(n),
         NEW x, <<n, x>> \in Leads(i, Here(Top)), look \in x.shown, x.moved = Here(Top).moved,
         \/ told' = told /\ open' = open /\ x.due = Here(Top).due
         \/ told' = Len(stack) /\ open' = <<>>
  PROVE  Flowing'
<1> USE KnownNow
<1>1. look' = look /\ Rest' = Rest /\ <<>> \in Seq(Brackets)
  BY DEF cursor, Rest
<1>2. Len(stack) \in Nat \ {0}
  BY TopType
<1>3. CASE told' = told /\ open' = open /\ x.due = Here(Top).due
  BY <1>1, <1>3, OwesOn
<1>4. CASE told' = Len(stack) /\ open' = <<>>
  <2>1. told' # 0 /\ open' \in Seq(Brackets)
    BY <1>2, <1>4
  <2>2. Rest' \in Nat /\ Rest' <= Rest /\ look' \in x.shown
    BY <1>1
  <2> QED
    BY <2>1, <2>2, GoesOn
<1> QED
  BY <1>3, <1>4

LEMMA SkipDocFlows ==
  ASSUME Calling, Cursor, Flowing, open \in Seq(Brackets), NEW i \in Current, SkipDoc(i)
  PROVE  Flowing'
<1> USE KnownNow
<1>1. look' \in Tokens
  BY AdvanceCursor DEF SkipDoc, Cursor
<1>2. Here(Top).shown = Tokens
  BY DEF SkipDoc
<1>3. Rest' \in Nat /\ Rest' <= Rest
  BY RestShrinks DEF SkipDoc
<1> QED
  BY <1>1, <1>2, <1>3, StaysThere DEF SkipDoc

LEMMA LookAheadFlows ==
  ASSUME Calling, Cursor, Flowing, open \in Seq(Brackets), NEW i \in Current, LookAhead(i)
  PROVE  Flowing'
<1> USE KnownNow
<1>1. Rest' \in Nat /\ Rest' <= Rest /\ look' = look
  BY RestLooked DEF LookAhead
<1> QED
  BY <1>1, StaysThere DEF LookAhead

LEMMA MatchedFlows ==
  ASSUME Calling, Cursor, Flowing, open \in Seq(Brackets), NEW i \in Current,
         Matched(i) \/ DoTake(i)
  PROVE  Flowing'
<1> USE KnownNow
<1> DEFINE a == Here(Top)
<1>1. CASE Matched(i)
  <2> DEFINE b == At(a, i.kinds)
  <2>1. b.due = a.due /\ b.moved = a.moved /\ b.shown = a.shown \cap i.kinds
    BY FactType
  <2>2. b \in Facts
    BY DEF At, Facts
  <2>3. <<1, Taken(b)>> \in Leads(i, a) /\ MayTake(b)
    BY <1>1 DEF Matched, Matching, Leads
  <2>4. look \in b.shown /\ Go(1) /\ Advance /\ open' = Counted /\ told' = told
    BY <1>1, <2>1 DEF Matched, Step
  <2> HIDE DEF a, b
  <2> QED
    BY <2>1, <2>2, <2>3, <2>4, TakesOn DEF a
<1>2. CASE DoTake(i)
  <2>1. <<1, Taken(a)>> \in Leads(i, a) /\ MayTake(a)
    BY <1>2 DEF DoTake, Leads
  <2>2. Go(1) /\ Advance /\ open' = Counted /\ told' = told
    BY <1>2 DEF DoTake, Step
  <2> QED
    BY <2>1, <2>2, TakesOn
<1> QED
  BY <1>1, <1>2

LEMMA SkipFlows ==
  ASSUME Calling, Cursor, Flowing, open \in Seq(Brackets), NEW i \in Current, DoSkip(i)
  PROVE  Flowing'
<1> USE KnownNow
<1> DEFINE a == Here(Top)
           x == Passed(a)
<1>1. <<1, x>> \in Leads(i, a)
  BY DEF DoSkip, Leads
<1>2. look' \in x.shown /\ x.due = a.due /\ (x.moved => a.moved \/ Rest' < Rest)
  BY FactType, AdvanceCursor, RestShrinks DEF DoSkip, Cursor
<1>3. Rest' \in Nat /\ Rest' <= Rest /\ Go(1) /\ told' = told /\ open' = open
  BY RestShrinks DEF DoSkip, Step
<1> HIDE DEF x
<1> QED
  BY <1>1, <1>2, <1>3, OwesOn

LEMMA MissedFlows ==
  ASSUME Calling, Cursor, Flowing, open \in Seq(Brackets), NEW i \in Current,
         NeedMissed(i) \/ WantMissed(i) \/ MayMissed(i) \/ WhenMissed(i) \/ StopUnlessMissed(i)
  PROVE  Flowing'
<1> USE KnownNow
<1> DEFINE a == Here(Top)
           b == NotAt(a, i.kinds)
<1>1. /\ b.due = a.due /\ b.moved = a.moved /\ b.shown = a.shown \ i.kinds /\ b \in Facts
      /\ Spoilt(b).moved = a.moved /\ Spoilt(b).shown = b.shown
  <2>1. b \in Facts
    BY DEF NotAt, Facts
  <2> QED
    BY <2>1, FactType
<1>2. UNCHANGED cursor /\ look \in b.shown
  BY <1>1 DEF NeedMissed, WantMissed, MayMissed, WhenMissed, StopUnlessMissed, Missed
<1>3. Len(stack) \in Nat \ {0}
  BY TopType
<1>4. CASE NeedMissed(i)
  BY <1>2, <1>3, <1>4, LeaveFlows DEF NeedMissed, Error
<1>5. CASE WantMissed(i)
  <2>1. <<1, Spoilt(b)>> \in Leads(i, a)
    BY <1>5 DEF WantMissed, Missed, Leads
  <2> HIDE DEF b
  <2> QED
    BY <1>1, <1>2, <1>5, <2>1, LooksOn DEF WantMissed, Error, Step
<1>6. CASE MayMissed(i)
  <2>1. <<1, b>> \in Leads(i, a)
    BY <1>6 DEF MayMissed, Missed, Leads
  <2> HIDE DEF b
  <2> QED
    BY <1>1, <1>2, <1>6, <2>1, LooksOn DEF MayMissed, Silent, Step
<1>7. CASE WhenMissed(i)
  <2>1. <<2, b>> \in Leads(i, a)
    BY <1>7 DEF WhenMissed, Missed, Leads
  <2> HIDE DEF b
  <2> QED
    BY <1>1, <1>2, <1>7, <2>1, LooksOn DEF WhenMissed, Silent, Hop
<1>8. CASE StopUnlessMissed(i)
  <2>1. i.op = "stop_unless"
    BY <1>8 DEF StopUnlessMissed, Missed
  <2> QED
    BY <1>2, <1>8, <2>1, LeaveFlows DEF StopUnlessMissed, Silent
<1> QED
  BY <1>4, <1>5, <1>6, <1>7, <1>8

LEMMA TestFlows ==
  ASSUME Calling, Cursor, Flowing, open \in Seq(Brackets), NEW i \in Current,
         DoIfAt(i) \/ DoStopAt(i) \/ DoDocs(i) \/ DoMaybe(i) \/ DoIfLooksLike(i) \/ LoopEnds(i)
  PROVE  Flowing'
<1> USE KnownNow
<1> DEFINE a == Here(Top)
<1>0. UNCHANGED cursor /\ told' = told /\ open' = open
  BY DEF DoIfAt, DoStopAt, DoDocs, DoMaybe, DoIfLooksLike, LoopEnds
<1>1. ASSUME NEW n \in {0, 1, 2}, NEW x, <<n, x>> \in Leads(i, a), look \in x.shown,
             x.moved = a.moved, x.due = a.due, Go(n)
      PROVE  Flowing'
  BY <1>0, <1>1, LooksOn
<1>2. CASE DoIfAt(i)
  <2>1. <<1, At(a, i.kinds)>> \in Leads(i, a) /\ <<2, NotAt(a, i.kinds)>> \in Leads(i, a)
    BY <1>2 DEF DoIfAt, Leads
  <2>2. CASE look \in i.kinds
    BY <1>1, <1>2, <2>1, <2>2, FactType DEF DoIfAt, Step
  <2>3. CASE look \notin i.kinds
    BY <1>1, <1>2, <2>1, <2>3, FactType DEF DoIfAt, Hop
  <2> QED
    BY <2>2, <2>3
<1>3. CASE DoStopAt(i)
  <2>1. i.op = "stop_at" /\ <<1, NotAt(a, i.kinds)>> \in Leads(i, a)
    BY <1>3 DEF DoStopAt, Leads
  <2>2. CASE look \in i.kinds
    BY <1>0, <1>3, <2>1, <2>2, LeaveFlows DEF DoStopAt
  <2>3. CASE look \notin i.kinds
    BY <1>1, <1>3, <2>1, <2>3, FactType DEF DoStopAt, Step
  <2> QED
    BY <2>2, <2>3
<1>4. CASE DoDocs(i)
  <2>1. <<1, a>> \in Leads(i, a)
    BY <1>4 DEF DoDocs, Leads
  <2> QED
    BY <1>1, <1>4, <2>1 DEF DoDocs, Step
<1>5. CASE DoMaybe(i)
  <2>1. <<1, a>> \in Leads(i, a) /\ (i.op = "maybe" => <<2, a>> \in Leads(i, a))
    BY <1>5 DEF DoMaybe, Leads
  <2> QED
    BY <1>1, <1>5, <2>1 DEF DoMaybe, Step, Hop
<1>6. CASE DoIfLooksLike(i)
  <2>1. <<1, a>> \in Leads(i, a) /\ <<2, a>> \in Leads(i, a)
    BY <1>6 DEF DoIfLooksLike, Leads
  <2> QED
    BY <1>1, <1>6, <2>1 DEF DoIfLooksLike, Step, Hop
<1>7. CASE LoopEnds(i)
  <2>1. <<1, Anywhere(a)>> \in Leads(i, a)
    BY <1>7 DEF LoopEnds, Leads
  <2> QED
    BY <1>1, <1>7, <2>1, FactType DEF LoopEnds, Step
<1> QED
  BY <1>2, <1>3, <1>4, <1>5, <1>6, <1>7

LEMMA ErrorFlows ==
  ASSUME Calling, Cursor, Flowing, open \in Seq(Brackets), NEW i \in Current, DoNote(i) \/ DoFail(i)
  PROVE  Flowing'
<1> USE KnownNow
<1> DEFINE a == Here(Top)
<1>1. Len(stack) \in Nat \ {0} /\ UNCHANGED cursor /\ told' = Len(stack) /\ open' = <<>>
  BY TopType DEF DoNote, DoFail, Error
<1>2. CASE DoNote(i)
  <2>1. <<1, Spoilt(a)>> \in Leads(i, a)
    BY <1>2 DEF DoNote, Leads
  <2> QED
    BY <1>1, <1>2, <2>1, LooksOn, FactType DEF DoNote, Step
<1>3. CASE DoFail(i)
  BY <1>1, <1>3, LeaveFlows DEF DoFail
<1> QED
  BY <1>2, <1>3

LEMMA CallFlows ==
  ASSUME Calling, Cursor, Flowing, open \in Seq(Brackets), NEW i \in Current,
         DoCall(i) \/ CallMarked(i)
  PROVE  Flowing'
<1> USE KnownNow
<1> DEFINE a == Here(Top)
<1>1. CASE DoCall(i)
  <2>1. i.op \in Calls /\ look \in AtCall(i, a).shown
    <3>1. CASE i.op \in {"sub", "try", "if_fails", "surrender"}
      BY <3>1 DEF Calls, AtCall
    <3>2. CASE i.op = "each" /\ look \notin i.kinds \cup {"eof"}
      BY <3>2, FactType DEF Calls, AtCall
    <3>3. CASE i.op = "while" /\ look \in i.kinds
      BY <3>3, FactType DEF Calls, AtCall
    <3> QED
      BY <1>1, <3>1, <3>2, <3>3 DEF DoCall
  <2> QED
    BY <1>1, <2>1, PushFlows DEF DoCall, Push
<1>2. CASE CallMarked(i)
  <2>1. i.op \in Calls /\ look \in AtCall(i, a).shown
    BY <1>2 DEF CallMarked, Calls, AtCall
  <2> QED
    BY <1>2, <2>1, PushFlows DEF CallMarked
<1> QED
  BY <1>1, <1>2

LEMMA GotoFlows ==
  ASSUME Calling, Cursor, Flowing, open \in Seq(Brackets), NEW i \in Current, DoGoto(i)
  PROVE  Flowing'
<1> USE KnownNow
<1> DEFINE a == Here(Top)
<1>0. FlowsWell(Top.f, Top.at) /\ look' = look /\ Rest' = Rest /\ told' = told /\ open' = open
  BY TopFact DEF Flowing, DoGoto, cursor, Rest
<1>1. PICK f \in DOMAIN Code, x \in Facts :
        /\ <<f, x>> \in Successors(i, a) /\ Instead(f)
        /\ look \in x.shown /\ x.due = a.due /\ x.moved = a.moved
  <2>1. CASE i.op = "goto" /\ Instead(i.call)
    BY <2>1, CurrentType DEF Successors
  <2>2. CASE i.op = "pick" /\ Instead(IF look \in DOMAIN i.table THEN i.table[look] ELSE i.other)
    <3> DEFINE f == IF look \in DOMAIN i.table THEN i.table[look] ELSE i.other
               x == At(a, {look})
    <3>1. f \in DOMAIN Code
      BY <2>2, CurrentType
    <3>2. <<f, x>> \in Successors(i, a)
      BY <2>2 DEF Successors
    <3>3. look \in x.shown /\ x.due = a.due /\ x.moved = a.moved
      BY FactType
    <3>4. x \in Facts
      BY DEF At, Facts
    <3> QED
      BY <2>2, <3>1, <3>2, <3>3, <3>4
  <2> QED
    BY <2>1, <2>2 DEF DoGoto
<1> DEFINE b == Known[f][1]
<1>2. Within([x EXCEPT !.moved = FALSE], b) /\ (a.moved \/ Level[f] <= Level[Top.f])
  <2>1. \A y \in Successors(i, a) :
          /\ Within([y[2] EXCEPT !.moved = FALSE], Known[y[1]][1])
          /\ a.moved \/ Level[y[1]] <= Level[Top.f]
    BY <1>0 DEF FlowsWell, Body, Here
  <2> QED
    BY <1>1, <2>1
<1>3. x.due \subseteq b.due /\ look \in b.shown /\ ~b.moved
  <2> DEFINE y == [x EXCEPT !.moved = FALSE]
  <2>1. y.due = x.due /\ y.shown = x.shown /\ y.moved = FALSE
    BY <1>1 DEF Facts
  <2> HIDE DEF y
  <2>2. Within(y, b)
    BY <1>2 DEF y
  <2> QED
    BY <1>1, <2>1, <2>2 DEF Within
<1>4. Frame(f) \in Frames /\ Frame(f).f = f /\ Here(Frame(f)) = b
      /\ Frame(f).at \in 1..(Len(Code[Frame(f).f]) + 1)
  <2>1. Len(Code[f]) \in Nat
    BY <1>1, CodeAssumption
  <2> QED
    BY <1>1, <2>1, StartsWell DEF Frame, Here
<1>5. ASSUME told' = 0
      PROVE  told = 0 /\ Splittable(open', Len(stack), [Debts EXCEPT ![Len(stack)] = x.due])
  <2> DEFINE E == [Debts EXCEPT ![Len(stack)] = x.due]
  <2>1. Splittable(open, Len(stack), Debts) /\ Len(stack) \in Nat
    BY <1>0, <1>5, TopType DEF Flowing, Paired
  <2>2. \A p \in 1..Len(stack) : Debts[p] \subseteq E[p]
    BY <1>1 DEF Debts, Top
  <2> HIDE DEF E
  <2>3. Splittable(open, Len(stack), E)
    BY <2>1, <2>2, SplitWider
  <2> QED
    BY <1>0, <1>5, <2>3 DEF E
<1>6. Rest' \in Nat /\ Rest' <= Rest /\ open' \in Seq(Brackets) /\ look' \in Here(Frame(f)).shown
  BY <1>0, <1>3, <1>4
<1>7. stack' = [stack EXCEPT ![Len(stack)] = Frame(f)]
  BY <1>1 DEF Instead
<1>8. \/ Level[Frame(f).f] <= Level[Top.f] /\ (Here(Frame(f)).moved => Here(Top).moved \/ Rest' < Rest)
      \/ Here(Top).moved /\ ~Here(Frame(f)).moved
  BY <1>2, <1>3, <1>4
<1> HIDE DEF b
<1> QED
  BY <1>3, <1>4, <1>5, <1>6, <1>7, <1>8, BecomesKeeps

LEMMA ReturnFlows ==
  ASSUME Calling, Cursor, Flowing, open \in Seq(Brackets), Return
  PROVE  Flowing'
<1>1. stack # <<>> /\ ~AtStep(Top)
  <2>1. stack # <<>> /\ Top.at > Len(Code[Top.f])
    BY DEF Return, Running, Body
  <2>2. Top.at \in Nat /\ Len(Code[Top.f]) \in Nat
    BY <2>1, TopType, CodeAssumption DEF Frames
  <2> QED
    BY <2>1, <2>2 DEF AtStep
<1>2. Here(Top).due \subseteq {<<>>}
  BY <1>1, TopFact DEF Flowing
<1> QED
  BY <1>1, <1>2, LeaveFlows DEF Return

LEMMA ResumeFlows ==
  ASSUME Calling, Cursor, Flowing, open \in Seq(Brackets), stack # <<>>, GoOn \/ PassOn
  PROVE  Flowing'
<1> USE TopType
<1> DEFINE a == Here(Top)
           s == Body[Top.at]
<1>1. ret # "-" /\ AtStep(Top)
  <2>1. ret # "-"
    BY DEF GoOn, PassOn, Returned
  <2> QED
    BY <2>1 DEF Calling, Top
<1>2. look' = look /\ Rest' = Rest /\ Rest \in Nat /\ open' = open /\ UNCHANGED cursor
  BY RestType DEF GoOn, PassOn, Resume, cursor, Rest
<1>3. (told' = 0 => told = 0) /\ (ret = "none" => told' # 0) /\ told \in Nat
  BY DEF GoOn, PassOn, Resume, Calling
<1>4. a \in Facts /\ look \in Tokens
  BY TopFact DEF Flowing, Cursor
<1>5. ASSUME NEW n \in {0, 1, 2}, Go(n), <<n, Anywhere(a)>> \in Leads(s, a)
      PROVE  Flowing'
  <2> DEFINE x == Anywhere(a)
  <2>1. look' \in x.shown /\ x.moved = a.moved /\ x.due = a.due
    BY <1>2, <1>4, FactType
  <2> HIDE DEF x
  <2>2. <<n, x>> \in Leads(s, a)
    BY <1>5 DEF x
  <2> QED
    BY <1>1, <1>2, <1>3, <1>5, <2>1, <2>2, OwesOn
<1>6. ASSUME Go(1), ret = "none", <<1, Spoilt(Anywhere(a))>> \in Leads(s, a)
      PROVE  Flowing'
  <2> DEFINE x == Spoilt(Anywhere(a))
  <2>1. look' \in x.shown /\ x.moved = a.moved
    <3>1. Anywhere(a) \in Facts
      BY <1>4 DEF Anywhere, Facts
    <3> QED
      BY <1>2, <1>4, <3>1, FactType
  <2> HIDE DEF x
  <2>2. <<1, x>> \in Leads(s, a)
    BY <1>6 DEF x
  <2> QED
    BY <1>1, <1>2, <1>3, <1>6, <2>1, <2>2, OwesOn
<1>7. CASE GoOn
  <2>1. CASE Returned({"sub"}, {"some"}) /\ Step
    <3>1. <<1, Anywhere(a)>> \in Leads(s, a)
      BY <2>1 DEF Returned, Leads
    <3> QED
      BY <1>5, <2>1, <3>1 DEF Step
  <2>2. CASE Returned({"try"}, {"some", "none"}) /\ Step
    <3>1. <<1, Anywhere(a)>> \in Leads(s, a)
      BY <2>2 DEF Returned, Leads
    <3> QED
      BY <1>5, <2>2, <3>1 DEF Step
  <2>3. CASE Returned({"if_fails", "if_stuck"}, {"some"}) /\ Hop
    <3>1. <<2, Anywhere(a)>> \in Leads(s, a)
      BY <2>3 DEF Returned, Leads
    <3> QED
      BY <1>5, <2>3, <3>1 DEF Hop
  <2>4. CASE Returned({"if_fails"}, {"none"}) /\ Step
    <3>1. <<1, Spoilt(Anywhere(a))>> \in Leads(s, a)
      BY <2>4 DEF Returned, Leads
    <3> QED
      BY <1>6, <2>4, <3>1 DEF Step, Returned
  <2>5. CASE Returned({"if_stuck"}, {"none"}) /\ IF Top.from = Rest THEN Step ELSE Hop
    <3>1. <<1, Spoilt(Anywhere(a))>> \in Leads(s, a) /\ <<2, Anywhere(a)>> \in Leads(s, a)
      BY <2>5 DEF Returned, Leads
    <3> QED
      BY <1>5, <1>6, <2>5, <3>1 DEF Step, Hop, Returned
  <2>6. CASE Returned({"each", "while"}, {"some"}) /\ UNCHANGED stack
    <3>1. <<0, Anywhere(a)>> \in Leads(s, a)
      BY <2>6 DEF Returned, Leads
    <3>2. Go(0)
      <4>1. Top \in Frames /\ Top.at + 0 = Top.at
        BY DEF Frames
      <4>2. [Top EXCEPT !.at = @ + 0] = Top
        BY <4>1 DEF Frames
      <4> QED
        BY <2>6, <4>2 DEF Go, Calling
    <3> QED
      BY <1>5, <3>1, <3>2
  <2>7. CASE Returned({"each", "while"}, {"stop"}) /\ Step
    <3>1. <<1, Anywhere(a)>> \in Leads(s, a)
      BY <2>7 DEF Returned, Leads
    <3> QED
      BY <1>5, <2>7, <3>1 DEF Step
  <2> QED
    BY <1>7, <2>1, <2>2, <2>3, <2>4, <2>5, <2>6, <2>7 DEF GoOn
<1>8. CASE PassOn
  <2>1. told' # 0
    <3>1. CASE ret = "none"
      BY <1>3, <3>1
    <3>2. CASE s.op = "surrender"
      <4>1. Surrendering(Top)
        BY <1>1, <3>2 DEF Surrendering, Body
      <4>2. told >= Len(stack)
        BY <4>1 DEF Calling
      <4> QED
        BY <1>3, <4>2
    <3> QED
      BY <1>8, <3>1, <3>2 DEF PassOn, Returned
  <2> QED
    BY <1>2, <1>8, <2>1, LeaveFlows DEF PassOn
<1> QED
  BY <1>7, <1>8

LEMMA NextFlows ==
  ASSUME Calling, Cursor, Flowing, open \in Seq(Brackets), Next
  PROVE  Flowing'
<1>1. ASSUME NEW i \in Current, Execute(i)
      PROVE  Flowing'
  <2>1. CASE SkipDoc(i) \/ Matched(i) \/ DoTake(i) \/ DoSkip(i) \/ LookAhead(i)
    BY <2>1, SkipDocFlows, MatchedFlows, SkipFlows, LookAheadFlows
  <2>2. CASE NeedMissed(i) \/ WantMissed(i) \/ MayMissed(i) \/ WhenMissed(i) \/ StopUnlessMissed(i)
    BY <2>2, MissedFlows
  <2>3. CASE DoIfAt(i) \/ DoStopAt(i) \/ DoDocs(i) \/ DoMaybe(i) \/ DoIfLooksLike(i) \/ LoopEnds(i)
    BY <2>3, TestFlows
  <2>4. CASE DoNote(i) \/ DoFail(i) \/ DoCall(i) \/ CallMarked(i) \/ DoGoto(i)
    BY <2>4, ErrorFlows, CallFlows, GotoFlows
  <2> QED
    BY <1>1, <2>1, <2>2, <2>3, <2>4 DEF Execute
<1> QED
  BY <1>1, ReturnFlows, ResumeFlows DEF Next

LEMMA InitFlows ==
  ASSUME Init
  PROVE  Flowing
<1> DEFINE c == Frame(Start)
           b == Known[Start][1]
<1>1. stack = <<c>> /\ told = 0 /\ open = <<>> /\ left = Free + 1 /\ ret = "-"
  BY DEF Init
<1>2. Start \in DOMAIN Code /\ Len(Code[Start]) \in Nat /\ c.f = Start /\ c.at = 1
  BY CodeAssumption DEF Frame
<1> HIDE DEF c
<1>3. Len(stack) = 1 /\ Top = c /\ stack[1] = c /\ \A p \in 1..Len(stack) : p = 1
  BY <1>1 DEF Top
<1>4. PICK o \in Openings : look = Head(o) /\ ahead = Tail(o)
  BY DEF Init
<1>5. o \in Seq(Kinds) /\ o # <<>> /\ Free \in Nat /\ Len(o) + Free + 1 <= Length /\ Length \in Nat
  BY TextAssumption, LengthAssumption
<1>6. look \in Kinds /\ Len(ahead) = Len(o) - 1 /\ Len(o) \in Nat
  BY <1>4, <1>5
<1>7. <<>> \in b.due /\ look \in b.shown /\ ~b.moved
  BY <1>6, FlowAssumption DEF Within
<1>8. Here(c) = b
  BY <1>2 DEF Here
<1>9. Placed
  BY <1>2, <1>3 DEF Placed
<1>10. Shows
  BY <1>3, <1>7, <1>8 DEF Shows
<1>11. Shallow
  <2>1. Rest = Len(o) + Free /\ Rest \in Nat /\ Rest + 1 <= Length
    BY <1>1, <1>5, <1>6 DEF Rest
  <2>2. CallsPerToken \in Nat /\ Level[Start] \in 0..(CallsPerToken - 1)
    BY <1>2, FlowAssumption
  <2>3. Weight(c) = Level[Start]
    BY <1>2, <1>7, <1>8, <2>2 DEF Weight
  <2> DEFINE bound == CallsPerToken * (Length - Rest)
  <2>4. bound \in Int /\ CallsPerToken <= bound
    <3>1. 0 \in Int /\ Length - Rest \in Int /\ 0 < Length - Rest /\ CallsPerToken * 0 = 0
      BY <1>5, <2>1, <2>2
    <3>2. CallsPerToken * 0 + CallsPerToken <= bound /\ bound \in Int
      BY <2>2, <3>1, Budget
    <3> QED
      BY <2>2, <3>1, <3>2
  <2> HIDE DEF bound
  <2>5. 1 + Weight(c) <= bound
    BY <2>2, <2>3, <2>4
  <2>6. Rest < Length
    BY <1>5, <2>1
  <2> QED
    BY <1>3, <2>5, <2>6 DEF Shallow, bound
<1>12. Paired
  <2> DEFINE none == [p \in 1..0 |-> {}]
             depth == [p \in 0..0 |-> 0]
  <2>1. Splittable(open, 0, none)
    <3>1. Splits(<<>>, 0, none, depth)
      BY DEF Splits
    <3>2. depth \in [0..0 -> Nat]
      OBVIOUS
    <3> HIDE DEF depth, none
    <3> QED
      BY <1>1, <3>1, <3>2 DEF Splittable
  <2>2. <<>> \in Debts[0 + 1]
    BY <1>3, <1>7, <1>8 DEF Debts
  <2>3. open \in Seq(Closers)
    BY <1>1
  <2>4. \A p \in 1..0 : none[p] \subseteq Debts[p]
    OBVIOUS
  <2> HIDE DEF none
  <2>5. Splittable(open, 0 + 1, Debts)
    BY <2>1, <2>2, <2>3, <2>4, SplitCall
  <2> QED
    BY <1>3, <2>5 DEF Paired
<1> QED
  BY <1>9, <1>10, <1>11, <1>12 DEF Flowing

LEMMA FlowHolds == Spec => []Flowing
<1>1. ASSUME Init
      PROVE  Flowing
  BY <1>1, InitFlows
<1>2. ASSUME IInv, Flowing, [Next]_vars
      PROVE  Flowing'
  <2>1. CASE UNCHANGED vars
    BY <1>2, <2>1 DEF vars, Flowing, Placed, Shows, Shallow, Paired, Debts, Here, Weight, Running, Top, Rest
  <2>2. CASE Next
    BY <1>2, <2>2, NextFlows DEF IInv
  <2> QED
    BY <1>2, <2>1, <2>2
<1> QED
  BY <1>1, <1>2, InvariantHolds, PTL DEF Spec

\* Whatever the code is, as long as FlowAssumption holds of it: a text of any length
\* that is parsed without an error has its brackets in pairs.
THEOREM BalancedCorrect == Spec => []AcceptedIsBalanced
<1>1. IInv /\ Flowing => AcceptedIsBalanced
  <2> SUFFICES ASSUME IInv, Flowing, Parsed, told = 0 PROVE open = <<>>
    BY DEF AcceptedIsBalanced
  <2>1. open \in Seq(Brackets) /\ Splittable(open, 0, Debts)
    BY DEF IInv, Flowing, Paired, Parsed
  <2> QED
    BY <2>1, SplitOfNone
<1> QED
  BY <1>1, InvariantHolds, FlowHolds, PTL

\* For the same codes: at any time the calls are no deeper than CallsPerToken for each
\* token that has been taken, so the parser ends its descent on every text.
THEOREM DepthCorrect == Spec => []DepthBounded
<1>1. IInv /\ Flowing => DepthBounded
  <2> SUFFICES ASSUME IInv, Flowing PROVE Len(stack) <= CallsPerToken * (Length - Rest)
    BY DEF DepthBounded
  <2> DEFINE bound == CallsPerToken * (Length - Rest)
  <2>1. Calling /\ Cursor /\ Placed /\ Len(stack) \in Nat /\ CallsPerToken \in Nat /\ Rest < Length
    BY FlowAssumption DEF IInv, Calling, Flowing, Shallow
  <2>2. bound \in Int /\ bound >= 0
    <3>1. 0 \in Int /\ Length - Rest \in Int /\ 0 <= Length - Rest /\ CallsPerToken * 0 = 0
      BY <2>1, RestType, LengthAssumption
    <3> QED
      BY <2>1, <3>1, Budget
  <2>3. CASE stack = <<>>
    BY <2>2, <2>3
  <2>4. CASE stack # <<>>
    <3>1. Len(stack) + Weight(Top) <= bound
      BY <2>1, <2>4, TopType DEF Flowing, Shallow
    <3>2. Weight(Top) \in Nat
      BY <2>1, <2>4, TopFact DEF Weight
    <3> HIDE DEF bound
    <3> QED
      BY <2>1, <2>2, <3>1, <3>2 DEF bound
  <2> QED
    BY <2>3, <2>4
<1> QED
  BY <1>1, InvariantHolds, FlowHolds, PTL
=============================================================================
