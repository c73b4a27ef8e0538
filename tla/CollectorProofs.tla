--------------------------- MODULE CollectorProofs ---------------------------
(***************************************************************************)
(* Proofs about Collector, for every program, every walk and every naming  *)
(* of instances.                                                           *)
(*                                                                         *)
(* The inductive invariant (Inv): the symbols seen are those of the        *)
(* instances, no more (SeenExact), and what waits is the end of what was   *)
(* found (WalkedOnce), so that an instance is waiting, is walked, or was.  *)
(* Each mention of what was walked is therefore seen, but for the places   *)
(* that the present walk has left (MentionsSeen); nothing is added that no *)
(* walk has mentioned, hence nothing outside a set that is closed under    *)
(* mentioning (NothingSpare); and the collection ends with nothing waiting *)
(* and no place left (EndsEmpty).                                          *)
(***************************************************************************)
EXTENDS Collector, FiniteSetTheorems, FunctionTheorems, TLAPS

-----------------------------------------------------------------------------
(* Sequences *)

\* A sequence with one more element.
LEMMA Appended ==
  ASSUME NEW S, NEW s \in Seq(S), NEW x
  PROVE  /\ Append(s, x) \in Seq(S \cup {x})
         /\ Len(s) \in Nat /\ DOMAIN s = 1..Len(s)
         /\ Len(Append(s, x)) = Len(s) + 1
         /\ DOMAIN Append(s, x) = 1..(Len(s) + 1)
         /\ \A i \in 1..Len(s) : Append(s, x)[i] = s[i]
         /\ Append(s, x)[Len(s) + 1] = x
<1>1. s \in Seq(S \cup {x}) /\ x \in S \cup {x}
  OBVIOUS
<1> QED
  BY <1>1

LEMMA AppendedElements ==
  ASSUME NEW S, NEW s \in Seq(S), NEW x
  PROVE  Elements(Append(s, x)) = Elements(s) \cup {x}
<1> DEFINE t == Append(s, x)
<1>1. /\ Len(s) \in Nat /\ DOMAIN s = 1..Len(s) /\ DOMAIN t = 1..(Len(s) + 1)
      /\ \A i \in 1..Len(s) : t[i] = s[i]
      /\ t[Len(s) + 1] = x
  BY Appended
<1> HIDE DEF t
<1> QED
  BY <1>1 DEF Elements

LEMMA LastOrBefore ==
  ASSUME NEW n \in Nat, NEW i \in 1..(n + 1)
  PROVE  i \in 1..n \/ i = n + 1
  OBVIOUS

\* A sequence without its first element.
LEMMA Shortened ==
  ASSUME NEW S, NEW s \in Seq(S), s # <<>>
  PROVE  /\ Tail(s) \in Seq(S) /\ Len(s) \in Nat \ {0} /\ DOMAIN s = 1..Len(s)
         /\ Head(s) = s[1] /\ Head(s) \in S
         /\ Len(Tail(s)) = Len(s) - 1
         /\ DOMAIN Tail(s) = 1..(Len(s) - 1)
         /\ \A i \in 1..(Len(s) - 1) : Tail(s)[i] = s[i + 1]
  OBVIOUS

-----------------------------------------------------------------------------
(* The inductive invariant *)

\* An instance is with its kind, and what has been seen is the symbols of the instances.
SeenExact ==
  \A k \in Kinds :
    /\ \A i \in DOMAIN insts[k] : Kind(insts[k][i]) = k
    /\ seen[k] = {Symbol(insts[k][i]) : i \in DOMAIN insts[k]}

\* The walk is that of the items or that of an instance which waits no more.
WalksOf(k) == {InstWalk(prog, insts[k][i]) : i \in 1..Walked(k)}
Walks == {ProgramWalk(prog)} \cup UNION {WalksOf(k) : k \in Kinds}

\* What was mentioned has been seen, but for what the walk has left.
MentionsSeen ==
  \A w \in Walks : \A i \in DOMAIN w : Seen(w[i]) \/ \E j \in left : walk[j] = w[i]

\* Whatever the program demands contains the instances, and what is being walked.
NothingSpare == \A S : Closed(S) => Instances \subseteq S /\ Elements(walk) \subseteq S

\* The collection ends with nothing left.
EndsEmpty == phase = "collected" => left = {} /\ ~MoreQueued

Inv ==
  /\ TypeOK
  /\ SeenExact
  /\ SymbolsDistinct
  /\ WalkedOnce
  /\ MentionsSeen
  /\ NothingSpare
  /\ EndsEmpty

LEMMA InitInv == Init => Inv
<1> SUFFICES ASSUME Init PROVE Inv
  OBVIOUS
<1>1. \A k \in Kinds : insts[k] = <<>> /\ seen[k] = {} /\ queue[k] = <<>>
  BY DEF Init
<1>2. Instances = {}
  BY <1>1 DEF Instances, Elements
<1>3. TypeOK
  BY <1>2 DEF Init, TypeOK, Kinds
<1>4. SeenExact /\ SymbolsDistinct
  BY <1>1 DEF SeenExact, SymbolsDistinct
<1>5. \A k \in Kinds : Walked(k) = 0 /\ 1..Walked(k) = {}
  <2>1. Len(<<>>) = 0
    OBVIOUS
  <2>2. \A k \in Kinds : Walked(k) = 0
    BY <1>1, <2>1 DEF Walked
  <2> QED
    BY <2>2
<1>6. WalkedOnce
  BY <1>1, <1>5 DEF WalkedOnce
<1>7. Walks = {ProgramWalk(prog)}
  BY <1>5 DEF Walks, WalksOf
<1>8. MentionsSeen
  BY <1>7 DEF MentionsSeen, Init
<1>9. NothingSpare
  BY <1>2 DEF NothingSpare, Closed, Init
<1>10. EndsEmpty
  BY DEF Init, EndsEmpty
<1> QED
  BY <1>3, <1>4, <1>6, <1>8, <1>9, <1>10 DEF Inv

-----------------------------------------------------------------------------
(* A mention is looked at *)

\* What the invariant says of a kind's sequences.
LEMMA OfKind ==
  ASSUME TypeOK, NEW k \in Kinds
  PROVE  /\ insts[k] \in Seq(Instances) /\ queue[k] \in Seq(Instances)
         /\ Len(insts[k]) \in Nat /\ DOMAIN insts[k] = 1..Len(insts[k])
         /\ Len(queue[k]) \in Nat /\ DOMAIN queue[k] = 1..Len(queue[k])
         /\ Elements(insts[k]) \subseteq Instances
<1>1. insts[k] \in Seq(Instances) /\ queue[k] \in Seq(Instances)
  BY DEF TypeOK
<1>2. Elements(insts[k]) \subseteq Instances
  BY DEF Instances
<1> QED
  BY <1>1, <1>2

LEMMA KindType == ASSUME NEW x PROVE Kind(x) \in Kinds
  BY DEF Kind, Kinds

\* What a mention with a new symbol changes.
LEMMA Added ==
  ASSUME TypeOK, NEW x, Add(x), ~Seen(x)
  PROVE  /\ insts' = [insts EXCEPT ![Kind(x)] = Append(insts[Kind(x)], x)]
         /\ queue' = [queue EXCEPT ![Kind(x)] = Append(queue[Kind(x)], x)]
         /\ seen' = [seen EXCEPT ![Kind(x)] = seen[Kind(x)] \cup {Symbol(x)}]
         /\ insts'[Kind(x)] = Append(insts[Kind(x)], x)
         /\ queue'[Kind(x)] = Append(queue[Kind(x)], x)
         /\ seen'[Kind(x)] = seen[Kind(x)] \cup {Symbol(x)}
         /\ \A k \in Kinds \ {Kind(x)} :
              insts'[k] = insts[k] /\ queue'[k] = queue[k] /\ seen'[k] = seen[k]
         /\ Instances' = Instances \cup {x}
<1>1. /\ insts' = [insts EXCEPT ![Kind(x)] = Append(insts[Kind(x)], x)]
      /\ queue' = [queue EXCEPT ![Kind(x)] = Append(queue[Kind(x)], x)]
      /\ seen' = [seen EXCEPT ![Kind(x)] = seen[Kind(x)] \cup {Symbol(x)}]
  BY DEF Add
<1>2. DOMAIN insts = Kinds /\ DOMAIN queue = Kinds /\ DOMAIN seen = Kinds /\ Kind(x) \in Kinds
  BY KindType DEF TypeOK
<1>3. /\ insts'[Kind(x)] = Append(insts[Kind(x)], x)
      /\ queue'[Kind(x)] = Append(queue[Kind(x)], x)
      /\ seen'[Kind(x)] = seen[Kind(x)] \cup {Symbol(x)}
      /\ \A k \in Kinds \ {Kind(x)} :
           insts'[k] = insts[k] /\ queue'[k] = queue[k] /\ seen'[k] = seen[k]
  BY <1>1, <1>2
<1>4. Elements(Append(insts[Kind(x)], x)) = Elements(insts[Kind(x)]) \cup {x}
  <2>1. insts[Kind(x)] \in Seq(Instances)
    BY <1>2, OfKind
  <2> QED
    BY <2>1, AppendedElements
<1>5. Instances' = Instances \cup {x}
  <2>1. Instances' = UNION {Elements(insts'[k]) : k \in Kinds}
    BY DEF Instances, Elements
  <2>2. \A k \in Kinds : Elements(insts'[k]) \subseteq Elements(insts[k]) \cup {x}
    BY <1>3, <1>4
  <2>3. \A k \in Kinds : Elements(insts[k]) \subseteq Elements(insts'[k])
    BY <1>3, <1>4
  <2>4. x \in Elements(insts'[Kind(x)])
    BY <1>3, <1>4
  <2> HIDE DEF Elements
  <2> QED
    BY <1>2, <2>1, <2>2, <2>3, <2>4 DEF Instances
<1> QED
  BY <1>1, <1>3, <1>5

\* The types are kept.
LEMMA AddType ==
  ASSUME TypeOK, NEW x, Add(x), ~Seen(x)
  PROVE  /\ insts' \in [Kinds -> Seq(Instances')]
         /\ queue' \in [Kinds -> Seq(Instances')]
         /\ seen' \in [Kinds -> SUBSET {Symbol(y) : y \in Instances'}]
<1> DEFINE I == Instances \cup {x}
           C == Kind(x)
<1>1. C \in Kinds /\ Instances' = I
  BY KindType, Added
<1>2. Append(insts[C], x) \in Seq(I) /\ Append(queue[C], x) \in Seq(I)
  BY <1>1, OfKind, Appended
<1>3. insts \in [Kinds -> Seq(I)] /\ queue \in [Kinds -> Seq(I)]
  <2>1. \A k \in Kinds : insts[k] \in Seq(I) /\ queue[k] \in Seq(I)
    BY OfKind
  <2> QED
    BY <2>1 DEF TypeOK
<1>4. seen \in [Kinds -> SUBSET {Symbol(y) : y \in I}]
  BY DEF TypeOK
<1>5. seen[C] \cup {Symbol(x)} \in SUBSET {Symbol(y) : y \in I}
  BY <1>1, <1>4
<1>6. insts' \in [Kinds -> Seq(I)] /\ queue' \in [Kinds -> Seq(I)]
  <2> HIDE DEF I, C
  <2>1. /\ insts' = [insts EXCEPT ![C] = Append(insts[C], x)]
        /\ queue' = [queue EXCEPT ![C] = Append(queue[C], x)]
    BY Added DEF C
  <2> QED
    BY <1>2, <1>3, <2>1
<1>7. seen' \in [Kinds -> SUBSET {Symbol(y) : y \in I}]
  <2>1. seen' = [seen EXCEPT ![C] = seen[C] \cup {Symbol(x)}]
    BY Added
  <2> QED
    BY <1>4, <1>5, <2>1
<1> QED
  BY <1>1, <1>6, <1>7

\* The symbols of the instances are those that have been seen, and distinct.
LEMMA AddSymbols ==
  ASSUME TypeOK, SeenExact, SymbolsDistinct, NEW x, Add(x), ~Seen(x)
  PROVE  SeenExact' /\ SymbolsDistinct'
<1> DEFINE C == Kind(x)
           s == insts[C]
           t == Append(s, x)
<1>1. C \in Kinds
  BY KindType
<1>2. /\ Len(s) \in Nat /\ DOMAIN s = 1..Len(s) /\ DOMAIN t = 1..(Len(s) + 1)
      /\ \A i \in 1..Len(s) : t[i] = s[i]
      /\ t[Len(s) + 1] = x
  BY <1>1, OfKind, Appended
<1>3. seen[C] = {Symbol(s[i]) : i \in DOMAIN s} /\ Symbol(x) \notin seen[C]
  BY <1>1 DEF SeenExact, Seen
<1>4. \A i \in DOMAIN t : Kind(t[i]) = C
  <2>1. \A i \in DOMAIN s : Kind(s[i]) = C
    BY <1>1 DEF SeenExact
  <2>2. \A i \in DOMAIN t : i \in DOMAIN s \/ i = Len(s) + 1
    BY <1>2, LastOrBefore
  <2> HIDE DEF s, t
  <2> QED
    BY <1>2, <2>1, <2>2
<1>5. seen[C] \cup {Symbol(x)} = {Symbol(t[i]) : i \in DOMAIN t}
  <2> HIDE DEF s, t
  <2> QED
    BY <1>2, <1>3
<1>6. \A i, j \in DOMAIN t : Symbol(t[i]) = Symbol(t[j]) => i = j
  <2>1. \A i, j \in DOMAIN s : Symbol(s[i]) = Symbol(s[j]) => i = j
    BY <1>1 DEF SymbolsDistinct
  <2>2. \A i \in DOMAIN s : Symbol(s[i]) # Symbol(x)
    BY <1>3
  <2>3. \A i \in DOMAIN t : i \in DOMAIN s \/ i = Len(s) + 1
    BY <1>2, LastOrBefore
  <2> HIDE DEF s, t
  <2>4. \A i \in DOMAIN t :
              (i \in DOMAIN s /\ t[i] = s[i]) \/ (i = Len(s) + 1 /\ t[i] = x)
    <3> TAKE i \in DOMAIN t
    <3>1. CASE i \in DOMAIN s
      BY <1>2, <3>1
    <3>2. CASE i = Len(s) + 1
      BY <1>2, <3>2
    <3> QED
      BY <2>3, <3>1, <3>2
  <2> QED
    BY <2>1, <2>2, <2>4
<1>7. insts'[C] = t /\ seen'[C] = seen[C] \cup {Symbol(x)}
  BY Added
<1>8. \A k \in Kinds \ {C} : insts'[k] = insts[k] /\ seen'[k] = seen[k]
  BY Added
<1> HIDE DEF C, t
<1>9. SeenExact'
  BY <1>4, <1>5, <1>7, <1>8 DEF SeenExact
<1>10. SymbolsDistinct'
  BY <1>6, <1>7, <1>8 DEF SymbolsDistinct
<1> QED
  BY <1>9, <1>10

\* What waits stays the end of what was found.
LEMMA AddWaits ==
  ASSUME TypeOK, WalkedOnce, NEW x, Add(x), ~Seen(x)
  PROVE  /\ WalkedOnce'
         /\ \A k \in Kinds : Walked(k)' = Walked(k)
         /\ \A k \in Kinds : \A i \in 1..Walked(k) : insts'[k][i] = insts[k][i]
<1> DEFINE C == Kind(x)
           s == insts[C]
           q == queue[C]
           w == Len(s) - Len(q)
<1>1. C \in Kinds
  BY KindType
<1>2. /\ Len(s) \in Nat /\ Len(Append(s, x)) = Len(s) + 1
      /\ \A i \in 1..Len(s) : Append(s, x)[i] = s[i]
      /\ Append(s, x)[Len(s) + 1] = x
  BY <1>1, OfKind, Appended
<1>3. /\ Len(q) \in Nat /\ Len(Append(q, x)) = Len(q) + 1 /\ DOMAIN q = 1..Len(q)
      /\ DOMAIN Append(q, x) = 1..(Len(q) + 1)
      /\ \A i \in 1..Len(q) : Append(q, x)[i] = q[i]
      /\ Append(q, x)[Len(q) + 1] = x
  BY <1>1, OfKind, Appended
<1>4. w >= 0 /\ \A i \in DOMAIN q : q[i] = s[w + i]
  BY <1>1 DEF WalkedOnce, Walked
<1>5. /\ insts'[C] = Append(s, x) /\ queue'[C] = Append(q, x)
      /\ \A k \in Kinds \ {C} : insts'[k] = insts[k] /\ queue'[k] = queue[k]
  BY Added
<1>6. Walked(C)' = w /\ Walked(C) = w
  <2>1. Walked(C) = w
    BY DEF Walked
  <2>2. Walked(C)' = Len(insts'[C]) - Len(queue'[C])
    BY DEF Walked
  <2>3. Walked(C)' = (Len(s) + 1) - (Len(q) + 1)
    BY <1>2, <1>3, <1>5, <2>2
  <2>4. \A m, n \in Nat : (m + 1) - (n + 1) = m - n
    OBVIOUS
  <2> QED
    BY <1>2, <1>3, <2>1, <2>3, <2>4
<1>7. \A i \in DOMAIN Append(q, x) : Append(q, x)[i] = Append(s, x)[w + i]
  <2> SUFFICES ASSUME NEW i \in 1..(Len(q) + 1) PROVE Append(q, x)[i] = Append(s, x)[w + i]
    BY <1>3
  <2> HIDE DEF s, q
  <2>1. CASE i \in 1..Len(q)
    <3>1. w + i \in 1..Len(s)
      BY <1>2, <1>3, <1>4, <2>1
    <3>2. Append(q, x)[i] = q[i] /\ q[i] = s[w + i]
      BY <1>3, <1>4, <2>1
    <3> QED
      BY <1>2, <3>1, <3>2
  <2>2. CASE i = Len(q) + 1
    <3>1. w + i = Len(s) + 1
      BY <1>2, <1>3, <2>2
    <3> QED
      BY <1>2, <1>3, <2>2, <3>1
  <2> QED
    BY <1>3, <2>1, <2>2, LastOrBefore
<1>8. \A k \in Kinds \ {C} : Walked(k)' = Walked(k)
  BY <1>5 DEF Walked
<1>9. WalkedOnce'
  <2> HIDE DEF C, s, q, w
  <2> SUFFICES ASSUME NEW k \in Kinds
               PROVE  Walked(k)' >= 0
                      /\ \A i \in DOMAIN queue'[k] : queue'[k][i] = insts'[k][Walked(k)' + i]
    BY DEF WalkedOnce, Walked
  <2>1. CASE k = C
    BY <1>4, <1>5, <1>6, <1>7, <2>1
  <2>2. CASE k # C
    BY <1>5, <1>8, <2>2 DEF WalkedOnce
  <2> QED
    BY <2>1, <2>2
<1>10. \A i \in 1..w : Append(s, x)[i] = s[i]
  BY <1>2, <1>3
<1> HIDE DEF C, w
<1>11. \A k \in Kinds : Walked(k)' = Walked(k)
  BY <1>1, <1>6, <1>8
<1>12. \A k \in Kinds : \A i \in 1..Walked(k) : insts'[k][i] = insts[k][i]
  BY <1>5, <1>6, <1>10
<1> QED
  BY <1>9, <1>11, <1>12

\* A look keeps the walks as they are, and what has been seen.
LEMMA AddMentions ==
  ASSUME TypeOK, WalkedOnce, SeenExact, NEW x, Add(x), UNCHANGED prog
  PROVE  /\ Walks' = Walks
         /\ \A y : Seen(y) => Seen(y)'
         /\ Seen(x)'
<1>1. Kind(x) \in Kinds
  BY KindType
<1>2. CASE Seen(x)
  <2>1. UNCHANGED <<insts, seen, queue>>
    BY <1>2 DEF Add
  <2> QED
    BY <1>2, <2>1 DEF Walks, WalksOf, Seen, Walked
<1>3. CASE ~Seen(x)
  <2>1. /\ seen'[Kind(x)] = seen[Kind(x)] \cup {Symbol(x)}
        /\ \A k \in Kinds \ {Kind(x)} : seen'[k] = seen[k]
    BY <1>3, Added
  <2>2. \A k \in Kinds : seen[k] \subseteq seen'[k]
    BY <2>1
  <2>3. \A y : Seen(y) => Seen(y)'
    BY <2>2, KindType DEF Seen
  <2>4. Seen(x)'
    BY <2>1 DEF Seen
  <2>5. /\ \A k \in Kinds : Walked(k)' = Walked(k)
        /\ \A k \in Kinds : \A i \in 1..Walked(k) : insts'[k][i] = insts[k][i]
    BY <1>3, AddWaits
  <2>6. \A k \in Kinds : WalksOf(k)' = WalksOf(k)
    BY <2>5 DEF WalksOf
  <2>7. Walks' = {ProgramWalk(prog)} \cup UNION {WalksOf(k)' : k \in Kinds}
    BY DEF Walks
  <2>8. Walks' = Walks
    BY <2>6, <2>7 DEF Walks
  <2> QED
    BY <2>3, <2>4, <2>8
<1> QED
  BY <1>2, <1>3

LEMMA VisitInv == Inv /\ Visit => Inv'
<1> SUFFICES ASSUME Inv, Visit PROVE Inv'
  OBVIOUS
<1>1. TypeOK /\ SeenExact /\ SymbolsDistinct /\ WalkedOnce /\ MentionsSeen /\ NothingSpare
  BY DEF Inv
<1>2. UNCHANGED <<prog, phase, walk>> /\ phase \in Kinds
  BY DEF Visit
<1>3. PICK i \in left : Add(walk[i]) /\ left' = left \ {i}
  BY DEF Visit
<1>4. PICK x : x = walk[i]
  OBVIOUS
<1>5. Add(x)
  BY <1>3, <1>4
<1>6. i \in DOMAIN walk /\ x \in Elements(walk)
  BY <1>1, <1>4 DEF TypeOK, Elements
<1>7. Walks' = Walks /\ (\A y : Seen(y) => Seen(y)') /\ Seen(x)'
  BY <1>1, <1>2, <1>5, AddMentions
<1>8. TypeOK'
  <2>1. left' \subseteq DOMAIN walk' /\ phase' \in Kinds \cup {"collected", "cut"}
    BY <1>1, <1>2, <1>3 DEF TypeOK
  <2>2. CASE Seen(x)
    <3>1. UNCHANGED <<insts, seen, queue>>
      BY <1>5, <2>2 DEF Add
    <3> QED
      BY <1>1, <2>1, <3>1 DEF TypeOK, Instances, Elements
  <2>3. CASE ~Seen(x)
    BY <1>1, <1>5, <2>1, <2>3, AddType DEF TypeOK
  <2> QED
    BY <2>2, <2>3
<1>9. SeenExact' /\ SymbolsDistinct' /\ WalkedOnce'
  <2>1. CASE Seen(x)
    <3>1. UNCHANGED <<insts, seen, queue>>
      BY <1>5, <2>1 DEF Add
    <3> QED
      BY <1>1, <3>1 DEF SeenExact, SymbolsDistinct, WalkedOnce, Walked
  <2>2. CASE ~Seen(x)
    BY <1>1, <1>5, <2>2, AddSymbols, AddWaits
  <2> QED
    BY <2>1, <2>2
<1>10. MentionsSeen'
  <2> SUFFICES ASSUME NEW w \in Walks, NEW n \in DOMAIN w
               PROVE  Seen(w[n])' \/ \E j \in left' : walk[j] = w[n]
    BY <1>2, <1>7 DEF MentionsSeen, Seen
  <2>1. Seen(w[n]) \/ \E j \in left : walk[j] = w[n]
    BY <1>1 DEF MentionsSeen
  <2>2. PICK y : y = w[n]
    OBVIOUS
  <2>3. CASE Seen(w[n])
    BY <1>7, <2>2, <2>3
  <2>4. CASE w[n] = x
    BY <1>7, <2>4
  <2>5. CASE w[n] # x /\ \E j \in left : walk[j] = w[n]
    BY <1>3, <1>4, <2>5
  <2> QED
    BY <2>1, <2>3, <2>4, <2>5
<1>11. Instances' \subseteq Instances \cup {x}
  <2>1. CASE Seen(x)
    <3>1. UNCHANGED <<insts, seen, queue>>
      BY <1>5, <2>1 DEF Add
    <3> QED
      BY <3>1 DEF Instances, Elements
  <2>2. CASE ~Seen(x)
    BY <1>1, <1>5, <2>2, Added
  <2> QED
    BY <2>1, <2>2
<1>12. NothingSpare'
  <2>1. \A S : Closed(S)' <=> Closed(S)
    BY <1>2 DEF Closed
  <2>2. Elements(walk)' = Elements(walk)
    BY <1>2 DEF Elements
  <2> QED
    BY <1>1, <1>6, <1>11, <2>1, <2>2 DEF NothingSpare
<1>13. EndsEmpty'
  BY <1>2 DEF EndsEmpty, Kinds
<1> QED
  BY <1>8, <1>9, <1>10, <1>12, <1>13 DEF Inv

-----------------------------------------------------------------------------
(* An instance is taken off a queue *)

\* What the first of a queue is, and what is left of the queue without it.
LEMMA Taken ==
  ASSUME TypeOK, WalkedOnce, NEW k \in Kinds, queue[k] # <<>>,
         queue' = [queue EXCEPT ![k] = Tail(@)], UNCHANGED insts
  PROVE  /\ queue' \in [Kinds -> Seq(Instances)]
         /\ WalkedOnce'
         /\ Walked(k) \in Nat /\ Walked(k)' = Walked(k) + 1
         /\ \A l \in Kinds \ {k} : Walked(l)' = Walked(l)
         /\ Head(queue[k]) = insts[k][Walked(k) + 1]
         /\ Head(queue[k]) \in Instances
<1> DEFINE q == queue[k]
           s == insts[k]
<1>1. /\ Tail(q) \in Seq(Instances) /\ Len(q) \in Nat \ {0} /\ DOMAIN q = 1..Len(q)
      /\ Head(q) = q[1] /\ Head(q) \in Instances
      /\ Len(Tail(q)) = Len(q) - 1
      /\ DOMAIN Tail(q) = 1..(Len(q) - 1)
      /\ \A i \in 1..(Len(q) - 1) : Tail(q)[i] = q[i + 1]
  <2>1. q \in Seq(Instances) /\ q # <<>>
    BY OfKind
  <2> QED
    BY <2>1, Shortened
<1>2. Len(s) \in Nat
  BY OfKind
<1>3. /\ queue'[k] = Tail(q)
      /\ \A l \in Kinds \ {k} : queue'[l] = queue[l]
  BY DEF TypeOK
<1>4. queue' \in [Kinds -> Seq(Instances)]
  BY <1>1 DEF TypeOK
<1>5. /\ Walked(k) = Len(s) - Len(q) /\ Walked(k) >= 0
      /\ \A i \in DOMAIN q : q[i] = s[Walked(k) + i]
  BY DEF WalkedOnce, Walked
<1>6. Walked(k)' = Len(s) - Len(Tail(q))
  BY <1>3 DEF Walked
<1>7. Walked(k) \in Nat /\ Walked(k)' = Walked(k) + 1
  <2> HIDE DEF q, s
  <2> QED
    BY <1>1, <1>2, <1>5, <1>6
<1>8. \A l \in Kinds \ {k} : Walked(l)' = Walked(l)
  BY <1>3 DEF Walked
<1>9. \A i \in DOMAIN Tail(q) : Tail(q)[i] = s[Walked(k)' + i]
  <2> SUFFICES ASSUME NEW i \in 1..(Len(q) - 1) PROVE Tail(q)[i] = s[Walked(k)' + i]
    BY <1>1
  <2> DEFINE w == Walked(k)
  <2> HIDE DEF q, s, w
  <2>1. i + 1 \in DOMAIN q /\ w + (i + 1) = (w + 1) + i
    BY <1>1, <1>7 DEF w
  <2>2. Tail(q)[i] = s[w + (i + 1)]
    BY <1>1, <1>5, <2>1 DEF w
  <2> QED
    BY <1>7, <2>1, <2>2 DEF w
<1>10. WalkedOnce'
  <2> DEFINE Held(l) == /\ Len(insts[l]) - Len(queue'[l]) >= 0
                        /\ \A i \in DOMAIN queue'[l] :
                             queue'[l][i] = insts[l][Len(insts[l]) - Len(queue'[l]) + i]
  <2>1. Held(k)
    <3>1. Walked(k)' = Len(insts[k]) - Len(queue'[k])
      BY DEF Walked
    <3>2. Len(insts[k]) - Len(queue'[k]) >= 0
      <4>1. \A n \in Nat : n + 1 >= 0
        OBVIOUS
      <4> HIDE DEF q, s
      <4> QED
        BY <1>7, <3>1, <4>1
    <3>3. \A i \in DOMAIN queue'[k] :
            queue'[k][i] = insts[k][Len(insts[k]) - Len(queue'[k]) + i]
      BY <1>3, <1>9, <3>1
    <3> QED
      BY <3>2, <3>3
  <2>2. \A l \in Kinds \ {k} : Held(l)
    BY <1>3 DEF WalkedOnce, Walked
  <2>3. \A l \in Kinds : Held(l)
    <3> HIDE DEF Held
    <3> QED
      BY <2>1, <2>2
  <2> QED
    BY <2>3 DEF WalkedOnce, Walked
<1>11. Head(q) = s[Walked(k) + 1]
  <2> HIDE DEF q, s
  <2>1. 1 \in DOMAIN q
    BY <1>1
  <2> QED
    BY <1>1, <1>5, <2>1
<1> QED
  BY <1>1, <1>4, <1>7, <1>8, <1>10, <1>11

\* The walk of the instance is one more, and there was none but the old ones.
LEMMA TakenWalks ==
  ASSUME TypeOK, WalkedOnce, NEW k \in Kinds, queue[k] # <<>>,
         queue' = [queue EXCEPT ![k] = Tail(@)], UNCHANGED <<prog, insts>>
  PROVE  Walks' = Walks \cup {InstWalk(prog, Head(queue[k]))}
<1> DEFINE n == Walked(k)
           new == InstWalk(prog, Head(queue[k]))
<1>1. n \in Nat /\ Walked(k)' = n + 1 /\ Head(queue[k]) = insts[k][n + 1]
  BY Taken
<1>2. \A l \in Kinds \ {k} : Walked(l)' = Walked(l)
  BY Taken
<1>3. WalksOf(k)' = {InstWalk(prog, insts[k][i]) : i \in 1..(n + 1)}
  BY <1>1 DEF WalksOf
<1> DEFINE Now(l) == {InstWalk(prog, insts[l][i]) : i \in 1..(Len(insts[l]) - Len(queue'[l]))}
<1>4. Now(k) = WalksOf(k) \cup {new}
  <2>1. WalksOf(k) = {InstWalk(prog, insts[k][i]) : i \in 1..n}
    BY DEF WalksOf
  <2>2. new = InstWalk(prog, insts[k][n + 1])
    BY <1>1
  <2>3. 1..(n + 1) = (1..n) \cup {n + 1}
    BY <1>1, LastOrBefore
  <2>4. Now(k) = {InstWalk(prog, insts[k][i]) : i \in 1..(n + 1)}
    BY <1>3 DEF WalksOf, Walked
  <2> HIDE DEF n, new, Now
  <2> QED
    BY <2>1, <2>2, <2>3, <2>4
<1>5. \A l \in Kinds \ {k} : Now(l) = WalksOf(l)
  <2>1. \A l \in Kinds \ {k} : queue'[l] = queue[l]
    BY DEF TypeOK
  <2> QED
    BY <2>1 DEF WalksOf, Walked
<1>6. Walks' = {ProgramWalk(prog)} \cup UNION {Now(l) : l \in Kinds}
  BY DEF Walks, WalksOf, Walked
<1> HIDE DEF new, Now
<1>7. UNION {Now(l) : l \in Kinds} = (UNION {WalksOf(l) : l \in Kinds}) \cup {new}
  <2>1. \A l \in Kinds : Now(l) \subseteq WalksOf(l) \cup {new}
    BY <1>4, <1>5
  <2>2. \A l \in Kinds : WalksOf(l) \subseteq Now(l)
    BY <1>4, <1>5
  <2>3. new \in Now(k)
    BY <1>4
  <2> QED
    BY <2>1, <2>2, <2>3
<1>8. Walks' = Walks \cup {new}
  BY <1>6, <1>7 DEF Walks
<1> QED
  BY <1>8 DEF new

LEMMA TurnInv ==
  ASSUME Inv, NEW k \in Kinds, NEW next \in Kinds, Turn(k, next)
  PROVE  Inv'
<1>1. TypeOK /\ SeenExact /\ SymbolsDistinct /\ WalkedOnce /\ MentionsSeen /\ NothingSpare
  BY DEF Inv
<1>2. UNCHANGED <<prog, insts, seen>> /\ left = {} /\ phase' = next
  BY DEF Turn
<1>3. Instances' = Instances
  BY <1>2 DEF Instances, Elements
<1>4. SeenExact' /\ SymbolsDistinct'
  BY <1>1, <1>2 DEF SeenExact, SymbolsDistinct
<1>5. EndsEmpty'
  BY <1>2 DEF EndsEmpty, Kinds
<1>6. \A w \in Walks : \A i \in DOMAIN w : Seen(w[i])
  BY <1>1, <1>2 DEF MentionsSeen
<1>7. \A S : Closed(S)' <=> Closed(S)
  BY <1>2 DEF Closed
<1>8. CASE queue[k] = <<>>
  <2>1. UNCHANGED <<walk, left, queue>>
    BY <1>8 DEF Turn
  <2>2. TypeOK'
    BY <1>1, <1>2, <1>3, <2>1 DEF TypeOK
  <2>3. WalkedOnce' /\ Walks' = Walks
    BY <1>1, <1>2, <2>1 DEF WalkedOnce, Walks, WalksOf, Walked
  <2>4. MentionsSeen'
    BY <1>2, <1>6, <2>3 DEF MentionsSeen, Seen
  <2>5. NothingSpare'
    BY <1>1, <1>2, <1>3, <1>7, <2>1 DEF NothingSpare, Elements
  <2> QED
    BY <1>4, <1>5, <2>2, <2>3, <2>4, <2>5 DEF Inv
<1>9. CASE queue[k] # <<>>
  <2>1. /\ walk' = InstWalk(prog, Head(queue[k])) /\ left' = DOMAIN walk'
        /\ queue' = [queue EXCEPT ![k] = Tail(@)]
    BY <1>9 DEF Turn
  <2>2. /\ queue' \in [Kinds -> Seq(Instances)] /\ WalkedOnce'
        /\ Head(queue[k]) \in Instances
    BY <1>1, <1>2, <1>9, <2>1, Taken
  <2>3. Walks' = Walks \cup {walk'}
    BY <1>1, <1>2, <1>9, <2>1, TakenWalks
  <2>4. TypeOK'
    BY <1>1, <1>2, <1>3, <2>1, <2>2 DEF TypeOK
  <2>5. MentionsSeen'
    <3>1. \A y : Seen(y)' <=> Seen(y)
      BY <1>2 DEF Seen
    <3> QED
      BY <1>2, <1>6, <2>1, <2>3, <3>1 DEF MentionsSeen, Seen
  <2>6. NothingSpare'
    <3>1. \A S : Closed(S) => Elements(walk') \subseteq S
      BY <1>1, <2>1, <2>2 DEF NothingSpare, Closed
    <3>2. Elements(walk)' = Elements(walk')
      BY DEF Elements
    <3> QED
      BY <1>1, <1>3, <1>7, <3>1, <3>2 DEF NothingSpare
  <2> QED
    BY <1>4, <1>5, <2>2, <2>4, <2>5, <2>6 DEF Inv
<1> QED
  BY <1>8, <1>9

\* What leaves all but the phase alone keeps the invariant.
LEMMA StopInv ==
  ASSUME Inv, phase' \in Kinds \cup {"collected", "cut"},
         UNCHANGED <<prog, walk, left, insts, seen, queue>>,
         phase' = "collected" => left = {} /\ ~MoreQueued
  PROVE  Inv'
<1>1. Instances' = Instances /\ Walks' = Walks /\ Elements(walk)' = Elements(walk)
  BY DEF Instances, Elements, Walks, WalksOf, Walked
<1>2. TypeOK' /\ SeenExact' /\ SymbolsDistinct' /\ WalkedOnce'
  BY <1>1 DEF Inv, TypeOK, SeenExact, SymbolsDistinct, WalkedOnce, Walked
<1>3. MentionsSeen'
  BY <1>1 DEF Inv, MentionsSeen, Seen
<1>4. NothingSpare'
  BY <1>1 DEF Inv, NothingSpare, Closed
<1>5. EndsEmpty'
  BY DEF EndsEmpty, MoreQueued
<1> QED
  BY <1>2, <1>3, <1>4, <1>5 DEF Inv

LEMMA NextInv == Inv /\ [Next]_vars => Inv'
<1> SUFFICES ASSUME Inv, [Next]_vars PROVE Inv'
  OBVIOUS
<1>1. CASE Visit
  BY <1>1, VisitInv
<1>2. CASE CollectClass
  BY <1>2, TurnInv DEF CollectClass, Kinds
<1>3. CASE CollectFn
  BY <1>3, TurnInv DEF CollectFn, Kinds
<1>4. CASE Collected
  BY <1>4, StopInv DEF Collected
<1>5. CASE CutOff
  BY <1>5, StopInv DEF CutOff
<1>6. CASE UNCHANGED vars
  <2>1. phase' \in Kinds \cup {"collected", "cut"} /\ (phase' = "collected" => left = {} /\ ~MoreQueued)
    BY <1>6 DEF vars, Inv, TypeOK, EndsEmpty
  <2> QED
    BY <1>6, <2>1, StopInv DEF vars
<1> QED
  BY <1>1, <1>2, <1>3, <1>4, <1>5, <1>6 DEF Next

\* The invariant holds from the start and through every step.
THEOREM InvCorrect == Spec => []Inv
  BY InitInv, NextInv, PTL DEF Spec

-----------------------------------------------------------------------------
(* What follows *)

\* The collector's sets, queues and places are what they are declared to be.
THEOREM TypeCorrect == Spec => []TypeOK
<1>1. Inv => TypeOK
  BY DEF Inv
<1> QED
  BY <1>1, InvCorrect, PTL

\* No symbol is collected twice for a kind, whatever the program mentions.
THEOREM SymbolsDistinctCorrect == Spec => []SymbolsDistinct
<1>1. Inv => SymbolsDistinct
  BY DEF Inv
<1> QED
  BY <1>1, InvCorrect, PTL

\* Instances are walked in the order in which they were found, each once.
THEOREM WalkedOnceCorrect == Spec => []WalkedOnce
<1>1. Inv => WalkedOnce
  BY DEF Inv
<1> QED
  BY <1>1, InvCorrect, PTL

\* When nothing waits, every instance has been walked.
LEMMA AllWalked ==
  ASSUME Inv, phase = "collected", NEW x \in Instances
  PROVE  InstWalk(prog, x) \in Walks
<1>1. PICK k \in Kinds : x \in Elements(insts[k])
  BY DEF Instances
<1>2. PICK i \in DOMAIN insts[k] : x = insts[k][i]
  BY <1>1 DEF Elements
<1>3. queue[k] = <<>>
  BY DEF Inv, EndsEmpty, MoreQueued
<1>4. Len(insts[k]) \in Nat /\ DOMAIN insts[k] = 1..Len(insts[k])
  BY OfKind DEF Inv
<1>5. Walked(k) = Len(insts[k])
  <2>1. Len(<<>>) = 0
    OBVIOUS
  <2> QED
    BY <1>3, <1>4, <2>1 DEF Walked
<1>6. InstWalk(prog, x) \in WalksOf(k)
  BY <1>2, <1>4, <1>5 DEF WalksOf
<1> QED
  BY <1>6 DEF Walks

\* Then every mention in a walk has the symbol of an instance.
LEMMA AllServed ==
  ASSUME Inv, phase = "collected", NEW w \in Walks, NEW i \in DOMAIN w
  PROVE  \E y \in Instances : Kind(y) = Kind(w[i]) /\ Symbol(y) = Symbol(w[i])
<1>1. Seen(w[i])
  BY DEF Inv, MentionsSeen, EndsEmpty
<1>2. PICK k \in Kinds : k = Kind(w[i])
  BY KindType
<1>3. Symbol(w[i]) \in {Symbol(insts[k][j]) : j \in DOMAIN insts[k]}
  BY <1>1, <1>2 DEF Seen, Inv, SeenExact
<1>4. PICK j \in DOMAIN insts[k] : Symbol(w[i]) = Symbol(insts[k][j])
  BY <1>3
<1>5. Kind(insts[k][j]) = k
  BY DEF Inv, SeenExact
<1>6. insts[k][j] \in Instances
  BY DEF Instances, Elements
<1> QED
  BY <1>2, <1>4, <1>5, <1>6

\* No mention is forgotten, however late the instance was found that makes it.
THEOREM MentionsServedCorrect == Spec => []MentionsServed
<1>1. Inv => MentionsServed
  <2> SUFFICES ASSUME Inv, phase = "collected",
                      NEW w \in {ProgramWalk(prog)} \cup {InstWalk(prog, x) : x \in Instances},
                      NEW i \in DOMAIN w
               PROVE  \E y \in Instances : Kind(y) = Kind(w[i]) /\ Symbol(y) = Symbol(w[i])
    BY DEF MentionsServed
  <2>1. w \in Walks
    BY AllWalked DEF Walks
  <2> QED
    BY <2>1, AllServed
<1> QED
  BY <1>1, InvCorrect, PTL

\* The instances are what the program reaches, if symbols tell this apart.
THEOREM CollectsExactlyCorrect == Spec => []CollectsExactly
<1>1. Inv => CollectsExactly
  <2> SUFFICES ASSUME Inv, phase = "collected", NEW S, Demanded(S), SymbolsTell(S)
               PROVE  Instances = S
    BY DEF CollectsExactly
  <2>1. Closed(S) /\ Instances \subseteq S
    BY DEF Demanded, Inv, NothingSpare
  <2>2. ASSUME NEW w \in Walks, Elements(w) \subseteq S
        PROVE  Elements(w) \subseteq Instances
    <3> SUFFICES ASSUME NEW i \in DOMAIN w PROVE w[i] \in Instances
      BY DEF Elements
    <3>1. PICK y \in Instances : Kind(y) = Kind(w[i]) /\ Symbol(y) = Symbol(w[i])
      BY AllServed
    <3>2. w[i] \in S /\ y \in S
      BY <2>1, <2>2 DEF Elements
    <3>3. y = w[i]
      BY <3>1, <3>2 DEF SymbolsTell
    <3> QED
      BY <3>3
  <2>3. Elements(ProgramWalk(prog)) \subseteq Instances
    BY <2>1, <2>2 DEF Walks, Closed
  <2>4. ASSUME NEW x \in Instances PROVE Elements(InstWalk(prog, x)) \subseteq Instances
    <3>1. InstWalk(prog, x) \in Walks
      BY AllWalked
    <3>2. Elements(InstWalk(prog, x)) \subseteq S
      BY <2>1 DEF Closed
    <3> QED
      BY <2>2, <3>1, <3>2
  <2>5. Closed(Instances)
    BY <2>3, <2>4 DEF Closed
  <2>6. S \subseteq Instances
    BY <2>5 DEF Demanded
  <2> QED
    BY <2>1, <2>6
<1> QED
  BY <1>1, InvCorrect, PTL

\* What a program reaches bounds its instances.
THEOREM InstancesBoundedCorrect == Spec => []InstancesBounded
<1>1. Inv => InstancesBounded
  <2> SUFFICES ASSUME Inv, NEW S, Closed(S), IsFiniteSet(S), NEW k \in Kinds
               PROVE  Len(insts[k]) <= Cardinality(S)
    BY DEF InstancesBounded
  <2>1. PICK f : f = insts[k]
    OBVIOUS
  <2>2. PICK n : n = Len(f)
    OBVIOUS
  <2>3. f \in Seq(Instances) /\ n \in Nat /\ DOMAIN f = 1..n /\ Elements(f) \subseteq Instances
    BY <2>1, <2>2, OfKind DEF Inv
  <2>4. Instances \subseteq S
    BY DEF Inv, NothingSpare
  <2>5. f \in [1..n -> S]
    BY <2>2, <2>3, <2>4 DEF Elements
  <2>6. \A i, j \in 1..n : f[i] = f[j] => i = j
    BY <2>1, <2>3 DEF Inv, SymbolsDistinct
  <2>7. f \in Injection(1..n, S)
    BY <2>5, <2>6, Fun_IsInj
  <2>8. Cardinality(1..n) <= Cardinality(S)
    BY <2>7, FS_Injection
  <2>9. Cardinality(1..n) = n
    BY <2>3, FS_Interval
  <2> QED
    BY <2>1, <2>2, <2>8, <2>9
<1> QED
  BY <1>1, InvCorrect, PTL
=============================================================================
