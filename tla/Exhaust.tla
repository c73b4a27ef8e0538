------------------------------ MODULE Exhaust ------------------------------
(***************************************************************************)
(* Which arms of a match are missing or redundant:                         *)
(* crates/draton-typeck/src/exhaust.rs.  A pattern is reduced to a label:  *)
(* "_" for whatever binds, a literal, a variant or a constructor; what is  *)
(* inside a constructor or a tuple is dropped.                             *)
(***************************************************************************)
EXTENDS Types

Wildcard == "_"

\* A pattern is an expression: its kind, a name and its operands.
ExtractPattern(p) ==
  CASE p.k = "lit" -> p.n
    [] p.k = "none" -> "None"
    [] p.k = "variant" -> p.n
    [] p.k = "tuple" -> "Tuple"
    [] p.k \in {"Ok", "Err"} -> p.k
    [] p.k = "call" -> IF p.args[1].k = "id" THEN p.args[1].x ELSE Wildcard
    [] OTHER -> Wildcard

Subject(t) ==
  IF t.k # "con" THEN "Other"
  ELSE IF t.n \in {"Bool", "Option", "Result", "Tuple"} \cup DOMAIN Enums THEN t.n ELSE "Other"

\* The labels that together cover a subject; no finite set of them covers the others.
Labels(t) ==
  CASE Subject(t) = "Bool" -> {"true", "false"}
    [] Subject(t) = "Option" -> {"Some", "None"}
    [] Subject(t) = "Result" -> {"Ok", "Err"}
    [] Subject(t) = "Tuple" -> {"Tuple"}
    [] Subject(t) \in DOMAIN Enums -> Range(Enums[t.n])
    [] OTHER -> {Wildcard}

\* A tuple pattern covers a tuple of its length.
Covers(p, t) == IF p.k = "tuple" THEN IsCon(t, "Tuple") /\ Len(p.args) = Len(t.args) ELSE TRUE

\* Mutant of Missing: a constructor counts when any arm names another one.
MissingAny(ps, t) == IF ps = <<>> THEN Labels(t) ELSE {}

Missing(ps, t) ==
  IF \E i \in DOMAIN ps : ExtractPattern(ps[i]) = Wildcard THEN {}
  ELSE Labels(t) \ {ExtractPattern(ps[i]) : i \in {j \in DOMAIN ps : Covers(ps[j], t)}}

\* Labels that say the same of every value.  In a tuple only a wildcard settles what follows.
Settles(p, t) ==
  IF Subject(t) = "Tuple" THEN FALSE
  ELSE IF Subject(t) = "Other" THEN p.k \in {"lit", "none"}
  ELSE ExtractPattern(p) \in Labels(t)

\* Mutant of Redundant: the first arm of a label counts as the second.
RedundantFirst(ps, t) == {i \in DOMAIN ps : \E j \in DOMAIN ps : i # j /\ ExtractPattern(ps[i]) = ExtractPattern(ps[j])}

Redundant(ps, t) ==
  {i \in DOMAIN ps : \E j \in 1..(i - 1) :
     \/ ExtractPattern(ps[j]) = Wildcard
     \/ Settles(ps[i], t) /\ ExtractPattern(ps[i]) = ExtractPattern(ps[j])}
=============================================================================
