----------------------------- MODULE MCSummaries -----------------------------
(***************************************************************************)
(* Three functions.  With one parameter each: every choice of up to two    *)
(* parameters each parameter is passed to, and of the functions that move  *)
(* theirs.  With two each: cycles in which an entry that appears late      *)
(* lowers an effect, and effects that go round through both parameters.    *)
(***************************************************************************)
EXTENDS Summaries

CONSTANTS fa, fb, fc

MCFuns == {fa, fb, fc}
MCSlots == 1..2

Calling(passes, more) == [a \in MCFuns |-> {p[2][1] : p \in {q \in passes : q[1][1] = a}} \cup more[a]]
MakeProgram(raises, passes, more) ==
  [calls |-> Calling(passes, more), raises |-> raises, passes |-> passes]
Only == [a \in MCFuns |-> {}]

Firsts == {<<a, 1>> : a \in MCFuns}
Graphs == {r \in SUBSET (Firsts \X Firsts) :
             \A p \in Firsts : Cardinality({e \in r : e[1] = p}) <= 2}
OneParameter ==
  {MakeProgram({<<p, Move>> : p \in moved}, r, Only) : moved \in {{<<fc, 1>>}, {<<fb, 1>>, <<fc, 1>>}}, r \in Graphs}

\* All three call one another; what is passed where and done to it varies.
All == [a \in MCFuns |-> MCFuns]
Chains == {
  {<<<<fa, 1>>, <<fb, 1>>>>, <<<<fb, 1>>, <<fc, 1>>>>, <<<<fc, 1>>, <<fa, 1>>>>},
  {<<<<fa, 1>>, <<fb, 2>>>>, <<<<fb, 2>>, <<fc, 1>>>>, <<<<fc, 1>>, <<fa, 2>>>>, <<<<fa, 2>>, <<fa, 1>>>>},
  {<<<<fa, 1>>, <<fb, 1>>>>, <<<<fc, 1>>, <<fa, 1>>>>},
  {<<<<fa, 1>>, <<fa, 2>>>>, <<<<fa, 2>>, <<fb, 1>>>>, <<<<fc, 2>>, <<fa, 1>>>>} }
Raised == {{<<a, e>>} : a \in {<<fa, 2>>, <<fb, 2>>, <<fc, 2>>}, e \in {BorrowShared, BorrowExclusive}}
TwoParameters ==
  {MakeProgram(r \cup s, p, more) : r \in Raised, s \in {{}, {<<<<fb, 1>>, Move>>}}, p \in Chains, more \in {Only, All}}

\* The summary of fc depends on the order: fb's entry, which says that fb does not
\* read its parameter, appears only if fb is visited before fa.
Late == MakeProgram({<<<<fa, 2>>, BorrowShared>>}, {<<<<fb, 1>>, <<fa, 1>>>>, <<<<fc, 1>>, <<fb, 1>>>>},
                    [Only EXCEPT ![fa] = {fb}, ![fb] = {fc}, ![fc] = {fa}])

MCPrograms == OneParameter \cup TwoParameters \cup {Late}
=============================================================================
