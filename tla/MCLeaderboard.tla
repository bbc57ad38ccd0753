---------------------------- MODULE MCLeaderboard ----------------------------
(***************************************************************************)
(* A metric before mmlu, two subtasks and a metric after it.  One node has *)
(* any samples, the others leave the flag in each way a node can.          *)
(***************************************************************************)
EXTENDS Leaderboard

CONSTANTS n1, n2, n3

ThreeMetrics == <<"arc", "mmlu", "gsm8k">>
TwoSubtasks == <<"algebra", "virology">>

\* Two of the nodes have one address, n1 among them or not.
TwoAddresses == {[n \in Nodes |-> IF n = n1 THEN "a" ELSE IF n = n2 THEN b ELSE "b"] : b \in {"a", "b"}}


\* The samples of arc, the two subtasks and gsm8k.
RowOf(a, b, c, d) ==
  [t \in Tasks |-> CASE t = "arc" -> a [] t = "algebra" -> b [] t = "virology" -> c [] OTHER -> d]

Counts == {Absent, 0, 1, 2}
AnyRow == {RowOf(a, b, c, d) : a, b, c, d \in Counts}
FewRows == {RowOf(Absent, Absent, Absent, Absent), RowOf(2, 1, Absent, 0),
            RowOf(Absent, 2, 2, 1), RowOf(1, 0, 1, 2), RowOf(0, 2, 2, 2)}
OneOfAny == {[n \in Nodes |-> IF n = n1 THEN r ELSE IF n = n2 THEN s ELSE t] :
               r \in AnyRow, s, t \in FewRows}
MeanOf(t) == CASE t = "arc" -> 3 [] t = "algebra" -> 5 [] t = "virology" -> 2 [] OTHER -> 7
ErrorRateOf(t) == CASE t = "arc" -> 1 [] t = "algebra" -> 4 [] t = "virology" -> 0 [] OTHER -> 2
=============================================================================
