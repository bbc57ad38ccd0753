--------------------------- MODULE MCLanguageModel ---------------------------
(***************************************************************************)
(* Models that take from one to six tokens against an Evaluator that       *)
(* assumes four, and two or three requests of up to seven.                 *)
(***************************************************************************)
EXTENDS LanguageModel

Pair(c, k) == [ctx |-> c, cont |-> k]
Lengths == {Pair(0, 1), Pair(1, 2), Pair(2, 1), Pair(3, 2), Pair(2, 3), Pair(5, 2)}
SmallBatches == [1..2 -> Lengths] \cup {<<Pair(5, 1), Pair(2, 1), Pair(4, 1)>>}
SmallLimits ==
  [manual : {0}, config : {0, 3, 6}, tokenizer : {0, 2, VeryLarge}]
    \cup [manual : {1, 5}, config : {3}, tokenizer : {2}]
\* No stop, an empty one, one of two symbols, two stops that overlap.
SmallArguments ==
  {[max |-> 0, until |-> <<>>], [max |-> 1, until |-> <<<<>>, <<"a">>>>],
   [max |-> 3, until |-> <<<<"b", "a">>, <<"a", "a">>>>]}
SmallHashes == {<<"tok", "cfg">>, <<"", "cfg">>, <<"tok", "lost">>}
KnownHashes == {"tok", "cfg"}
SmallTimeouts == {"absent", "default", "malformed"}
Quadratic(n) == n * n + 2
SmallTexts ==
  {<<>>, <<"b", "a", "a">>, <<"a", "b", "E", "a">>, <<"b", "b", "a">>}
ThreeSymbols == {"a", "b", "E"}
EosText == <<"E">>
=============================================================================
