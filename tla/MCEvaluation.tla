---------------------------- MODULE MCEvaluation ----------------------------
(***************************************************************************)
(* Pairs of tasks for TLC: two tokenizers that are the same, scores beside *)
(* scores that raise, and each kind of signature beside another task.      *)
(***************************************************************************)
EXTENDS Evaluation

CONSTANTS t1, t2, h1

Input(kind, answer) == [kind |-> kind, answer |-> answer, hash |-> h1]

Pair(a, b) == [t \in Tasks |-> IF t = t1 THEN a ELSE b]

PairCases == {Pair(Input("tokenizer", "good"), Input("tokenizer", "good")),
              Pair(Input("lmeh", "good"), Input("lmeh", "broken")),
              Pair(Input("config", "good"), Input("tokenizer", "bad")),
              Pair(Input("lmeh", "missing"), Input("config", "broken"))}
=============================================================================
