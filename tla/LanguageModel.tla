---------------------------- MODULE LanguageModel ----------------------------
(***************************************************************************)
(* How the requests of one task become the prompts a node is asked and its *)
(* answers become the values the metrics are computed from                 *)
(* (packages/python/lmeh/pocket_lm_eval/models/pocket_network.py).         *)
(*                                                                         *)
(* PocketNetworkLM, in the Sampler, encodes requests with the tokenizer of *)
(* the node and cuts them to the length its model takes.  EvaluatorLM, in  *)
(* the Evaluator, has neither the tokenizer nor that length: it is always  *)
(* created with its defaults (evaluate.py:192), and finds the answer in a  *)
(* response by counting the tokens the Sampler stored.                     *)
(*                                                                         *)
(* A token is its place in a request and stands for its log probability    *)
(* too.  All requests of a task share the generation arguments of the task *)
(* and no two have the same text.                                          *)
(***************************************************************************)
EXTENDS Integers, SequencesExt

CONSTANTS
  DefaultMaxLength,   (* 4096 *)
  DefaultGenTokens,   (* 256 *)
  Limits,      (* The lengths the arguments, the config and the tokenizer give *)
  Batches,     (* Sequences of requests, each with the lengths of its parts *)
  Symbols,     (* What texts and stops are made of                         *)
  Arguments,   (* The generation arguments a task may have                 *)
  Hashes,      (* Pairs: the last signatures of the tokenizer and config   *)
  Stored,      (* The hashes that have a document                          *)
  TimeoutConfigs,     (* What the config of the Sampler says of timeouts   *)
  Ttft(_), Tpot, Queue,      (* The terms of the timeout of an LLM         *)
  Texts,       (* What a node may generate, as sequences of symbols        *)
  Eos          (* The end of sequence token as text                        *)

ASSUME LengthsAssumption ==
  DefaultMaxLength \in Nat \ {0} /\ DefaultGenTokens \in Nat \ {0}
ASSUME TasksAssumption ==
  /\ Batches \subseteq Seq([ctx : Nat, cont : Nat])
  /\ Limits \subseteq [manual : Nat, config : Nat, tokenizer : Nat]
  /\ Arguments \subseteq [max : Nat, until : Seq(Seq(Symbols))]
ASSUME TextsAssumption == Texts \subseteq Seq(Symbols) /\ Eos \in Seq(Symbols)

VARIABLES
  stage,       (* How far the task is                                      *)
  task,        (* What was asked, and of which model                       *)
  prompts,     (* The prompts, in the order of the requests                *)
  responses,   (* The responses to them                                    *)
  values       (* What the Evaluator makes of the responses                *)

vars == <<stage, task, prompts, responses, values>>

Kinds == {"loglikelihood", "generate_until", "loglikelihood_rolling"}
\* Zero stands for a limit that is not given, VeryLarge for the number transformers
\* gives a tokenizer whose limit is unknown.
VeryLarge == 1000000

Init ==
  /\ stage = "new"
  /\ task \in [kind : Kinds, requests : Batches, limits : Limits, args : Arguments,
               hashes : Hashes, timeouts : TimeoutConfigs]
  /\ prompts = <<>> /\ responses = <<>> /\ values = <<>>

-----------------------------------------------------------------------------
(***************************************************************************)
(* Python's slices and the reordering of requests.                         *)
(***************************************************************************)
\* s[n:]
From(s, n) == SubSeq(s, (IF n >= 0 THEN n ELSE Max({0, Len(s) + n})) + 1, Len(s))

\* s[-n:], which is all of s when n is zero and drops -n elements when n is negative.
LastOf(s, n) == From(s, -n)

\* The places of a batch, sorted by their keys.  Requests of one length are in the order
\* of their texts, which is left open.
Reordered(keys) ==
  CHOOSE order \in SetToSeqs(DOMAIN keys) : IsSorted(order, LAMBDA i, j : keys[i] <= keys[j])

\* The results of reordered requests in the order of the requests.
GetOriginal(order, results) ==
  [i \in 1..Len(results) |-> results[CHOOSE j \in DOMAIN order : order[j] = i]]

-----------------------------------------------------------------------------
(***************************************************************************)
(* The Sampler: loading, encoding, saving.                                 *)
(***************************************************************************)
Loadable(hash) == hash # "" /\ hash \in Stored

\* The tokenizer and the config of the node are loaded by its last signatures, once
\* the timeouts of the service or the default ones are read.
LoadTokenizer ==
  /\ stage = "new"
  /\ stage' = IF task.timeouts # "malformed" /\ Loadable(task.hashes[1])
                 /\ Loadable(task.hashes[2])
              THEN "loaded" ELSE "failed"
  /\ UNCHANGED <<task, prompts, responses, values>>

MaxLength ==
  LET l == task.limits IN
  CASE l.manual # 0 -> l.manual
    [] l.manual = 0 /\ l.config # 0 -> l.config
    [] l.manual = 0 /\ l.config = 0 /\ l.tokenizer \notin {0, VeryLarge} -> l.tokenizer
    [] OTHER -> DefaultMaxLength

\* The empty context of a pair is encoded as the prefix token.
Context(i) ==
  IF task.kind = "loglikelihood" /\ task.requests[i].ctx = 0 THEN <<<<i, "prefix", 0>>>>
  ELSE [k \in 1..task.requests[i].ctx |-> <<i, "ctx", k>>]

Continuation(i) == [k \in 1..task.requests[i].cont |-> <<i, "cont", k>>]

\* The length of the context within the last limit + 1 tokens of a pair.
CtxLen(context, continuation, limit) ==
  Len(context) - Max({0, Len(context) + Len(continuation) - (limit + 1)})

(* Mutant: the first tokens of a long pair are kept. *)
PairPromptHead(i) ==
  [ids |-> SubSeq(Context(i) \o Continuation(i), 1,
             IF Len(Context(i) \o Continuation(i)) > MaxLength + 1
             THEN MaxLength + 1 ELSE Len(Context(i) \o Continuation(i))),
   ctxlen |-> CtxLen(Context(i), Continuation(i), MaxLength),
   context |-> Context(i), continuation |-> Continuation(i),
   max |-> 0, stop |-> <<>>, timeout |-> 0]

\* The model scores a prompt after its first token: it takes one more than its limit.
PairPrompt(i) ==
  [ids |-> LastOf(Context(i) \o Continuation(i), MaxLength + 1),
   ctxlen |-> CtxLen(Context(i), Continuation(i), MaxLength),
   context |-> Context(i), continuation |-> Continuation(i),
   max |-> 0, stop |-> <<>>, timeout |-> 0]

\* The longest first.
PairsOrder ==
  Reordered([i \in DOMAIN task.requests |-> -Len(Context(i) \o Continuation(i))])

Loglikelihood ==
  /\ stage = "loaded" /\ task.kind = "loglikelihood"
  /\ prompts' = GetOriginal(PairsOrder,
                  [j \in DOMAIN task.requests |-> PairPrompt(PairsOrder[j])])
  /\ stage' = "encoded"
  /\ UNCHANGED <<task, responses, values>>

MaxGenTokens == IF task.args.max = 0 THEN DefaultGenTokens ELSE task.args.max

Stops == Append(task.args.until, Eos)

\* What is left of the context leaves room for the answer.
TextPrompt(i) ==
  LET ids == LastOf(Context(i), MaxLength - MaxGenTokens) IN
  [ids |-> ids, ctxlen |-> Len(ids), context |-> ids, continuation |-> <<>>,
   max |-> MaxGenTokens, stop |-> Stops, timeout |-> 0]

\* The shortest first.
TextsOrder ==
  Reordered([i \in DOMAIN task.requests |-> Len(Context(i))])

GenerateUntil ==
  /\ stage = "loaded" /\ task.kind = "generate_until"
  /\ prompts' = GetOriginal(TextsOrder,
                  [j \in DOMAIN task.requests |-> TextPrompt(TextsOrder[j])])
  /\ stage' = "encoded"
  /\ UNCHANGED <<task, responses, values>>

\* A request cannot be indexed, and the sum of log probabilities is taken of requests.
LoglikelihoodRolling ==
  /\ stage = "loaded" /\ task.kind = "loglikelihood_rolling"
  /\ stage' = "failed"
  /\ UNCHANGED <<task, prompts, responses, values>>

\* The timeout of an LLM when one is configured for the service or by default.
Timeout(prefill, decode) ==
  IF task.timeouts \in {"service", "default"} THEN Ttft(prefill) + Tpot * decode + Queue
  ELSE 60

Decode == IF task.kind = "generate_until" THEN MaxGenTokens ELSE 2

SavePrompts ==
  /\ stage = "encoded"
  /\ prompts' = [i \in DOMAIN prompts |->
                  [prompts[i] EXCEPT !.timeout = Timeout(prompts[i].ctxlen, Decode)]]
  /\ stage' = "saved"
  /\ UNCHANGED <<task, responses, values>>

-----------------------------------------------------------------------------
(***************************************************************************)
(* The node: it echoes a pair with the log probability of each token but   *)
(* the first, or generates a text, which need not respect what was asked.  *)
(***************************************************************************)
None == <<0, "none", 0>>

Echo(p) == [k \in DOMAIN p.ids |-> IF k = 1 THEN None ELSE p.ids[k]]

Respond ==
  /\ stage = "saved"
  /\ responses' \in
       IF task.kind = "loglikelihood" THEN {[i \in DOMAIN prompts |-> Echo(prompts[i])]}
       ELSE [DOMAIN prompts -> Texts]
  /\ stage' = "answered"
  /\ UNCHANGED <<task, prompts, values>>

-----------------------------------------------------------------------------
(***************************************************************************)
(* The Evaluator.                                                          *)
(***************************************************************************)
(* Mutant: the token before the answer is scored with it. *)
GetResultOneMore(logprobs, ctxlen) ==
  [logprob |-> From(logprobs, ctxlen - 1), greedy |-> From(logprobs, ctxlen - 1) = <<>>]

\* The log probabilities after the context.  The most probable token is compared with a
\* log probability, never equal, so only an empty answer is greedy.
GetResult(logprobs, ctxlen) ==
  [logprob |-> From(logprobs, ctxlen), greedy |-> From(logprobs, ctxlen) = <<>>]

PairValue(i) ==
  GetResult(responses[i], CtxLen(prompts[i].context, prompts[i].continuation, DefaultMaxLength))

PromptsOrder ==
  Reordered([i \in DOMAIN prompts |-> -Len(prompts[i].context \o prompts[i].continuation)])

\* The sum of log probabilities is an error when the first token's is among them.
EvaluatePairs ==
  LET pairs == [j \in DOMAIN prompts |-> PairValue(PromptsOrder[j])] IN
  /\ stage = "answered" /\ task.kind = "loglikelihood"
  /\ IF \E j \in DOMAIN pairs : Contains(pairs[j].logprob, None)
     THEN stage' = "failed" /\ UNCHANGED values
     ELSE stage' = "evaluated" /\ values' = GetOriginal(PromptsOrder, pairs)
  /\ UNCHANGED <<task, prompts, responses>>

Occurs(term, s, k) == SubSeq(s, k, k + Len(term) - 1) = term

\* s.split(term)[0]
CutAt(s, term) ==
  LET places == {k \in 1..(Len(s) - Len(term) + 1) : Occurs(term, s, k)} IN
  IF term = <<>> \/ places = {} THEN s ELSE SubSeq(s, 1, Min(places) - 1)

(* Mutant: each stop is looked for in the whole text and the last one decides. *)
TextValueLastStop(i) ==
  FoldLeft(LAMBDA s, term : CutAt(responses[i], term), responses[i], prompts[i].stop)

TextValue(i) == FoldLeft(CutAt, responses[i], prompts[i].stop)

ContextsOrder ==
  Reordered([i \in DOMAIN prompts |-> Len(prompts[i].context)])

EvaluateTexts ==
  /\ stage = "answered" /\ task.kind = "generate_until"
  /\ values' = GetOriginal(ContextsOrder,
                 [j \in DOMAIN prompts |-> TextValue(ContextsOrder[j])])
  /\ stage' = "evaluated"
  /\ UNCHANGED <<task, prompts, responses>>

Next ==
  \/ LoadTokenizer \/ Loglikelihood \/ GenerateUntil \/ LoglikelihoodRolling
  \/ SavePrompts \/ Respond \/ EvaluatePairs \/ EvaluateTexts

Spec == Init /\ [][Next]_vars

-----------------------------------------------------------------------------
(***************************************************************************)
(* Properties.                                                             *)
(***************************************************************************)
Evaluated == stage = "evaluated"
Pairs == task.kind = "loglikelihood"

(* The model is asked the end of a request, no more of it than it takes and *)
(* with room for its answer, and each prompt is that of the request at its  *)
(* place, whatever order they were encoded in (pocket_network.py:285-290,   *)
(* 362).  A model that takes no more than its answer is left out: its       *)
(* context is not cut, or cut at the wrong end.                             *)
PromptsFit ==
  \A i \in DOMAIN prompts :
    /\ IsSuffix(prompts[i].ids, Context(i) \o IF Pairs THEN Continuation(i) ELSE <<>>)
    /\ Pairs => Len(prompts[i].ids) <= MaxLength + 1
    /\ ~Pairs /\ MaxGenTokens < MaxLength =>
         Len(prompts[i].ids) + prompts[i].max <= MaxLength

(* The answer is all that is scored of a request that fits both lengths,   *)
(* the one the model takes and the one the Evaluator assumes, and it is    *)
(* found at the place of its own request (pocket_network.py:561-577).      *)
AnswerScored ==
  Evaluated /\ Pairs =>
    \A i \in DOMAIN values :
      Len(Context(i)) + Len(Continuation(i)) <= Min({MaxLength, DefaultMaxLength}) + 1
        => values[i].logprob = Continuation(i)

(* A request of any length is scored by its answer: "Length of context (so *)
(* we can slice them away and only keep the predictions)"                  *)
(* (pocket_network.py:42).  An answer the model does not take is left out. *)
OnlyPredictions ==
  Evaluated /\ Pairs =>
    \A i \in DOMAIN values :
      Len(Continuation(i)) <= MaxLength => values[i].logprob = Continuation(i)

HasTerm(s, term) ==
  term # <<>> /\ \E k \in 1..(Len(s) - Len(term) + 1) : Occurs(term, s, k)

(* A generated text is cut where a stop of its own request begins, and not *)
(* a stop is left in it, in whichever order the stops are looked for and   *)
(* even if the node ignored them (pocket_network.py:624-635).              *)
AnswerCutAtStop ==
  Evaluated /\ ~Pairs =>
    \A i \in DOMAIN values :
      LET stops == ToSet(prompts[i].stop) IN
      /\ \A term \in stops : ~HasTerm(values[i], term)
      /\ \/ values[i] = responses[i]
         \/ \E term \in stops \ {<<>>} : IsPrefix(values[i] \o term, responses[i])
=============================================================================
