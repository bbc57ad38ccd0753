----------------------------- MODULE Evaluation -----------------------------
(***************************************************************************)
(* How a done task becomes a stored result and an analysis of it           *)
(* (apps/python/evaluator).                                                *)
(*                                                                         *)
(* An Evaluator workflow, whose id is the task's, is started by the        *)
(* Relayer that saw the task done and, one task after another, by each run *)
(* of LookupTasks.  Its activity evaluates the answers of the task and, in *)
(* one transaction, stores a result and marks the task evaluated.  The     *)
(* workflow then starts the Manager's ResultAnalyzer, which inserts the    *)
(* first result it finds in the buffers and removes the task.              *)
(*                                                                         *)
(* A workflow is given 120 seconds and its activity 300, without           *)
(* heartbeats: an activity whose workflow expired runs to its end, here as *)
(* the stray attempt of its task.                                          *)
(***************************************************************************)
EXTENDS Naturals, Sequences

CONSTANTS
  Tasks,
  Hashes,      (* What a tokenizer or a configuration hashes to            *)
  Cases,       (* The kinds and answers of the tasks to begin from         *)
  MaxFaults,   (* Bound on the errors of MongoDB                           *)
  MaxExpiries, (* Bound on the workflows that reach their timeout          *)
  MaxResults   (* Bound on the results kept of a task; later ones, which   *)
               (* nobody reads, are not recorded                           *)

ASSUME BoundsAssumption == MaxFaults \in Nat /\ MaxExpiries \in Nat /\ MaxResults \in Nat \ {0}

Kinds == {"lmeh", "tokenizer", "config"}

\* Missing: no response, or for a signature more than one.  Broken: scoring it
\* raises.  Bad: it cannot be decoded or loaded, which makes a sample as well.
Answers == {"missing", "broken", "bad", "good"}

Inputs == [kind : Kinds, answer : Answers, hash : Hashes]

ASSUME CasesAssumption == Cases \subseteq [Tasks -> Inputs]

VARIABLES
  input,       (* The kind of each task and the answer its node gave       *)
  done, evaluated, dropped,  (* The tasks with each mark                   *)
  removed,     (* Tasks removed after their analysis; the marks they had   *)
               (* are kept, and nobody reads them                          *)
  results,     (* The results of each task, in the order of the collection *)
  tokenizers, configs,       (* Hashes with an entry                       *)
  notified,    (* Done tasks whose Relayer has started the Evaluator       *)
  listed,      (* What LookupTasks still has to start                      *)
  awaited,     (* The tasks (at most one) LookupTasks waits for            *)
  workflow,    (* The Evaluator workflow of each task                      *)
  attempt,     (* The attempts at its activity: the workflow's, a stray one*)
  analysis,    (* The ResultAnalyzer workflow of each task                 *)
  consumed,    (* History: the result each analysis used                   *)
  expired,     (* History: tasks with a workflow that reached its timeout  *)
  hit,         (* History: tasks an error of MongoDB was met for           *)
  faults, expiries

dbVars == <<done, evaluated, dropped, removed, results, tokenizers, configs>>
lookupVars == <<notified, listed, awaited>>
faultVars == <<expired, hit, faults, expiries>>
vars == <<input, dbVars, lookupVars, workflow, attempt, analysis, consumed, faultVars>>

Kind(t) == input[t].kind
Answer(t) == input[t].answer
Hash(t) == input[t].hash
Signature(t) == Kind(t) # "lmeh"

Holders == {"own", "stray"}

WorkflowPlaces == {"none", "get", "evaluate", "start", "completed", "failed"}
AttemptPlaces == {"none", "read", "score", "load", "lookup", "insert", "save", "fail"}

\* Whether an attempt that fails is tried again.
Retries == [pc : AttemptPlaces, retry : BOOLEAN]

At(pc) == [pc |-> pc, retry |-> FALSE]
Failing(retry) == [pc |-> "fail", retry |-> retry]

Init ==
  /\ input \in Cases
  /\ done = {} /\ evaluated = {} /\ dropped = {} /\ removed = {}
  /\ results = [t \in Tasks |-> <<>>]
  /\ tokenizers = {} /\ configs = {}
  /\ notified = {} /\ listed = {} /\ awaited = {}
  /\ workflow = [t \in Tasks |-> [pc |-> "none", try |-> 1]]
  /\ attempt = [t \in Tasks |-> [h \in Holders |-> At("none")]]
  /\ analysis = [t \in Tasks |-> "none"]
  /\ consumed = [t \in Tasks |-> <<>>]
  /\ expired = {} /\ hit = {} /\ faults = 0 /\ expiries = 0

-----------------------------------------------------------------------------
(***************************************************************************)
(* Starting the Evaluator.                                                 *)
(***************************************************************************)
TaskDone(t) ==
  /\ t \notin done
  /\ done' = done \cup {t}
  /\ UNCHANGED <<input, evaluated, dropped, removed, results, tokenizers, configs,
                 lookupVars, workflow, attempt, analysis, consumed, faultVars>>

Startable(t) == workflow[t].pc \in {"none", "failed"}

Started(t) == [workflow EXCEPT ![t] = [pc |-> "get", try |-> 1]]

\* A workflow id may be used again only after a failure.
RelayerStarts(t) ==
  /\ t \in done \ notified
  /\ notified' = notified \cup {t}
  /\ workflow' = IF Startable(t) THEN Started(t) ELSE workflow
  /\ UNCHANGED <<input, dbVars, listed, awaited, attempt, analysis, consumed, faultVars>>

(* Mutant: a task that was dropped is left alone. *)
GetTasksNotDropped == ((done \ evaluated) \ removed) \ dropped

GetTasks == (done \ evaluated) \ removed

LookupTasks ==
  /\ listed = {} /\ awaited = {}
  /\ listed' = GetTasks
  /\ UNCHANGED <<input, dbVars, notified, awaited, workflow, attempt, analysis, consumed, faultVars>>

LookupStarts(t) ==
  /\ awaited = {} /\ t \in listed
  /\ listed' = listed \ {t}
  /\ IF Startable(t)
     THEN awaited' = {t} /\ workflow' = Started(t)
     ELSE UNCHANGED <<awaited, workflow>>
  /\ UNCHANGED <<input, dbVars, notified, attempt, analysis, consumed, faultVars>>

LookupResumes(t) ==
  /\ t \in awaited
  /\ workflow[t].pc \in {"completed", "failed"}
  /\ awaited' = {}
  /\ UNCHANGED <<input, dbVars, notified, listed, workflow, attempt, analysis, consumed, faultVars>>

(***************************************************************************)
(* The Evaluator workflow.                                                 *)
(***************************************************************************)
Goto(t, pc) == [workflow EXCEPT ![t].pc = pc]

GetTaskData(t) ==
  /\ workflow[t].pc = "get"
  /\ IF t \in removed
     THEN workflow' = Goto(t, "failed") /\ UNCHANGED attempt
     ELSE workflow' = Goto(t, "evaluate") /\ attempt' = [attempt EXCEPT ![t]["own"] = At("read")]
  /\ UNCHANGED <<input, dbVars, lookupVars, analysis, consumed, faultVars>>

\* An analysis that was started before, and did not fail, is not started again.
StartAnalysis(t) ==
  /\ workflow[t].pc = "start"
  /\ IF analysis[t] \in {"none", "failed"}
     THEN /\ analysis' = [analysis EXCEPT ![t] = "running"]
          /\ workflow' = Goto(t, "completed")
     ELSE /\ workflow' = Goto(t, "failed")
          /\ UNCHANGED analysis
  /\ UNCHANGED <<input, dbVars, lookupVars, attempt, consumed, faultVars>>

\* The workflow ends at its timeout; its activity does not hear of it.
Expire(t) ==
  /\ expiries < MaxExpiries
  /\ workflow[t].pc \in {"get", "evaluate", "start"}
  /\ attempt[t]["stray"].pc = "none"
  /\ expiries' = expiries + 1
  /\ expired' = expired \cup {t}
  /\ workflow' = Goto(t, "failed")
  /\ attempt' = [attempt EXCEPT ![t] = [own |-> At("none"), stray |-> @["own"]]]
  /\ UNCHANGED <<input, dbVars, lookupVars, analysis, consumed, hit, faults>>

-----------------------------------------------------------------------------
(***************************************************************************)
(* The activities: lmeh_evaluate, tokenizer_evaluate, model_config_evaluate*)
(***************************************************************************)
Step(t, h, a) == attempt' = [attempt EXCEPT ![t][h] = a]

Continue(t, h, a) == Step(t, h, a) /\ UNCHANGED workflow

Succeed(t, h) ==
  /\ Step(t, h, At("none"))
  /\ workflow' = IF h = "own" THEN Goto(t, "start") ELSE workflow

\* Two attempts, unless the error says that another is of no use.
Fail(t, h, retry) ==
  LET again == h = "own" /\ retry /\ workflow[t].try = 1 IN
  /\ Step(t, h, At(IF again THEN "read" ELSE "none"))
  /\ workflow' = IF again THEN [workflow EXCEPT ![t].try = @ + 1]
                 ELSE IF h = "own" THEN Goto(t, "failed") ELSE workflow

Fault(t) == /\ faults < MaxFaults
            /\ faults' = faults + 1
            /\ hit' = hit \cup {t}
            /\ UNCHANGED <<expired, expiries>>

ReadAnswers(t, h) ==
  /\ attempt[t][h].pc = "read"
  /\ Continue(t, h, IF t \in removed \/ Answer(t) = "missing" THEN Failing(TRUE)
                    ELSE At(IF Signature(t) THEN "load" ELSE "score"))
  /\ UNCHANGED <<input, dbVars, lookupVars, analysis, consumed, faultVars>>

(* Mutant: an answer that cannot be loaded is an error. *)
LoadTokenizerStrict(t, h) ==
  /\ attempt[t][h].pc = "load" /\ Kind(t) = "tokenizer"
  /\ Continue(t, h, IF Answer(t) \in {"broken", "bad"} THEN Failing(TRUE) ELSE At("lookup"))
  /\ UNCHANGED <<input, dbVars, lookupVars, analysis, consumed, faultVars>>

\* Only what the load itself raises is made a sample: a maximum length that is no
\* number, or JSON that is no object, is an error.
LoadTokenizer(t, h) ==
  /\ attempt[t][h].pc = "load" /\ Kind(t) = "tokenizer"
  /\ Continue(t, h, CASE Answer(t) = "broken" -> Failing(TRUE)
                      [] Answer(t) = "bad" -> At("save")
                      [] OTHER -> At("lookup"))
  /\ UNCHANGED <<input, dbVars, lookupVars, analysis, consumed, faultVars>>

LoadConfig(t, h) ==
  /\ attempt[t][h].pc = "load" /\ Kind(t) = "config"
  /\ Continue(t, h, CASE Answer(t) = "broken" -> Failing(TRUE)
                      [] Answer(t) = "bad" -> At("save")
                      [] OTHER -> At("lookup"))
  /\ UNCHANGED <<input, dbVars, lookupVars, analysis, consumed, faultVars>>

\* A failed answer is scored too: only a broken one raises, and what it raises is
\* retried unless process_results wraps it.
Score(t, h) ==
  /\ attempt[t][h].pc = "score"
  /\ CASE t \in removed -> Continue(t, h, Failing(TRUE))
       [] t \notin removed /\ Answer(t) = "broken" ->
            \E retry \in BOOLEAN : Continue(t, h, Failing(retry))
       [] OTHER -> Continue(t, h, At("save"))
  /\ UNCHANGED <<input, dbVars, lookupVars, analysis, consumed, faultVars>>

Entries(t) == IF Kind(t) = "tokenizer" THEN tokenizers ELSE configs

LookupEntry(t, h) ==
  /\ attempt[t][h].pc = "lookup"
  /\ Continue(t, h, At(IF Hash(t) \in Entries(t) THEN "save" ELSE "insert"))
  /\ UNCHANGED <<input, dbVars, lookupVars, analysis, consumed, faultVars>>

\* Only the collection of tokenizers has a unique index on the hash.
InsertTokenizer(t, h) ==
  /\ attempt[t][h].pc = "insert" /\ Kind(t) = "tokenizer"
  /\ IF Hash(t) \in tokenizers
     THEN Continue(t, h, Failing(FALSE)) /\ UNCHANGED tokenizers
     ELSE Continue(t, h, At("save")) /\ tokenizers' = tokenizers \cup {Hash(t)}
  /\ UNCHANGED <<input, done, evaluated, dropped, removed, results, configs, lookupVars,
                 analysis, consumed, faultVars>>

InsertConfig(t, h) ==
  /\ attempt[t][h].pc = "insert" /\ Kind(t) = "config"
  /\ Continue(t, h, At("save"))
  /\ configs' = configs \cup {Hash(t)}
  /\ UNCHANGED <<input, done, evaluated, dropped, removed, results, tokenizers, lookupVars,
                 analysis, consumed, faultVars>>

Evaluated(t) == evaluated \cup ({t} \ removed)

\* The first result of the task is replaced, or one is inserted.
Upserted(t, r) == IF results[t] = <<>> THEN <<r>> ELSE [results[t] EXCEPT ![1] = r]

Inserted(t, r) == IF Len(results[t]) < MaxResults THEN Append(results[t], r) ELSE results[t]

(* Mutant: the result of an evaluation is inserted beside those of its failures. *)
SaveScoresInserts(t, h) ==
  /\ attempt[t][h].pc = "save" /\ ~Signature(t)
  /\ results' = [results EXCEPT ![t] = Inserted(t, "answer")]
  /\ evaluated' = Evaluated(t)
  /\ Succeed(t, h)
  /\ UNCHANGED <<input, done, dropped, removed, tokenizers, configs, lookupVars,
                 analysis, consumed, faultVars>>

(* Mutant: the workflow goes on before the result is stored. *)
SaveScoresNotAwaited(t, h) ==
  /\ attempt[t][h].pc = "save" /\ ~Signature(t)
  /\ results' = [results EXCEPT ![t] = Upserted(t, "answer")]
  /\ evaluated' = Evaluated(t)
  /\ workflow' = IF h = "own" THEN Goto(t, "start") ELSE workflow
  /\ UNCHANGED <<input, done, dropped, removed, tokenizers, configs, lookupVars,
                 attempt, analysis, consumed, faultVars>>

SaveScores(t, h) ==
  /\ attempt[t][h].pc = "save" /\ ~Signature(t)
  /\ results' = [results EXCEPT ![t] = Upserted(t, "answer")]
  /\ evaluated' = Evaluated(t)
  /\ Succeed(t, h)
  /\ UNCHANGED <<input, done, dropped, removed, tokenizers, configs, lookupVars,
                 analysis, consumed, faultVars>>

(* Mutant: a result that exists is replaced. *)
SaveSignatureReplaces(t, h) ==
  /\ attempt[t][h].pc = "save" /\ Signature(t)
  /\ results' = [results EXCEPT ![t] = Upserted(t, "answer")]
  /\ evaluated' = Evaluated(t)
  /\ Succeed(t, h)
  /\ UNCHANGED <<input, done, dropped, removed, tokenizers, configs, lookupVars,
                 analysis, consumed, faultVars>>

\* The update of a result that exists sets its _id, which MongoDB refuses.
SaveSignature(t, h) ==
  /\ attempt[t][h].pc = "save" /\ Signature(t)
  /\ IF results[t] = <<>>
     THEN /\ results' = [results EXCEPT ![t] = <<"answer">>]
          /\ evaluated' = Evaluated(t)
          /\ Succeed(t, h)
     ELSE Continue(t, h, Failing(FALSE)) /\ UNCHANGED <<results, evaluated>>
  /\ UNCHANGED <<input, done, dropped, removed, tokenizers, configs, lookupVars,
                 analysis, consumed, faultVars>>

MarkTaskToDrop(t, h) ==
  /\ attempt[t][h].pc = "fail" /\ ~Signature(t)
  /\ results' = [results EXCEPT ![t] = Inserted(t, "failure")]
  /\ dropped' = dropped \cup ({t} \ removed)
  /\ Fail(t, h, attempt[t][h].retry)
  /\ UNCHANGED <<input, done, evaluated, removed, tokenizers, configs, lookupVars,
                 analysis, consumed, faultVars>>

(* Mutant: the failure is stored but the task is not marked. *)
SaveFailureUnmarked(t, h) ==
  /\ attempt[t][h].pc = "fail" /\ Signature(t)
  /\ IF results[t] = <<>>
     THEN /\ results' = [results EXCEPT ![t] = <<"failure">>]
          /\ Fail(t, h, attempt[t][h].retry)
     ELSE Fail(t, h, FALSE) /\ UNCHANGED results
  /\ UNCHANGED <<input, done, evaluated, dropped, removed, tokenizers, configs, lookupVars,
                 analysis, consumed, faultVars>>

SaveFailure(t, h) ==
  /\ attempt[t][h].pc = "fail" /\ Signature(t)
  /\ IF results[t] = <<>>
     THEN /\ results' = [results EXCEPT ![t] = <<"failure">>]
          /\ evaluated' = Evaluated(t)
          /\ Fail(t, h, attempt[t][h].retry)
     ELSE Fail(t, h, FALSE) /\ UNCHANGED <<results, evaluated>>
  /\ UNCHANGED <<input, done, dropped, removed, tokenizers, configs, lookupVars,
                 analysis, consumed, faultVars>>

\* A database fails the read of an attempt, or one of its writes.
ReadFault(t, h) ==
  /\ attempt[t][h].pc \in {"read", "score", "lookup"}
  /\ Fault(t)
  /\ \E retry \in BOOLEAN :
       /\ attempt[t][h].pc # "score" => retry  \* an error of Postgres is not retried
       /\ Continue(t, h, Failing(retry))
  /\ UNCHANGED <<input, dbVars, lookupVars, analysis, consumed>>

WriteFault(t, h) ==
  /\ attempt[t][h].pc \in {"insert", "save"}
  /\ Fault(t)
  /\ Continue(t, h, Failing(FALSE))
  /\ UNCHANGED <<input, dbVars, lookupVars, analysis, consumed>>

\* The transaction is committed but its acknowledgement is lost.
LostCommit(t, h) ==
  /\ attempt[t][h].pc = "save"
  /\ Signature(t) => results[t] = <<>>
  /\ Fault(t)
  /\ results' = [results EXCEPT ![t] = Upserted(t, "answer")]
  /\ evaluated' = Evaluated(t)
  /\ Continue(t, h, Failing(FALSE))
  /\ UNCHANGED <<input, done, dropped, removed, tokenizers, configs, lookupVars,
                 analysis, consumed>>

\* An error while dropping is passed on as it is, one while saving a failure is not retried.
FailureFault(t, h) ==
  /\ attempt[t][h].pc = "fail"
  /\ Fault(t)
  /\ Fail(t, h, ~Signature(t))
  /\ UNCHANGED <<input, dbVars, lookupVars, analysis, consumed>>

Attempt(t, h) ==
  \/ ReadAnswers(t, h) \/ Score(t, h)
  \/ LoadTokenizer(t, h) \/ LoadConfig(t, h) \/ LookupEntry(t, h)
  \/ InsertTokenizer(t, h) \/ InsertConfig(t, h)
  \/ SaveScores(t, h) \/ SaveSignature(t, h) \/ MarkTaskToDrop(t, h) \/ SaveFailure(t, h)

AttemptFault(t, h) ==
  ReadFault(t, h) \/ WriteFault(t, h) \/ LostCommit(t, h) \/ FailureFault(t, h)

-----------------------------------------------------------------------------
\* The Manager inserts the first result it finds and removes the task with all
\* of its results (ResultAnalysis has the steps of this).
AnalyzeResult(t) ==
  /\ analysis[t] = "running"
  /\ t \notin removed
  /\ analysis' = [analysis EXCEPT ![t] = "completed"]
  /\ consumed' = [consumed EXCEPT ![t] = Append(@, results[t][1])]
  /\ results' = [results EXCEPT ![t] = <<>>]
  /\ removed' = removed \cup {t}
  /\ UNCHANGED <<input, done, evaluated, dropped, tokenizers, configs, lookupVars, workflow, attempt, faultVars>>

\* An error on reading the task ends an analysis for good.
AnalysisFault(t) ==
  /\ analysis[t] = "running"
  /\ faults < MaxFaults
  /\ faults' = faults + 1
  /\ analysis' = [analysis EXCEPT ![t] = "failed"]
  /\ UNCHANGED <<input, dbVars, lookupVars, workflow, attempt, consumed, expired, hit, expiries>>

Evaluator(t) == \/ GetTaskData(t) \/ StartAnalysis(t)
                \/ \E h \in Holders : Attempt(t, h)

Lookup == LookupTasks \/ \E t \in Tasks : LookupStarts(t) \/ LookupResumes(t)

Next ==
  \/ Lookup
  \/ \E t \in Tasks : \/ TaskDone(t) \/ RelayerStarts(t)
                      \/ Evaluator(t) \/ AnalyzeResult(t) \/ AnalysisFault(t) \/ Expire(t)
                      \/ \E h \in Holders : AttemptFault(t, h)

\* LookupTasks is on a schedule of one minute, and its runs do not overlap.
Fairness == /\ WF_vars(Lookup)
            /\ \A t \in Tasks : WF_vars(Evaluator(t)) /\ WF_vars(AnalyzeResult(t))

Spec == Init /\ [][Next]_vars /\ Fairness

-----------------------------------------------------------------------------
TypeOK ==
  /\ input \in [Tasks -> Inputs]
  /\ done \subseteq Tasks /\ evaluated \subseteq Tasks
  /\ dropped \subseteq Tasks /\ removed \subseteq Tasks
  /\ results \in [Tasks -> Seq({"answer", "failure"})]
  /\ \A t \in Tasks : Len(results[t]) <= MaxResults
  /\ tokenizers \subseteq Hashes /\ configs \subseteq Hashes
  /\ notified \subseteq Tasks /\ listed \subseteq Tasks /\ awaited \subseteq Tasks
  /\ workflow \in [Tasks -> [pc : WorkflowPlaces, try : {1, 2}]]
  /\ attempt \in [Tasks -> [Holders -> Retries]]
  /\ analysis \in [Tasks -> {"none", "running", "completed", "failed"}]
  /\ consumed \in [Tasks -> Seq({"answer", "failure"})]
  /\ expired \subseteq Tasks /\ hit \subseteq Tasks
  /\ faults \in 0..MaxFaults /\ expiries \in 0..MaxExpiries

FirstResult(t, r) == results[t] # <<>> /\ results[t][1] = r

\* Until a task is removed its mark and its first result agree: one of lmeh is
\* marked exactly when its scores are the result the Manager will find, one of a
\* signature when it has a result, which is then its only one (save_results,
\* mark_task_to_drop and the saves of the two signatures).
MarkedWithResult ==
  \A t \in Tasks \ removed :
    IF Signature(t) THEN /\ t \in evaluated <=> results[t] # <<>>
                         /\ Len(results[t]) <= 1
    ELSE t \in evaluated <=> FirstResult(t, "answer")

\* What is inserted in the buffers is never the result of an evaluation that
\* failed, whatever attempts failed before or go on after it (evaluator.py starts
\* the analysis after the activity).
AnalysisUsesAnswer ==
  \A t \in Tasks : \A i \in DOMAIN consumed[t] : consumed[t][i] = "answer"

\* A result stays in the collection after its task is removed only when a workflow
\* of the task reached its timeout and left its activity running (evaluator.py
\* gives the activity 300 seconds, lookup_tasks.py the workflow 120).
LeftoversOnlyAfterExpiry ==
  \A t \in removed : results[t] # <<>> => t \in expired

\* Whether another evaluation can insert the same tokenizer at the same time.
Contended(t) == /\ Kind(t) = "tokenizer"
                /\ \/ t \in expired
                   \/ \E u \in Tasks \ {t} : Kind(u) = "tokenizer" /\ Hash(u) = Hash(t)

\* A signature is given up for good only when its answer is missing or raises, on
\* an error of MongoDB, or when another evaluation inserted the same tokenizer
\* between the look-up and the insertion (tokenizer_evaluate.py).
FailureExplained ==
  \A t \in Tasks \ removed : Signature(t) /\ FirstResult(t, "failure") =>
    Answer(t) \in {"missing", "broken"} \/ t \in hit \/ Contended(t)

Phase == [t \in Tasks |->
  IF t \in removed THEN "analyzed"
  ELSE IF t \in evaluated THEN IF FirstResult(t, "failure") THEN "failed" ELSE "answered"
  ELSE IF t \in done THEN "done" ELSE "open"]

Life == INSTANCE TaskLife WITH phase <- Phase

\* A task goes through the life TaskLife promises: it is analyzed once, only from a
\* stored answer, and neither an answer nor a stored failure is ever replaced.
TaskLifeSpec == Life!Spec

\* Scores that raise are computed again by every LookupTasks.  A task is never looked
\* at again when a failure is stored for it, or when after it was marked its workflow
\* expired or failed for a commit that was not acknowledged, or its analysis failed
\* on reading the task (process_node_result.go makes every such error final).
GivenUp(t) ==
  \/ ~Signature(t) /\ Answer(t) \in {"missing", "broken"}
  \/ t \in evaluated /\ (FirstResult(t, "failure") \/ t \in expired \cup hit)
  \/ analysis[t] = "failed"

\* Every done task is analyzed and removed in the end, unless it is given up for
\* one of these reasons (lookup_tasks.py lists done tasks until they are evaluated).
EventuallyAnalyzed ==
  \A t \in Tasks : t \in done ~> t \in removed \/ GivenUp(t)

\* What tokenizer_evaluate.py says when it stores a failure ("a failure is also an
\* answer"): that it is given to the Manager as any other result.
FailureIsAnAnswer ==
  \A t \in Tasks : FirstResult(t, "failure") /\ Signature(t) ~> t \in removed
=============================================================================
