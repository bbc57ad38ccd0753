-------------------------- MODULE EvaluationProofs --------------------------
(***************************************************************************)
(* For every set of tasks and any number of errors and expired workflows:  *)
(* marks and results agree, an analysis uses an answer, what stays behind  *)
(* is explained, and a task goes through the life TaskLife promises.       *)
(***************************************************************************)
EXTENDS Evaluation, TLAPS

-----------------------------------------------------------------------------
(***************************************************************************)
(* The inductive invariant.                                                *)
(***************************************************************************)
\* The activity of a workflow is running exactly while the workflow waits for it.
Awaited ==
  \A t \in Tasks : attempt[t]["own"].pc # "none" <=> workflow[t].pc = "evaluate"

\* Any other attempt lost its workflow.
Strays == \A t \in Tasks : attempt[t]["stray"].pc # "none" => t \in expired

\* A workflow that waits no more left an answer, which nothing replaces.
Ready == \A t \in Tasks \ removed :
  workflow[t].pc = "start" => FirstResult(t, "answer")

\* An analysis is started once, by a workflow that completes; only its end removes the task.
Analyses ==
  \A t \in Tasks :
    /\ analysis[t] # "none" => workflow[t].pc = "completed"
    /\ analysis[t] \in {"running", "failed"} => FirstResult(t, "answer")
    /\ t \in removed <=> analysis[t] = "completed"

\* MarkedWithResult of one task.
Marked(t) ==
  IF Signature(t) THEN /\ t \in evaluated <=> results[t] # <<>>
                       /\ Len(results[t]) <= 1
  ELSE t \in evaluated <=> FirstResult(t, "answer")

EvalInv ==
  /\ TypeOK
  /\ MarkedWithResult
  /\ Awaited
  /\ Strays
  /\ Ready
  /\ Analyses
  /\ AnalysisUsesAnswer
  /\ LeftoversOnlyAfterExpiry

\* Why a signature may be given up for good.
Excused(t) ==
  \/ t \in removed \/ results[t] # <<>>
  \/ Answer(t) \in {"missing", "broken"} \/ t \in hit \/ Contended(t)

\* An attempt about to insert a tokenizer that exists met another one of the same
\* tokenizer, and one about to store a failure is excused.
Explained ==
  \A t \in Tasks, h \in Holders :
    /\ attempt[t][h].pc = "insert" /\ Kind(t) = "tokenizer" /\ Hash(t) \in tokenizers
         => Contended(t)
    /\ attempt[t][h].pc = "fail" /\ Signature(t) => Excused(t)

\* Nothing is started for a task that is not done.
Done ==
  /\ listed \subseteq done
  /\ evaluated \subseteq done
  /\ \A t \in Tasks : /\ workflow[t].pc # "none" => t \in done
                      /\ \A h \in Holders : attempt[t][h].pc # "none" => t \in done

-----------------------------------------------------------------------------
(***************************************************************************)
(* What the helpers of the actions change.                                 *)
(***************************************************************************)
\* The places of attempts are typed.
LEMMA PlacesTyped ==
  /\ \A pc \in AttemptPlaces : At(pc) \in Retries /\ At(pc).pc = pc
  /\ \A retry \in BOOLEAN : Failing(retry) \in Retries /\ Failing(retry).pc = "fail"
BY DEF AttemptPlaces, Retries, At, Failing

\* A step of an attempt changes no other attempt.
LEMMA StepChanges ==
  ASSUME TypeOK, NEW t \in Tasks, NEW h \in Holders, NEW a \in Retries, Step(t, h, a)
  PROVE  /\ attempt' \in [Tasks -> [Holders -> Retries]]
         /\ \A u \in Tasks, g \in Holders :
              attempt'[u][g] = IF u = t /\ g = h THEN a ELSE attempt[u][g]
BY DEF TypeOK, Step

\* Going to a place changes no other workflow.
LEMMA GotoChanges ==
  ASSUME TypeOK, NEW t \in Tasks, NEW pc \in WorkflowPlaces
  PROVE  /\ Goto(t, pc) \in [Tasks -> [pc : WorkflowPlaces, try : {1, 2}]]
         /\ \A u \in Tasks : Goto(t, pc)[u].pc = IF u = t THEN pc ELSE workflow[u].pc
<1> DEFINE W == [pc : WorkflowPlaces, try : {1, 2}]
           w == [workflow[t] EXCEPT !.pc = pc]
<1>1. workflow \in [Tasks -> W] /\ Goto(t, pc) = [workflow EXCEPT ![t] = w]
  BY DEF TypeOK, Goto
<1>2. w \in W /\ w.pc = pc
  BY <1>1
<1> HIDE DEF W, w
<1> QED
  BY <1>1, <1>2 DEF W

\* Starting a workflow changes no other one.
LEMMA StartedChanges ==
  ASSUME TypeOK, NEW t \in Tasks
  PROVE  /\ Started(t) \in [Tasks -> [pc : WorkflowPlaces, try : {1, 2}]]
         /\ \A u \in Tasks : Started(t)[u].pc = IF u = t THEN "get" ELSE workflow[u].pc
BY DEF TypeOK, Started, WorkflowPlaces

\* An attempt that succeeds is over, and its workflow goes on.
LEMMA SucceedChanges ==
  ASSUME TypeOK, NEW t \in Tasks, NEW h \in Holders, Succeed(t, h)
  PROVE  /\ attempt' \in [Tasks -> [Holders -> Retries]]
         /\ workflow' \in [Tasks -> [pc : WorkflowPlaces, try : {1, 2}]]
         /\ \A u \in Tasks, g \in Holders :
              attempt'[u][g] = IF u = t /\ g = h THEN At("none") ELSE attempt[u][g]
         /\ \A u \in Tasks :
              workflow'[u].pc = IF u = t /\ h = "own" THEN "start" ELSE workflow[u].pc
<1>1. At("none") \in Retries /\ "start" \in WorkflowPlaces
  BY PlacesTyped DEF AttemptPlaces, WorkflowPlaces
<1>2. Step(t, h, At("none")) /\ workflow' = IF h = "own" THEN Goto(t, "start") ELSE workflow
  BY DEF Succeed
<1>3. /\ attempt' \in [Tasks -> [Holders -> Retries]]
      /\ \A u \in Tasks, g \in Holders :
           attempt'[u][g] = IF u = t /\ g = h THEN At("none") ELSE attempt[u][g]
  BY <1>1, <1>2, StepChanges
<1>4. CASE h = "own"
  <2>1. workflow' = Goto(t, "start")
    BY <1>2, <1>4
  <2> QED
    BY <1>1, <1>3, <1>4, <2>1, GotoChanges
<1>5. CASE h # "own"
  <2>1. workflow' = workflow /\ workflow \in [Tasks -> [pc : WorkflowPlaces, try : {1, 2}]]
    BY <1>2, <1>5 DEF TypeOK
  <2> QED
    BY <1>3, <1>5, <2>1
<1> QED
  BY <1>4, <1>5

\* An attempt that fails is run again for its workflow, or is over and its workflow fails.
LEMMA FailChanges ==
  ASSUME TypeOK, NEW t \in Tasks, NEW h \in Holders, NEW retry \in BOOLEAN,
         Fail(t, h, retry)
  PROVE  /\ attempt' \in [Tasks -> [Holders -> Retries]]
         /\ workflow' \in [Tasks -> [pc : WorkflowPlaces, try : {1, 2}]]
         /\ \A u \in Tasks, g \in Holders :
              ~(u = t /\ g = h) => attempt'[u][g] = attempt[u][g]
         /\ \A u \in Tasks : ~(u = t /\ h = "own") => workflow'[u].pc = workflow[u].pc
         /\ \/ /\ attempt'[t][h].pc = "none"
               /\ h = "own" => workflow'[t].pc = "failed"
            \/ /\ attempt'[t][h].pc = "read" /\ h = "own"
               /\ workflow'[t].pc = workflow[t].pc
<1> DEFINE again == h = "own" /\ retry /\ workflow[t].try = 1
<1>1. /\ At("none") \in Retries /\ At("none").pc = "none"
      /\ At("read") \in Retries /\ At("read").pc = "read" /\ "failed" \in WorkflowPlaces
  BY PlacesTyped DEF AttemptPlaces, WorkflowPlaces
<1>2. /\ Step(t, h, At(IF again THEN "read" ELSE "none"))
      /\ workflow' = IF again THEN [workflow EXCEPT ![t].try = @ + 1]
                     ELSE IF h = "own" THEN Goto(t, "failed") ELSE workflow
  BY DEF Fail
<1>3. CASE again
  <2>1. Step(t, h, At("read")) /\ workflow' = [workflow EXCEPT ![t].try = @ + 1]
    BY <1>2, <1>3
  <2> DEFINE W == [pc : WorkflowPlaces, try : {1, 2}]
             w == [workflow[t] EXCEPT !.try = @ + 1]
  <2>2. workflow \in [Tasks -> W] /\ workflow' = [workflow EXCEPT ![t] = w]
    BY <2>1 DEF TypeOK
  <2>3. w \in W /\ w.pc = workflow[t].pc
    BY <2>2, <1>3
  <2>4. /\ workflow' \in [Tasks -> W]
        /\ \A u \in Tasks : workflow'[u].pc = workflow[u].pc
    <3> HIDE DEF W, w
    <3> QED BY <2>2, <2>3
  <2> QED
    BY <1>1, <1>3, <2>1, <2>4, StepChanges
<1>4. CASE ~again
  <2>1. Step(t, h, At("none")) /\ workflow' = IF h = "own" THEN Goto(t, "failed") ELSE workflow
    BY <1>2, <1>4
  <2>2. /\ attempt' \in [Tasks -> [Holders -> Retries]]
        /\ \A u \in Tasks, g \in Holders :
             attempt'[u][g] = IF u = t /\ g = h THEN At("none") ELSE attempt[u][g]
    BY <1>1, <2>1, StepChanges
  <2>3. CASE h = "own"
    <3>1. workflow' = Goto(t, "failed")
      BY <2>1, <2>3
    <3> QED
      BY <1>1, <2>2, <2>3, <3>1, GotoChanges
  <2>4. CASE h # "own"
    <3>1. workflow' = workflow /\ workflow \in [Tasks -> [pc : WorkflowPlaces, try : {1, 2}]]
      BY <2>1, <2>4 DEF TypeOK
    <3> QED
      BY <1>1, <2>2, <2>4, <3>1
  <2> QED
    BY <2>3, <2>4
<1> QED
  BY <1>3, <1>4

\* A result that is stored is the first one, or leaves the first one as it is.
LEMMA ResultsChange ==
  ASSUME TypeOK, NEW t \in Tasks, NEW r \in {"answer", "failure"}
  PROVE  /\ Upserted(t, r) \in Seq({"answer", "failure"}) /\ Len(Upserted(t, r)) <= MaxResults
         /\ Upserted(t, r) # <<>> /\ Upserted(t, r)[1] = r
         /\ results[t] = <<>> => Upserted(t, r) = <<r>>
         /\ Inserted(t, r) \in Seq({"answer", "failure"}) /\ Len(Inserted(t, r)) <= MaxResults
         /\ Inserted(t, r) # <<>>
         /\ Inserted(t, r)[1] = IF results[t] = <<>> THEN r ELSE results[t][1]
<1> DEFINE R == {"answer", "failure"}
           s == results[t]
<1>1. s \in Seq(R) /\ Len(s) \in Nat /\ Len(s) <= MaxResults /\ r \in R
  BY DEF TypeOK
<1>2. MaxResults \in Nat /\ MaxResults >= 1
  BY BoundsAssumption
<1>3. /\ Upserted(t, r) = IF s = <<>> THEN <<r>> ELSE [s EXCEPT ![1] = r]
      /\ Inserted(t, r) = IF Len(s) < MaxResults THEN Append(s, r) ELSE s
  BY DEF Upserted, Inserted
<1> HIDE DEF R, s
<1>4. CASE s = <<>>
  <2>1. /\ <<r>> \in Seq(R) /\ Len(<<r>>) = 1 /\ <<r>> # <<>> /\ <<r>>[1] = r
        /\ Len(s) = 0 /\ Append(s, r) = <<r>>
    BY <1>1, <1>4
  <2> QED
    <3>1. Upserted(t, r) = <<r>> /\ Inserted(t, r) = <<r>>
      BY <1>2, <1>3, <1>4, <2>1
    <3> QED
      BY <1>2, <1>4, <2>1, <3>1 DEF R, s
<1>5. CASE s # <<>>
  <2>1. Len(s) >= 1
    BY <1>1, <1>5
  <2>2. LET u == [s EXCEPT ![1] = r] IN
          u \in Seq(R) /\ Len(u) = Len(s) /\ u[1] = r
    BY <1>1, <2>1
  <2>3. LET u == [s EXCEPT ![1] = r] IN u # <<>>
    BY <2>1, <2>2, <1>1
  <2>4. LET u == Append(s, r) IN
          u \in Seq(R) /\ Len(u) = Len(s) + 1 /\ u # <<>> /\ u[1] = s[1]
    BY <1>1, <2>1
  <2> QED
    BY <1>1, <1>2, <1>3, <1>5, <2>1, <2>2, <2>3, <2>4 DEF R, s
<1> QED
  BY <1>4, <1>5

-----------------------------------------------------------------------------
(***************************************************************************)
(* Type correctness.                                                       *)
(***************************************************************************)
LEMMA InitTyped == Init => TypeOK
<1> SUFFICES ASSUME Init PROVE TypeOK
  OBVIOUS
<1>1. input \in [Tasks -> Inputs]
  BY CasesAssumption DEF Init
<1>2. At("none") \in Retries
  BY PlacesTyped DEF AttemptPlaces
<1>3. attempt \in [Tasks -> [Holders -> Retries]]
  BY <1>2 DEF Init
<1>4. workflow \in [Tasks -> [pc : WorkflowPlaces, try : {1, 2}]]
  BY DEF Init, WorkflowPlaces
<1>5. /\ results \in [Tasks -> Seq({"answer", "failure"})]
      /\ consumed \in [Tasks -> Seq({"answer", "failure"})]
      /\ \A t \in Tasks : Len(results[t]) <= MaxResults
  <2>1. <<>> \in Seq({"answer", "failure"}) /\ Len(<<>>) = 0
    OBVIOUS
  <2> QED
    BY <2>1, BoundsAssumption DEF Init
<1>6. analysis \in [Tasks -> {"none", "running", "completed", "failed"}]
  BY DEF Init
<1>7. faults \in 0..MaxFaults /\ expiries \in 0..MaxExpiries
  BY BoundsAssumption DEF Init
<1> QED
  BY <1>1, <1>3, <1>4, <1>5, <1>6, <1>7 DEF Init, TypeOK

\* Starting the Evaluator keeps the types.
LEMMA StartTyped ==
  ASSUME TypeOK, NEW t \in Tasks,
         \/ LookupTasks \/ LookupStarts(t) \/ LookupResumes(t)
         \/ TaskDone(t) \/ RelayerStarts(t)
  PROVE  TypeOK'
<1> USE DEF TypeOK, dbVars, lookupVars, faultVars
<1>1. CASE LookupTasks
  BY <1>1 DEF LookupTasks, GetTasks
<1>2. CASE LookupStarts(t)
  BY <1>2, StartedChanges DEF LookupStarts
<1>3. CASE LookupResumes(t)
  BY <1>3 DEF LookupResumes
<1>4. CASE TaskDone(t)
  BY <1>4 DEF TaskDone
<1>5. CASE RelayerStarts(t)
  BY <1>5, StartedChanges DEF RelayerStarts
<1> QED
  BY <1>1, <1>2, <1>3, <1>4, <1>5

\* The workflow, its timeout and the Manager keep the types.
LEMMA WorkflowTyped ==
  ASSUME TypeOK, Analyses, NEW t \in Tasks,
         GetTaskData(t) \/ StartAnalysis(t) \/ Expire(t) \/ AnalyzeResult(t) \/ AnalysisFault(t)
  PROVE  TypeOK'
<1> USE DEF dbVars, lookupVars, faultVars
<1>1. {"none", "get", "evaluate", "start", "completed", "failed"} \subseteq WorkflowPlaces
  BY DEF WorkflowPlaces
<1>2. At("none") \in Retries /\ At("read") \in Retries
  BY PlacesTyped DEF AttemptPlaces
<1>3. CASE GetTaskData(t)
  <2>1. workflow' \in [Tasks -> [pc : WorkflowPlaces, try : {1, 2}]]
    BY <1>1, <1>3, GotoChanges DEF GetTaskData
  <2>2. attempt' \in [Tasks -> [Holders -> Retries]]
    <3>1. attempt' = attempt \/ Step(t, "own", At("read"))
      BY <1>3 DEF GetTaskData, Step
    <3>2. "own" \in Holders
      BY DEF Holders
    <3> QED
      BY <1>2, <3>1, <3>2, StepChanges DEF TypeOK
  <2> QED
    BY <1>3, <2>1, <2>2 DEF GetTaskData, TypeOK
<1>4. CASE StartAnalysis(t)
  <2>1. workflow' \in [Tasks -> [pc : WorkflowPlaces, try : {1, 2}]]
    BY <1>1, <1>4, GotoChanges DEF StartAnalysis
  <2> QED
    BY <1>4, <2>1 DEF StartAnalysis, TypeOK
<1>5. CASE Expire(t)
  <2>1. workflow' \in [Tasks -> [pc : WorkflowPlaces, try : {1, 2}]]
    BY <1>1, <1>5, GotoChanges DEF Expire
  <2>2. attempt' \in [Tasks -> [Holders -> Retries]]
    <3>1. attempt[t]["own"] \in Retries
      BY DEF TypeOK, Holders
    <3>2. [own |-> At("none"), stray |-> attempt[t]["own"]] \in [Holders -> Retries]
      BY <1>2, <3>1 DEF Holders
    <3>3. attempt' = [attempt EXCEPT ![t] = [own |-> At("none"), stray |-> attempt[t]["own"]]]
      BY <1>5 DEF Expire, TypeOK
    <3> QED
      BY <3>2, <3>3 DEF TypeOK
  <2> QED
    BY <1>5, <2>1, <2>2, BoundsAssumption DEF Expire, TypeOK
<1>6. CASE AnalyzeResult(t)
  <2>1. results[t] \in Seq({"answer", "failure"}) /\ results[t] # <<>>
    BY <1>6 DEF AnalyzeResult, Analyses, FirstResult, TypeOK
  <2>2. results[t][1] \in {"answer", "failure"}
    BY <2>1
  <2>3. consumed' \in [Tasks -> Seq({"answer", "failure"})]
    <3>1. Append(consumed[t], results[t][1]) \in Seq({"answer", "failure"})
      BY <2>2 DEF TypeOK
    <3> QED
      BY <1>6, <3>1 DEF AnalyzeResult, TypeOK
  <2>4. /\ results' \in [Tasks -> Seq({"answer", "failure"})]
        /\ \A u \in Tasks : Len(results'[u]) <= MaxResults
    <3>1. <<>> \in Seq({"answer", "failure"}) /\ Len(<<>>) <= MaxResults
      BY BoundsAssumption
    <3>2. \A u \in Tasks : results'[u] = IF u = t THEN <<>> ELSE results[u]
      BY <1>6 DEF AnalyzeResult, TypeOK
    <3> QED
      BY <1>6, <3>1, <3>2 DEF AnalyzeResult, TypeOK
  <2> QED
    BY <1>6, <2>3, <2>4 DEF AnalyzeResult, TypeOK
<1>7. CASE AnalysisFault(t)
  BY <1>7, BoundsAssumption DEF AnalysisFault, TypeOK
<1> QED
  BY <1>3, <1>4, <1>5, <1>6, <1>7

(***************************************************************************)
(* What each step of an attempt changes.                                   *)
(***************************************************************************)
\* No other attempt and no other workflow is changed, and the workflow waits on
\* exactly while its attempt goes on.
Moved(t, h) ==
  /\ attempt' \in [Tasks -> [Holders -> Retries]]
  /\ workflow' \in [Tasks -> [pc : WorkflowPlaces, try : {1, 2}]]
  /\ \A u \in Tasks, g \in Holders :
       ~(u = t /\ g = h) => attempt'[u][g] = attempt[u][g]
  /\ \A u \in Tasks : ~(u = t /\ h = "own") => workflow'[u].pc = workflow[u].pc
  /\ h = "own" =>
       \/ attempt'[t]["own"].pc # "none" /\ workflow'[t].pc = workflow[t].pc
       \/ attempt'[t]["own"].pc = "none" /\ workflow'[t].pc \in {"start", "failed"}

\* Each way an attempt goes on or ends moves it and its workflow together.
LEMMA ContinueMoves ==
  ASSUME TypeOK, NEW t \in Tasks, NEW h \in Holders, NEW a \in Retries,
         a.pc # "none", Continue(t, h, a)
  PROVE  Moved(t, h) /\ UNCHANGED workflow /\ attempt'[t][h] = a
<1>1. Step(t, h, a) /\ workflow' = workflow
  BY DEF Continue
<1>2. workflow \in [Tasks -> [pc : WorkflowPlaces, try : {1, 2}]]
  BY DEF TypeOK
<1> QED
  BY <1>1, <1>2, StepChanges DEF Moved

(* An attempt that ends well moves itself and its own workflow alone. *)
LEMMA SucceedMoves ==
  ASSUME TypeOK, NEW t \in Tasks, NEW h \in Holders, Succeed(t, h)
  PROVE  Moved(t, h)
<1>1. At("none").pc = "none"
  BY PlacesTyped DEF AttemptPlaces
<1> QED
  BY <1>1, SucceedChanges DEF Moved

(* An attempt that fails moves itself and its own workflow alone, which may fail. *)
LEMMA FailMoves ==
  ASSUME TypeOK, NEW t \in Tasks, NEW h \in Holders, NEW retry \in BOOLEAN,
         Fail(t, h, retry)
  PROVE  /\ Moved(t, h)
         /\ h = "own" => workflow'[t].pc = "failed" \/ workflow'[t].pc = workflow[t].pc
BY FailChanges DEF Moved

\* What an attempt goes on as is typed.
LEMMA Continues ==
  ASSUME TypeOK, NEW t \in Tasks, NEW h \in Holders,
         \/ ReadAnswers(t, h) \/ Score(t, h) \/ LoadTokenizer(t, h) \/ LoadConfig(t, h)
         \/ LookupEntry(t, h) \/ InsertTokenizer(t, h) \/ InsertConfig(t, h)
         \/ ReadFault(t, h) \/ WriteFault(t, h) \/ LostCommit(t, h)
  PROVE  /\ \E a \in Retries : a.pc # "none" /\ Continue(t, h, a)
         /\ attempt[t][h].pc # "none"
<1>1. /\ {"score", "load", "lookup", "insert", "save", "fail"} \subseteq AttemptPlaces
      /\ {"read", "none"} \subseteq AttemptPlaces
  BY DEF AttemptPlaces
<1>2. /\ Failing(TRUE) \in Retries /\ Failing(TRUE).pc # "none"
      /\ Failing(FALSE) \in Retries /\ Failing(FALSE).pc # "none"
      /\ \A retry \in BOOLEAN : Failing(retry) \in Retries /\ Failing(retry).pc # "none"
  BY PlacesTyped
<1>3. /\ At("score") \in Retries /\ At("score").pc # "none"
      /\ At("load") \in Retries /\ At("load").pc # "none"
      /\ At("lookup") \in Retries /\ At("lookup").pc # "none"
      /\ At("insert") \in Retries /\ At("insert").pc # "none"
      /\ At("save") \in Retries /\ At("save").pc # "none"
  BY <1>1, PlacesTyped
<1>4. CASE ReadAnswers(t, h)
  BY <1>2, <1>3, <1>4 DEF ReadAnswers
<1>5. CASE Score(t, h)
  BY <1>2, <1>3, <1>5 DEF Score
<1>6. CASE LoadTokenizer(t, h)
  BY <1>2, <1>3, <1>6 DEF LoadTokenizer
<1>7. CASE LoadConfig(t, h)
  BY <1>2, <1>3, <1>7 DEF LoadConfig
<1>8. CASE LookupEntry(t, h)
  BY <1>2, <1>3, <1>8 DEF LookupEntry
<1>9. CASE InsertTokenizer(t, h)
  BY <1>2, <1>3, <1>9 DEF InsertTokenizer
<1>10. CASE InsertConfig(t, h)
  BY <1>2, <1>3, <1>10 DEF InsertConfig
<1>11. CASE ReadFault(t, h)
  BY <1>2, <1>11 DEF ReadFault
<1>12. CASE WriteFault(t, h)
  BY <1>2, <1>12 DEF WriteFault
<1>13. CASE LostCommit(t, h)
  BY <1>2, <1>13 DEF LostCommit
<1> QED
  BY <1>4, <1>5, <1>6, <1>7, <1>8, <1>9, <1>10, <1>11, <1>12, <1>13

\* An attempt touches only its own task, keeps an answer that is first and the
\* result of a signature, and stores a result together with its mark; a workflow
\* goes on only from an answer.
Kept(t, h) ==
  /\ input' = input /\ removed' = removed /\ analysis' = analysis
  /\ consumed' = consumed /\ expired' = expired
  /\ done' = done /\ listed' = listed /\ evaluated \subseteq evaluated'
  /\ Signature(t) /\ results[t] # <<>> => results'[t] = results[t]
  /\ \A u \in Tasks \ {t} : results'[u] = results[u] /\ (u \in evaluated' <=> u \in evaluated)
  /\ results[t] # <<>> => results'[t] # <<>> /\ (results[t][1] = "answer" => results'[t][1] = "answer")
  /\ t \notin removed => Marked(t)'
  /\ h = "own" /\ workflow'[t].pc = "start" => workflow[t].pc = "start" \/ FirstResult(t, "answer")'

\* Steps that store nothing.
LEMMA IdleAttempts ==
  ASSUME EvalInv, NEW t \in Tasks, NEW h \in Holders,
         \/ ReadAnswers(t, h) \/ Score(t, h) \/ LoadTokenizer(t, h) \/ LoadConfig(t, h)
         \/ LookupEntry(t, h) \/ InsertTokenizer(t, h) \/ InsertConfig(t, h)
         \/ ReadFault(t, h) \/ WriteFault(t, h)
  PROVE  TypeOK' /\ Moved(t, h) /\ attempt[t][h].pc # "none" /\ Kept(t, h)
<1>1. PICK a \in Retries : a.pc # "none" /\ Continue(t, h, a)
  BY Continues DEF EvalInv
<1>2. Moved(t, h) /\ UNCHANGED workflow /\ attempt[t][h].pc # "none"
  BY <1>1, ContinueMoves, Continues DEF EvalInv
<1>3. /\ input' = input /\ removed' = removed /\ analysis' = analysis
      /\ consumed' = consumed /\ results' = results /\ evaluated' = evaluated
      /\ dropped' = dropped /\ done' = done /\ UNCHANGED lookupVars
      /\ expired' = expired /\ expiries' = expiries
  BY DEF ReadAnswers, Score, LoadTokenizer, LoadConfig, LookupEntry, InsertTokenizer,
         InsertConfig, ReadFault, WriteFault, Fault, dbVars, faultVars
<1>4. /\ tokenizers' \subseteq Hashes /\ configs' \subseteq Hashes
      /\ hit' \subseteq Tasks /\ faults' \in 0..MaxFaults
  <2>1. /\ tokenizers \subseteq Hashes /\ configs \subseteq Hashes /\ Hash(t) \in Hashes
        /\ hit \subseteq Tasks /\ faults \in 0..MaxFaults /\ MaxFaults \in Nat
    BY BoundsAssumption DEF EvalInv, TypeOK, Hash, Inputs
  <2>2. CASE Fault(t) /\ tokenizers' = tokenizers /\ configs' = configs
    BY <2>1, <2>2 DEF Fault
  <2>3. CASE UNCHANGED <<hit, faults>>
             /\ tokenizers' \subseteq tokenizers \cup {Hash(t)}
             /\ configs' \subseteq configs \cup {Hash(t)}
    BY <2>1, <2>3
  <2>4. \/ Fault(t) /\ tokenizers' = tokenizers /\ configs' = configs
        \/ /\ UNCHANGED <<hit, faults>>
           /\ tokenizers' \subseteq tokenizers \cup {Hash(t)}
           /\ configs' \subseteq configs \cup {Hash(t)}
    BY DEF ReadAnswers, Score, LoadTokenizer, LoadConfig, LookupEntry, InsertTokenizer,
           InsertConfig, ReadFault, WriteFault, dbVars, faultVars
  <2> QED
    BY <2>2, <2>3, <2>4
<1>5. TypeOK'
  BY <1>2, <1>3, <1>4 DEF EvalInv, TypeOK, Moved, lookupVars
<1>6. Kept(t, h)
  <2>1. t \notin removed => Marked(t)
    BY DEF EvalInv, MarkedWithResult, Marked
  <2> QED
    BY <1>2, <1>3, <2>1 DEF Kept, Marked, Signature, Kind, FirstResult, lookupVars
<1> QED
  BY <1>2, <1>5, <1>6

\* A result of the task is stored beside those of the other tasks.
LEMMA StoredTyped ==
  ASSUME TypeOK, NEW t \in Tasks, NEW s \in Seq({"answer", "failure"}),
         Len(s) <= MaxResults, results' = [results EXCEPT ![t] = s]
  PROVE  /\ results' \in [Tasks -> Seq({"answer", "failure"})]
         /\ \A u \in Tasks : Len(results'[u]) <= MaxResults
         /\ results'[t] = s
         /\ \A u \in Tasks \ {t} : results'[u] = results[u]
BY DEF TypeOK

\* Errors are counted, and told apart by their task.
LEMMA FaultTyped ==
  ASSUME TypeOK, NEW t \in Tasks, Fault(t)
  PROVE  hit' \subseteq Tasks /\ faults' \in 0..MaxFaults
BY BoundsAssumption DEF Fault, TypeOK

\* Steps that store an answer.
LEMMA SaveAttempts ==
  ASSUME EvalInv, NEW t \in Tasks, NEW h \in Holders,
         SaveScores(t, h) \/ SaveSignature(t, h) \/ LostCommit(t, h)
  PROVE  TypeOK' /\ Moved(t, h) /\ attempt[t][h].pc # "none" /\ Kept(t, h)
<1> DEFINE R == {"answer", "failure"}
           s == Upserted(t, "answer")
<1>1. TypeOK /\ evaluated \subseteq Tasks /\ attempt[t][h].pc = "save"
  BY DEF EvalInv, TypeOK, SaveScores, SaveSignature, LostCommit
<1>2. Moved(t, h)
  <2>1. Failing(FALSE) \in Retries /\ Failing(FALSE).pc # "none"
    BY PlacesTyped
  <2>2. Continue(t, h, Failing(FALSE)) \/ Succeed(t, h)
    BY DEF SaveScores, SaveSignature, LostCommit
  <2> QED
    BY <1>1, <2>1, <2>2, ContinueMoves, SucceedMoves
<1>3. CASE results' = [results EXCEPT ![t] = s] /\ evaluated' = Evaluated(t)
           /\ (Signature(t) => results[t] = <<>>)
  <2>1. /\ s \in Seq(R) /\ Len(s) <= MaxResults /\ s # <<>> /\ s[1] = "answer"
        /\ results[t] = <<>> => Len(s) <= 1
    <3>1. results[t] = <<>> => Len(s) <= 1
      BY DEF Upserted
    <3> QED
      BY <1>1, <3>1, ResultsChange
  <2>2. /\ results' \in [Tasks -> Seq(R)] /\ \A u \in Tasks : Len(results'[u]) <= MaxResults
        /\ results'[t] = s
        /\ \A u \in Tasks \ {t} : results'[u] = results[u]
    <3> HIDE DEF s
    <3> QED
      BY <1>1, <1>3, <2>1, StoredTyped
  <2>3. /\ input' = input /\ removed' = removed /\ analysis' = analysis
        /\ consumed' = consumed /\ expired' = expired /\ done' = done /\ dropped' = dropped
        /\ tokenizers' = tokenizers /\ configs' = configs /\ expiries' = expiries
        /\ UNCHANGED lookupVars
    BY DEF SaveScores, SaveSignature, LostCommit, Fault, faultVars, lookupVars
  <2>0. hit' \subseteq Tasks /\ faults' \in 0..MaxFaults
    <3>1. Fault(t) \/ UNCHANGED <<hit, faults>>
      BY DEF SaveScores, SaveSignature, LostCommit, faultVars
    <3> QED
      BY <1>1, <3>1, FaultTyped DEF TypeOK
  <2>4. TypeOK'
    BY <1>1, <1>2, <1>3, <2>0, <2>2, <2>3 DEF TypeOK, Moved, Evaluated, lookupVars
  <2>5. FirstResult(t, "answer")'
    BY <2>1, <2>2 DEF FirstResult
  <2>6. t \notin removed => Marked(t)'
    <3>1. Signature(t)' <=> Signature(t)
      BY <2>3 DEF Signature, Kind
    <3>2. Signature(t) => Len(results'[t]) <= 1
      BY <1>3, <2>1, <2>2
    <3> QED
      BY <1>3, <2>1, <2>2, <2>5, <3>1, <3>2 DEF Marked, Evaluated
  <2>7. \A u \in Tasks \ {t} : u \in evaluated' <=> u \in evaluated
    BY <1>3 DEF Evaluated
  <2> HIDE DEF s
  <2>8. Kept(t, h)
    BY <1>3, <2>1, <2>2, <2>3, <2>5, <2>6, <2>7 DEF Kept, lookupVars, Evaluated
  <2> QED
    BY <1>1, <1>2, <2>4, <2>8
<1>4. CASE Continue(t, h, Failing(FALSE)) /\ UNCHANGED <<results, evaluated>>
           /\ SaveSignature(t, h)
  <2>1. /\ input' = input /\ removed' = removed /\ analysis' = analysis
        /\ consumed' = consumed /\ expired' = expired /\ done' = done /\ dropped' = dropped
        /\ tokenizers' = tokenizers /\ configs' = configs /\ UNCHANGED <<lookupVars, faultVars>>
    BY <1>4 DEF SaveSignature, lookupVars, faultVars
  <2>2. TypeOK'
    BY <1>1, <1>2, <1>4, <2>1 DEF TypeOK, Moved, lookupVars, faultVars
  <2>3. t \notin removed => Marked(t)
    BY DEF EvalInv, MarkedWithResult, Marked
  <2>4. UNCHANGED workflow
    BY <1>4 DEF Continue
  <2>5. Kept(t, h)
    BY <1>4, <2>1, <2>3, <2>4 DEF Kept, Marked, Signature, Kind, FirstResult, lookupVars, faultVars
  <2> QED
    BY <1>1, <1>2, <2>2, <2>5
<1>5. CASE SaveScores(t, h)
  BY <1>3, <1>5 DEF SaveScores
<1>6. CASE LostCommit(t, h)
  BY <1>3, <1>6 DEF LostCommit
<1>7. CASE SaveSignature(t, h)
  BY <1>3, <1>4, <1>7 DEF SaveSignature, Upserted
<1> QED
  BY <1>5, <1>6, <1>7

\* Steps that store a failure, or fail to.
LEMMA FailAttempts ==
  ASSUME EvalInv, NEW t \in Tasks, NEW h \in Holders,
         MarkTaskToDrop(t, h) \/ SaveFailure(t, h) \/ FailureFault(t, h)
  PROVE  TypeOK' /\ Moved(t, h) /\ attempt[t][h].pc # "none" /\ Kept(t, h)
<1> DEFINE R == {"answer", "failure"}
           s == Inserted(t, "failure")
<1>1. TypeOK /\ evaluated \subseteq Tasks /\ attempt[t][h].pc = "fail"
  BY DEF EvalInv, TypeOK, MarkTaskToDrop, SaveFailure, FailureFault
<1>2. PICK retry \in BOOLEAN : Fail(t, h, retry)
  <2>1. attempt[t][h].retry \in BOOLEAN
    BY <1>1 DEF TypeOK, Retries
  <2>2. (~Signature(t)) \in BOOLEAN /\ FALSE \in BOOLEAN
    BY DEF Signature
  <2> QED
    BY <2>1, <2>2 DEF MarkTaskToDrop, SaveFailure, FailureFault
<1>3. /\ Moved(t, h)
      /\ h = "own" => workflow'[t].pc = "failed" \/ workflow'[t].pc = workflow[t].pc
  BY <1>1, <1>2, FailMoves
<1>4. /\ input' = input /\ removed' = removed /\ analysis' = analysis
      /\ consumed' = consumed /\ expired' = expired /\ done' = done
      /\ tokenizers' = tokenizers /\ configs' = configs /\ expiries' = expiries
      /\ UNCHANGED lookupVars
      /\ dropped' \subseteq Tasks /\ hit' \subseteq Tasks /\ faults' \in 0..MaxFaults
  <2>1. dropped' \subseteq dropped \cup {t}
    BY DEF MarkTaskToDrop, SaveFailure, FailureFault, dbVars
  <2>2. Fault(t) \/ UNCHANGED <<hit, faults>>
    BY DEF MarkTaskToDrop, SaveFailure, FailureFault, faultVars
  <2>3. /\ dropped' \subseteq Tasks /\ hit' \subseteq Tasks /\ faults' \in 0..MaxFaults
    BY <1>1, <2>1, <2>2, FaultTyped DEF TypeOK
  <2>4. CASE MarkTaskToDrop(t, h)
    BY <2>3, <2>4 DEF MarkTaskToDrop, faultVars, lookupVars
  <2>5. CASE SaveFailure(t, h)
    BY <2>3, <2>5 DEF SaveFailure, faultVars, lookupVars
  <2>6. CASE FailureFault(t, h)
    BY <2>3, <2>6 DEF FailureFault, Fault, dbVars, lookupVars
  <2> QED
    BY <2>4, <2>5, <2>6
<1>5. t \notin removed => Marked(t)
  BY DEF EvalInv, MarkedWithResult, Marked
<1>6. Signature(t)' <=> Signature(t)
  BY <1>4 DEF Signature, Kind
<1>7. CASE UNCHANGED <<results, evaluated>>
  <2>1. TypeOK'
    BY <1>1, <1>3, <1>4, <1>7 DEF TypeOK, Moved, lookupVars
  <2>2. Kept(t, h)
    BY <1>3, <1>4, <1>5, <1>6, <1>7 DEF Kept, Marked, FirstResult, lookupVars
  <2> QED
    BY <1>1, <1>3, <2>1, <2>2
<1>8. CASE /\ results' = [results EXCEPT ![t] = s]
           /\ IF Signature(t) THEN results[t] = <<>> /\ evaluated' = Evaluated(t)
              ELSE evaluated' = evaluated
  <2>1. /\ s \in Seq(R) /\ Len(s) <= MaxResults /\ s # <<>>
        /\ s[1] = IF results[t] = <<>> THEN "failure" ELSE results[t][1]
        /\ results[t] = <<>> => Len(s) <= 1
    <3>1. results[t] = <<>> => Len(s) <= 1
      BY DEF Inserted
    <3> QED
      BY <1>1, <3>1, ResultsChange
  <2> HIDE DEF s
  <2>2. /\ results' \in [Tasks -> Seq(R)] /\ \A u \in Tasks : Len(results'[u]) <= MaxResults
        /\ results'[t] = s
        /\ \A u \in Tasks \ {t} : results'[u] = results[u]
    BY <1>1, <1>8, <2>1, StoredTyped
  <2>3. TypeOK'
    BY <1>1, <1>3, <1>4, <1>8, <2>2 DEF TypeOK, Moved, Evaluated, lookupVars
  <2>4. t \notin removed => Marked(t)'
    <3>1. CASE Signature(t)
      BY <1>6, <1>8, <2>1, <2>2, <3>1 DEF Marked, Evaluated
    <3>2. CASE ~Signature(t)
      BY <1>5, <1>6, <1>8, <2>1, <2>2, <3>2 DEF Marked, FirstResult
    <3> QED
      BY <3>1, <3>2
  <2>5. \A u \in Tasks \ {t} : u \in evaluated' <=> u \in evaluated
    BY <1>8 DEF Evaluated
  <2>6. Kept(t, h)
    BY <1>3, <1>4, <1>8, <2>1, <2>2, <2>4, <2>5 DEF Kept, lookupVars, Evaluated
  <2> QED
    BY <1>1, <1>3, <2>3, <2>6
<1>9. CASE MarkTaskToDrop(t, h)
  BY <1>8, <1>9 DEF MarkTaskToDrop
<1>10. CASE SaveFailure(t, h)
  <2>1. results[t] = <<>> => s = <<"failure">>
    BY BoundsAssumption DEF Inserted
  <2> QED
    BY <1>7, <1>8, <1>10, <2>1 DEF SaveFailure
<1>11. CASE FailureFault(t, h)
  BY <1>7, <1>11 DEF FailureFault, dbVars
<1> QED
  BY <1>9, <1>10, <1>11

-----------------------------------------------------------------------------
(***************************************************************************)
(* The invariant is inductive.                                             *)
(***************************************************************************)
LEMMA InitInv == Init => EvalInv
<1> SUFFICES ASSUME Init PROVE EvalInv
  OBVIOUS
<1>1. At("none").pc = "none"
  BY PlacesTyped DEF AttemptPlaces
<1>2. \A t \in Tasks, h \in Holders : attempt[t][h].pc = "none"
  BY <1>1 DEF Init
<1>3. \A t \in Tasks : /\ workflow[t].pc = "none" /\ results[t] = <<>>
                       /\ analysis[t] = "none" /\ consumed[t] = <<>>
  BY DEF Init
<1>4. evaluated = {} /\ removed = {}
  BY DEF Init
<1>5. Awaited /\ Strays
  BY <1>2, <1>3 DEF Awaited, Strays, Holders
<1>6. MarkedWithResult
  <2> SUFFICES ASSUME NEW t \in Tasks PROVE Marked(t)
    BY DEF MarkedWithResult, Marked
  <2>1. results[t] = <<>> /\ Len(<<>>) = 0 /\ t \notin evaluated
    BY <1>3, <1>4
  <2>2. Len(results[t]) <= 1
    BY <2>1
  <2> QED
    BY <2>1, <2>2 DEF Marked, FirstResult
<1>7. Ready /\ Analyses /\ LeftoversOnlyAfterExpiry
  BY <1>3, <1>4 DEF Ready, Analyses, LeftoversOnlyAfterExpiry
<1>8. AnalysisUsesAnswer
  BY <1>3 DEF AnalysisUsesAnswer
<1> QED
  BY InitTyped, <1>5, <1>6, <1>7, <1>8 DEF EvalInv

\* No attempt of the workflow's own is left once the analysis is started.
LEMMA OwnBeforeAnalysis ==
  ASSUME EvalInv, NEW t \in Tasks, attempt[t]["own"].pc # "none"
  PROVE  analysis[t] = "none" /\ t \notin removed
<1>1. workflow[t].pc = "evaluate"
  BY DEF EvalInv, Awaited
<1>2. analysis[t] = "none"
  BY <1>1 DEF EvalInv, Analyses
<1> QED
  BY <1>2 DEF EvalInv, Analyses

(* The steps and faults of an attempt keep the invariant. *)
LEMMA AttemptKeeps ==
  ASSUME EvalInv, NEW t \in Tasks, NEW h \in Holders, Attempt(t, h) \/ AttemptFault(t, h)
  PROVE  EvalInv'
<1>1. TypeOK' /\ Moved(t, h) /\ attempt[t][h].pc # "none" /\ Kept(t, h)
  BY IdleAttempts, SaveAttempts, FailAttempts DEF Attempt, AttemptFault
<1>2. \A u \in Tasks \ {t} : /\ results'[u] = results[u] /\ (u \in evaluated' <=> u \in evaluated)
                             /\ workflow'[u].pc = workflow[u].pc
                             /\ \A g \in Holders : attempt'[u][g] = attempt[u][g]
  BY <1>1 DEF Kept, Moved
<1>3. /\ input' = input /\ removed' = removed /\ analysis' = analysis
      /\ consumed' = consumed /\ expired' = expired
  BY <1>1 DEF Kept
<1>4. MarkedWithResult'
  <2> SUFFICES ASSUME NEW u \in Tasks, u \notin removed PROVE Marked(u)'
    BY <1>3 DEF MarkedWithResult, Marked
  <2>1. CASE u = t
    BY <1>1, <2>1 DEF Kept
  <2>2. CASE u # t
    <3>1. Marked(u)
      BY DEF EvalInv, MarkedWithResult, Marked
    <3> QED
      BY <1>2, <1>3, <2>2, <3>1 DEF Marked, Signature, Kind, FirstResult
  <2> QED
    BY <2>1, <2>2
<1>5. Awaited'
  <2> SUFFICES ASSUME NEW u \in Tasks
               PROVE  attempt'[u]["own"].pc # "none" <=> workflow'[u].pc = "evaluate"
    BY DEF Awaited
  <2>1. "own" \in Holders /\ (attempt[u]["own"].pc # "none" <=> workflow[u].pc = "evaluate")
    BY DEF EvalInv, Awaited, Holders
  <2>2. CASE u = t /\ h = "own"
    BY <1>1, <2>1, <2>2 DEF Moved
  <2>3. CASE ~(u = t /\ h = "own")
    BY <1>1, <2>1, <2>3 DEF Moved
  <2> QED
    BY <2>2, <2>3
<1>6. Strays'
  <2> SUFFICES ASSUME NEW u \in Tasks, attempt'[u]["stray"].pc # "none"
               PROVE  u \in expired'
    BY DEF Strays
  <2>1. "stray" \in Holders /\ (attempt[u]["stray"].pc # "none" => u \in expired)
    BY DEF EvalInv, Strays, Holders
  <2> QED
    BY <1>1, <1>3, <2>1 DEF Moved
<1>7. Ready'
  <2> SUFFICES ASSUME NEW u \in Tasks, u \notin removed, workflow'[u].pc = "start"
               PROVE  FirstResult(u, "answer")'
    BY <1>3 DEF Ready
  <2>1. workflow[u].pc = "start" => FirstResult(u, "answer")
    BY DEF EvalInv, Ready
  <2>2. CASE u # t
    BY <1>2, <2>1, <2>2 DEF FirstResult
  <2>3. CASE u = t /\ workflow[u].pc = "start"
    BY <1>1, <2>1, <2>3 DEF Kept, FirstResult
  <2>4. CASE u = t /\ workflow[u].pc # "start"
    <3>1. h = "own"
      BY <1>1, <2>4 DEF Moved
    <3> QED
      BY <1>1, <2>4, <3>1 DEF Kept
  <2> QED
    BY <2>2, <2>3, <2>4
<1>8. Analyses'
  <2> SUFFICES ASSUME NEW u \in Tasks
               PROVE  /\ analysis[u] # "none" => workflow'[u].pc = "completed"
                      /\ analysis[u] \in {"running", "failed"} => FirstResult(u, "answer")'
                      /\ u \in removed <=> analysis[u] = "completed"
    BY <1>3 DEF Analyses
  <2>1. /\ analysis[u] # "none" => workflow[u].pc = "completed"
        /\ analysis[u] \in {"running", "failed"} => FirstResult(u, "answer")
        /\ u \in removed <=> analysis[u] = "completed"
    BY DEF EvalInv, Analyses
  <2>2. CASE u # t
    BY <1>2, <2>1, <2>2 DEF FirstResult
  <2>3. CASE u = t
    <3>1. analysis[t] # "none" => h # "own"
      BY <1>1, OwnBeforeAnalysis
    <3>2. analysis[t] # "none" => workflow'[t].pc = workflow[t].pc
      BY <1>1, <3>1 DEF Moved
    <3> QED
      BY <1>1, <2>1, <2>3, <3>2 DEF Kept, FirstResult
  <2> QED
    BY <2>2, <2>3
<1>9. AnalysisUsesAnswer'
  BY <1>3 DEF EvalInv, AnalysisUsesAnswer
<1>10. LeftoversOnlyAfterExpiry'
  <2> SUFFICES ASSUME NEW u \in removed, results'[u] # <<>> PROVE u \in expired
    BY <1>3 DEF LeftoversOnlyAfterExpiry
  <2>1. u \in Tasks /\ (results[u] # <<>> => u \in expired)
    BY DEF EvalInv, LeftoversOnlyAfterExpiry, TypeOK
  <2>2. CASE u # t
    BY <1>2, <2>1, <2>2
  <2>3. CASE u = t
    <3>1. h = "stray"
      BY <1>1, <2>3, OwnBeforeAnalysis DEF Holders
    <3> QED
      BY <1>1, <2>3, <3>1 DEF EvalInv, Strays
  <2> QED
    BY <2>2, <2>3
<1> QED
  BY <1>1, <1>4, <1>5, <1>6, <1>7, <1>8, <1>9, <1>10 DEF EvalInv

\* Starting the Evaluator.
LEMMA StartKeeps ==
  ASSUME EvalInv, NEW t \in Tasks,
         \/ LookupTasks \/ LookupStarts(t) \/ LookupResumes(t)
         \/ TaskDone(t) \/ RelayerStarts(t)
  PROVE  EvalInv'
<1>1. TypeOK' /\ TypeOK
  BY StartTyped DEF EvalInv
<1>2. /\ input' = input /\ evaluated' = evaluated /\ removed' = removed /\ results' = results
      /\ attempt' = attempt /\ analysis' = analysis /\ consumed' = consumed /\ expired' = expired
  BY DEF LookupTasks, LookupStarts, LookupResumes, TaskDone, RelayerStarts, dbVars, faultVars
<1>3. \A u \in Tasks :
        \/ workflow'[u].pc = workflow[u].pc
        \/ workflow[u].pc \in {"none", "failed"} /\ workflow'[u].pc = "get"
  <2>1. workflow' = workflow \/ (workflow' = Started(t) /\ Startable(t))
    <3>1. CASE LookupTasks \/ LookupResumes(t) \/ TaskDone(t)
      BY <3>1 DEF LookupTasks, LookupResumes, TaskDone
    <3>2. CASE LookupStarts(t)
      BY <3>2 DEF LookupStarts
    <3>3. CASE RelayerStarts(t)
      BY <3>3 DEF RelayerStarts
    <3> QED
      BY <3>1, <3>2, <3>3
  <2>2. CASE workflow' = workflow
    BY <2>2
  <2>3. CASE workflow' = Started(t) /\ Startable(t)
    BY <1>1, <2>3, StartedChanges DEF Startable
  <2> QED
    BY <2>1, <2>2, <2>3
<1>4. MarkedWithResult' /\ Strays' /\ AnalysisUsesAnswer' /\ LeftoversOnlyAfterExpiry'
  BY <1>2 DEF EvalInv, MarkedWithResult, Strays, AnalysisUsesAnswer, LeftoversOnlyAfterExpiry,
              Signature, Kind, FirstResult
<1>5. Awaited'
  BY <1>2, <1>3 DEF EvalInv, Awaited
<1>6. Ready'
  BY <1>2, <1>3 DEF EvalInv, Ready, FirstResult
<1>7. Analyses'
  BY <1>2, <1>3 DEF EvalInv, Analyses, FirstResult
<1> QED
  BY <1>1, <1>4, <1>5, <1>6, <1>7 DEF EvalInv

(* get_task_data keeps the invariant. *)
LEMMA GetTaskDataKeeps ==
  ASSUME EvalInv, NEW t \in Tasks, GetTaskData(t)
  PROVE  EvalInv'
<1>1. TypeOK /\ TypeOK' /\ workflow[t].pc = "get"
  BY WorkflowTyped DEF EvalInv, GetTaskData
<1>2. /\ input' = input /\ evaluated' = evaluated /\ removed' = removed /\ results' = results
      /\ analysis' = analysis /\ consumed' = consumed /\ expired' = expired
  BY DEF GetTaskData, dbVars, faultVars
<1>3. At("read") \in Retries /\ At("read").pc # "none" /\ "own" \in Holders /\ "stray" \in Holders
  BY PlacesTyped DEF AttemptPlaces, Holders
<1>4. /\ \A u \in Tasks : u # t => workflow'[u].pc = workflow[u].pc
      /\ \A u \in Tasks, g \in Holders :
           ~(u = t /\ g = "own") => attempt'[u][g] = attempt[u][g]
      /\ \/ workflow'[t].pc = "failed" /\ attempt'[t]["own"] = attempt[t]["own"]
         \/ workflow'[t].pc = "evaluate" /\ attempt'[t]["own"].pc # "none"
  <2>1. "failed" \in WorkflowPlaces /\ "evaluate" \in WorkflowPlaces
    BY DEF WorkflowPlaces
  <2>2. CASE workflow' = Goto(t, "failed") /\ attempt' = attempt
    BY <1>1, <2>1, <2>2, GotoChanges
  <2>3. CASE workflow' = Goto(t, "evaluate") /\ Step(t, "own", At("read"))
    BY <1>1, <1>3, <2>1, <2>3, GotoChanges, StepChanges
  <2> QED
    BY <2>2, <2>3 DEF GetTaskData, Step
<1>5. MarkedWithResult' /\ AnalysisUsesAnswer' /\ LeftoversOnlyAfterExpiry'
  BY <1>2 DEF EvalInv, MarkedWithResult, AnalysisUsesAnswer, LeftoversOnlyAfterExpiry,
              Signature, Kind, FirstResult
<1>6. Awaited'
  BY <1>1, <1>3, <1>4 DEF EvalInv, Awaited
<1>7. Strays'
  BY <1>2, <1>3, <1>4 DEF EvalInv, Strays
<1>8. Ready'
  BY <1>1, <1>2, <1>4 DEF EvalInv, Ready, FirstResult
<1>9. Analyses'
  BY <1>1, <1>2, <1>4 DEF EvalInv, Analyses, FirstResult
<1> QED
  BY <1>1, <1>5, <1>6, <1>7, <1>8, <1>9 DEF EvalInv

(* Starting the analysis of a task keeps the invariant. *)
LEMMA StartAnalysisKeeps ==
  ASSUME EvalInv, NEW t \in Tasks, StartAnalysis(t)
  PROVE  EvalInv'
<1>1. TypeOK /\ TypeOK' /\ workflow[t].pc = "start"
  BY WorkflowTyped DEF EvalInv, StartAnalysis
<1>2. /\ input' = input /\ evaluated' = evaluated /\ removed' = removed /\ results' = results
      /\ attempt' = attempt /\ consumed' = consumed /\ expired' = expired
  BY DEF StartAnalysis, dbVars, faultVars
<1>3. analysis[t] = "none" /\ t \notin removed /\ FirstResult(t, "answer")
  BY <1>1 DEF EvalInv, Analyses, Ready
<1>4. /\ \A u \in Tasks : workflow'[u].pc = IF u = t THEN "completed" ELSE workflow[u].pc
      /\ \A u \in Tasks : analysis'[u] = IF u = t THEN "running" ELSE analysis[u]
  <2>1. "completed" \in WorkflowPlaces
    BY DEF WorkflowPlaces
  <2>2. workflow' = Goto(t, "completed") /\ analysis' = [analysis EXCEPT ![t] = "running"]
    BY <1>3 DEF StartAnalysis
  <2>3. \A u \in Tasks : workflow'[u].pc = IF u = t THEN "completed" ELSE workflow[u].pc
    BY <1>1, <2>1, <2>2, GotoChanges
  <2> QED
    BY <1>1, <2>2, <2>3 DEF TypeOK
<1>5. MarkedWithResult' /\ Strays' /\ AnalysisUsesAnswer' /\ LeftoversOnlyAfterExpiry'
  BY <1>2 DEF EvalInv, MarkedWithResult, Strays, AnalysisUsesAnswer, LeftoversOnlyAfterExpiry,
              Signature, Kind, FirstResult
<1>6. Awaited'
  BY <1>1, <1>2, <1>4 DEF EvalInv, Awaited
<1>7. Ready'
  BY <1>2, <1>4 DEF EvalInv, Ready, FirstResult
<1>8. Analyses'
  BY <1>2, <1>3, <1>4 DEF EvalInv, Analyses, FirstResult
<1> QED
  BY <1>1, <1>5, <1>6, <1>7, <1>8 DEF EvalInv

(* A workflow that reaches its timeout keeps the invariant. *)
LEMMA ExpireKeeps ==
  ASSUME EvalInv, NEW t \in Tasks, Expire(t)
  PROVE  EvalInv'
<1>1. TypeOK /\ TypeOK' /\ workflow[t].pc \in {"get", "evaluate", "start"}
  BY WorkflowTyped DEF EvalInv, Expire
<1>2. /\ input' = input /\ evaluated' = evaluated /\ removed' = removed /\ results' = results
      /\ analysis' = analysis /\ consumed' = consumed /\ expired' = expired \cup {t}
  BY DEF Expire, dbVars
<1>3. \A u \in Tasks : workflow'[u].pc = IF u = t THEN "failed" ELSE workflow[u].pc
  <2>1. "failed" \in WorkflowPlaces
    BY DEF WorkflowPlaces
  <2> QED
    BY <1>1, <2>1, GotoChanges DEF Expire
<1>4. /\ attempt'[t]["own"].pc = "none"
      /\ \A u \in Tasks : u # t => attempt'[u] = attempt[u]
  BY <1>1, PlacesTyped DEF Expire, TypeOK, AttemptPlaces
<1>5. MarkedWithResult' /\ AnalysisUsesAnswer' /\ LeftoversOnlyAfterExpiry'
  BY <1>2 DEF EvalInv, MarkedWithResult, AnalysisUsesAnswer, LeftoversOnlyAfterExpiry,
              Signature, Kind, FirstResult
<1>6. Awaited'
  BY <1>3, <1>4 DEF EvalInv, Awaited
<1>7. Strays'
  BY <1>2, <1>4 DEF EvalInv, Strays
<1>8. Ready'
  BY <1>2, <1>3 DEF EvalInv, Ready, FirstResult
<1>9. Analyses'
  BY <1>1, <1>2, <1>3 DEF EvalInv, Analyses, FirstResult
<1> QED
  BY <1>1, <1>5, <1>6, <1>7, <1>8, <1>9 DEF EvalInv

(* The Manager's AnalyzeResult keeps the invariant. *)
LEMMA AnalyzeResultKeeps ==
  ASSUME EvalInv, NEW t \in Tasks, AnalyzeResult(t)
  PROVE  EvalInv'
<1>1. TypeOK /\ TypeOK' /\ FirstResult(t, "answer")
  BY WorkflowTyped DEF EvalInv, AnalyzeResult, Analyses
<1>2. /\ input' = input /\ evaluated' = evaluated /\ removed' = removed \cup {t}
      /\ workflow' = workflow /\ attempt' = attempt /\ expired' = expired
  BY DEF AnalyzeResult, faultVars
<1>3. \A u \in Tasks : /\ results'[u] = IF u = t THEN <<>> ELSE results[u]
                       /\ analysis'[u] = IF u = t THEN "completed" ELSE analysis[u]
                       /\ consumed'[u] = IF u = t THEN Append(consumed[t], "answer")
                                         ELSE consumed[u]
  BY <1>1 DEF AnalyzeResult, TypeOK, FirstResult
<1>4. MarkedWithResult'
  <2> SUFFICES ASSUME NEW u \in Tasks, u \notin removed, u # t PROVE Marked(u)'
    BY <1>2 DEF MarkedWithResult, Marked
  <2>1. Marked(u)
    BY DEF EvalInv, MarkedWithResult, Marked
  <2> QED
    BY <1>2, <1>3, <2>1 DEF Marked, Signature, Kind, FirstResult
<1>5. Awaited' /\ Strays'
  BY <1>2 DEF EvalInv, Awaited, Strays
<1>6. Ready'
  BY <1>2, <1>3 DEF EvalInv, Ready, FirstResult
<1>7. Analyses'
  <2>1. workflow[t].pc = "completed"
    BY DEF EvalInv, AnalyzeResult, Analyses
  <2> QED
    BY <1>2, <1>3, <2>1 DEF EvalInv, Analyses, FirstResult
<1>8. AnalysisUsesAnswer'
  <2> SUFFICES ASSUME NEW u \in Tasks, NEW i \in DOMAIN consumed'[u]
               PROVE  consumed'[u][i] = "answer"
    BY DEF AnalysisUsesAnswer
  <2>1. \A j \in DOMAIN consumed[u] : consumed[u][j] = "answer"
    BY DEF EvalInv, AnalysisUsesAnswer
  <2>2. CASE u # t
    BY <1>3, <2>1, <2>2
  <2>3. CASE u = t
    <3>1. consumed[t] \in Seq({"answer", "failure"})
      BY <1>1 DEF TypeOK
    <3>2. \A s \in Seq({"answer", "failure"}) : \A j \in DOMAIN Append(s, "answer") :
            Append(s, "answer")[j] = "answer" \/ (j \in DOMAIN s /\ Append(s, "answer")[j] = s[j])
      OBVIOUS
    <3>3. consumed'[t] = Append(consumed[t], "answer")
      BY <1>3
    <3> QED
      BY <2>1, <2>3, <3>1, <3>2, <3>3
  <2> QED
    BY <2>2, <2>3
<1>9. LeftoversOnlyAfterExpiry'
  BY <1>1, <1>2, <1>3 DEF EvalInv, LeftoversOnlyAfterExpiry, TypeOK
<1> QED
  BY <1>1, <1>4, <1>5, <1>6, <1>7, <1>8, <1>9 DEF EvalInv

(* An analysis that fails keeps the invariant: its answer is still there. *)
LEMMA AnalysisFaultKeeps ==
  ASSUME EvalInv, NEW t \in Tasks, AnalysisFault(t)
  PROVE  EvalInv'
<1>1. TypeOK /\ TypeOK' /\ analysis[t] = "running"
  BY WorkflowTyped DEF EvalInv, AnalysisFault
<1>2. /\ input' = input /\ evaluated' = evaluated /\ removed' = removed /\ results' = results
      /\ workflow' = workflow /\ attempt' = attempt /\ consumed' = consumed /\ expired' = expired
  BY DEF AnalysisFault, dbVars
<1>3. \A u \in Tasks : analysis'[u] = IF u = t THEN "failed" ELSE analysis[u]
  BY <1>1 DEF AnalysisFault, TypeOK
<1>4. MarkedWithResult' /\ Strays' /\ AnalysisUsesAnswer' /\ LeftoversOnlyAfterExpiry'
  BY <1>2 DEF EvalInv, MarkedWithResult, Strays, AnalysisUsesAnswer, LeftoversOnlyAfterExpiry,
              Signature, Kind, FirstResult
<1>5. Awaited' /\ Ready'
  BY <1>2 DEF EvalInv, Awaited, Ready, FirstResult
<1>6. Analyses'
  BY <1>1, <1>2, <1>3 DEF EvalInv, Analyses, FirstResult
<1> QED
  BY <1>1, <1>4, <1>5, <1>6 DEF EvalInv

(* Nothing that the invariant speaks of changes when no variable does. *)
LEMMA StutterKeeps == EvalInv /\ UNCHANGED vars => EvalInv'
BY DEF EvalInv, vars, dbVars, lookupVars, faultVars, TypeOK, MarkedWithResult, Awaited, Strays,
       Ready, Analyses, AnalysisUsesAnswer, LeftoversOnlyAfterExpiry, FirstResult, Signature, Kind

(* Every step keeps the invariant. *)
LEMMA NextKeeps == EvalInv /\ [Next]_vars => EvalInv'
<1> SUFFICES ASSUME EvalInv, [Next]_vars PROVE EvalInv'
  OBVIOUS
<1>1. CASE UNCHANGED vars
  BY <1>1, StutterKeeps
<1>2. CASE LookupTasks
  <2>1. CASE Tasks # {}
    BY <1>2, <2>1, StartKeeps
  <2>2. CASE Tasks = {}
    <3>1. TypeOK'
      BY <1>2, <2>2 DEF LookupTasks, GetTasks, EvalInv, TypeOK, dbVars, faultVars
    <3> QED
      BY <1>2, <2>2, <3>1 DEF LookupTasks, EvalInv, dbVars, TypeOK, MarkedWithResult, Awaited,
           Strays, Ready, Analyses, AnalysisUsesAnswer, LeftoversOnlyAfterExpiry
  <2> QED
    BY <2>1, <2>2
<1>3. CASE \E t \in Tasks : LookupStarts(t) \/ LookupResumes(t) \/ TaskDone(t) \/ RelayerStarts(t)
  BY <1>3, StartKeeps
<1>4. CASE \E t \in Tasks : \/ GetTaskData(t) \/ StartAnalysis(t) \/ AnalyzeResult(t)
                            \/ AnalysisFault(t) \/ Expire(t)
  BY <1>4, GetTaskDataKeeps, StartAnalysisKeeps, AnalyzeResultKeeps, AnalysisFaultKeeps, ExpireKeeps
<1>5. CASE \E t \in Tasks, h \in Holders : Attempt(t, h) \/ AttemptFault(t, h)
  BY <1>5, AttemptKeeps
<1> QED
  BY <1>1, <1>2, <1>3, <1>4, <1>5 DEF Next, Lookup, Evaluator

\* The invariant holds in every state of the Evaluator, LookupTasks and the Manager.
THEOREM EvalInvariant == Spec => []EvalInv
<1> QED
  BY InitInv, NextKeeps, PTL DEF Spec

\* For every set of tasks, errors and expired workflows the variables of the
\* Evaluator keep their types.
THEOREM TypeCorrect == Spec => []TypeOK
<1>1. EvalInv => TypeOK
  BY DEF EvalInv
<1> QED
  BY <1>1, EvalInvariant, PTL

\* For every set of tasks a task is marked exactly when its result is the one the
\* Manager will find (save_results, mark_task_to_drop, the saves of the signatures).
THEOREM MarksAgree == Spec => []MarkedWithResult
<1>1. EvalInv => MarkedWithResult
  BY DEF EvalInv
<1> QED
  BY <1>1, EvalInvariant, PTL

\* For every set of tasks no analysis inserts the result of a failed evaluation
\* (evaluator.py starts the analysis after the activity).
THEOREM AnswersAnalyzed == Spec => []AnalysisUsesAnswer
<1>1. EvalInv => AnalysisUsesAnswer
  BY DEF EvalInv
<1> QED
  BY <1>1, EvalInvariant, PTL

\* For every set of tasks a result outlives its task only after a timeout of the
\* task's workflow (lookup_tasks.py gives it less time than its activity has).
THEOREM LeftoversExplained == Spec => []LeftoversOnlyAfterExpiry
<1>1. EvalInv => LeftoversOnlyAfterExpiry
  BY DEF EvalInv
<1> QED
  BY <1>1, EvalInvariant, PTL

-----------------------------------------------------------------------------
(***************************************************************************)
(* The life of a task.                                                     *)
(***************************************************************************)
LEMMA InitDone == Init => Done
<1> SUFFICES ASSUME Init PROVE Done
  OBVIOUS
<1>1. At("none").pc = "none"
  BY PlacesTyped DEF AttemptPlaces
<1>2. \A t \in Tasks, h \in Holders : attempt[t][h].pc = "none"
  BY <1>1 DEF Init
<1>3. \A t \in Tasks : workflow[t].pc = "none"
  BY DEF Init
<1> QED
  BY <1>2, <1>3 DEF Init, Done

\* What an attempt leaves alone beside its task.
LEMMA AttemptChanges ==
  ASSUME EvalInv, NEW t \in Tasks, NEW h \in Holders, Attempt(t, h) \/ AttemptFault(t, h)
  PROVE  Moved(t, h) /\ attempt[t][h].pc # "none" /\ Kept(t, h)
BY IdleAttempts, SaveAttempts, FailAttempts DEF Attempt, AttemptFault

\* Only a done task is stored or started.
LEMMA AttemptDone ==
  ASSUME EvalInv, Done, NEW t \in Tasks, NEW h \in Holders, Attempt(t, h) \/ AttemptFault(t, h)
  PROVE  Done'
<1>1. Moved(t, h) /\ attempt[t][h].pc # "none" /\ Kept(t, h)
  BY AttemptChanges
<1>2. t \in done /\ evaluated' \subseteq Tasks
  BY <1>1, AttemptKeeps DEF Done, EvalInv, TypeOK
<1>3. done' = done /\ listed' = listed
  BY <1>1 DEF Kept
<1>4. evaluated' \subseteq done'
  <2> SUFFICES ASSUME NEW u \in evaluated' PROVE u \in done
    BY <1>3
  <2>1. CASE u = t
    BY <1>2, <2>1
  <2>2. CASE u # t
    BY <1>1, <1>2, <2>2 DEF Kept, Done
  <2> QED
    BY <2>1, <2>2
<1>5. ASSUME NEW u \in Tasks
      PROVE  /\ workflow'[u].pc # "none" => u \in done
             /\ \A g \in Holders : attempt'[u][g].pc # "none" => u \in done
  <2>1. CASE u = t
    BY <1>2, <2>1
  <2>2. CASE u # t
    BY <1>1, <2>2 DEF Moved, Done
  <2> QED
    BY <2>1, <2>2
<1> QED
  BY <1>3, <1>4, <1>5 DEF Done

\* The marks and the places that Done is about, in the steps of the others.
LEMMA OthersDone ==
  ASSUME EvalInv, Done, NEW t \in Tasks,
         \/ LookupTasks \/ LookupStarts(t) \/ LookupResumes(t)
         \/ TaskDone(t) \/ RelayerStarts(t)
         \/ GetTaskData(t) \/ StartAnalysis(t) \/ AnalyzeResult(t) \/ AnalysisFault(t) \/ Expire(t)
  PROVE  Done'
<1> USE DEF dbVars, lookupVars, faultVars
<1>1. TypeOK
  BY DEF EvalInv
<1>2. done \subseteq done' /\ evaluated' = evaluated
  BY DEF LookupTasks, LookupStarts, LookupResumes, TaskDone, RelayerStarts, GetTaskData,
         StartAnalysis, AnalyzeResult, AnalysisFault, Expire
<1>3. listed' \subseteq done
  BY DEF LookupTasks, LookupStarts, LookupResumes, TaskDone, RelayerStarts, GetTaskData,
         StartAnalysis, AnalyzeResult, AnalysisFault, Expire, GetTasks, Done
<1>4. workflow' = workflow \/ workflow' = Started(t) \/ \E pc \in WorkflowPlaces : workflow' = Goto(t, pc)
  <2>1. {"failed", "evaluate", "completed"} \subseteq WorkflowPlaces
    BY DEF WorkflowPlaces
  <2> QED
    BY <2>1 DEF LookupTasks, LookupStarts, LookupResumes, TaskDone, RelayerStarts, GetTaskData,
                StartAnalysis, AnalyzeResult, AnalysisFault, Expire
<1>5. workflow' # workflow => t \in done
  <2>1. t \in listed \/ t \in done \/ workflow[t].pc # "none" \/ workflow' = workflow
    BY DEF LookupTasks, LookupStarts, LookupResumes, TaskDone, RelayerStarts, GetTaskData,
           StartAnalysis, AnalyzeResult, AnalysisFault, Expire
  <2> QED
    BY <2>1 DEF Done
<1>6. \A u \in Tasks : workflow'[u].pc # "none" => u \in done
  <2>1. \A u \in Tasks \ {t} : workflow'[u].pc = workflow[u].pc
    BY <1>1, <1>4, StartedChanges, GotoChanges
  <2> QED
    BY <1>5, <2>1 DEF Done
<1>7. \A u \in Tasks, g \in Holders : attempt'[u][g].pc # "none" => u \in done
  <2>1. CASE attempt' = attempt
    BY <2>1 DEF Done
  <2>2. CASE attempt' # attempt
    <3>1. GetTaskData(t) \/ Expire(t)
      BY <2>2 DEF LookupTasks, LookupStarts, LookupResumes, TaskDone, RelayerStarts,
                  StartAnalysis, AnalyzeResult, AnalysisFault
    <3>2. workflow[t].pc # "none" /\ t \in done
      BY <3>1 DEF GetTaskData, Expire, Done
    <3>3. \A u \in Tasks \ {t} : attempt'[u] = attempt[u]
      BY <1>1, <3>1 DEF GetTaskData, Expire, TypeOK
    <3> QED
      BY <3>2, <3>3 DEF Done
  <2> QED
    BY <2>1, <2>2
<1> QED
  BY <1>2, <1>3, <1>6, <1>7 DEF Done

(* A task is done in every step. *)
LEMMA NextDone == EvalInv /\ Done /\ [Next]_vars => Done'
<1> SUFFICES ASSUME EvalInv, Done, [Next]_vars PROVE Done'
  OBVIOUS
<1>1. CASE UNCHANGED vars
  BY <1>1 DEF vars, dbVars, lookupVars, Done
<1>2. CASE LookupTasks
  BY <1>2 DEF LookupTasks, GetTasks, Done, dbVars
<1>3. CASE \E t \in Tasks : \/ LookupStarts(t) \/ LookupResumes(t) \/ TaskDone(t) \/ RelayerStarts(t)
                            \/ GetTaskData(t) \/ StartAnalysis(t) \/ AnalyzeResult(t) \/ AnalysisFault(t) \/ Expire(t)
  BY <1>3, OthersDone
<1>4. CASE \E t \in Tasks, h \in Holders : Attempt(t, h) \/ AttemptFault(t, h)
  BY <1>4, AttemptDone
<1> QED
  BY <1>1, <1>2, <1>3, <1>4 DEF Next, Lookup, Evaluator

(* The life of a task begins where the Evaluator does. *)
LEMMA InitLife == Init => Life!Init
<1> SUFFICES ASSUME Init PROVE \A t \in Tasks : Phase[t] = "open"
  BY DEF Life!Init, Phase
<1> QED
  BY DEF Init, Phase

\* A step that moves one task along the life, or none, is a step of the life.
LEMMA OneMoves ==
  ASSUME NEW t \in Tasks,
         \A u \in Tasks \ {t} : Phase[u]' = Phase[u],
         Phase[t]' = Phase[t] \/ <<Phase[t], Phase[t]'>> \in Life!Moves
  PROVE  [Life!Next]_Phase
<1>1. Phase' = [Phase EXCEPT ![t] = Phase[t]']
  BY DEF Phase
<1>2. CASE Phase[t]' = Phase[t]
  BY <1>2 DEF Phase
<1>3. CASE <<Phase[t], Phase[t]'>> \in Life!Moves
  <2>1. Phase[t]' \in Life!Phases
    BY <1>3 DEF Life!Moves, Life!Phases
  <2> QED
    BY <1>1, <1>3, <2>1 DEF Life!Next, Life!Move
<1> QED
  BY <1>2, <1>3

\* Tasks whose marks and results stay do not move.
LEMMA SamePhase ==
  ASSUME NEW u \in Tasks, results'[u] = results[u],
         u \in removed' <=> u \in removed, u \in evaluated' <=> u \in evaluated,
         u \in done' <=> u \in done
  PROVE  Phase[u]' = Phase[u]
BY DEF Phase, FirstResult

\* An attempt moves its task from done to answered or failed, if anywhere.
LEMMA AttemptLives ==
  ASSUME EvalInv, Done, NEW t \in Tasks, NEW h \in Holders, Attempt(t, h) \/ AttemptFault(t, h)
  PROVE  [Life!Next]_Phase
<1>1. Moved(t, h) /\ attempt[t][h].pc # "none" /\ Kept(t, h)
  BY AttemptChanges
<1>2. TypeOK /\ TypeOK' /\ t \in done
  BY <1>1, AttemptKeeps DEF Done, EvalInv
<1>3. \A u \in Tasks \ {t} : Phase[u]' = Phase[u]
  BY <1>1, SamePhase DEF Kept
<1>4. Phase[t]' = Phase[t] \/ <<Phase[t], Phase[t]'>> \in Life!Moves
  <2>1. CASE t \in removed
    BY <1>1, <2>1 DEF Kept, Phase
  <2>2. CASE t \notin removed /\ t \notin evaluated
    <3>1. Phase[t] = "done"
      BY <1>2, <2>2 DEF Phase
    <3>2. Phase[t]' \in {"done", "failed", "answered"}
      BY <1>1, <1>2, <2>2 DEF Kept, Phase
    <3> QED
      BY <3>1, <3>2 DEF Life!Moves
  <2>3. CASE t \notin removed /\ t \in evaluated
    <3>1. Marked(t)
      BY <2>3 DEF EvalInv, MarkedWithResult, Marked
    <3>2. results[t] # <<>>
      BY <2>3, <3>1 DEF Marked, FirstResult
    <3>3. FirstResult(t, "failure")' <=> FirstResult(t, "failure")
      <4>1. CASE Signature(t)
        BY <1>1, <3>2, <4>1 DEF Kept, FirstResult
      <4>2. CASE ~Signature(t)
        <5>1. results[t][1] = "answer" /\ results'[t][1] = "answer"
          BY <1>1, <2>3, <3>1, <3>2, <4>2 DEF Kept, Marked, FirstResult
        <5> QED
          BY <5>1 DEF FirstResult
      <4> QED
        BY <4>1, <4>2
    <3> QED
      BY <1>1, <2>3, <3>3 DEF Kept, Phase
  <2> QED
    BY <2>1, <2>2, <2>3
<1> QED
  BY <1>3, <1>4, OneMoves

\* The Manager moves a task from answered to analyzed.
LEMMA AnalyzeLives ==
  ASSUME EvalInv, NEW t \in Tasks, AnalyzeResult(t)
  PROVE  [Life!Next]_Phase
<1>1. TypeOK /\ t \notin removed /\ FirstResult(t, "answer")
  BY DEF EvalInv, AnalyzeResult, Analyses
<1>2. t \in evaluated
  BY <1>1 DEF EvalInv, MarkedWithResult, FirstResult
<1>3. Phase[t] = "answered"
  BY <1>1, <1>2 DEF Phase, FirstResult
<1>4. Phase[t]' = "analyzed"
  BY DEF AnalyzeResult, Phase
<1>5. \A u \in Tasks \ {t} : Phase[u]' = Phase[u]
  <2>1. \A u \in Tasks \ {t} : results'[u] = results[u]
    BY <1>1 DEF AnalyzeResult, TypeOK
  <2> QED
    BY <2>1, SamePhase DEF AnalyzeResult
<1> QED
  BY <1>3, <1>4, <1>5, OneMoves DEF Life!Moves

\* The Relayer moves a task from open to done.
LEMMA TaskDoneLives ==
  ASSUME EvalInv, Done, NEW t \in Tasks, TaskDone(t)
  PROVE  [Life!Next]_Phase
<1>1. t \notin evaluated
  BY DEF TaskDone, Done
<1>2. t \notin removed
  BY DEF TaskDone, Done, EvalInv, Analyses
<1>3. Phase[t] = "open" /\ Phase[t]' = "done"
  BY <1>1, <1>2 DEF TaskDone, Phase
<1>4. \A u \in Tasks \ {t} : Phase[u]' = Phase[u]
  BY SamePhase DEF TaskDone
<1> QED
  BY <1>3, <1>4, OneMoves DEF Life!Moves

(* Every step is a step of the life of a task, or none of it. *)
LEMMA NextLives == EvalInv /\ Done /\ [Next]_vars => [Life!Next]_Phase
<1> SUFFICES ASSUME EvalInv, Done, [Next]_vars PROVE [Life!Next]_Phase
  OBVIOUS
<1>1. CASE UNCHANGED <<done, evaluated, removed, results>>
  BY <1>1 DEF Phase, FirstResult
<1>2. CASE \E t \in Tasks : TaskDone(t)
  BY <1>2, TaskDoneLives
<1>3. CASE \E t \in Tasks : AnalyzeResult(t)
  BY <1>3, AnalyzeLives
<1>4. CASE \E t \in Tasks, h \in Holders : Attempt(t, h) \/ AttemptFault(t, h)
  BY <1>4, AttemptLives
<1>5. CASE \/ LookupTasks \/ UNCHANGED vars
           \/ \E t \in Tasks : \/ LookupStarts(t) \/ LookupResumes(t) \/ RelayerStarts(t)
                               \/ GetTaskData(t) \/ StartAnalysis(t) \/ AnalysisFault(t) \/ Expire(t)
  BY <1>1, <1>5 DEF LookupTasks, LookupStarts, LookupResumes, RelayerStarts, GetTaskData,
                    StartAnalysis, AnalysisFault, Expire, vars, dbVars
<1> QED
  BY <1>2, <1>3, <1>4, <1>5 DEF Next, Lookup, Evaluator

\* For every set of tasks, errors and expired workflows a task goes through the life
\* TaskLife promises: its activities (save_results, SaveSignature, SaveFailure) and
\* the Manager's AnalyzeResult never take back what was stored.
THEOREM LifeImplemented == Spec => TaskLifeSpec
<1>1. Init => EvalInv /\ Done /\ Life!Init
  BY InitInv, InitDone, InitLife
<1>2. EvalInv /\ Done /\ [Next]_vars => EvalInv' /\ Done' /\ [Life!Next]_Phase
  BY NextKeeps, NextDone, NextLives
<1> QED
  BY <1>1, <1>2, PTL DEF Spec, TaskLifeSpec, Life!Spec

-----------------------------------------------------------------------------
(***************************************************************************)
(* Why a signature is given up.                                            *)
(***************************************************************************)
\* Explained of one attempt.
ExplainedAt(t, h) ==
  /\ attempt[t][h].pc = "insert" /\ Kind(t) = "tokenizer" /\ Hash(t) \in tokenizers
       => Contended(t)
  /\ attempt[t][h].pc = "fail" /\ Signature(t) => Excused(t)

\* FailureExplained of one task.
FailureExplainedAt(t) ==
  t \notin removed /\ Signature(t) /\ FirstResult(t, "failure") =>
    Answer(t) \in {"missing", "broken"} \/ t \in hit \/ Contended(t)

\* A reason is never taken back.
Reasons ==
  /\ input' = input /\ expired \subseteq expired' /\ hit \subseteq hit' /\ removed \subseteq removed'
  /\ \A u \in Tasks : results[u] # <<>> => results'[u] # <<>> \/ u \in removed'

(* A reason for a failure is never taken back. *)
LEMMA ReasonsStay ==
  ASSUME Reasons, NEW u \in Tasks
  PROVE  /\ Contended(u) => Contended(u)'
         /\ Excused(u) => Excused(u)'
<1>1. Contended(u) => Contended(u)'
  BY DEF Reasons, Contended, Kind, Hash
<1> QED
  BY <1>1 DEF Reasons, Excused, Answer

(* At first there is nothing to explain. *)
LEMMA InitExplained == Init => Explained /\ FailureExplained
<1> SUFFICES ASSUME Init PROVE Explained /\ FailureExplained
  OBVIOUS
<1>1. At("none").pc = "none"
  BY PlacesTyped DEF AttemptPlaces
<1>2. \A t \in Tasks, h \in Holders : attempt[t][h].pc = "none"
  BY <1>1 DEF Init
<1>3. \A t \in Tasks : results[t] = <<>>
  BY DEF Init
<1> QED
  BY <1>2, <1>3 DEF Explained, FailureExplained, FirstResult

\* A step that stores no failure and inserts no tokenizer explains what it did before.
LEMMA OtherExplained ==
  ASSUME Explained, FailureExplained, Reasons, tokenizers' = tokenizers,
         \A u \in Tasks : FirstResult(u, "failure")' => FirstResult(u, "failure"),
         \A u \in Tasks, g \in Holders : \/ attempt'[u][g].pc \in {"none", "read"}
                                         \/ \E f \in Holders : attempt'[u][g] = attempt[u][f]
  PROVE  Explained' /\ FailureExplained'
<1>1. ASSUME NEW u \in Tasks, NEW g \in Holders PROVE ExplainedAt(u, g)'
  <2>1. \A f \in Holders : ExplainedAt(u, f)
    BY DEF Explained, ExplainedAt
  <2> QED
    BY <2>1, ReasonsStay DEF ExplainedAt, Reasons, Kind, Hash, Signature
<1>2. ASSUME NEW u \in Tasks PROVE FailureExplainedAt(u)'
  <2>1. FailureExplainedAt(u)
    BY DEF FailureExplained, FailureExplainedAt
  <2> QED
    BY <2>1, ReasonsStay DEF FailureExplainedAt, Reasons, Kind, Answer, Signature
<1> QED
  BY <1>1, <1>2 DEF Explained, ExplainedAt, FailureExplained, FailureExplainedAt

\* The steps outside the activities.
LEMMA OthersExplained ==
  ASSUME EvalInv, Explained, FailureExplained, NEW t \in Tasks,
         \/ LookupTasks \/ LookupStarts(t) \/ LookupResumes(t)
         \/ TaskDone(t) \/ RelayerStarts(t)
         \/ GetTaskData(t) \/ StartAnalysis(t) \/ AnalyzeResult(t) \/ AnalysisFault(t) \/ Expire(t)
  PROVE  Explained' /\ FailureExplained'
<1> USE DEF dbVars, lookupVars, faultVars
<1>1. TypeOK /\ "own" \in Holders /\ "stray" \in Holders
  BY DEF EvalInv, Holders
<1>2. /\ input' = input /\ expired \subseteq expired' /\ hit' = hit /\ removed \subseteq removed'
      /\ tokenizers' = tokenizers
  BY DEF LookupTasks, LookupStarts, LookupResumes, TaskDone, RelayerStarts, GetTaskData,
         StartAnalysis, AnalyzeResult, AnalysisFault, Expire
<1>3. \A u \in Tasks : results'[u] = results[u] \/ (results'[u] = <<>> /\ u \in removed')
  <2>1. results' = results \/ AnalyzeResult(t)
    BY DEF LookupTasks, LookupStarts, LookupResumes, TaskDone, RelayerStarts, GetTaskData,
           StartAnalysis, AnalysisFault, Expire
  <2> QED
    BY <1>1, <2>1 DEF AnalyzeResult, TypeOK
<1>4. Reasons
  BY <1>2, <1>3 DEF Reasons
<1>5. \A u \in Tasks : FirstResult(u, "failure")' => FirstResult(u, "failure")
  BY <1>3 DEF FirstResult
<1>6. \A u \in Tasks, g \in Holders : \/ attempt'[u][g].pc \in {"none", "read"}
                                      \/ \E f \in Holders : attempt'[u][g] = attempt[u][f]
  <2>1. CASE attempt' = attempt
    BY <2>1
  <2>2. CASE Step(t, "own", At("read"))
    <3>1. At("read") \in Retries /\ At("read").pc = "read"
      BY PlacesTyped DEF AttemptPlaces
    <3> QED
      BY <1>1, <2>2, <3>1, StepChanges
  <2>3. CASE Expire(t)
    <3>1. At("none").pc = "none"
      BY PlacesTyped DEF AttemptPlaces
    <3>2. \A u \in Tasks : attempt'[u] = IF u = t THEN [own |-> At("none"), stray |-> attempt[t]["own"]]
                                         ELSE attempt[u]
      BY <1>1, <2>3 DEF Expire, TypeOK
    <3> QED
      BY <1>1, <3>1, <3>2 DEF Holders
  <2> QED
    BY <2>1, <2>2, <2>3 DEF LookupTasks, LookupStarts, LookupResumes, TaskDone, RelayerStarts,
         GetTaskData, StartAnalysis, AnalyzeResult, AnalysisFault, Step
<1> QED
  BY <1>2, <1>4, <1>5, <1>6, OtherExplained

\* What an attempt knows of the reasons: they stay, whatever it does.
LEMMA AttemptReasons ==
  ASSUME EvalInv, NEW t \in Tasks, NEW h \in Holders, Attempt(t, h) \/ AttemptFault(t, h)
  PROVE  Reasons /\ (AttemptFault(t, h) => t \in hit')
<1>1. Moved(t, h) /\ Kept(t, h)
  BY AttemptChanges
<1>2. hit \subseteq hit'
  BY DEF Attempt, AttemptFault, ReadAnswers, Score, LoadTokenizer, LoadConfig, LookupEntry,
         InsertTokenizer, InsertConfig, SaveScores, SaveSignature, MarkTaskToDrop, SaveFailure,
         ReadFault, WriteFault, LostCommit, FailureFault, Fault, faultVars
<1>3. AttemptFault(t, h) => t \in hit'
  BY DEF AttemptFault, ReadFault, WriteFault, LostCommit, FailureFault, Fault
<1> QED
  BY <1>1, <1>2, <1>3 DEF Reasons, Kept

\* The attempt that makes the step goes on with a reason when it goes on to fail.
LEMMA AttemptExplainedAt ==
  ASSUME EvalInv, Explained, NEW t \in Tasks, NEW h \in Holders,
         Attempt(t, h) \/ AttemptFault(t, h)
  PROVE  ExplainedAt(t, h)'
<1>1. TypeOK /\ Kept(t, h) /\ Reasons /\ ExplainedAt(t, h)
  BY AttemptChanges, AttemptReasons DEF EvalInv, Explained, ExplainedAt
<1>2. CASE AttemptFault(t, h)
  <2>1. t \in hit'
    BY <1>2, AttemptReasons
  <2>2. attempt'[t][h].pc # "insert"
    <3>1. CASE FailureFault(t, h)
      <4>1. (~Signature(t)) \in BOOLEAN
        BY DEF Signature
      <4> QED
        BY <1>1, <3>1, <4>1, FailChanges DEF FailureFault
    <3>2. CASE \E retry \in BOOLEAN : Continue(t, h, Failing(retry))
      BY <1>1, <3>2, PlacesTyped, StepChanges DEF Continue
    <3> QED
      BY <1>2, <3>1, <3>2 DEF AttemptFault, ReadFault, WriteFault, LostCommit
  <2> QED
    BY <2>1, <2>2 DEF ExplainedAt, Excused
<1>3. CASE MarkTaskToDrop(t, h) \/ SaveFailure(t, h)
  <2>1. attempt[t][h].retry \in BOOLEAN /\ FALSE \in BOOLEAN
    BY <1>1 DEF TypeOK, Retries
  <2>2. PICK retry \in BOOLEAN : Fail(t, h, retry)
    BY <1>3, <2>1 DEF MarkTaskToDrop, SaveFailure
  <2>3. attempt'[t][h].pc \in {"none", "read"}
    BY <1>1, <2>2, FailChanges
  <2> QED
    BY <2>3 DEF ExplainedAt
<1>4. CASE Succeed(t, h)
  <2>1. attempt'[t][h].pc = "none"
    BY <1>1, <1>4, SucceedChanges, PlacesTyped DEF AttemptPlaces
  <2> QED
    BY <2>1 DEF ExplainedAt
<1>5. ASSUME NEW pc \in AttemptPlaces \ {"insert", "fail"}, Continue(t, h, At(pc))
      PROVE  ExplainedAt(t, h)'
  <2>1. attempt'[t][h].pc = pc
    BY <1>1, <1>5, PlacesTyped, StepChanges DEF Continue
  <2> QED
    BY <2>1 DEF ExplainedAt
<1>6. ASSUME NEW retry \in BOOLEAN, Continue(t, h, Failing(retry)), Excused(t)
      PROVE  ExplainedAt(t, h)'
  <2>1. attempt'[t][h].pc = "fail"
    BY <1>1, <1>6, PlacesTyped, StepChanges DEF Continue
  <2> QED
    BY <1>1, <1>6, <2>1, ReasonsStay DEF ExplainedAt
<1>7. {"score", "load", "lookup", "save"} \subseteq AttemptPlaces \ {"insert", "fail"}
  BY DEF AttemptPlaces
<1>8. CASE ReadAnswers(t, h)
  BY <1>5, <1>6, <1>7, <1>8 DEF ReadAnswers, Excused
<1>9. CASE Score(t, h)
  BY <1>5, <1>6, <1>7, <1>9 DEF Score, Excused
<1>10. CASE LoadTokenizer(t, h)
  BY <1>5, <1>6, <1>7, <1>10 DEF LoadTokenizer, Excused
<1>11. CASE LoadConfig(t, h)
  BY <1>5, <1>6, <1>7, <1>11 DEF LoadConfig, Excused
<1>12. CASE LookupEntry(t, h)
  <2>1. CASE Hash(t) \in Entries(t)
    BY <1>5, <1>7, <1>12, <2>1 DEF LookupEntry
  <2>2. CASE Hash(t) \notin Entries(t)
    <3>1. At("insert") \in Retries /\ At("insert").pc = "insert"
      BY PlacesTyped DEF AttemptPlaces
    <3>2. attempt'[t][h].pc = "insert"
      BY <1>1, <1>12, <2>2, <3>1, StepChanges DEF LookupEntry, Continue
    <3>3. Kind(t) = "tokenizer" => Hash(t)' \notin tokenizers'
      BY <1>12, <2>2 DEF LookupEntry, Entries, Hash, dbVars
    <3> QED
      BY <1>1, <3>2, <3>3 DEF ExplainedAt, Reasons, Kind
  <2> QED
    BY <2>1, <2>2
<1>13. CASE InsertTokenizer(t, h)
  <2>1. CASE Hash(t) \in tokenizers
    <3>1. Excused(t)
      BY <1>1, <1>13, <2>1 DEF InsertTokenizer, ExplainedAt, Excused
    <3> QED
      BY <1>6, <1>13, <2>1, <3>1 DEF InsertTokenizer
  <2>2. CASE Hash(t) \notin tokenizers
    BY <1>5, <1>7, <1>13, <2>2 DEF InsertTokenizer
  <2> QED
    BY <2>1, <2>2
<1>14. CASE InsertConfig(t, h)
  BY <1>5, <1>7, <1>14 DEF InsertConfig
<1>15. CASE SaveScores(t, h)
  BY <1>4, <1>15 DEF SaveScores
<1>16. CASE SaveSignature(t, h)
  BY <1>4, <1>6, <1>16 DEF SaveSignature, Excused
<1> QED
  BY <1>2, <1>3, <1>8, <1>9, <1>10, <1>11, <1>12, <1>13, <1>14, <1>15, <1>16 DEF Attempt

\* An insertion explains the one it makes fail.
LEMMA OthersExplainedAt ==
  ASSUME EvalInv, Explained, NEW t \in Tasks, NEW h \in Holders,
         Attempt(t, h) \/ AttemptFault(t, h),
         NEW u \in Tasks, NEW g \in Holders, ~(u = t /\ g = h)
  PROVE  ExplainedAt(u, g)'
<1>1. TypeOK /\ Moved(t, h) /\ attempt[t][h].pc # "none" /\ Reasons /\ ExplainedAt(u, g)
  BY AttemptChanges, AttemptReasons DEF EvalInv, Explained, ExplainedAt
<1>2. attempt'[u][g] = attempt[u][g]
  BY <1>1 DEF Moved
<1>3. CASE tokenizers' = tokenizers
  BY <1>1, <1>2, <1>3, ReasonsStay DEF ExplainedAt, Reasons, Kind, Hash, Signature
<1>4. CASE Kind(t) = "tokenizer" /\ tokenizers' = tokenizers \cup {Hash(t)}
  <2>1. attempt[u][g].pc = "insert" /\ Kind(u) = "tokenizer" /\ Hash(u) = Hash(t) => Contended(u)
    <3>1. CASE u # t
      BY <1>4, <3>1 DEF Contended
    <3>2. CASE u = t
      <4>1. g = "stray" \/ h = "stray"
        BY <3>2 DEF Holders
      <4>2. attempt[u][g].pc = "insert" => t \in expired
        BY <1>1, <3>2, <4>1 DEF EvalInv, Strays
      <4> QED
        BY <3>2, <4>2 DEF Contended
    <3> QED
      BY <3>1, <3>2
  <2> QED
    BY <1>1, <1>2, <1>4, <2>1, ReasonsStay DEF ExplainedAt, Reasons, Kind, Hash, Signature
<1>5. tokenizers' = tokenizers \/ (Kind(t) = "tokenizer" /\ tokenizers' = tokenizers \cup {Hash(t)})
  BY DEF Attempt, AttemptFault, ReadAnswers, Score, LoadTokenizer, LoadConfig, LookupEntry,
         InsertTokenizer, InsertConfig, SaveScores, SaveSignature, MarkTaskToDrop, SaveFailure,
         ReadFault, WriteFault, LostCommit, FailureFault, dbVars
<1> QED
  BY <1>3, <1>4, <1>5

\* A failure is stored with a reason.
LEMMA AttemptFailureExplained ==
  ASSUME EvalInv, Explained, FailureExplained, NEW t \in Tasks, NEW h \in Holders,
         Attempt(t, h) \/ AttemptFault(t, h)
  PROVE  FailureExplained'
<1>1. TypeOK /\ Kept(t, h) /\ Reasons /\ ExplainedAt(t, h)
  BY AttemptChanges, AttemptReasons DEF EvalInv, Explained, ExplainedAt
<1> SUFFICES ASSUME NEW u \in Tasks PROVE FailureExplainedAt(u)'
  BY DEF FailureExplained, FailureExplainedAt
<1>2. FailureExplainedAt(u)
  BY DEF FailureExplained, FailureExplainedAt
<1>3. CASE results'[u] = results[u]
  BY <1>1, <1>2, <1>3, ReasonsStay DEF FailureExplainedAt, Reasons, Kind, Answer, Signature, FirstResult
<1>4. CASE u = t /\ Signature(t) /\ results[t] = <<>> /\ results'[t] # results[t]
  <2>1. CASE SaveFailure(t, h)
    <3>1. t \notin removed => Answer(t) \in {"missing", "broken"} \/ t \in hit \/ Contended(t)
      BY <1>1, <1>4, <2>1 DEF SaveFailure, ExplainedAt, Excused
    <3> QED
      BY <1>1, <1>4, <3>1, ReasonsStay DEF FailureExplainedAt, Reasons, Kind, Answer, Signature
  <2>2. CASE ~SaveFailure(t, h)
    <3>1. results' = [results EXCEPT ![t] = <<"answer">>]
      BY <1>4, <2>2 DEF Attempt, AttemptFault, ReadAnswers, Score, LoadTokenizer, LoadConfig,
           LookupEntry, InsertTokenizer, InsertConfig, SaveScores, SaveSignature, MarkTaskToDrop,
           ReadFault, WriteFault, LostCommit, FailureFault, dbVars, Upserted
    <3>2. ~FirstResult(t, "failure")'
      BY <1>1, <3>1 DEF FirstResult, TypeOK
    <3> QED
      BY <1>4, <3>2 DEF FailureExplainedAt
  <2> QED
    BY <2>1, <2>2
<1>5. CASE ~Signature(u)
  BY <1>1, <1>5 DEF FailureExplainedAt, Reasons, Signature, Kind
<1> QED
  BY <1>1, <1>3, <1>4, <1>5 DEF Kept

(* Every step leaves what a result outlives, or a signature is given up for, explained. *)
LEMMA NextExplained ==
  EvalInv /\ Explained /\ FailureExplained /\ [Next]_vars => Explained' /\ FailureExplained'
<1> SUFFICES ASSUME EvalInv, Explained, FailureExplained, [Next]_vars
             PROVE  Explained' /\ FailureExplained'
  OBVIOUS
<1>1. CASE UNCHANGED vars
  BY <1>1 DEF vars, dbVars, faultVars, Explained, FailureExplained, Excused, Contended, Kind, Hash,
              Answer, Signature, FirstResult
<1>2. CASE LookupTasks
  BY <1>2 DEF LookupTasks, dbVars, faultVars, Explained, FailureExplained, Excused, Contended,
              Kind, Hash, Answer, Signature, FirstResult
<1>3. CASE \E t \in Tasks : \/ LookupStarts(t) \/ LookupResumes(t) \/ TaskDone(t) \/ RelayerStarts(t)
                            \/ GetTaskData(t) \/ StartAnalysis(t) \/ AnalyzeResult(t) \/ AnalysisFault(t) \/ Expire(t)
  BY <1>3, OthersExplained
<1>4. CASE \E t \in Tasks, h \in Holders : Attempt(t, h) \/ AttemptFault(t, h)
  <2>1. PICK t \in Tasks, h \in Holders : Attempt(t, h) \/ AttemptFault(t, h)
    BY <1>4
  <2>2. \A u \in Tasks, g \in Holders : ExplainedAt(u, g)'
    BY <2>1, AttemptExplainedAt, OthersExplainedAt
  <2>3. Explained'
    BY <2>2 DEF Explained, ExplainedAt
  <2> QED
    BY <2>1, <2>3, AttemptFailureExplained
<1> QED
  BY <1>1, <1>2, <1>3, <1>4 DEF Next, Lookup, Evaluator

\* For every set of tasks, hashes and errors a signature is given up for good only
\* for the reasons named, the race of two insertions in tokenizer_evaluate.py
\* being the only one that lies with the code.
THEOREM FailuresExplained == Spec => []FailureExplained
<1> DEFINE Inv == EvalInv /\ Explained /\ FailureExplained
<1>1. Init => Inv
  BY InitInv, InitExplained
<1>2. Inv /\ [Next]_vars => Inv'
  BY NextKeeps, NextExplained
<1>3. Inv => FailureExplained
  OBVIOUS
<1> QED
  BY <1>1, <1>2, <1>3, PTL DEF Spec
=============================================================================
