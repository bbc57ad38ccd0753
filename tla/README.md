# A verification project for the Pocket ML testbench

TLA+ models of the testbench's control, the TLC configurations that check them,
and TLAPS proofs of the properties that matter most. Paths below are relative
to the repository.

## 1. The system

The testbench measures the language models that nodes of the Pocket Network
serve. Four Temporal applications share one MongoDB and run in a ring:

```
          trigger            tasks, instances,         relays
 Manager ---------> Sampler ------prompts-----> Requester -------> nodes
    ^                                               |
    |  ResultAnalyzer        results                | responses, "done" marks
    +------------------ Evaluator <-----------------+
```

They call each other only by starting workflows; all other interaction is
through documents in MongoDB, which the activities read and write with no lock and,
but for the commit of a task, the update of a task tree and the storing of a
result, no transaction. Temporal runs an activity that
crashed, timed out or lost its completion again from the start.

### Inventory

| Component | State it keeps | Operations | Hard behaviour | What makes it correct |
|---|---|---|---|---|
| Circular buffer (`manager/types/circular_buffer.go`) | start, end, count, insertion time of each slot | `StepIndex` of both markers, `CycleIndexes`, `GetBufferValidIndexes` | uint32 indexes, a count derived from the markers, emptying a one-slot window | the window has no holes, the count is that of its samples, a cycle ends |
| Task records (`manager/records/task.go`) | a buffer, the samples by slot, metrics, last height | `InsertSample`, `ProcessData`, `CycleIndexes`, schedule, dependency and minimum checks | metrics computed from markers that moved; expiry of everything | a first-in first-out window; metrics of exactly its samples; the newest signature |
| Node registry (`manager/records/node.go`, `get_staked.go`) | a document per node | find, create, update | two managers create one node | one record per node and test |
| Node analysis and trigger policy (`analyze_node.go`, `trigger_sampler.go`, `node_manager.go`) | none of its own: reads records and tasks | count samples, count the queue, trigger, start the Sampler | counts out of date when used, uint32 subtraction, restarted Samplers | limits kept, no more asked for than missing, buffers always filled again |
| Result analysis (`process_node_result.go`, `result_analyzer.go`) | its copy of a record | load, insert, delete the task, write back | concurrent analyses of one record, crash between deletion and write | each result counted once, nothing orphaned |
| Sampler and datasets (`apps/python/sampler`, `lmeh/pocket_lm_eval/api/task.py`, `lmeh/utils/sql.py`, `lmeh/utils/generator.py`) | a table per dataset, tasks with instances and prompts | register a dataset, choose documents, commit a task with its tree | attempts repeated after the commit, termination by the next trigger, rows in no order, empty splits | a task per trigger, within the dataset; a document keeps its id, its prompts and its answers |
| Language model adapters (`lmeh/pocket_lm_eval/models/pocket_network.py`) | the limits of the model | encode, cut and reorder requests; cut answers | two classes that must agree on lengths without sharing them | a prompt fits with its answer; exactly the answer is scored |
| Requester (`apps/go/requester`) | done marks on prompts, instances and tasks; responses | list prompts, start a Relayer for each, relay, save, update the tree | concurrent snapshot transactions, workflows of two sessions, retries after the save | marks complete upwards; each prompt answered; a task whose prompts are answered is done |
| Evaluator (`apps/python/evaluator`) | `evaluated`, `drop`, results | look up done tasks, evaluate, start the analysis | timeouts shorter than the activity, stray activities, lost acknowledgements, failures that mark the task | marks agree with results; each done task is analyzed once, from an answer |
| Chain lookups, RPC client pool (`requester/activities/get_*`, `packages/go/pocket_rpc`) | list of clients | failover, replicated requests | goroutines and channels | first successes returned, the rest cancelled |
| Leaderboard of the API (`apps/python/api/app/leaderboard.py`) | none, but locals that outlive a node | collect and average the metrics of every node | a flag left by another metric or node, loops that stop early | nothing partial is shown as whole; averages are of what is shown |
| Web, sidecar, deployment, schemas | - | views, proxies, messages | - | out of scope, see section 7 |

The hazards of this code, each at its line and with the properties aimed at it,
are in `PROJECT.json`.

## 2. Modules

| Module | Models | State and actions, against the code |
|---|---|---|
| `CircularBuffer` | `circular_buffer.go` | No variables: a buffer is a record `times, num, start, end`, and each operator returns the buffer its Go method leaves. Index arithmetic wraps at `MaxUint32` as in `BufferLimitCheck`. |
| `CircularBufferMoves` | the buffer under the calls its unit tests make | one action per marker and direction, forward steps of the end stamped with a time |
| `RollingWindow` | abstract: what a record promises | a sequence of samples: accept at the new end, expire at the old |
| `TaskBuffer` | what numerical and signature records share | `buffer`, `samples`, a clock; one iteration of `CycleIndexes` per step; `Live` maps the slots to the window of `RollingWindow` |
| `NumericalTask`, `SignatureTask` | `NumericalTaskRecord`, `SignatureTaskRecord` | `InsertSample`, `ProcessData`, `CycleIndexes`. `metrics` are the sets of sample ids the statistics were computed from, `lastSignature` the id of the sample the signature came from. |
| `TaskTree` (+ `MCTaskTree`) | the Requester and the Evaluator's lookup | `db` holds the done marks of three collections; `relayer[session, prompt]` is a workflow: lookup, relay, save, transaction, finish. A transaction keeps its snapshot and what others wrote since (`missed`): it commits when it wrote nothing they wrote, else it is retried. |
| `ResultAnalysis` (+ `MCResultAnalysis`) | `AnalyzeResult` and `updateTasksNode` on one record | `analyzer[task]` and `cycler` hold a copy of the record from load to write; `RemoveTaskID` deletes the tree, the result and the task in steps of their own, each of which may fail; `Abandon` is an error reading the task, which ends the analysis for good |
| `TriggerPolicy` | `AnalyzeNode`'s triggers, `TriggerSampler`, the Sampler's commit, and the rest of the ring a step each | reading the record, counting the queue and starting the Sampler are separate steps; quantities are uint32 (`UintSize`) |
| `TaskLife` | abstract: the life of a task | `phase[task]`: open, done, then answered or failed, and analyzed after answered |
| `Evaluation` (+ `MCEvaluation`) | `lookup_tasks`, the Evaluator's workflow and its three activities, the end of the Manager's analysis | `workflow[task]`; `attempt[task]` holds the activity the workflow waits for (`own`) and the one a timeout left running (`stray`), each in steps between two database calls; `results[task]` is in the order of the collection. `ReadFault`, `WriteFault`, `LostCommit` and `FailureFault` are the errors of MongoDB, the third a commit that is not acknowledged; `AnalysisFault` is one of the Manager's reading the task, which ends the analysis for good. |
| `Documents` (+ `MCDocuments`) | `SqlDatasetSaver`, `generate_random_doc_ids`, the queries for documents, `build_all_requests` of Sampler and Evaluator, `evaluate` | `table` grows by a record per step; the tree of a task is stored, answered, loaded again in an order of the database's choice (`Scans`) and scored; a response is right, failed, or decodes without what its score is made of, which raises (`Scorable`, `Drop`) |
| `LanguageModel` (+ `MCLanguageModel`) | `PocketNetworkLM` and `EvaluatorLM` | one step per method; tokens are places in their request, so that what is cut or scored can be told |
| `Leaderboard` (+ `MCLeaderboard`) | `get_leaderboard_full` | one step per node, of which a query may fail; `partial` is the flag of the loop that a node leaves to the next; `others` are the nodes whose only buffers are of other tasks, which are listed with everything missing; `IdsFail` is the one query that nothing catches |
| `TaskRecordProofs`, `TaskTreeProofs`, `ResultAnalysisProofs`, `TriggerPolicyProofs`, `EvaluationProofs`, `DocumentsProofs`, `LanguageModelProofs`, `LeaderboardProofs` | the theorems, one module per component | buffer and records share the first |

Composition: `CircularBuffer` is the base of `TaskBuffer`, which both kinds of
record extend. `TaskBuffer` instantiates `RollingWindow` with its refinement
mapping, `Evaluation` instantiates `TaskLife`. `TriggerPolicy` takes what `TaskTree`
(a task is marked done) and `ResultAnalysis` (its result goes into the record) show as
single steps; `Evaluation` takes the same two as `TaskDone` and `AnalyzeResult`.
Scoring, one step `Score` of `Evaluation`, is the subject of `Documents` and
`LanguageModel`: what a result accounts for, and what an answer is.

History variables (`total`, `newest`, `lost`, `skewed`, `undeleted`, `resumed`,
`unsaved`, `overwritten`, `abandoned`, `slips`, `consumed`, `expired`, `hit`, `inOrder`,
`order`, `unread`) appear in no guard: they name the exact
circumstances in which the code gives up a property, so that the property is
checked in all the others.

A definition above which `Mutant:` is written is a plausible bug of the
definition after it; no specification uses it.

## 3. Runs

| Run | Configuration | Shows |
|---|---|---|
| `buffer_moves` | 5 slots, 2 times | the window has no hole but its first slot, the count is right up to the one case `CountSound` names, an empty window is one slot |
| `numerical_task` | 3 slots, TTL 2, clock 5, 5 samples | refinement of `RollingWindow`; a cycle leaves at most one stale sample; metrics stand for each live sample once, unless one is OK; stale samples go |
| `signature_task` | 3 slots, TTL 2, clock 6, 6 samples | the signature is always the newest sample's |
| `task_tree` | 2 instances of 2 and 1 prompts, 1 session, 1 fault | marks are complete upwards, the last prompt settles the task unless updates overlapped, every task is evaluated or skewed |
| `task_tree_sessions` | 2 instances of 1 prompt, 2 sessions, 1 fault, sessions symmetric | no evaluation starts with a prompt unanswered; responses are bounded by sessions and faults |
| `task_tree_skew` (violated) | 2 prompts, 1 session, no fault | the finding of section 4 |
| `result_analysis` | 3 results of one test (with samples, empty, failed), 2 faults | deletion leaves nothing behind unless a deletion or the reading of the task failed, results are counted once and stored but for the named losses, the last height is a result's, every analysis ends |
| `trigger_policy` | 4 samples, at most 3 at a time, dataset of 6, uint of 16 values, 3 tasks, 1 fault | no task above the limit; the queue and the buffer are exceeded only when a count could not see a request; the buffer is always filled again unless Samplers are terminated for ever or a task is never done |
| `evaluation` | 4 pairs of tasks, 1 error of MongoDB, 1 expired workflow | marks and results agree; only answers are analyzed; what is left behind or given up has a named reason; refinement of `TaskLife`; every done task is analyzed or given up |
| `documents` | 3 splits of up to 3 records, 2 prompts each, 0 to 2 responses per prompt, 2 attempts | tables are complete after a failed attempt; ids drawn are of their split; prompts and answers stay with their document while rows come by id; samples and scores agree in number; what is dropped has a miscounted or unscorable response |
| `language_model` | 2 or 3 requests of 1 to 7 tokens, limits 1 to 6 against the Evaluator's 4 | prompts keep their place and fit with their answer where the model takes more than it; of a request within both lengths what is scored is the answer; a text is cut where a stop begins and has none left |
| `leaderboard` | 3 nodes, two of them of one address, `arc`, `mmlu` of 2 subtasks, `gsm8k`, 0 to 2 samples or no row: every row for one node, five for each other; any node's queries may fail | few samples are never shown as whole, averages are of what is shown and errors of what was read, who is left out is explained |

### Bounds

* Slots: 3 is the least number for which start, end and a slot between them
  differ while the window may still wrap; `buffer_moves` has 5, the length the
  signatures really use. `MaxUint32` only has to lie beyond the slots.
* Clock and samples: one more tick than the TTL and one more sample than the
  slots, twice over, so that the buffer fills, wraps, expires wholly and fills again.
* Tree: an instance of two prompts is needed for a race within an instance and
  a second instance for a race within the task. Two sessions give two Relayers
  for one prompt.
* Faults: one reaches every single crash point, two in `result_analysis`
  a failed deletion followed by a lost attempt, the shortest way to count twice.
* Evaluation: the pairs put together what can meet: two tokenizers that hash alike,
  scores beside scores that raise, and each kind of signature beside another
  task. One expiry leaves a stray attempt beside the next workflow's; one error with
  it is what tells a lost commit from a failed one. More than two results of one task
  differ from two in nothing that is read.
* Documents: a middle split that may be empty, and a first one that may be; requests
  for fewer documents than a split has, as many, more, and (-1) all of them; a
  blacklist that meets the split and one that does not.
* Language model: each length is below, at and above both limits. The Evaluator
  assumes 4 where the Sampler has 1 to 6, as it does with its 4096.
* Leaderboard: with `Enough` 1, the numbers are no sample, few and enough; a metric
  before and one after `mmlu` and two nodes are the least for a flag to be passed on,
  and a third tells a flag that was never set from one that another node reset. One
  node has every combination of rows, the others one for each way to leave the flag.
* Triggers: 4 samples and a limit of 3 allow a need below the queue, equal to it
  and above the limit. `UintSize` is beyond the dataset plus the limit, as 2^32 is.

The proofs of section 5 do not depend on these bounds.

`CHECK_DEADLOCK FALSE` is set in the task record runs, where clock and samples
reach their bounds; in the trigger run, where a full buffer, no request
under way and no block or fault left leave nothing to do; and in `documents`,
`language_model` and `leaderboard`, each of which follows one task or request to
its end. The Requester, AnalyzeNode and LookupTasks can always run again, so the
other runs check for deadlock.

### Fairness

* `NumericalTask`: strong fairness of `CycleIndexes`, since the Manager analyzes
  every node every two minutes (`initialize.sh`) whatever is inserted in
  between; weak fairness of `ProcessData`, the rest of a running activity.
* `TaskTree`: weak fairness of the Requester and of `LookupTasks`, which run each
  minute, and of the steps of a running workflow. No fault is fair, nor is the
  workflow's own retry: after a failure it is the next listing that starts it again.
* `ResultAnalysis`: weak fairness of each analysis: the activity has no limit of
  attempts, until it succeeds or fails for good. Nothing is assumed of `AnalyzeNode`.
* `Evaluation`: weak fairness of LookupTasks, which runs each minute, of the steps of
  each Evaluator workflow and its activities, and of the analysis. Errors and
  expiries are not fair.
* `TriggerPolicy`: weak fairness of the scheduled Manager and of the analyses. Nothing is
  assumed of a task being marked done, which `task_tree_skew` shows need not happen:
  `AlwaysRefilled` names a task that stays pending. A Sampler commits unless triggers go
  on terminating Samplers for ever (`trigger_sampler.go:45`): that is a disjunct of the
  fairness and of the property, as a sampling may take 300 s and a trigger comes every 120.

## 4. Findings

1. `task_tree_skew`: two Relayers that finish the two last instances of a task
   at once commit without a write conflict, each on a snapshot without the
   other's mark, and nobody marks the task done (`update_task_tree.go:103`). The
   task is never listed again, as it has no prompt to do.

Other disagreements between the code and what is said of it are each stated by a
definition of the module that meets them, under "What the repository says and the code
does not do". They have no run of their own: named as the `INVARIANT` or `PROPERTY` of the
configuration in parentheses, TLC finds each violated within seconds.

* `NumericalTask!GetNumSamplesIsValid` (`numerical_task`): "Calculate number of valid
  samples" (`circular_buffer.go:109`), "Returns the number of valid samples in the circular
  buffer" (`task.go:523`, `830`), and the tests compare the two
  (`circular_buffer_test.go:57`, `102`, `159`, `289`). A window that wraps around an empty
  first slot is counted one too many (`circular_buffer.go:122`), and the trigger policy
  then asks for one sample too few.
* `NumericalTask!LoneSampleIsTheMean` (`numerical_task`): with one OK sample the statistics
  are read at the start of the window (`task.go:585`), which on a new record is an empty slot.
* `ResultAnalysis!DropsOnlyOld` (`result_analysis`): `updateTasksNode`, which "drops old
  ones" (`analyze_node.go:184`), writes back the record it loaded, cycled or not
  (`analyze_node.go:249`), over what an analysis wrote meanwhile.
* `TriggerPolicy!TriggerWithinLimit` (`trigger_policy`): "The trigger process must include
  limits to avoid clogging the Requester app" (`apps/go/manager/README.md:19`).
  `reqNeeded -= inQueue` (`analyze_node.go:151`) is unsigned and guarded by the limit only:
  with 1 sample missing and 2 in queue it asks for 2^32 - 1. `TaskWithinLimit` shows where
  that ends: the Sampler refuses what its dataset cannot serve.
* `TriggerPolicy!RespectsSchedule` (`trigger_policy` with `ScheduleBlocks` 2):
  `CheckTaskSchedule`, which is to keep a test from being triggered "twice in the same
  session" (`task.go:241`), returns true when the schedule has not passed as well
  (`task.go:303`).
* `Evaluation!FailureIsAnAnswer` (`evaluation`): "a failure is also an answer", says
  `tokenizer_evaluate.py:215` when it stores one, but then it raises (`:236`), and the
  workflow ends before it starts the analysis; the task is marked and never looked at again.
* `Documents!KeptDocsFilled` (`documents`): "Kept only those docs_ids filled by all its
  instances/responses" (`task.py:1018`) is not so: a document is set aside only for a
  response that failed (`mongodb.py:424-427`), and one with a response missing is scored
  without it, unless that raises and ends the evaluation.
* `LanguageModel!OnlyPredictions` (`language_model`): the Evaluator's model is always created
  with the default length (`evaluate.py:192`), so for a request longer than that the context
  is cut where the Sampler did not cut it (`pocket_network.py:42`, `562`).
* `Leaderboard!PartialOnlyIfFew` (`leaderboard`): the flag of a metric outlives it
  (`leaderboard.py:171-173`, `267`), so that a later one is shown as partial.

One more is not stated: `is_greedy` compares a token with a log probability
(`pocket_network.py:57-58`) and holds of empty answers only.

What the passing properties leave out is what these and the hazards are about:

* `CountSound` allows the one count too many, `MetricsCoverWindow` the one OK sample.
* `SettledUnlessSkewed` leaves out tasks whose updates overlapped.
* `AnalyzedIsStored` leaves out writes that were overwritten or lost between deletion and
  write. With `NothingOrphaned` and `EventuallyAnalyzed` it names the analyses that an
  error reading the task ended for good, which no retry and no lookup takes up again
  (`process_node_result.go:37-41`). `CountedOnce` leaves out deletions that failed,
  `HeightOfAResult` an analysis run again for a deleted result.
* `QueueWithinLimit` and `RequestsFit` leave out counts taken while a Sampler had
  not committed or a done task was not in the record; `AlwaysRefilled` Samplers
  terminated for ever and tasks never marked done.
* `EventuallyAnalyzed` of `Evaluation` leaves out the tasks `GivenUp` names.
* `PromptsOfTheirDocument` and `ScoredAgainstTheirDocument` hold for rows returned in the
  order of their ids, which the queries do not ask for (`task.py:456`): of another order
  they say nothing.
* `PromptsFit` leaves the room for the answer of a model that takes no more than its
  answer, whose prompt is cut by a slice of zero or less (`pocket_network.py:362`);
  `AnswerScored` the requests longer than either length.
* A signature is evaluated from exactly one response (`tokenizer_evaluate.py:54`), and
  `OneResponsePerSession` allows more: `FailureExplained` counts that among its reasons.

## 5. Theorems

All hold for every value of the constants that satisfies the named assumptions.

* **Buffer** (`TaskRecordProofs`: `RingTypeCorrect`, `NoHolesEver`,
  `CountAlwaysSound`, `CyclesEnd`; `LengthAssumption`, `MaxUint32Assumption`,
  `TimesAssumption`). `Sound(b)` joins the type, no holes, the count and the
  collapsed empty window: the count is a subtraction of indexes, right only
  when there are no holes, and the step is guarded by the count. Each operator is
  shown to preserve `Sound`, by the cases wrapped or not, and what it adds to
  or takes from the valid indexes.
* **Records** (`TaskRecordProofs`).
  `BufferInv` adds to `Sound` that times do not decrease along the window: a cycle
  that stops at a young first slot has met all the stale ones only because slots are
  in order of time (`CycleCorrect`). `DistinctSamples` adds that no two slots hold
  the same sample, so metrics count each once (`MetricsCorrect`). `EndIsNewest`:
  the last sample stored stays in the slot of the end marker, which
  `CycleIndexes` never moves (`SignatureCorrect`).
  `WindowImplemented` and `SignatureWindowImplemented` show the refinement of
  `RollingWindow` step by step. The mapping lists the samples of the valid slots from
  the start marker on and leaves out an empty first slot; a step of the end marker
  appends to that list, a step of the start marker takes its head, and what a write
  over the oldest slot or the reset of a one-slot window does is one of the
  two or none.
* **Task tree** (`TaskTreeProofs`; the tree is total and no level is empty,
  sessions are finite). `TreeInv` says that the snapshot of an open transaction
  was committed and complete upwards, hence `MarksUpwards`. `AnswerInv` adds
  that a Relayer past its save, and every mark, stands for an answer, hence
  `EvaluationAnswered`. `SettleInv` adds that a snapshot that missed nothing of
  a task agrees with the database on it, hence `LastPromptSettles`.
  `BoundInv` counts the Relayers that may still save with the responses saved,
  hence `ResponsesOncePerSession`.
* **Result analysis** (`ResultAnalysisProofs`), with one strengthening each on top
  of the types. `Ordered` ties the place of an analysis to the documents left,
  those an abandoned one leaves included
  (`NothingEverOrphaned`). `Counted`: while the result of a task is there no copy of
  the record but the task's own has its samples, and none ever has them twice
  (`CountedOnceAlways`). `Stored`: every copy without the samples of a stored
  result knows that it missed its write (`AnalyzedAlwaysStored`). `Heights`: in the
  record and all copies samples come with a height (`HeightAlwaysOfAResult`).
* **Trigger policy** (`TriggerPolicyProofs`). `Limited`: each quantity on its way to
  the Sampler is within the limit or beyond the dataset. The unsigned
  subtraction keeps this because the minuend and the subtrahend are within the
  limit and `DatasetSize + MaxConcurrent < UintSize`; `TasksWithinLimit` follows.
  `QueueBound` and `RequestsBound` count a request with its queue from the moment the
  queue was read, so that a task which ends in between lowers both; sums over tasks are
  the cardinality of a set of units (`QtyCounts`). `QueueStaysWithinLimit` has the
  hypothesis `MinTrigger <= 1` and `RequestsAlwaysFit` has `MinTrigger = 0`: a
  larger `trigger_minimum` asks for at least that many whatever room is left. The
  configurations of the repository set 0 or 1 (`apps/go/manager/config.sample.json:43-55`).
* **Evaluation** (`EvaluationProofs`; `CasesAssumption`, `BoundsAssumption`). `EvalInv`
  ties the parts together that no single property has: an own attempt runs exactly
  while its workflow waits (`Awaited`), any other one has an expired workflow
  (`Strays`), a workflow that waits no more left an answer first (`Ready`), and the
  analysis, started once, is what removes the task (`Analyses`). From it follow
  `MarksAgree`, `AnswersAnalyzed` and `LeftoversExplained`: an attempt that still
  writes after the analysis was started cannot be the workflow's own. All steps of
  attempts are shown to satisfy the two relations `Moved` and `Kept`, from which
  each invariant follows without looking at the steps again. `Explained` adds
  the reason every attempt carries on its way to a failure (`FailuresExplained`), and
  `Done` that nothing is started for an open task, with which each step is shown to be
  one of `TaskLife` or none (`LifeImplemented`).
* **Documents** (`DocumentsProofs`; `SplitsAssumption`, `SizesAssumption`,
  `BoundsAssumption`, `ResponsesAssumption`). `TableInv`: ids are consecutive, the
  splits come one after the other, and what is copied is all that comes before the
  place of the saver (`NextPlaceIs` walks over the empty splits), hence
  `TransfersComplete` and `RangesAlwaysExact`. `TaskInv`: the ids sampled are of
  the split, in order, and no other row of it is loaded. This is not obvious, as the
  query also names the ranges of the splits loaded whole; it follows from the code's one
  check, that no more documents came than ids, by counting (`SampleTask`). Rows in
  order of their ids are then the one ascending list of the ids sampled (`SortedOnce`,
  `LoadedAre`), so that position and id agree, in the Sampler
  (`PromptsAlwaysOfTheirDocument`) and, after documents were set aside, in the
  Evaluator, both for rows in that order only (`EvalDocsAre`,
  `AlwaysScoredAgainstTheirDocument`). `ResultIs` counts scores and failures
  (`DocumentsAlwaysAccounted`); with one response to each prompt every
  check that could raise passes, but for a response that cannot be scored (`DropIs`,
  `DropsAlwaysExplained`).
* **Language model** (`LanguageModelProofs`; `LengthsAssumption`, `TasksAssumption`,
  `TextsAssumption`). `Inv` says that the prompt, the response and the value at each
  place are those of the request at that place; that holds although requests are handled
  in order of length, because the reorderer undoes the order it made. From it follow
  `PromptsAlwaysFit`, `AnswersScored` (a sum over the tokens after the context, each once)
  and `AnswersCutAtStops`: after one stop after the other, none is left in the text, which
  is whole or ends where one began. Where stops overlap that need not be the first
  occurrence of any: of "abcd", the stops "cd" and "bc" in this order leave "ab".
  `PromptsAlwaysFit` and `AnswersScored` have the conditions on lengths of section 4.
* **Leaderboard** (`LeaderboardProofs`; `MetricsAssumption`, `BuffersAssumption`). `Inv`:
  every entry shown is told by the rows of one node (`Told`: its sums, its counts, the
  errors of an mmlu that stopped early among them, and the status of each metric), while
  the flag is unset nothing is listed, and each node without an entry has its reason
  (`Explained`), a failed query of its own among them. Statuses are right although the
  flag outlives its metric because a flag left over can only say too much: a metric with
  few samples sets it again (`MmluIs`, `SingleIs`).

Every invariant, every action property and both refinements that a passing run checks
are proved. The types of the variables are proved with them; no run repeats
them.

Checked by TLC only is liveness: `StaleDropped`, `EventuallyEvaluated`,
`EventuallyAnalyzed` (of `ResultAnalysis` and of `Evaluation`) and `AlwaysRefilled` need
fairness and `ENABLED`, out of the prover's reach.

Sorts, folds and concatenations are recursive functions or choices, of which the
induction theorems of the library, with an operator as a parameter, show
nothing here. Where a proof has to go along a sequence or a set it takes the
least number a claim fails for (`LeastNumber`, from the well-founded order of the
naturals), applied to a set of numbers instead of a predicate (`AllNumbers`, `UpTo`).
Functions defined by recursion are shown to exist that way first (`FlattenIs`), as
`CHOOSE` alone says nothing of them.

## 6. Plan

The Manager's data structures, the Requester's tree, the analysis and the
trigger policy came first because every result goes through them and they hold
the races; then the Evaluator with its timeouts, and what it computes: documents,
answers, and the leaderboard made of them. All these are done. Left, in this order:

1. `Pipeline`: one task through `TaskTree`, `Evaluation` and `ResultAnalysis`
   together, for what only their composition shows (a response saved after its task was
   removed), as a refinement of `TaskLife`, which `Evaluation` implements already.
2. `NodeRegistry`: creation of node and task records by concurrent Managers, and
   `CheckTaskDependency` between tests (tokenizer before benchmarks).
3. `SessionHeight`: `GetCurrentSession`, the tolerance and the blocks per
   session, as pure functions against a reference definition.
4. `ClientPool`: `DoRRLoadBalanced` and `ReplicateRequest` with their goroutines.

Theorems to prove next: that `TaskTree` implements the step from open to done of
`TaskLife`, and the arithmetic of `SessionHeight`.

## 7. Not modelled

* Wording, logging, statistics (mean, median, deviation) and the schemas of messages.
* The metrics themselves and the extraction of answers (`custom_tasks`): functions of
  one text without state. The content of documents; only which document is whose.
* The content of relays and their signing; a relay answers or fails in `SaveResponse`.
* The blacklist the Manager computes from the instances in the queue, which it decodes
  from the cursor of the tasks; `Documents` takes any blacklist.
* `IsOK` of a signature, which stays set when the samples expire.
* The directory `/tmp/<task_id>` that attempts of one task share on a worker.
* Chain lookups: single RPC calls without state, and the tolerance of a session
  (`relayer.go:92`), until `SessionHeight`.
* The other views of the API, web, sidecar and deployment: read-only, proxies, configuration.
* A node that leaves the network and records created on the way, until `NodeRegistry`.
