--------------------------- MODULE ResultAnalysis ---------------------------
(***************************************************************************)
(* How the Manager moves the results of finished tasks into the record of  *)
(* a node's test (apps/go/manager).                                        *)
(*                                                                         *)
(* ResultAnalyzer runs the activity AnalyzeResult once for each evaluated  *)
(* task: load the record of the node's test, insert the samples of the     *)
(* result in that copy, delete the documents of the task, recompute the    *)
(* metrics and write the whole copy back.  AnalyzeNode, on a schedule,     *)
(* loads the same record, drops its old samples and writes it back too.    *)
(* No transaction or lock joins the steps of an activity, and the server   *)
(* runs an activity that failed, crashed or timed out again.               *)
(*                                                                         *)
(* One record: the tasks here are requests of the same test on one node.   *)
(* Samples are told apart by the task they came from and none is old, so   *)
(* cycling the buffer (CircularBuffer, TaskBuffer) leaves them all in.     *)
(***************************************************************************)
EXTENDS Naturals, FiniteSets

CONSTANTS
  Tasks,
  ResultOf,   (* What the Evaluator stored for each task: "samples", no    *)
              (* sample ("empty") or a status other than 0 ("failed").     *)
  Height,     (* The block height of each task's result.                   *)
  MaxFaults   (* Bound on database errors and lost activity attempts.      *)

ASSUME ResultAssumption ==
  /\ ResultOf \in [Tasks -> {"samples", "empty", "failed"}]
  /\ Height \in [Tasks -> Nat \ {0}]
ASSUME MaxFaultsAssumption == MaxFaults \in Nat

VARIABLES
  record,     (* The record stored for the test                            *)
  left,       (* The documents left in the database for each task          *)
  analyzer,   (* AnalyzeResult of each task                                *)
  cycler,     (* AnalyzeNode                                               *)
  faults,
  undeleted,  (* History: tasks a deletion failed for                      *)
  resumed,    (* History: tasks analyzed again without their result        *)
  unsaved,    (* History: tasks whose result went in a copy never written  *)
  overwritten, (* History: tasks whose write a copy loaded before replaced *)
  abandoned   (* History: tasks whose analysis failed for good with the    *)
              (* document of the task still there                         *)

history == <<undeleted, resumed, unsaved, overwritten, abandoned>>
vars == <<record, left, analyzer, cycler, faults, undeleted, resumed, unsaved, overwritten, abandoned>>

Docs == {"tree", "result", "task"}  \* tree: instances, prompts and responses

\* The samples of each task in a record and LastHeight, 0 when never set.
Record == [samples: [Tasks -> Nat], height: Nat]
NewTask == [samples |-> [t \in Tasks |-> 0], height |-> 0]

Places == {"ready", "tree", "result", "task", "write", "written", "done", "failed"}

\* An activity under way: its place, its copy of the record, and the tasks
\* whose analysis was written since it loaded that copy.
Holder(places) == [pc: places, copy: Record, missed: SUBSET Tasks]
At(place) == [pc |-> place, copy |-> NewTask, missed |-> {}]

Init ==
  /\ record = NewTask
  /\ left = [t \in Tasks |-> Docs]
  /\ analyzer = [t \in Tasks |-> At("ready")]
  /\ cycler = At("ready")
  /\ faults = 0
  /\ undeleted = {}
  /\ resumed = {}
  /\ unsaved = {}
  /\ overwritten = {}
  /\ abandoned = {}

-----------------------------------------------------------------------------
(***************************************************************************)
(* AnalyzeResult.                                                          *)
(***************************************************************************)

(* Mutant: the height of the result is not taken over. *)
ProcessedHeightless(t) ==
  IF "result" \notin left[t] \/ ResultOf[t] # "samples" THEN record
  ELSE [record EXCEPT !.samples[t] = @ + 1]

\* The record once the result of t, if it is still there, is processed.  A
\* result that is not found reads as a result of status 0, height 0 and no
\* sample; one of another status leaves the record alone.
Processed(t) ==
  IF "result" \notin left[t] THEN [record EXCEPT !.height = 0]
  ELSE IF ResultOf[t] = "failed" THEN record
  ELSE [samples |-> [record.samples EXCEPT ![t] =
                       IF ResultOf[t] = "samples" THEN @ + 1 ELSE @],
        height  |-> Height[t]]

LoadTask(t) ==
  /\ analyzer[t].pc = "ready"
  /\ "task" \in left[t]
  /\ analyzer' = [analyzer EXCEPT ![t] =
                    [pc |-> "tree", copy |-> Processed(t), missed |-> {}]]
  /\ UNCHANGED <<record, left, cycler, faults, history>>

(* Mutant: the failure is retried. *)
TaskNotFoundRetried(t) ==
  /\ analyzer[t].pc = "ready"
  /\ "task" \notin left[t]
  /\ UNCHANGED vars

\* The document of the task is gone: a failure that is not retried.
TaskNotFound(t) ==
  /\ analyzer[t].pc = "ready"
  /\ "task" \notin left[t]
  /\ analyzer' = [analyzer EXCEPT ![t] = At("failed")]
  /\ UNCHANGED <<record, left, cycler, faults, history>>

\* The task is read with an error of the database or of its 10 seconds, which
\* AnalyzeResult does not tell from a task that is gone, or no worker takes the
\* activity in its 5 minutes: neither failure is retried.  The errors of the
\* reads that follow are, and nothing was changed before them.
Abandon(t) ==
  /\ faults < MaxFaults
  /\ faults' = faults + 1
  /\ analyzer[t].pc = "ready"
  /\ "task" \in left[t]
  /\ analyzer' = [analyzer EXCEPT ![t] = At("failed")]
  /\ abandoned' = abandoned \cup {t}
  /\ UNCHANGED <<record, left, cycler, undeleted, resumed, unsaved, overwritten>>

AfterDelete == [tree |-> "result", result |-> "task", task |-> "write"]

(* Mutant: the task is deleted before its results. *)
RemoveTaskIDTaskFirst(t) ==
  LET next == [tree |-> "task", task |-> "result", result |-> "write"]
      doc == analyzer[t].pc
  IN /\ doc \in Docs
     /\ left' = [left EXCEPT ![t] = @ \ {doc}]
     /\ analyzer' = [analyzer EXCEPT ![t].pc = next[doc]]
     /\ UNCHANGED <<record, cycler, faults, history>>

(* Mutant: nothing but the tree is deleted. *)
RemoveTaskIDTree(t) ==
  LET doc == analyzer[t].pc
  IN /\ doc \in Docs
     /\ left' = [left EXCEPT ![t] = @ \ {"tree"}]
     /\ analyzer' = [analyzer EXCEPT ![t].pc = AfterDelete[doc]]
     /\ UNCHANGED <<record, cycler, faults, history>>

RemoveTaskID(t) ==
  LET doc == analyzer[t].pc
  IN /\ doc \in Docs
     /\ left' = [left EXCEPT ![t] = @ \ {doc}]
     /\ analyzer' = [analyzer EXCEPT ![t].pc = AfterDelete[doc]]
     /\ UNCHANGED <<record, cycler, faults, history>>

\* A deletion that fails ends RemoveTaskID, and its caller goes on.
DeleteError(t) ==
  /\ faults < MaxFaults
  /\ faults' = faults + 1
  /\ analyzer[t].pc \in Docs
  /\ analyzer' = [analyzer EXCEPT ![t].pc = "write"]
  /\ undeleted' = undeleted \cup {t}
  /\ UNCHANGED <<record, left, cycler, resumed, unsaved, overwritten, abandoned>>

\* The other activities with a copy of the record miss the write of t's analysis.
Missing(holder, t) ==
  IF holder.pc \in Docs \cup {"write"}
  THEN [holder EXCEPT !.missed = @ \cup {t}]
  ELSE holder

(* Mutant: the copy written back is the one without the new samples. *)
UpdateTaskUnprocessed(t) ==
  /\ analyzer[t].pc = "write"
  /\ analyzer' = [u \in Tasks |-> IF u = t THEN At("written") ELSE Missing(analyzer[u], t)]
  /\ cycler' = Missing(cycler, t)
  /\ overwritten' = overwritten \cup analyzer[t].missed
  /\ UNCHANGED <<record, left, faults, undeleted, resumed, unsaved, abandoned>>

UpdateTask(t) ==
  /\ analyzer[t].pc = "write"
  /\ record' = analyzer[t].copy
  /\ analyzer' = [u \in Tasks |-> IF u = t THEN At("written") ELSE Missing(analyzer[u], t)]
  /\ cycler' = Missing(cycler, t)
  /\ overwritten' = overwritten \cup analyzer[t].missed
  /\ UNCHANGED <<left, faults, undeleted, resumed, unsaved, abandoned>>

Complete(t) ==
  /\ analyzer[t].pc = "written"
  /\ analyzer' = [analyzer EXCEPT ![t].pc = "done"]
  /\ UNCHANGED <<record, left, cycler, faults, history>>

\* The worker dies, UpdateTask returns an error or the completion is lost: the
\* activity is run again from the start.
Retry(t) ==
  /\ faults < MaxFaults
  /\ faults' = faults + 1
  /\ analyzer[t].pc \in Docs \cup {"write", "written"}
  /\ analyzer' = [analyzer EXCEPT ![t] = At("ready")]
  /\ resumed' = resumed \cup {u \in {t} : "result" \notin left[t] /\ "task" \in left[t]}
  /\ unsaved' = unsaved \cup {u \in {t} : "result" \notin left[t] /\ analyzer[t].pc # "written"}
  /\ UNCHANGED <<record, left, cycler, undeleted, overwritten, abandoned>>

-----------------------------------------------------------------------------
(***************************************************************************)
(* AnalyzeNode: updateTasksNode.                                           *)
(***************************************************************************)
CycleTask ==
  /\ cycler.pc = "ready"
  /\ cycler' = [pc |-> "write", copy |-> record, missed |-> {}]
  /\ UNCHANGED <<record, left, analyzer, faults, history>>

\* The record is written back whether its indexes were cycled or not.
UpdateCycled ==
  /\ cycler.pc = "write"
  /\ record' = cycler.copy
  /\ cycler' = At("ready")
  /\ overwritten' = overwritten \cup cycler.missed
  /\ UNCHANGED <<left, analyzer, faults, undeleted, resumed, unsaved, abandoned>>

CycleError ==
  /\ faults < MaxFaults
  /\ faults' = faults + 1
  /\ cycler.pc = "write"
  /\ cycler' = At("ready")
  /\ UNCHANGED <<record, left, analyzer, history>>

AnalyzeResult(t) ==
  \/ LoadTask(t)
  \/ TaskNotFound(t)
  \/ RemoveTaskID(t)
  \/ UpdateTask(t)
  \/ Complete(t)

AnalyzeNode == CycleTask \/ UpdateCycled

Finished == \A t \in Tasks : analyzer[t].pc \in {"done", "failed"}

Next ==
  \/ \E t \in Tasks : AnalyzeResult(t) \/ Abandon(t) \/ DeleteError(t) \/ Retry(t)
  \/ AnalyzeNode
  \/ CycleError

Spec == Init /\ [][Next]_vars

\* The server runs an activity until it succeeds or fails for good; AnalyzeNode
\* owes nothing here.
Fairness == \A t \in Tasks : WF_vars(AnalyzeResult(t))

FairSpec == Spec /\ Fairness

-----------------------------------------------------------------------------
(* The type invariant. *)
TypeOK ==
  /\ record \in Record
  /\ left \in [Tasks -> SUBSET Docs]
  /\ analyzer \in [Tasks -> Holder(Places)]
  /\ cycler \in Holder({"ready", "write"})
  /\ faults \in 0 .. MaxFaults
  /\ undeleted \in SUBSET Tasks
  /\ resumed \in SUBSET Tasks
  /\ unsaved \in SUBSET Tasks
  /\ overwritten \in SUBSET Tasks
  /\ abandoned \in SUBSET Tasks

(* RemoveTaskID leaves nothing that cannot be found again: the task goes    *)
(* last.  An analysis that ended left nothing, unless a deletion failed or  *)
(* it failed for good on reading the task, half way through or before.      *)
NothingOrphaned ==
  \A t \in Tasks :
    /\ "task" \notin left[t] => left[t] = {}
    /\ analyzer[t].pc \in {"done", "failed"} /\ left[t] # {} => t \in undeleted \cup abandoned

(* A result is counted in the record more than once only if one of its      *)
(* deletions failed, after which a lost attempt finds it again.             *)
CountedOnce == \A t \in Tasks : record.samples[t] > 1 => t \in undeleted

(* The samples of a result whose analysis ended are in the record, unless   *)
(* an attempt was lost between the deletion of the result and the write, or *)
(* another activity wrote a copy it had loaded before, or the analysis was  *)
(* abandoned with the result still in the database.                         *)
AnalyzedIsStored ==
  \A t \in Tasks :
    /\ analyzer[t].pc \in {"written", "done", "failed"}
    /\ ResultOf[t] = "samples"
    => \/ record.samples[t] > 0
       \/ t \in unsaved \cup overwritten
       \/ t \in abandoned /\ analyzer[t].pc = "failed" /\ "result" \in left[t]

(* LastHeight is that of a result as soon as the record holds samples,      *)
(* unless an analysis was run again for a result already deleted.           *)
HeightOfAResult ==
  (\E t \in Tasks : record.samples[t] > 0) /\ record.height = 0 => resumed # {}

(* Every analysis ends in the end: done, or finding that an attempt before  *)
(* it deleted every document of the task, unless it was abandoned.  What    *)
(* the record then holds is AnalyzedIsStored.                               *)
EventuallyAnalyzed ==
  \A t \in Tasks :
    <>(\/ analyzer[t].pc = "done"
       \/ analyzer[t].pc = "failed" /\ left[t] = {}
       \/ t \in abandoned)

-----------------------------------------------------------------------------
(* What the repository says and the code does not do.                       *)

(* updateTasksNode: "Checks for node's tasks records and drops old ones":   *)
(* no sample here is old, so its write drops none.                          *)
DropsOnlyOld ==
  [][UpdateCycled => \A t \in Tasks : record'.samples[t] >= record.samples[t]]_vars
=============================================================================
