--------------------------- MODULE TriggerPolicy ----------------------------
(***************************************************************************)
(* How the Manager decides how many samples to ask of a node for one       *)
(* numerical test (apps/go/manager) and what becomes of the request.       *)
(*                                                                         *)
(* NodeManager runs on a schedule, never twice at a time.  AnalyzeNode     *)
(* counts the samples in the test's record, then the requests in queue     *)
(* (the tasks not done), and from both computes a trigger in uint32        *)
(* arithmetic; TriggerSampler then starts the Sampler, terminating one     *)
(* that still runs.  The Sampler commits a task for as many documents of   *)
(* the dataset.  The Requester marks the task done (TaskTree), and its     *)
(* result is analyzed into the record (ResultAnalysis): here a step each.  *)
(* The tests this one depends on are taken to be ok.                       *)
(***************************************************************************)
EXTENDS Naturals, FiniteSets, FiniteSetsExt

CONSTANTS
  MinSamples,     (* GetMinSamplesPerTask, the length of the buffer too.   *)
  MaxConcurrent,  (* GetMaxConcurrentSamplesPerTask.                       *)
  MinTrigger,     (* TriggerMinimum of the configuration.                  *)
  ScheduleBlocks, (* ScheduleLimits, in blocks.                            *)
  DatasetSize,    (* Documents the Sampler chooses from.                   *)
  UintSize,       (* 2^32.                                                 *)
  Ids,            (* Bounds the tasks in the database at one time.         *)
  MaxHeight,      (* Bound on the block height.                            *)
  MaxFaults       (* Bound on failures, repeated attempts and expiries.    *)

ASSUME LimitsAssumption ==
  /\ MinSamples \in Nat \ {0}
  /\ MaxConcurrent \in Nat \ {0}
  /\ MinTrigger \in 0 .. MaxConcurrent
  /\ ScheduleBlocks \in Nat
ASSUME SizesAssumption ==
  /\ DatasetSize \in Nat
  /\ MinSamples <= DatasetSize /\ MaxConcurrent <= DatasetSize
  /\ UintSize \in Nat /\ DatasetSize + MaxConcurrent < UintSize
ASSUME BoundsAssumption == MaxHeight \in Nat \ {0} /\ MaxFaults \in Nat /\ IsFiniteSet(Ids)

VARIABLES
  record,     (* GetNumSamples and LastHeight of the stored record         *)
  height,     (* Height of the last block                                  *)
  tasks,      (* The documents of collection tasks for the test            *)
  manager,    (* NodeManager: its place, the samples it counted, the qty   *)
              (* of its trigger                                            *)
  sampler,    (* Qty of the Sampler workflow that runs, 0 for none         *)
  terminated, (* Qty of a terminated one whose activity did not notice, or *)
              (* 0: it notices at a heartbeat, before the next schedule    *)
  faults,
  slips       (* History: what some count of the queue could not see       *)

vars == <<record, height, tasks, manager, sampler, terminated, faults, slips>>

Uint32 == 0 .. UintSize - 1

\* Subtraction of two of them wraps around below zero.
Minus(a, b) == IF a >= b THEN a - b ELSE a + UintSize - b

\* A document of collection tasks; the height is that of its last response.
Free == [status |-> "free", qty |-> 0, height |-> 0]
Task == [status: {"free", "pending", "done"}, qty: Uint32, height: 0 .. MaxHeight]

With(status) == {t \in Ids : tasks[t].status = status}
Qty(status) == MapThenSumSet(LAMBDA t : tasks[t].qty, With(status))

Idle == [pc |-> "idle", samples |-> 0, qty |-> 0]

Init ==
  /\ record = [samples |-> 0, height |-> 0]
  /\ height = 1
  /\ tasks = [t \in Ids |-> Free]
  /\ manager = Idle
  /\ sampler = 0
  /\ terminated = 0
  /\ faults = 0
  /\ slips = {}

Fault ==
  /\ faults < MaxFaults
  /\ faults' = faults + 1

-----------------------------------------------------------------------------
(***************************************************************************)
(* NodeManager and AnalyzeNode.                                            *)
(***************************************************************************)

\* Of a well-formed schedule: a test that ran within its limit of sessions or
\* blocks gets past both checks to the last return, which allows it too.
CheckTaskSchedule(block, last) == TRUE

(* Mutant: the minimum is met one sample early. *)
EnoughSamplesEarly(samples) == samples + 1 >= MinSamples

\* "Buffer filled and up to date".
EnoughSamples(samples) == samples >= MinSamples

\* Reads the record: whether the schedule allows the test and how many samples
\* it has.
ReadRecord ==
  /\ manager.pc = "idle"
  /\ CheckTaskSchedule(height, record.height)
  /\ ~EnoughSamples(record.samples) \/ MinTrigger > 0
  /\ manager' = [manager EXCEPT !.pc = "read", !.samples = record.samples]
  /\ UNCHANGED <<record, height, tasks, sampler, terminated, faults, slips>>

AtMost(n, limit) == IF n > limit THEN limit ELSE n
AtLeast(n, limit) == IF n < limit THEN limit ELSE n

(* Mutant: the requests in queue are not subtracted. *)
ReqNeededIgnoresQueue(samples, inQueue) ==
  AtLeast(AtMost(Minus(MinSamples, samples), MaxConcurrent), MinTrigger)

\* The samples missing, as many as can run at a time, less those in queue.
ReqNeeded(samples, inQueue) ==
  AtLeast(Minus(AtMost(Minus(MinSamples, samples), MaxConcurrent), inQueue), MinTrigger)

\* What a count of the queue does not see: requests a Sampler has yet to commit,
\* and done tasks whose samples are not in the record or were not when it was read.
Unseen ==
  {slip \in {"raced"} : sampler # 0 \/ terminated # 0}
  \cup {slip \in {"blind"} : With("done") # {} \/ record.samples # manager.samples}

Trigger(req) ==
  IF req > 0 THEN [pc |-> "trigger", samples |-> 0, qty |-> req] ELSE Idle

(* Mutant: the limit of concurrent requests is not compared with the queue. *)
ReadQueueUncapped ==
  /\ manager.pc = "read"
  /\ manager' = Trigger(ReqNeeded(manager.samples, 0))
  /\ slips' = slips \cup Unseen
  /\ UNCHANGED <<record, height, tasks, sampler, terminated, faults>>

\* Counts the requests in queue and decides on a trigger.
ReadQueue ==
  /\ manager.pc = "read"
  /\ \E inQueue \in {Qty("pending")} \cap Uint32 :
       manager' = IF MaxConcurrent > inQueue
                  THEN Trigger(ReqNeeded(manager.samples, inQueue))
                  ELSE Idle
  /\ slips' = slips \cup Unseen
  /\ UNCHANGED <<record, height, tasks, sampler, terminated, faults>>

\* WORKFLOW_ID_REUSE_POLICY_TERMINATE_IF_RUNNING: the id is that of the test.
Restart(qty) ==
  /\ sampler' = qty
  /\ terminated' = IF sampler = 0 THEN terminated ELSE sampler

TriggerSampler ==
  /\ manager.pc = "trigger"
  /\ manager' = Idle
  /\ Restart(manager.qty)
  /\ UNCHANGED <<record, height, tasks, faults, slips>>

\* The workflow is started but the activity's completion is lost: it is run again.
TriggerSamplerAgain ==
  /\ Fault
  /\ manager.pc = "trigger"
  /\ Restart(manager.qty)
  /\ slips' = slips \cup {"repeated"}
  /\ UNCHANGED <<record, height, tasks, manager>>

\* The analysis of any node fails: NodeManager ends and starts no Sampler.
NodeManagerFails ==
  /\ Fault
  /\ manager.pc # "idle"
  /\ manager' = Idle
  /\ UNCHANGED <<record, height, tasks, sampler, terminated, slips>>

-----------------------------------------------------------------------------
(***************************************************************************)
(* The Sampler.                                                            *)
(***************************************************************************)

NewTask(qty) ==
  /\ With("free") # {}
  /\ LET t == CHOOSE id \in With("free") : TRUE
     IN tasks' = [tasks EXCEPT ![t] = [status |-> "pending", qty |-> qty, height |-> 0]]

(* Mutant: any quantity is sampled. *)
SavedAll(qty) == NewTask(qty)

\* "Quantity of numbers to generate is greater than the range": not retried.
Saved(qty) == IF qty > DatasetSize THEN UNCHANGED tasks ELSE NewTask(qty)

SamplerCommits ==
  /\ sampler # 0
  /\ Saved(sampler)
  /\ sampler' = 0
  /\ UNCHANGED <<record, height, manager, terminated, faults, slips>>

\* The attempt is lost after its commit, and the second one commits as well.
SamplerRepeats ==
  /\ Fault
  /\ sampler # 0
  /\ Saved(sampler)
  /\ slips' = slips \cup {"repeated"}
  /\ UNCHANGED <<record, height, manager, sampler, terminated>>

SamplerFails ==
  /\ Fault
  /\ sampler # 0
  /\ sampler' = 0
  /\ UNCHANGED <<record, height, tasks, manager, terminated, slips>>

\* The activity of a terminated Sampler notices, or its commit is first.
TerminatedEnds ==
  /\ terminated # 0
  /\ UNCHANGED tasks \/ Saved(terminated)
  /\ terminated' = 0
  /\ UNCHANGED <<record, height, manager, sampler, faults, slips>>

-----------------------------------------------------------------------------
(***************************************************************************)
(* The rest of the pipeline, a step for each task.                         *)
(***************************************************************************)
MarkDone(t) ==
  /\ tasks[t].status = "pending"
  /\ tasks' = [tasks EXCEPT ![t].status = "done", ![t].height = height]
  /\ UNCHANGED <<record, height, manager, sampler, terminated, faults, slips>>

\* The buffer keeps the last MinSamples samples.
AnalyzeResult(t) ==
  /\ tasks[t].status = "done"
  /\ record' = [samples |-> AtMost(record.samples + tasks[t].qty, MinSamples),
                height  |-> tasks[t].height]
  /\ tasks' = [tasks EXCEPT ![t] = Free]
  /\ UNCHANGED <<height, manager, sampler, terminated, faults, slips>>

\* A result of status other than 0, or one that was lost or never comes.
AnalyzeFailedResult(t) ==
  /\ Fault
  /\ tasks[t].status = "done"
  /\ tasks' = [tasks EXCEPT ![t] = Free]
  /\ UNCHANGED <<record, height, manager, sampler, terminated, slips>>

\* Samples grow old and updateTasksNode drops them.
Expire ==
  /\ Fault
  /\ \E n \in 0 .. record.samples :
       record' = [record EXCEPT !.samples = n]
  /\ UNCHANGED <<height, tasks, manager, sampler, terminated, slips>>

NewBlock ==
  /\ height < MaxHeight
  /\ height' = height + 1
  /\ UNCHANGED <<record, tasks, manager, sampler, terminated, faults, slips>>

Next ==
  \/ ReadRecord \/ ReadQueue
  \/ TriggerSampler \/ TriggerSamplerAgain \/ NodeManagerFails
  \/ SamplerCommits \/ SamplerRepeats \/ SamplerFails \/ TerminatedEnds
  \/ \E t \in Ids : MarkDone(t) \/ AnalyzeResult(t) \/ AnalyzeFailedResult(t)
  \/ Expire
  \/ NewBlock

Spec == Init /\ [][Next]_vars

\* A trigger ends the Sampler that the one before it started.
Terminates == TriggerSampler /\ sampler # 0

\* NodeManager is on a schedule, and done tasks are evaluated and analyzed.  A
\* Sampler that triggers leave alone commits, one that is slower than they are may
\* never do.  Nothing is owed for a pending task, which nobody may ever mark done.
Fairness ==
  /\ WF_vars(ReadRecord)
  /\ WF_vars(ReadQueue)
  /\ WF_vars(TriggerSampler)
  /\ WF_vars(TerminatedEnds)
  /\ WF_vars(SamplerCommits) \/ []<><<Terminates>>_vars
  /\ \A t \in Ids : WF_vars(AnalyzeResult(t))

FairSpec == Spec /\ Fairness

-----------------------------------------------------------------------------
(* The type invariant. *)
TypeOK ==
  /\ record \in [samples: 0 .. MinSamples, height: 0 .. MaxHeight]
  /\ height \in 0 .. MaxHeight
  /\ tasks \in [Ids -> Task]
  /\ manager \in [pc: {"idle", "read", "trigger"}, samples: 0 .. MinSamples, qty: Uint32]
  /\ sampler \in Uint32
  /\ terminated \in Uint32
  /\ faults \in 0 .. MaxFaults
  /\ slips \in SUBSET {"raced", "blind", "repeated"}

(* No task asks for more than may run at a time: a trigger whose quantity   *)
(* went below zero starts a Sampler that commits nothing.                   *)
TaskWithinLimit == \A t \in Ids : tasks[t].qty <= MaxConcurrent

(* The requests in queue stay within the limit of concurrent ones, unless   *)
(* one was repeated or a Sampler had requests to commit when the queue was  *)
(* counted.                                                                 *)
QueueWithinLimit ==
  slips \cap {"raced", "repeated"} = {} => Qty("pending") <= MaxConcurrent

(* What is asked for is what the buffer lacks: no sample is asked for that  *)
(* would push out a recent one, unless a count missed some (MinTrigger = 0).*)
RequestsFit ==
  slips = {} => record.samples + Qty("pending") + Qty("done") <= MinSamples

(* A test's buffer is always filled again, whatever was lost, unless a task *)
(* stays pending for ever or triggers end one slow Sampler after the other. *)
AlwaysRefilled ==
  \/ []<>(record.samples = MinSamples)
  \/ \E t \in Ids : <>[](tasks[t].status = "pending")
  \/ []<><<Terminates>>_vars

-----------------------------------------------------------------------------
(* What the repository says and the code does not do.                       *)

(* README: "The trigger process must include limits to avoid clogging the   *)
(* Requester app": no trigger asks for more than may run at a time.         *)
TriggerWithinLimit == manager.qty <= MaxConcurrent

(* CheckTaskSchedule: "checks whether the triggering the task will break    *)
(* the schedule limits or not (i.e. trigger twice in the same session)".    *)
RespectsSchedule ==
  [][manager.pc = "idle" /\ manager'.pc = "read" /\ record.height > 0
       => height - record.height >= ScheduleBlocks]_vars
=============================================================================
