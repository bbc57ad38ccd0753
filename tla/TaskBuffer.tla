----------------------------- MODULE TaskBuffer -----------------------------
(***************************************************************************)
(* What the records of numerical and of signature tasks have in common     *)
(* (apps/go/manager/records/task.go): a circular buffer and the samples in *)
(* its slots, as the two Manager activities drive them.  AnalyzeResult     *)
(* inserts samples, AnalyzeNode cycles the indexes, one StepIndex per      *)
(* iteration of CycleIndexes.                                              *)
(***************************************************************************)
EXTENDS CircularBuffer, Sequences

CONSTANTS
  Statuses,   (* The status codes the evaluator gives samples.            *)
  MaxNow,     (* Bound on the clock.                                      *)
  MaxInserts  (* Bound on the number of accepted samples.                 *)

ASSUME StatusesAssumption == "Ok" \in Statuses
ASSUME BoundsAssumption == MaxNow \in Nat \ {0} /\ MaxInserts \in Nat

VARIABLES
  buffer,   (* CircBuffer                                                 *)
  samples,  (* ScoresSamples or Signatures, by slot                       *)
  now,
  pc,       (* What an activity is in the middle of doing with the record *)
  total     (* History: how many samples were accepted so far.            *)

\* A sample is kept when it is OK or when its error is the node's.
Kept == Statuses \cap {"Ok", "Node", "Evaluation"}

\* The zero value of a sample: its status code 0 is Ok.
NoSample == [id |-> 0, status |-> "Ok"]

Sample == [id: Nat, status: Kept]

BufferInit ==
  /\ buffer = EmptyBuffer
  /\ samples = [i \in Slots |-> NoSample]
  /\ now = 1
  /\ pc = "idle"
  /\ total = 0

BufferTick ==
  /\ now < MaxNow
  /\ now' = now + 1
  /\ UNCHANGED <<buffer, samples, pc, total>>

Store(status) ==
  /\ total < MaxInserts
  /\ total' = total + 1
  /\ buffer' = Insert(buffer, now)
  /\ samples' = [samples EXCEPT ![buffer'.end] = [id |-> total', status |-> status]]
  /\ UNCHANGED now

(* Mutant: CycleIndexes moves the start once, as if it did not loop. *)
BufferCycleOnce ==
  /\ pc = "idle"
  /\ Stale(buffer, buffer.start, now)
  /\ buffer' = StepStart(buffer)
  /\ UNCHANGED <<samples, now, pc, total>>

(***************************************************************************)
(* One iteration of CycleIndexes, the test before the loop included.       *)
(***************************************************************************)
BufferCycle ==
  /\ \/ pc = "idle" /\ Stale(buffer, buffer.start, now)
     \/ pc = "cycling"
  /\ buffer' = StepStart(buffer)
  /\ pc' = IF \/ buffer'.start = buffer'.end
              \/ ~Stale(buffer', buffer'.start, now)
           THEN "idle" ELSE "cycling"
  /\ UNCHANGED <<samples, now, total>>

-----------------------------------------------------------------------------
BufferTypeOK ==
  /\ buffer \in Buffer
  /\ samples \in [Slots -> Sample]
  /\ now \in Nat \ {0}
  /\ pc \in {"idle", "inserting", "cycling"}
  /\ total \in Nat

-----------------------------------------------------------------------------
(* The record implements the first-in first-out window of RollingWindow:    *)
(* the samples from the first written slot of the window to its end.        *)
Position(b, i) == IF b.start <= i THEN i - b.start ELSE i - b.start + CircBufferLen

Skipped(b) == IF Written(b, b.start) THEN 0 ELSE 1

LiveCount(b) == Position(b, b.end) + 1 - Skipped(b)

LiveSlot(b, k) ==
  LET i == b.start + Skipped(b) + k - 1
  IN  IF i < CircBufferLen THEN i ELSE i - CircBufferLen

LiveSample(k) ==
  LET i == LiveSlot(buffer, k)
  IN  [id |-> samples[i].id, time |-> buffer.times[i], status |-> samples[i].status]

Live == [k \in 1 .. LiveCount(buffer) |-> LiveSample(k)]

Window == INSTANCE RollingWindow WITH Capacity <- CircBufferLen, window <- Live
=============================================================================
