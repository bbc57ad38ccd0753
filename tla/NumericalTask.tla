--------------------------- MODULE NumericalTask ---------------------------
(***************************************************************************)
(* The record of a numerical task (NumericalTaskRecord in                  *)
(* apps/go/manager/records/task.go).  AnalyzeResult inserts the samples of *)
(* a result one by one and then processes the data into the metrics.  One  *)
(* activity works on the record at a time here.                            *)
(***************************************************************************)
EXTENDS TaskBuffer

VARIABLE metrics  (* Which sample ids the mean and the error rate stand for. *)

vars == <<buffer, samples, now, pc, total, metrics>>

Init ==
  /\ BufferInit
  /\ metrics = [mean |-> {}, errors |-> {}]

Tick ==
  /\ BufferTick
  /\ UNCHANGED metrics

InsertSample(status) ==
  /\ pc \in {"idle", "inserting"}
  /\ pc' = "inserting"
  /\ IF status \in Kept THEN Store(status)
                        ELSE UNCHANGED <<buffer, samples, now, total>>
  /\ UNCHANGED metrics

(***************************************************************************)
(* ProcessData.  With exactly one OK sample the code reads the score of    *)
(* the slot at Indexes.Start, whatever that slot holds.                    *)
(***************************************************************************)
Ids(slots) == {samples[i].id : i \in slots}

OkIndexes    == {i \in ValidIndexes(buffer) : samples[i].status = "Ok"}
ErrorIndexes == ValidIndexes(buffer) \ OkIndexes

(* Mutant: the scores of the samples in error are averaged as well. *)
AveragedIndexesAll == ValidIndexes(buffer)

AveragedIndexes ==
  IF Cardinality(OkIndexes) = 1 THEN {buffer.start} ELSE OkIndexes

ProcessData ==
  /\ pc \in {"idle", "inserting"}
  /\ pc' = "idle"
  /\ metrics' = [mean |-> Ids(AveragedIndexes), errors |-> Ids(ErrorIndexes)]
  /\ UNCHANGED <<buffer, samples, now, total>>

CycleIndexes ==
  /\ BufferCycle
  /\ UNCHANGED metrics

Next ==
  \/ Tick
  \/ \E status \in Statuses : InsertSample(status)
  \/ ProcessData
  \/ CycleIndexes

Spec == Init /\ [][Next]_vars

(***************************************************************************)
(* The Manager schedule runs AnalyzeNode on every node every two minutes   *)
(* whatever results arrive in between, so a cycle that is possible again   *)
(* and again happens; an AnalyzeResult that started inserting goes on to   *)
(* process.                                                                *)
(***************************************************************************)
Fairness == SF_vars(CycleIndexes) /\ WF_vars(ProcessData)

FairSpec == Spec /\ Fairness

-----------------------------------------------------------------------------
(* The type invariant. *)
TypeOK ==
  /\ BufferTypeOK
  /\ metrics \in [mean: SUBSET Nat, errors: SUBSET Nat]

(* A cycle drops the stale samples: the only one that may be left is the    *)
(* last of the window, on which the loop breaks.                            *)
CycleKeepsOneStaleAtMost ==
  [][ CycleIndexes /\ pc' = "idle" =>
        \A i \in ValidIndexes(buffer') :
          Stale(buffer', i, now) => buffer'.start = i /\ buffer'.end = i ]_vars

(* Once data is processed, every live sample counts exactly once, in the    *)
(* mean or in the error rate, and nothing else does.  The case of one OK    *)
(* sample is LoneSampleIsTheMean.                                           *)
MetricsCoverWindow ==
  [][ ProcessData /\ Cardinality(OkIndexes) # 1 =>
        /\ metrics'.mean \cup metrics'.errors = Ids(ValidIndexes(buffer))
        /\ metrics'.mean \cap metrics'.errors = {}
        /\ Cardinality(metrics'.mean \cup metrics'.errors) = Cardinality(ValidIndexes(buffer)) ]_vars

(* Every stale sample is eventually out of the window or replaced.          *)
Outdated(id) ==
  \E i \in ValidIndexes(buffer) : samples[i].id = id /\ Stale(buffer, i, now)

StaleDropped == \A id \in 1 .. MaxInserts : Outdated(id) ~> ~Outdated(id)

(* Every behaviour of the record is one of the first-in first-out window.   *)
ImplementsWindow == Window!Spec

-----------------------------------------------------------------------------
(* What the repository says and the code does not do.                       *)

(* README of the Manager: "Re-calculate task metrics rolling averages".     *)
(* The average of one OK sample is that sample's score.                     *)
LoneSampleIsTheMean ==
  [][ ProcessData /\ Cardinality(OkIndexes) = 1 => metrics'.mean = Ids(OkIndexes) ]_vars

(* "Returns the number of valid samples in the circular buffer" (task.go,   *)
(* GetNumSamples), and circular_buffer_test.go asserts that it is the       *)
(* number of valid indexes.                                                 *)
GetNumSamplesIsValid == buffer.num = Cardinality(ValidIndexes(buffer))
=============================================================================
