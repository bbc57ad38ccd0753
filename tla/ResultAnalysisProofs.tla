------------------------ MODULE ResultAnalysisProofs ------------------------
(***************************************************************************)
(* What ResultAnalysis keeps for any number of tasks, results and faults.  *)
(***************************************************************************)
EXTENDS ResultAnalysis, TLAPS

\* What processing a result does to the record, case by case.
LEMMA ProcessedCases ==
  ASSUME TypeOK, NEW t \in Tasks
  PROVE /\ Processed(t) \in Record
        /\ \A u \in Tasks : u # t => Processed(t).samples[u] = record.samples[u]
        /\ Processed(t).samples[t] \in {record.samples[t], record.samples[t] + 1}
        /\ "result" \notin left[t] => Processed(t).samples[t] = record.samples[t]
        /\ "result" \in left[t] /\ ResultOf[t] = "samples" =>
             Processed(t).samples[t] = record.samples[t] + 1
        /\ "result" \in left[t] /\ Processed(t).height = 0 => Processed(t) = record
  <1> USE ResultAssumption, MaxFaultsAssumption DEF ResultAssumption
  <1>0. record \in Record /\ left[t] \in SUBSET Docs BY DEF TypeOK
  <1>1. CASE "result" \notin left[t]
    <2>1. Processed(t) = [record EXCEPT !.height = 0] BY <1>1 DEF Processed
    <2> QED BY <1>0, <1>1, <2>1 DEF Record
  <1>2. CASE "result" \in left[t] /\ ResultOf[t] = "failed"
    <2>1. Processed(t) = record BY <1>2 DEF Processed
    <2> QED BY <1>0, <1>2, <2>1 DEF Record
  <1>3. CASE "result" \in left[t] /\ ResultOf[t] = "samples"
    <2>1. Processed(t) = [samples |-> [record.samples EXCEPT ![t] = @ + 1], height |-> Height[t]]
      BY <1>3 DEF Processed
    <2> QED BY <1>0, <1>3, <2>1 DEF Record
  <1>4. CASE "result" \in left[t] /\ ResultOf[t] = "empty"
    <2>1. Processed(t) = [samples |-> [record.samples EXCEPT ![t] = @], height |-> Height[t]]
      BY <1>4 DEF Processed
    <2> QED BY <1>0, <1>4, <2>1 DEF Record
  <1> QED BY <1>1, <1>2, <1>3, <1>4

(* A holder that misses a sample keeps its copy and its place. *)
LEMMA MissingHolder ==
  ASSUME NEW places, NEW h \in Holder(places), NEW t \in Tasks
  PROVE /\ Missing(h, t) \in Holder(places)
        /\ Missing(h, t).pc = h.pc
        /\ Missing(h, t).copy = h.copy
        /\ h.missed \subseteq Missing(h, t).missed
        /\ h.pc \in Docs \cup {"write"} => t \in Missing(h, t).missed
  BY DEF Missing, Holder

(* A holder that begins at a place has the record of a new task. *)
LEMMA AtHolder ==
  ASSUME NEW places, NEW place \in places
  PROVE /\ At(place) \in Holder(places)
        /\ At(place).pc = place
        /\ At(place).copy = NewTask
        /\ NewTask \in Record
        /\ \A t \in Tasks : NewTask.samples[t] = 0
  BY DEF At, Holder, NewTask, Record

(* Type correctness.                                                        *)
LEMMA TypeStep == ASSUME TypeOK, [Next]_vars PROVE TypeOK'
  <1> USE ResultAssumption, MaxFaultsAssumption DEF MaxFaultsAssumption
  <1>1. ASSUME NEW t \in Tasks, LoadTask(t) PROVE TypeOK'
    <2>1. Processed(t) \in Record BY ProcessedCases
    <2>2. [pc |-> "tree", copy |-> Processed(t), missed |-> {}] \in Holder(Places)
      BY <2>1 DEF Holder, Places
    <2> QED BY <1>1, <2>2 DEF LoadTask, TypeOK, history
  <1>2. ASSUME NEW t \in Tasks, TaskNotFound(t) PROVE TypeOK'
    <2>1. At("failed") \in Holder(Places) BY AtHolder DEF Places
    <2> QED BY <1>2, <2>1 DEF TaskNotFound, TypeOK, history
  <1>3. ASSUME NEW t \in Tasks, RemoveTaskID(t) PROVE TypeOK'
    <2>1. /\ analyzer[t].pc \in Docs
          /\ left' = [left EXCEPT ![t] = @ \ {analyzer[t].pc}]
          /\ analyzer' = [analyzer EXCEPT ![t].pc = AfterDelete[analyzer[t].pc]]
          /\ UNCHANGED <<record, cycler, faults, history>>
      BY <1>3 DEF RemoveTaskID
    <2>2. AfterDelete[analyzer[t].pc] \in Places BY <2>1 DEF AfterDelete, Docs, Places
    <2>3. analyzer' \in [Tasks -> Holder(Places)] BY <2>1, <2>2 DEF TypeOK, Holder
    <2> QED BY <2>1, <2>3 DEF TypeOK, history
  <1>4. ASSUME NEW t \in Tasks, UpdateTask(t) PROVE TypeOK'
    <2>1. At("written") \in Holder(Places) BY AtHolder DEF Places
    <2>2. \A u \in Tasks : Missing(analyzer[u], t) \in Holder(Places) BY MissingHolder DEF TypeOK
    <2>3. Missing(cycler, t) \in Holder({"ready", "write"}) BY MissingHolder DEF TypeOK
    <2>4. analyzer[t].copy \in Record /\ analyzer[t].missed \in SUBSET Tasks BY DEF TypeOK, Holder
    <2> QED BY <1>4, <2>1, <2>2, <2>3, <2>4 DEF UpdateTask, TypeOK
  <1>5. ASSUME NEW t \in Tasks, Complete(t) PROVE TypeOK'
    BY <1>5 DEF Complete, TypeOK, Holder, Places, history
  <1>6. ASSUME NEW t \in Tasks, DeleteError(t) PROVE TypeOK'
    BY <1>6 DEF DeleteError, TypeOK, Holder, Places
  <1>7. ASSUME NEW t \in Tasks, Retry(t) PROVE TypeOK'
    <2>1. At("ready") \in Holder(Places) BY AtHolder DEF Places
    <2> QED BY <1>7, <2>1 DEF Retry, TypeOK
  <1>8. ASSUME CycleTask PROVE TypeOK'
    BY <1>8 DEF CycleTask, TypeOK, Holder, history
  <1>9. ASSUME UpdateCycled PROVE TypeOK'
    <2>1. At("ready") \in Holder({"ready", "write"}) BY AtHolder
    <2>2. cycler.copy \in Record /\ cycler.missed \in SUBSET Tasks BY DEF TypeOK, Holder
    <2> QED BY <1>9, <2>1, <2>2 DEF UpdateCycled, TypeOK
  <1>10. ASSUME CycleError PROVE TypeOK'
    <2>1. At("ready") \in Holder({"ready", "write"}) BY AtHolder
    <2> QED BY <1>10, <2>1 DEF CycleError, TypeOK, history
  <1>11. ASSUME NEW t \in Tasks, Abandon(t) PROVE TypeOK'
    <2>1. At("failed") \in Holder(Places) BY AtHolder DEF Places
    <2> QED BY <1>11, <2>1 DEF Abandon, TypeOK
  <1>12. ASSUME UNCHANGED vars PROVE TypeOK' BY <1>12 DEF vars, TypeOK
  <1> QED
    BY <1>1, <1>2, <1>3, <1>4, <1>5, <1>6, <1>7, <1>8, <1>9, <1>10, <1>11, <1>12
    DEF Next, AnalyzeResult, AnalyzeNode

(* The variables begin in their ranges. *)
LEMMA TypeInit == Init => TypeOK
  <1> USE ResultAssumption, MaxFaultsAssumption DEF MaxFaultsAssumption
  <1>1. NewTask \in Record BY DEF NewTask, Record
  <1>2. At("ready") \in Holder(Places) /\ At("ready") \in Holder({"ready", "write"})
    BY AtHolder DEF Places
  <1> QED BY <1>1, <1>2 DEF Init, TypeOK

\* Every state has the types TypeOK gives it, for any tasks, results and faults.
THEOREM TypeCorrect == Spec => []TypeOK
  BY TypeInit, TypeStep, PTL DEF Spec

-----------------------------------------------------------------------------
TaskStep(t) == AnalyzeResult(t) \/ Abandon(t) \/ DeleteError(t) \/ Retry(t)

\* What the analysis of a task leaves alone in the others.
LEMMA TaskStepFrame ==
  ASSUME TypeOK, NEW t \in Tasks, TaskStep(t)
  PROVE /\ \A u \in Tasks \ {t} : /\ analyzer'[u].pc = analyzer[u].pc
                                  /\ analyzer'[u].copy = analyzer[u].copy
                                  /\ analyzer[u].missed \subseteq analyzer'[u].missed
                                  /\ left'[u] = left[u]
        /\ cycler'.pc = cycler.pc /\ cycler'.copy = cycler.copy
        /\ cycler.missed \subseteq cycler'.missed
        /\ undeleted \subseteq undeleted' /\ undeleted' \subseteq undeleted \cup {t}
        /\ resumed \subseteq resumed'
        /\ unsaved \subseteq unsaved'
        /\ overwritten \subseteq overwritten'
        /\ abandoned \subseteq abandoned'
        /\ left'[t] \subseteq left[t]
  <1>1. CASE UpdateTask(t)
    <2>1. \A u \in Tasks \ {t} : analyzer'[u] = Missing(analyzer[u], t) BY <1>1 DEF UpdateTask, TypeOK
    <2>2. \A u \in Tasks : analyzer[u] \in Holder(Places) BY DEF TypeOK
    <2>3. \A u \in Tasks \ {t} : /\ analyzer'[u].pc = analyzer[u].pc
                                 /\ analyzer'[u].copy = analyzer[u].copy
                                 /\ analyzer[u].missed \subseteq analyzer'[u].missed
      BY <2>1, <2>2, MissingHolder
    <2>4. cycler \in Holder({"ready", "write"}) /\ cycler' = Missing(cycler, t)
      BY <1>1 DEF UpdateTask, TypeOK
    <2>5. /\ cycler'.pc = cycler.pc /\ cycler'.copy = cycler.copy
          /\ cycler.missed \subseteq cycler'.missed
      BY <2>4, MissingHolder
    <2> QED BY <1>1, <2>3, <2>5 DEF UpdateTask
  <1>2. CASE LoadTask(t) BY <1>2 DEF LoadTask, TypeOK, history
  <1>3. CASE TaskNotFound(t) BY <1>3 DEF TaskNotFound, TypeOK, history
  <1>4. CASE RemoveTaskID(t) BY <1>4 DEF RemoveTaskID, TypeOK, history
  <1>5. CASE Complete(t) BY <1>5 DEF Complete, TypeOK, history
  <1>6. CASE DeleteError(t) BY <1>6 DEF DeleteError, TypeOK
  <1>7. CASE Retry(t) BY <1>7 DEF Retry, TypeOK
  <1>8. CASE Abandon(t) BY <1>8 DEF Abandon, TypeOK
  <1> QED BY <1>1, <1>2, <1>3, <1>4, <1>5, <1>6, <1>7, <1>8 DEF TaskStep, AnalyzeResult

(* The steps of the node analysis leave the analyzers of tasks alone. *)
LEMMA NodeStepFrame ==
  ASSUME AnalyzeNode \/ CycleError
  PROVE UNCHANGED <<left, analyzer, undeleted, resumed, unsaved, abandoned>> /\ overwritten \subseteq overwritten'
  BY DEF AnalyzeNode, CycleTask, UpdateCycled, CycleError, history

-----------------------------------------------------------------------------
(***************************************************************************)
(* The order of the deletions.                                             *)
(***************************************************************************)
Order(t) ==
  /\ "task" \notin left[t] => left[t] = {}
  /\ analyzer[t].pc \in {"tree", "result", "task"} => "task" \in left[t]
  /\ analyzer[t].pc \in {"result", "task"} => "tree" \notin left[t]
  /\ analyzer[t].pc = "task" => "result" \notin left[t]
  /\ analyzer[t].pc \in {"write", "written", "done"} => left[t] = {} \/ t \in undeleted
  /\ analyzer[t].pc = "failed" => left[t] = {} \/ t \in abandoned

Ordered == \A t \in Tasks : Order(t)

(* At first every document is there. *)
LEMMA OrderedInit == Init => Ordered
  BY DEF Init, Ordered, Order, At, Docs

(* Every step keeps the order in which documents are deleted. *)
LEMMA OrderedStep == ASSUME TypeOK, Ordered, [Next]_vars PROVE Ordered'
  <1>1. ASSUME NEW t \in Tasks, TaskStep(t) PROVE Ordered'
    <2>1. ASSUME NEW u \in Tasks, u # t PROVE Order(u)'
      BY <1>1, <2>1, TaskStepFrame DEF Ordered, Order
    <2>2. Order(t)'
      <3>0. Order(t) /\ left[t] \in SUBSET Docs /\ t \in DOMAIN analyzer /\ t \in DOMAIN left
        BY DEF Ordered, TypeOK
      <3>1. CASE LoadTask(t) BY <3>0, <3>1 DEF LoadTask, Order, history
      <3>2. CASE TaskNotFound(t) BY <3>0, <3>2 DEF TaskNotFound, Order, At, history
      <3>3. CASE RemoveTaskID(t)
        <4>1. PICK doc \in Docs : doc = analyzer[t].pc BY <3>3 DEF RemoveTaskID
        <4>2. left'[t] = left[t] \ {doc} /\ undeleted' = undeleted BY <3>0, <3>3, <4>1 DEF RemoveTaskID, history
        <4>3. analyzer'[t].pc = AfterDelete[doc]
          BY <3>3, <4>1 DEF RemoveTaskID, TypeOK, Holder
        <4>4. CASE doc = "tree" BY <3>0, <4>1, <4>2, <4>3, <4>4 DEF Order, AfterDelete
        <4>5. CASE doc = "result" BY <3>0, <4>1, <4>2, <4>3, <4>5 DEF Order, AfterDelete
        <4>6. CASE doc = "task"
          <5>1. left'[t] = {} BY <3>0, <4>1, <4>2, <4>6 DEF Order, Docs
          <5> QED BY <4>3, <4>6, <5>1 DEF Order, AfterDelete
        <4> QED BY <4>4, <4>5, <4>6 DEF Docs
      <3>4. CASE UpdateTask(t) BY <3>0, <3>4 DEF UpdateTask, Order, At
      <3>5. CASE Complete(t) BY <3>0, <3>5 DEF Complete, Order, history, TypeOK, Holder
      <3>6. CASE DeleteError(t) BY <3>0, <3>6 DEF DeleteError, Order, TypeOK, Holder
      <3>7. CASE Retry(t) BY <3>0, <3>7 DEF Retry, Order, At
      <3>8. CASE Abandon(t) BY <3>0, <3>8 DEF Abandon, Order, At
      <3> QED BY <1>1, <3>1, <3>2, <3>3, <3>4, <3>5, <3>6, <3>7, <3>8 DEF TaskStep, AnalyzeResult
    <2> QED BY <2>1, <2>2 DEF Ordered
  <1>2. ASSUME AnalyzeNode \/ CycleError PROVE Ordered' BY <1>2, NodeStepFrame DEF Ordered, Order
  <1>3. ASSUME UNCHANGED vars PROVE Ordered' BY <1>3 DEF vars, Ordered, Order
  <1> QED BY <1>1, <1>2, <1>3 DEF Next, TaskStep

\* RemoveTaskID deletes the task last, and an analysis that ended leaves nothing
\* behind unless a deletion failed or it was abandoned on reading the task.
THEOREM NothingEverOrphaned == Spec => []NothingOrphaned
  <1>1. Ordered => NothingOrphaned BY DEF Ordered, Order, NothingOrphaned
  <1> QED BY <1>1, TypeCorrect, OrderedInit, OrderedStep, PTL DEF Spec

-----------------------------------------------------------------------------
(***************************************************************************)
(* Every result is counted once: while it can still be found and none of   *)
(* its deletions failed, no copy but its own analyzer's has its sample.    *)
(***************************************************************************)
Once(r, t) == r.samples[t] <= 1
None(r, t) == r.samples[t] = 0

Count(t) ==
  /\ Once(record, t) /\ Once(cycler.copy, t) /\ \A u \in Tasks : Once(analyzer[u].copy, t)
  /\ "result" \in left[t] => /\ None(record, t)
                             /\ None(cycler.copy, t)
                             /\ \A u \in Tasks \ {t} : None(analyzer[u].copy, t)

Counted == \A t \in Tasks \ undeleted : Count(t)

(* At first nothing is counted. *)
LEMMA CountedInit == Init => Counted
  <1> SUFFICES ASSUME Init, NEW t \in Tasks PROVE Count(t) BY DEF Counted
  <1>1. At("ready").copy = NewTask /\ NewTask.samples[t] = 0 BY DEF At, NewTask
  <1> QED BY <1>1 DEF Init, Count, Once, None

(* Every step keeps the counts of results explained. *)
LEMMA CountedStep == ASSUME TypeOK, Ordered, Counted, [Next]_vars PROVE Counted'
  <1>0. /\ record \in Record /\ cycler.copy \in Record
        /\ \A u \in Tasks : analyzer[u].copy \in Record
        /\ \A p \in {"ready", "written", "failed"} : At(p).copy = NewTask
        /\ NewTask \in Record /\ \A t \in Tasks : NewTask.samples[t] = 0
        /\ DOMAIN analyzer = Tasks
    BY DEF TypeOK, Holder, At, NewTask, Record
  <1>1. ASSUME NEW s \in Tasks, TaskStep(s), NEW t \in Tasks \ undeleted' PROVE Count(t)'
    <2>0. /\ Count(t)
          /\ "result" \in left'[t] => "result" \in left[t]
          /\ \A u \in Tasks \ {s} : analyzer'[u].copy = analyzer[u].copy
          /\ cycler'.copy = cycler.copy
      BY <1>1, TaskStepFrame DEF Counted
    <2>1. CASE LoadTask(s)
      <3>1. analyzer'[s].copy = Processed(s) /\ record' = record /\ left' = left
        BY <2>1, <1>0 DEF LoadTask
      <3>2. t # s => Processed(s).samples[t] = record.samples[t] BY ProcessedCases
      <3>3. t = s => \/ Processed(s).samples[t] = record.samples[t]
                     \/ "result" \in left[t] /\ Processed(s).samples[t] = record.samples[t] + 1
        BY ProcessedCases
      <3>4. Once(analyzer'[s].copy, t) /\ (t # s => Processed(s).samples[t] = record.samples[t])
        BY <2>0, <3>1, <3>2, <3>3 DEF Count, Once, None
      <3>5. t # s /\ "result" \in left[t] => None(analyzer'[s].copy, t)
        BY <2>0, <3>1, <3>2 DEF Count, None
      <3> QED BY <2>0, <3>1, <3>4, <3>5 DEF Count, Once, None
    <2>2. CASE UpdateTask(s)
      <3>1. analyzer'[s].copy = NewTask /\ record' = analyzer[s].copy /\ left' = left
        BY <2>2, <1>0 DEF UpdateTask
      <3>2. t = s => "result" \notin left[t]
        BY <1>1, <2>2 DEF UpdateTask, Ordered, Order
      <3> QED BY <2>0, <3>1, <3>2, <1>0 DEF Count, Once, None
    <2>3. CASE RemoveTaskID(s) \/ Complete(s) \/ DeleteError(s)
      <3>1. analyzer'[s].copy = analyzer[s].copy /\ record' = record
        BY <2>3 DEF RemoveTaskID, Complete, DeleteError, TypeOK, Holder
      <3> QED BY <2>0, <3>1 DEF Count, Once, None
    <2>4. CASE TaskNotFound(s) \/ Retry(s) \/ Abandon(s)
      <3>1. analyzer'[s].copy = NewTask /\ record' = record
        BY <2>4, <1>0 DEF TaskNotFound, Retry, Abandon
      <3> QED BY <2>0, <3>1, <1>0 DEF Count, Once, None
    <2> QED BY <1>1, <2>1, <2>2, <2>3, <2>4 DEF TaskStep, AnalyzeResult
  <1>2. ASSUME AnalyzeNode \/ CycleError, NEW t \in Tasks \ undeleted' PROVE Count(t)'
    <2>0. Count(t) /\ left' = left /\ analyzer' = analyzer BY <1>2, NodeStepFrame DEF Counted
    <2>1. record' \in {record, cycler.copy} /\ cycler'.copy \in {record, NewTask}
      BY <1>2, <1>0 DEF AnalyzeNode, CycleTask, UpdateCycled, CycleError
    <2> QED BY <2>0, <2>1, <1>0 DEF Count, Once, None
  <1>3. ASSUME UNCHANGED vars PROVE Counted' BY <1>3 DEF vars, Counted, Count, Once, None
  <1> QED BY <1>1, <1>2, <1>3 DEF Next, TaskStep, Counted

\* A result is counted once, unless one of its deletions failed.
THEOREM CountedOnceAlways == Spec => []CountedOnce
  <1>1. TypeOK /\ Counted => CountedOnce BY DEF Counted, Count, Once, CountedOnce, TypeOK, Record
  <1> QED BY <1>1, TypeCorrect, OrderedInit, OrderedStep, CountedInit, CountedStep, PTL DEF Spec

-----------------------------------------------------------------------------
(***************************************************************************)
(* What becomes of the samples of a result.                                *)
(***************************************************************************)
Holding(h) == h.pc \in Docs \cup {"write"}
Excused(t) == t \in unsaved \cup overwritten

\* The analysis of t wrote its copy for the last time, or will find no result.
Over(t) ==
  \/ analyzer[t].pc \in {"written", "done"}
  \/ analyzer[t].pc \in {"ready", "failed"} /\ "result" \notin left[t]

Aware(h, t) == Holding(h) => h.copy.samples[t] > 0 \/ t \in h.missed

Store(t) ==
  /\ Over(t) => /\ record.samples[t] > 0
                /\ Aware(cycler, t)
                /\ \A u \in Tasks \ {t} : Aware(analyzer[u], t)
  /\ Holding(analyzer[t]) => analyzer[t].copy.samples[t] > 0

Stored == \A t \in Tasks : ResultOf[t] = "samples" => Store(t) \/ Excused(t)

(* At first nothing is analyzed. *)
LEMMA StoredInit == Init => Stored
  BY DEF Init, Stored, Store, Over, Holding, At, Docs

(* Every step keeps the samples of analyzed results, or what explains their absence. *)
LEMMA StoredStep == ASSUME TypeOK, Ordered, Stored, [Next]_vars PROVE Stored'
  <1>0. /\ record \in Record /\ DOMAIN analyzer = Tasks
        /\ cycler \in Holder({"ready", "write"})
        /\ \A u \in Tasks : analyzer[u] \in Holder(Places)
    BY DEF TypeOK
  <1>1. ASSUME NEW s \in Tasks, TaskStep(s), NEW t \in Tasks, ResultOf[t] = "samples", ~Excused(t)'
        PROVE Store(t)'
    <2>0. /\ Store(t)
          /\ \A u \in Tasks \ {s} : /\ analyzer'[u].pc = analyzer[u].pc
                                     /\ analyzer'[u].copy = analyzer[u].copy
                                     /\ analyzer[u].missed \subseteq analyzer'[u].missed
                                     /\ left'[u] = left[u]
          /\ cycler'.pc = cycler.pc /\ cycler'.copy = cycler.copy
          /\ cycler.missed \subseteq cycler'.missed
      BY <1>1, TaskStepFrame DEF Stored, Excused
    <2>1. Aware(cycler, t) => Aware(cycler, t)' BY <2>0 DEF Aware, Holding
    <2>2. \A u \in Tasks \ {s} : Aware(analyzer[u], t) => Aware(analyzer'[u], t)
      BY <2>0 DEF Aware, Holding
    <2>3. ASSUME t # s PROVE Store(t)'
      <3>1. Over(t)' = Over(t) /\ Holding(analyzer[t])' = Holding(analyzer[t])
        BY <2>0, <2>3 DEF Over, Holding
      <3>2. Holding(analyzer[t])' => analyzer'[t].copy.samples[t] > 0 BY <2>0, <2>3, <3>1 DEF Store
      <3>3. ASSUME Over(t) PROVE record'.samples[t] > 0 /\ Aware(analyzer'[s], t)
        <4>0. record.samples[t] > 0 /\ Aware(analyzer[s], t) BY <2>0, <2>3, <3>3 DEF Store
        <4>1. CASE LoadTask(s)
          <5>1. analyzer'[s].copy = Processed(s) /\ record' = record BY <1>0, <4>1 DEF LoadTask
          <5>2. Processed(s).samples[t] = record.samples[t] BY <2>3, ProcessedCases
          <5> QED BY <4>0, <5>1, <5>2 DEF Aware
        <4>2. CASE UpdateTask(s)
          <5>1. analyzer'[s].pc = "written" /\ record' = analyzer[s].copy /\ Holding(analyzer[s])
            BY <1>0, <4>2 DEF UpdateTask, At, Holding
          <5>2. t \notin analyzer[s].missed BY <1>1, <4>2 DEF UpdateTask, Excused
          <5> QED BY <4>0, <5>1, <5>2 DEF Aware, Holding, Docs
        <4>3. CASE RemoveTaskID(s) \/ DeleteError(s)
          <5>1. /\ record' = record /\ Holding(analyzer[s])
                /\ analyzer'[s].copy = analyzer[s].copy /\ analyzer'[s].missed = analyzer[s].missed
            BY <1>0, <4>3 DEF RemoveTaskID, DeleteError, Holding, Holder
          <5> QED BY <4>0, <5>1 DEF Aware
        <4>4. CASE TaskNotFound(s) \/ Complete(s) \/ Retry(s) \/ Abandon(s)
          <5>1. record' = record /\ analyzer'[s].pc \in {"failed", "done", "ready"}
            BY <1>0, <4>4 DEF TaskNotFound, Complete, Retry, Abandon, At, Holder
          <5> QED BY <4>0, <5>1 DEF Aware, Holding, Docs
        <4> QED BY <1>1, <4>1, <4>2, <4>3, <4>4 DEF TaskStep, AnalyzeResult
      <3> QED BY <2>0, <2>1, <2>2, <3>1, <3>2, <3>3 DEF Store
    <2>4. ASSUME t = s PROVE Store(t)'
      <3>1. CASE LoadTask(t)
        <4>1. /\ analyzer'[t].pc = "tree" /\ analyzer'[t].copy = Processed(t)
              /\ analyzer[t].pc = "ready"
          BY <1>0, <3>1 DEF LoadTask
        <4>2. "result" \in left[t] => Processed(t).samples[t] = record.samples[t] + 1
          BY <1>1, ProcessedCases
        <4>3. "result" \notin left[t] => Processed(t).samples[t] = record.samples[t] /\ record.samples[t] > 0
          BY <2>0, <4>1, ProcessedCases DEF Store, Over
        <4>4. record.samples[t] \in Nat BY <1>0 DEF Record
        <4>5. analyzer'[t].copy.samples[t] > 0 BY <4>1, <4>2, <4>3, <4>4
        <4> QED BY <4>1, <4>5 DEF Store, Over
      <3>2. CASE UpdateTask(t)
        <4>1. /\ analyzer'[t].pc = "written" /\ record' = analyzer[t].copy
              /\ Holding(analyzer[t]) /\ cycler' = Missing(cycler, t)
              /\ \A u \in Tasks \ {t} : analyzer'[u] = Missing(analyzer[u], t)
          BY <1>0, <3>2 DEF UpdateTask, At, Holding
        <4>2. record'.samples[t] > 0 BY <2>0, <4>1 DEF Store
        <4>3. Aware(cycler', t)
          BY <1>0, <2>0, <4>1, MissingHolder DEF Aware, Holding
        <4>4. ASSUME NEW u \in Tasks \ {t} PROVE Aware(analyzer'[u], t)
          <5>1. analyzer[u] \in Holder(Places) /\ analyzer'[u] = Missing(analyzer[u], t)
            BY <1>0, <4>1
          <5> QED BY <5>1, MissingHolder DEF Aware, Holding
        <4>5. ~Holding(analyzer'[t]) BY <4>1 DEF Holding, Docs
        <4> QED BY <4>2, <4>3, <4>4, <4>5 DEF Store
      <3>3. CASE RemoveTaskID(t) \/ DeleteError(t)
        <4>1. /\ Holding(analyzer[t]) /\ analyzer'[t].copy = analyzer[t].copy
              /\ analyzer'[t].pc \in Docs \cup {"write"}
          BY <1>0, <3>3 DEF RemoveTaskID, DeleteError, Holding, Holder, AfterDelete, Docs
        <4> QED BY <2>0, <4>1 DEF Store, Over, Docs
      <3>4. CASE TaskNotFound(t)
        <4>1. /\ analyzer[t].pc = "ready" /\ analyzer'[t].pc = "failed" /\ record' = record
              /\ "result" \notin left[t]
          BY <1>0, <3>4 DEF TaskNotFound, At, Ordered, Order
        <4>2. \A u \in Tasks \ {t} : analyzer'[u] = analyzer[u]
          BY <1>0, <3>4 DEF TaskNotFound
        <4>3. Over(t) /\ ~Holding(analyzer'[t]) BY <4>1 DEF Over, Holding, Docs
        <4> QED BY <2>0, <2>1, <4>1, <4>2, <4>3 DEF Store, Aware
      <3>5. CASE Complete(t)
        <4>1. /\ analyzer[t].pc = "written" /\ analyzer'[t].pc = "done" /\ record' = record
              /\ \A u \in Tasks \ {t} : analyzer'[u] = analyzer[u]
          BY <1>0, <3>5 DEF Complete, Holder
        <4>2. Over(t) /\ ~Holding(analyzer'[t]) BY <4>1 DEF Over, Holding, Docs
        <4> QED BY <2>0, <2>1, <4>1, <4>2 DEF Store, Aware
      <3>6. CASE Retry(t)
        <4>1. /\ analyzer'[t].pc = "ready" /\ record' = record /\ left' = left
              /\ \A u \in Tasks \ {t} : analyzer'[u] = analyzer[u]
          BY <1>0, <3>6 DEF Retry, At
        <4>2. ~Holding(analyzer'[t]) BY <4>1 DEF Holding, Docs
        <4>3. "result" \notin left[t] => analyzer[t].pc = "written"
          BY <1>1, <2>4, <3>6 DEF Retry, Excused
        <4>4. Over(t)' => Over(t) BY <4>1, <4>3 DEF Over
        <4> QED BY <2>0, <2>1, <4>1, <4>2, <4>4 DEF Store, Aware
      <3>7. CASE Abandon(t)
        <4>1. /\ analyzer[t].pc = "ready" /\ analyzer'[t].pc = "failed" /\ record' = record
              /\ left' = left /\ \A u \in Tasks \ {t} : analyzer'[u] = analyzer[u]
          BY <1>0, <3>7 DEF Abandon, At
        <4>2. Over(t)' => Over(t) BY <4>1 DEF Over
        <4>3. ~Holding(analyzer'[t]) BY <4>1 DEF Holding, Docs
        <4> QED BY <2>0, <2>1, <4>1, <4>2, <4>3 DEF Store, Aware
      <3> QED BY <1>1, <2>4, <3>1, <3>2, <3>3, <3>4, <3>5, <3>6, <3>7 DEF TaskStep, AnalyzeResult
    <2> QED BY <2>3, <2>4
  <1>2. ASSUME AnalyzeNode \/ CycleError, NEW t \in Tasks, ResultOf[t] = "samples", ~Excused(t)'
        PROVE Store(t)'
    <2>0. Store(t) /\ analyzer' = analyzer /\ left' = left
      BY <1>2, NodeStepFrame DEF Stored, Excused
    <2>1. CASE CycleTask
      <3>1. record' = record /\ cycler'.copy = record BY <2>1 DEF CycleTask
      <3> QED BY <2>0, <3>1 DEF Store, Over, Aware
    <2>2. CASE UpdateCycled
      <3>1. record' = cycler.copy /\ Holding(cycler) /\ cycler'.pc = "ready"
        BY <2>2 DEF UpdateCycled, Holding, At
      <3>2. t \notin cycler.missed BY <1>2, <2>2 DEF UpdateCycled, Excused
      <3>3. Aware(cycler', t) BY <3>1 DEF Aware, Holding, Docs
      <3>4. Over(t) => record'.samples[t] > 0 BY <2>0, <3>1, <3>2 DEF Store, Aware
      <3> QED BY <2>0, <3>3, <3>4 DEF Store, Over, Aware
    <2>3. CASE CycleError
      <3>1. record' = record /\ cycler'.pc = "ready" BY <2>3 DEF CycleError, At
      <3>2. Aware(cycler', t) BY <3>1 DEF Aware, Holding, Docs
      <3> QED BY <2>0, <3>1, <3>2 DEF Store, Over, Aware
    <2> QED BY <1>2, <2>1, <2>2, <2>3 DEF AnalyzeNode
  <1>3. ASSUME UNCHANGED vars PROVE Stored'
    BY <1>3 DEF vars, Stored, Store, Over, Holding, Aware, Excused
  <1> QED BY <1>1, <1>2, <1>3 DEF Next, TaskStep, Stored

\* The samples of a result whose analysis ended are in the record unless a history
\* variable says which write or which attempt lost them, or the analysis was
\* abandoned with the result still in the database.
THEOREM AnalyzedAlwaysStored == Spec => []AnalyzedIsStored
  <1>1. Ordered /\ Stored => AnalyzedIsStored
    BY DEF Ordered, Order, Stored, Store, Over, Excused, AnalyzedIsStored
  <1> QED BY <1>1, TypeCorrect, OrderedInit, OrderedStep, StoredInit, StoredStep, PTL DEF Spec

-----------------------------------------------------------------------------
(***************************************************************************)
(* LastHeight.                                                             *)
(***************************************************************************)
Dated(r) == \/ r.height # 0
            \/ \A t \in Tasks : r.samples[t] = 0

Heights ==
  \/ resumed # {}
  \/ /\ Dated(record) /\ Dated(cycler.copy) /\ \A u \in Tasks : Dated(analyzer[u].copy)
     /\ \A t \in Tasks : analyzer[t].pc = "ready" /\ "task" \in left[t] => "result" \in left[t]

(* At first the record holds no samples. *)
LEMMA HeightsInit == Init => Heights
  BY DEF Init, Heights, Dated, At, NewTask, Docs

(* Every step keeps the height of a record that of a result. *)
LEMMA HeightsStep == ASSUME TypeOK, Heights, [Next]_vars PROVE Heights'
  <1>0. /\ record \in Record /\ DOMAIN analyzer = Tasks
        /\ \A u \in Tasks : analyzer[u] \in Holder(Places)
        /\ \A p \in {"ready", "written", "failed"} : At(p).copy = NewTask /\ At(p).pc = p
        /\ Dated(NewTask)
    BY DEF TypeOK, At, NewTask, Dated
  <1>1. ASSUME NEW s \in Tasks, TaskStep(s), resumed' = {} PROVE Heights'
    <2>0. /\ resumed = {}
          /\ \A u \in Tasks \ {s} : /\ analyzer'[u].pc = analyzer[u].pc
                                     /\ analyzer'[u].copy = analyzer[u].copy
                                     /\ left'[u] = left[u]
          /\ cycler'.copy = cycler.copy
      BY <1>1, TaskStepFrame
    <2>1. /\ Dated(record) /\ Dated(cycler.copy) /\ \A u \in Tasks : Dated(analyzer[u].copy)
          /\ \A t \in Tasks : analyzer[t].pc = "ready" /\ "task" \in left[t] => "result" \in left[t]
      BY <2>0 DEF Heights
    <2>2. Dated(record') /\ Dated(analyzer'[s].copy)
      <3>1. CASE LoadTask(s)
        <4>1. /\ analyzer'[s].copy = Processed(s) /\ record' = record
              /\ "result" \in left[s]
          BY <1>0, <2>1, <3>1 DEF LoadTask
        <4>2. Processed(s).height = 0 => Processed(s) = record BY <4>1, ProcessedCases
        <4> QED BY <2>1, <4>1, <4>2 DEF Dated
      <3>2. CASE UpdateTask(s) BY <1>0, <2>1, <3>2 DEF UpdateTask
      <3>3. CASE RemoveTaskID(s) \/ Complete(s) \/ DeleteError(s)
        <4>1. record' = record /\ analyzer'[s].copy = analyzer[s].copy
          BY <1>0, <3>3 DEF RemoveTaskID, Complete, DeleteError, Holder
        <4> QED BY <2>1, <4>1
      <3>4. CASE TaskNotFound(s) \/ Retry(s) \/ Abandon(s)
        BY <1>0, <2>1, <3>4 DEF TaskNotFound, Retry, Abandon
      <3> QED BY <1>1, <3>1, <3>2, <3>3, <3>4 DEF TaskStep, AnalyzeResult
    <2>3. analyzer'[s].pc = "ready" /\ "task" \in left'[s] => "result" \in left'[s]
      <3>1. CASE Retry(s) BY <1>0, <1>1, <3>1 DEF Retry
      <3>2. CASE LoadTask(s) \/ TaskNotFound(s) \/ UpdateTask(s) \/ Abandon(s)
        BY <1>0, <3>2 DEF LoadTask, TaskNotFound, UpdateTask, Abandon
      <3>3. CASE RemoveTaskID(s) \/ Complete(s) \/ DeleteError(s)
        <4>1. analyzer'[s].pc \in {"result", "task", "write", "done"}
          BY <1>0, <3>3 DEF RemoveTaskID, Complete, DeleteError, Holder, AfterDelete, Docs
        <4> QED BY <4>1
      <3> QED BY <1>1, <3>1, <3>2, <3>3 DEF TaskStep, AnalyzeResult
    <2> QED BY <2>0, <2>1, <2>2, <2>3 DEF Heights
  <1>2. ASSUME AnalyzeNode \/ CycleError PROVE Heights'
    <2>1. UNCHANGED <<left, analyzer, resumed>> BY <1>2, NodeStepFrame
    <2>2. record' \in {record, cycler.copy} /\ cycler'.copy \in {record, NewTask}
      BY <1>0, <1>2 DEF AnalyzeNode, CycleTask, UpdateCycled, CycleError
    <2> QED BY <1>0, <2>1, <2>2 DEF Heights
  <1>3. ASSUME UNCHANGED vars PROVE Heights' BY <1>3 DEF vars, Heights, Dated
  <1>4. resumed' # {} => Heights' BY DEF Heights
  <1> QED BY <1>1, <1>2, <1>3, <1>4 DEF Next, TaskStep

\* LastHeight is a result's height once there are samples, unless an analysis was
\* run again for a result already deleted.
THEOREM HeightAlwaysOfAResult == Spec => []HeightOfAResult
  <1>1. TypeOK /\ Heights => HeightOfAResult BY DEF Heights, Dated, HeightOfAResult, TypeOK, Record
  <1> QED BY <1>1, TypeCorrect, HeightsInit, HeightsStep, PTL DEF Spec
=============================================================================
