--------------------------- MODULE TaskTreeProofs ---------------------------
(***************************************************************************)
(* The tree of a task under any number of prompts, instances, sessions and *)
(* faults: its marks move up complete, an evaluation starts with every     *)
(* prompt answered, the responses are bounded, and a task whose updates    *)
(* did not overlap is done with its last prompt.                           *)
(***************************************************************************)
EXTENDS TaskTree, FiniteSetTheorems, TLAPS

Within(d, e) == /\ d.prompts \subseteq e.prompts
                /\ d.instances \subseteq e.instances
                /\ d.tasks \subseteq e.tasks

UpwardsIn(d) ==
  /\ \A i \in d.instances : PromptsOf(i) \subseteq d.prompts
  /\ \A t \in d.tasks : InstancesOf(t) \subseteq d.instances

\* Two states of the database that do not differ on the tree of a task.
Agree(d, e, t) ==
  /\ \A p \in Prompts : TaskOfPrompt(p) = t => (p \in d.prompts <=> p \in e.prompts)
  /\ \A i \in Instances : TaskOf[i] = t => (i \in d.instances <=> i \in e.instances)
  /\ t \in d.tasks <=> t \in e.tasks

\* What an open transaction read was committed, and is complete upwards.
SnapshotsCommitted ==
  \A w \in Workflows : relayer[w].pc = "txn" =>
    Within(relayer[w].snap, db) /\ UpwardsIn(relayer[w].snap)

\* What it missed is recorded.
SnapshotsAgree ==
  \A w \in Workflows :
    LET t == TaskOfPrompt(Prompt(w))
    IN  relayer[w].pc = "txn" /\ ~Touches(relayer[w].missed, t) => Agree(relayer[w].snap, db, t)

\* Every level of a tree that was not skewed is settled.
Settled(d, t) ==
  /\ \A i \in InstancesOf(t) : PromptsOf(i) \subseteq d.prompts => i \in d.instances
  /\ InstancesOf(t) \subseteq d.instances => t \in d.tasks

TreesSettled == \A t \in Tasks \ skewed : Settled(db, t)

\* The Relayers past the save, and the marks they left, stand for an answer.
Answered(p) == Responses(p) > 0 \/ p \in lost

MarkedAnswered ==
  /\ db.prompts \subseteq {p \in Prompts : Answered(p)}
  /\ \A w \in Workflows :
       relayer[w].pc \in {"saved", "update", "txn", "updated"} => Answered(Prompt(w))

EvaluatedDone ==
  /\ evaluating \subseteq db.tasks
  /\ \A w \in Workflows :
       relayer[w].pc = "updated" /\ relayer[w].isDone => TaskOfPrompt(Prompt(w)) \in db.tasks

\* A Relayer that may still save is counted with the responses saved.
OpenPlaces == {"none", "lookup", "relaying", "failed"}

Open(p) == {s \in Sessions : relayer[<<s, p>>].pc \in OpenPlaces}

ResponsesBounded ==
  \A p \in Prompts : Responses(p) + Cardinality(Open(p)) <= Cardinality(Sessions) + faults

\* The inductive invariants, the first of which the others rest on.
TreeInv == TypeOK /\ SnapshotsCommitted /\ DoneUpwards

-----------------------------------------------------------------------------
(* The shape of the state. *)
LEMMA WorkflowPrompt ==
  ASSUME NEW w \in Workflows
  PROVE  /\ Prompt(w) \in Prompts
         /\ InstanceOf[Prompt(w)] \in Instances
         /\ TaskOfPrompt(Prompt(w)) \in Tasks
BY TreeAssumption DEF Workflows, Prompt, TaskOfPrompt

(* A relayer that goes on changes its own place alone. *)
LEMMA GotoType ==
  ASSUME NEW w \in Workflows, NEW from, NEW to \in Places, TypeOK, Goto(w, from, to)
  PROVE  /\ relayer' \in [Workflows -> RelayerState]
         /\ relayer'[w].pc = to /\ relayer'[w].isDone = relayer[w].isDone
         /\ \A v \in Workflows \ {w} : relayer'[v] = relayer[v]
BY DEF TypeOK, Goto, RelayerState

(* An idle relayer may be at any place. *)
LEMMA IdleType ==
  ASSUME NEW pc \in Places
  PROVE  [Idle EXCEPT !.pc = pc] \in RelayerState
BY DEF Idle, RelayerState, NoDocs, Docs

(* What a transaction writes on a snapshot are documents, of the tree of     *)
(* its own task only.                                                        *)
LEMMA UpdatedType ==
  ASSUME NEW w \in Workflows, NEW d \in Docs
  PROVE  /\ Updated(d, Prompt(w)) \in Docs
         /\ Minus(Updated(d, Prompt(w)), d) \in Docs
BY WorkflowPrompt DEF Updated, Minus, Docs

(* Documents marked by either of two writers are documents. *)
LEMMA PlusType ==
  ASSUME NEW d \in Docs, NEW e \in Docs
  PROVE  Plus(d, e) \in Docs
BY DEF Plus, Docs

(* A relayer starts alone, where none was or one failed. *)
LEMMA StartType ==
  ASSUME TypeOK, NEW s \in Sessions, NEW p \in Prompts, StartRelayer(s, p)
  PROVE  /\ <<s, p>> \in Workflows
         /\ relayer' \in [Workflows -> RelayerState]
         /\ \A v \in Workflows : relayer'[v] # relayer[v] =>
              /\ v = <<s, p>>
              /\ relayer[v].pc \in {"none", "failed"}
              /\ relayer'[v] = [Idle EXCEPT !.pc = "lookup"]
<1>1. [Idle EXCEPT !.pc = "lookup"] \in RelayerState
  BY IdleType DEF Places
<1>2. <<s, p>> \in Workflows
  BY DEF Workflows
<1>3. CASE relayer[<<s, p>>].pc \in {"none", "failed"}
  <2>1. relayer' = [relayer EXCEPT ![<<s, p>>] = [Idle EXCEPT !.pc = "lookup"]]
    BY <1>3 DEF StartRelayer
  <2> QED
    BY <1>1, <1>2, <1>3, <2>1 DEF TypeOK
<1>4. CASE relayer[<<s, p>>].pc \notin {"none", "failed"}
  BY <1>2, <1>4 DEF StartRelayer, TypeOK
<1> QED
  BY <1>3, <1>4

(* A relayer is started again, or given up, alone. *)
LEMMA RestartedType ==
  ASSUME TypeOK, NEW w \in Workflows, NEW pcs, NEW first \in Places, Restarted(w, pcs, first)
  PROVE  /\ relayer[w].pc \in pcs
         /\ relayer' \in [Workflows -> RelayerState]
         /\ relayer'[w] = [Idle EXCEPT !.pc = first] \/ relayer'[w] = [Idle EXCEPT !.pc = "failed"]
         /\ \A v \in Workflows \ {w} : relayer'[v] = relayer[v]
<1>1. PICK pc \in {first, "failed"} : relayer' = [relayer EXCEPT ![w] = [Idle EXCEPT !.pc = pc]]
  BY DEF Restarted
<1>2. [Idle EXCEPT !.pc = pc] \in RelayerState
  BY IdleType DEF Places
<1> QED
  BY <1>1, <1>2 DEF Restarted, TypeOK

(* A transaction begins with a snapshot, and nothing missed of it. *)
LEMMA BeginType ==
  ASSUME TypeOK, NEW w \in Workflows, BeginUpdate(w)
  PROVE  /\ relayer' \in [Workflows -> RelayerState]
         /\ relayer'[w].pc = "txn" /\ relayer'[w].snap = db /\ relayer'[w].missed = NoDocs
         /\ \A v \in Workflows \ {w} : relayer'[v] = relayer[v]
<1>1. NoDocs \in Docs
  BY DEF NoDocs, Docs
<1> QED
  BY <1>1 DEF BeginUpdate, TypeOK, RelayerState, Places

(* A transaction in conflict is begun again. *)
LEMMA ConflictType ==
  ASSUME TypeOK, NEW w \in Workflows, ConflictUpdate(w)
  PROVE  /\ relayer' \in [Workflows -> RelayerState]
         /\ relayer[w].pc = "txn" /\ relayer'[w].pc = "update"
         /\ \A v \in Workflows \ {w} : relayer'[v] = relayer[v]
<1>1. NoDocs \in Docs
  BY DEF NoDocs, Docs
<1> QED
  BY <1>1, ZenonT(60) DEF ConflictUpdate, TypeOK, RelayerState, Places

(* A commit marks what it writes, and the open transactions miss that. *)
LEMMA CommitType ==
  ASSUME TypeOK, NEW w \in Workflows, CommitUpdate(w)
  PROVE  /\ relayer' \in [Workflows -> RelayerState]
         /\ db' \in Docs /\ db' = Plus(db, Writes(w))
         /\ Writes(w) \in Docs
         /\ relayer[w].pc = "txn" /\ relayer'[w].pc = "updated"
         /\ relayer'[w].isDone = TaskDone(relayer[w].snap, Prompt(w))
         /\ \A v \in Workflows \ {w} :
              IF relayer[v].pc = "txn"
              THEN /\ relayer'[v].pc = "txn" /\ relayer'[v].snap = relayer[v].snap
                   /\ relayer'[v].missed = Plus(relayer[v].missed, Writes(w))
              ELSE relayer'[v] = relayer[v]
<1>1. relayer[w].snap \in Docs /\ db \in Docs
  BY DEF TypeOK, RelayerState
<1>2. Writes(w) \in Docs
  BY <1>1, UpdatedType DEF Writes
<1>3. db' = Plus(db, Writes(w)) /\ db' \in Docs
  BY <1>1, <1>2, PlusType DEF CommitUpdate
<1>4. relayer' = [v \in Workflows |->
           IF v = w THEN [pc     |-> "updated", snap |-> NoDocs, missed |-> NoDocs,
                          isDone |-> TaskDone(relayer[w].snap, Prompt(w))]
           ELSE IF relayer[v].pc = "txn"
                THEN [relayer[v] EXCEPT !.missed = Plus(@, Writes(w))]
                ELSE relayer[v]]
  BY DEF CommitUpdate
<1>5. NoDocs \in Docs /\ TaskDone(relayer[w].snap, Prompt(w)) \in BOOLEAN
  BY DEF NoDocs, Docs, TaskDone, InstanceDone
<1>6. \A v \in Workflows : /\ relayer[v] \in RelayerState
                           /\ Plus(relayer[v].missed, Writes(w)) \in Docs
  BY <1>2, PlusType DEF TypeOK, RelayerState
<1>7. ASSUME NEW v \in Workflows
      PROVE  /\ relayer'[v] \in RelayerState
             /\ v = w => /\ relayer'[v].pc = "updated"
                         /\ relayer'[v].isDone = TaskDone(relayer[w].snap, Prompt(w))
             /\ v # w => IF relayer[v].pc = "txn"
                         THEN /\ relayer'[v].pc = "txn" /\ relayer'[v].snap = relayer[v].snap
                              /\ relayer'[v].missed = Plus(relayer[v].missed, Writes(w))
                         ELSE relayer'[v] = relayer[v]
  <2>1. CASE v = w
    BY <2>1, <1>4, <1>5 DEF RelayerState, Places
  <2>2. CASE v # w /\ relayer[v].pc = "txn"
    <3>1. relayer'[v] = [relayer[v] EXCEPT !.missed = Plus(relayer[v].missed, Writes(w))]
      BY <2>2, <1>4
    <3> QED
      BY <2>2, <3>1, <1>6 DEF RelayerState
  <2>3. CASE v # w /\ relayer[v].pc # "txn"
    BY <2>3, <1>4, <1>6
  <2> QED
    BY <2>1, <2>2, <2>3
<1>8. relayer[w].pc = "txn"
  BY DEF CommitUpdate
<1> QED
  BY <1>2, <1>3, <1>4, <1>7, <1>8

-----------------------------------------------------------------------------
(* Types. *)
LEMMA ProgressTyped ==
  ASSUME TypeOK, NEW w \in Workflows, Progress(w)
  PROVE  TypeOK'
<1> USE DEF Places
<1>0. Prompt(w) \in Prompts
  BY WorkflowPrompt
<1>1. CASE PromptFound(w)
  BY <1>1, GotoType DEF PromptFound, TypeOK
<1>2. CASE PromptNotFound(w)
  BY <1>0, <1>2, GotoType DEF PromptNotFound, TypeOK
<1>3. CASE SaveResponse(w)
  BY <1>0, <1>3, GotoType DEF SaveResponse, TypeOK
<1>4. CASE RelayerReturns(w)
  BY <1>4, GotoType DEF RelayerReturns, TypeOK
<1>5. CASE BeginUpdate(w)
  <2>1. relayer' \in [Workflows -> RelayerState]
    BY <1>5, BeginType
  <2> QED
    BY <1>5, <2>1 DEF BeginUpdate, TypeOK
<1>6. CASE CommitUpdate(w)
  <2>1. relayer' \in [Workflows -> RelayerState] /\ db' \in Docs
    BY <1>6, CommitType
  <2>2. skewed' \in SUBSET Tasks
    BY <1>6, WorkflowPrompt DEF CommitUpdate, TypeOK
  <2> QED
    BY <1>6, <2>1, <2>2 DEF CommitUpdate, TypeOK
<1>7. CASE ConflictUpdate(w)
  <2>1. relayer' \in [Workflows -> RelayerState]
    BY <1>7, ConflictType
  <2> QED
    BY <1>7, <2>1 DEF ConflictUpdate, TypeOK
<1>8. CASE Finish(w)
  <2>1. evaluating' \in SUBSET Tasks
    BY <1>8, WorkflowPrompt DEF Finish, TypeOK
  <2> QED
    BY <1>8, <2>1, GotoType DEF Finish, TypeOK
<1> QED
  BY <1>1, <1>2, <1>3, <1>4, <1>5, <1>6, <1>7, <1>8 DEF Progress

(* Faults keep the variables in their ranges. *)
LEMMA FaultTyped ==
  ASSUME TypeOK, NEW w \in Workflows,
         LookupError(w) \/ LoseResponse(w) \/ RelayerCrash(w) \/ UpdateCrash(w)
  PROVE  TypeOK'
<1> USE DEF Places
<1>0. Prompt(w) \in Prompts
  BY WorkflowPrompt
<1>f. faults < MaxFaults /\ faults' = faults + 1 => faults' \in 0 .. MaxFaults
  BY MaxFaultsAssumption DEF TypeOK
<1>1. CASE LookupError(w)
  BY <1>0, <1>f, <1>1, GotoType DEF LookupError, TypeOK
<1>2. CASE LoseResponse(w)
  <2>1. relayer' \in [Workflows -> RelayerState]
    BY <1>2, GotoType DEF LoseResponse
  <2> QED
    BY <1>0, <1>f, <1>2, <2>1 DEF LoseResponse, TypeOK
<1>3. CASE RelayerCrash(w) \/ UpdateCrash(w)
  <2>1. \E first \in Places : \E pcs : Restarted(w, pcs, first)
    BY <1>3 DEF RelayerCrash, UpdateCrash
  <2>2. relayer' \in [Workflows -> RelayerState]
    BY <2>1, RestartedType
  <2> QED
    BY <1>f, <2>1, <2>2 DEF Restarted, TypeOK
<1> QED
  BY <1>1, <1>2, <1>3

(* Every step keeps the variables in their ranges. *)
LEMMA StepTyped == TypeOK /\ [Next]_vars => TypeOK'
<1> SUFFICES ASSUME TypeOK, [Next]_vars
             PROVE  TypeOK'
  OBVIOUS
<1>1. ASSUME NEW s \in Sessions, GetTasks(s)
      PROVE  TypeOK'
  <2>1. ToDo \in SUBSET Prompts
    BY DEF ToDo
  <2> QED
    BY <1>1, <2>1 DEF GetTasks, TypeOK
<1>2. ASSUME NEW s \in Sessions, NEW p \in Prompts, StartRelayer(s, p)
      PROVE  TypeOK'
  <2>1. relayer' \in [Workflows -> RelayerState]
    BY <1>2, StartType
  <2> QED
    BY <1>2, <2>1 DEF StartRelayer, TypeOK
<1>3. ASSUME NEW w \in Workflows, RetryWorkflow(w)
      PROVE  TypeOK'
  BY <1>3, GotoType DEF RetryWorkflow, TypeOK, Places
<1>4. ASSUME NEW t \in Tasks, LookupTasks(t)
      PROVE  TypeOK'
  BY <1>4 DEF LookupTasks, TypeOK
<1>5. CASE UNCHANGED vars
  BY <1>5 DEF vars, TypeOK
<1> QED
  BY <1>1, <1>2, <1>3, <1>4, <1>5, ProgressTyped, FaultTyped DEF Next

(* The variables begin in their ranges. *)
LEMMA InitTyped == Init => TypeOK
BY MaxFaultsAssumption
   DEF Init, TypeOK, NoDocs, Docs, Idle, RelayerState, Places

(* TypeOK: documents, transactions and workflows of the task tree          *)
(* (requester/activities, relayer/activities) stay in their ranges.        *)
THEOREM TypeCorrect == Spec => []TypeOK
BY InitTyped, StepTyped, PTL DEF Spec

-----------------------------------------------------------------------------
(* Only BeginUpdate and CommitUpdate touch the database, a snapshot or what   *)
(* a transaction returned.                                                   *)
Quiet ==
  /\ db' = db /\ skewed' = skewed
  /\ \A v \in Workflows : relayer'[v].pc \in {"txn", "updated"} => relayer'[v] = relayer[v]

(* A step begins or commits a transaction, or changes no document and opens none. *)
LEMMA StepKinds ==
  ASSUME TypeOK, [Next]_vars
  PROVE  \/ Quiet
         \/ \E w \in Workflows : BeginUpdate(w) \/ CommitUpdate(w)
<1>1. ASSUME NEW s \in Sessions, GetTasks(s)
      PROVE  Quiet
  BY <1>1 DEF GetTasks, Quiet
<1>2. ASSUME NEW s \in Sessions, NEW p \in Prompts, StartRelayer(s, p)
      PROVE  Quiet
  <2>1. \A v \in Workflows : relayer'[v] # relayer[v] => relayer'[v].pc = "lookup"
    BY <1>2, StartType DEF Idle
  <2> QED
    BY <1>2, <2>1 DEF StartRelayer, Quiet
<1>3. ASSUME NEW w \in Workflows, Progress(w)
      PROVE  Quiet \/ BeginUpdate(w) \/ CommitUpdate(w)
  <2>1. CASE PromptFound(w)
    BY <2>1, GotoType DEF PromptFound, Quiet, Places
  <2>2. CASE PromptNotFound(w)
    BY <2>2, GotoType DEF PromptNotFound, Quiet, Places
  <2>3. CASE SaveResponse(w)
    BY <2>3, GotoType DEF SaveResponse, Quiet, Places
  <2>4. CASE RelayerReturns(w)
    BY <2>4, GotoType DEF RelayerReturns, Quiet, Places
  <2>5. CASE ConflictUpdate(w)
    BY <2>5, ConflictType DEF ConflictUpdate, Quiet
  <2>6. CASE Finish(w)
    BY <2>6, GotoType DEF Finish, Quiet, Places
  <2> QED
    BY <1>3, <2>1, <2>2, <2>3, <2>4, <2>5, <2>6 DEF Progress
<1>4. ASSUME NEW w \in Workflows,
             LookupError(w) \/ LoseResponse(w) \/ RelayerCrash(w) \/ UpdateCrash(w)
      PROVE  Quiet
  <2>1. CASE LookupError(w)
    BY <2>1, GotoType DEF LookupError, Quiet, Places
  <2>2. CASE LoseResponse(w)
    BY <2>2, GotoType DEF LoseResponse, Quiet, Places
  <2>3. CASE RelayerCrash(w)
    BY <2>3, RestartedType DEF RelayerCrash, Restarted, Quiet, Places, Idle
  <2>4. CASE UpdateCrash(w)
    BY <2>4, RestartedType DEF UpdateCrash, Restarted, Quiet, Places, Idle
  <2> QED
    BY <1>4, <2>1, <2>2, <2>3, <2>4
<1>5. ASSUME NEW w \in Workflows, RetryWorkflow(w)
      PROVE  Quiet
  BY <1>5, GotoType DEF RetryWorkflow, Quiet, Places
<1>6. ASSUME NEW t \in Tasks, LookupTasks(t)
      PROVE  Quiet
  BY <1>6 DEF LookupTasks, Quiet
<1>7. CASE UNCHANGED vars
  BY <1>7 DEF vars, Quiet
<1> QED
  BY <1>1, <1>2, <1>3, <1>4, <1>5, <1>6, <1>7 DEF Next

-----------------------------------------------------------------------------
(* Marks move up a complete tree. *)
LEMMA CommitUpwards ==
  ASSUME TreeInv, NEW w \in Workflows, CommitUpdate(w)
  PROVE  DoneUpwards' /\ Within(db, db')
<1> DEFINE d == relayer[w].snap
           p == Prompt(w)
<1>1. /\ db' = Plus(db, Writes(w)) /\ relayer[w].pc = "txn"
      /\ p \in Prompts /\ InstanceOf[p] \in Instances /\ TaskOfPrompt(p) \in Tasks
  BY CommitType, WorkflowPrompt DEF TreeInv
<1>2. Within(d, db) /\ UpwardsIn(d) /\ UpwardsIn(db)
  BY <1>1 DEF TreeInv, SnapshotsCommitted, DoneUpwards, UpwardsIn
<1>3. /\ db'.prompts = db.prompts \cup {p}
      /\ db'.instances = db.instances \cup (IF InstanceDone(d, p) THEN {InstanceOf[p]} ELSE {})
      /\ db'.tasks = db.tasks \cup (IF TaskDone(d, p) THEN {TaskOfPrompt(p)} ELSE {})
  BY <1>1, <1>2 DEF Plus, Writes, Minus, Updated, Within
<1> HIDE DEF d, p
<1>4. \A i \in db'.instances : PromptsOf(i) \subseteq db'.prompts
  BY <1>2, <1>3 DEF InstanceDone, Within, UpwardsIn
<1>5. \A t \in db'.tasks : InstancesOf(t) \subseteq db'.instances
  BY <1>2, <1>3 DEF TaskDone, Within, UpwardsIn
<1> QED
  BY <1>3, <1>4, <1>5 DEF DoneUpwards, Within

(* Every step keeps the order of marks. *)
LEMMA StepTree == TreeInv /\ [Next]_vars => TreeInv'
<1> SUFFICES ASSUME TreeInv, [Next]_vars
             PROVE  TreeInv'
  OBVIOUS
<1>0. TypeOK'
  BY StepTyped DEF TreeInv
<1>1. CASE Quiet
  BY <1>0, <1>1 DEF Quiet, TreeInv, SnapshotsCommitted, DoneUpwards
<1>2. ASSUME NEW w \in Workflows, BeginUpdate(w)
      PROVE  TreeInv'
  <2>1. db' = db
    BY <1>2 DEF BeginUpdate
  <2>2. SnapshotsCommitted'
    <3>1. \A v \in Workflows :
            \/ relayer'[v].snap = db
            \/ relayer'[v] = relayer[v]
      BY <1>2, BeginType DEF TreeInv
    <3> QED
      BY <2>1, <3>1 DEF TreeInv, SnapshotsCommitted, Within, DoneUpwards, UpwardsIn
  <2> QED
    BY <1>0, <2>1, <2>2 DEF TreeInv, DoneUpwards
<1>3. ASSUME NEW w \in Workflows, CommitUpdate(w)
      PROVE  TreeInv'
  <2>1. DoneUpwards' /\ Within(db, db')
    BY <1>3, CommitUpwards
  <2>2. \A v \in Workflows : relayer'[v].pc = "txn" =>
          relayer[v].pc = "txn" /\ relayer'[v].snap = relayer[v].snap
    BY <1>3, CommitType DEF TreeInv
  <2>3. SnapshotsCommitted'
    BY <2>1, <2>2 DEF TreeInv, SnapshotsCommitted, Within
  <2> QED
    BY <1>0, <2>1, <2>3 DEF TreeInv
<1> QED
  BY <1>1, <1>2, <1>3, StepKinds DEF TreeInv

(* At first nothing is marked. *)
LEMMA InitTree == Init => TreeInv
BY InitTyped DEF Init, TreeInv, SnapshotsCommitted, DoneUpwards, NoDocs, Idle

(* TreeInv: marks go upwards in the database and in every open             *)
(* snapshot of it (update_task_tree).                                      *)
THEOREM TreeInvAlways == Spec => []TreeInv
BY InitTree, StepTree, PTL DEF Spec

(* A done task has only done instances, a done instance only done prompts,   *)
(* whatever snapshots they were marked from.                                 *)
THEOREM MarksUpwards == Spec => []DoneUpwards
<1>1. TreeInv => DoneUpwards
  BY DEF TreeInv
<1> QED
  BY <1>1, TreeInvAlways, PTL

-----------------------------------------------------------------------------
(* An evaluation starts with every prompt answered. *)
AnswerInv == TreeInv /\ MarkedAnswered /\ EvaluatedDone

\* What a step must do to keep answers: take none back, and advance a Relayer
\* past the save only once its prompt is answered.
KeepsAnswers ==
  /\ \A p \in Prompts : Answered(p) => Answered(p)'
  /\ \A v \in Workflows :
       relayer'[v].pc \in {"saved", "update", "txn", "updated"} =>
         \/ relayer[v].pc \in {"saved", "update", "txn", "updated"}
         \/ Answered(Prompt(v))'

(* Who has answered depends on the responses and faults alone. *)
LEMMA SameAnswers ==
  ASSUME answers' = answers, orphans' = orphans, lost' = lost
  PROVE  \A p \in Prompts : Answered(p) <=> Answered(p)'
BY DEF Answered, Responses

(* No step takes an answer back. *)
LEMMA StepKeepsAnswers ==
  ASSUME TypeOK, [Next]_vars
  PROVE  KeepsAnswers
<1> USE DEF Places
<1>1. ASSUME NEW s \in Sessions, GetTasks(s)
      PROVE  KeepsAnswers
  BY <1>1, SameAnswers DEF GetTasks, KeepsAnswers
<1>2. ASSUME NEW s \in Sessions, NEW p \in Prompts, StartRelayer(s, p)
      PROVE  KeepsAnswers
  <2>1. \A v \in Workflows : relayer'[v] # relayer[v] => relayer'[v].pc = "lookup"
    BY <1>2, StartType DEF Idle
  <2>2. answers' = answers /\ orphans' = orphans /\ lost' = lost
    BY <1>2 DEF StartRelayer
  <2> QED
    BY <2>1, <2>2, SameAnswers DEF KeepsAnswers
<1>3. ASSUME NEW w \in Workflows, Progress(w)
      PROVE  KeepsAnswers
  <2>0. Prompt(w) \in Prompts
    BY WorkflowPrompt
  <2>1. CASE PromptFound(w)
    BY <2>1, GotoType, SameAnswers DEF PromptFound, KeepsAnswers
  <2>2. CASE PromptNotFound(w)
    <3>1. /\ orphans' = [orphans EXCEPT ![Prompt(w)] = @ + 1]
          /\ answers' = answers /\ lost' = lost
      BY <2>2 DEF PromptNotFound
    <3>2. \A p \in Prompts : Answered(p) => Answered(p)'
      BY <2>0, <3>1 DEF Answered, Responses, TypeOK
    <3>3. Answered(Prompt(w))'
      BY <2>0, <3>1 DEF Answered, Responses, TypeOK
    <3> QED
      BY <2>2, <3>2, <3>3, GotoType DEF PromptNotFound, KeepsAnswers
  <2>3. CASE SaveResponse(w)
    <3>1. /\ answers' = [answers EXCEPT ![Prompt(w)] = @ + 1]
          /\ orphans' = orphans /\ lost' = lost
      BY <2>3 DEF SaveResponse
    <3>2. \A p \in Prompts : Answered(p) => Answered(p)'
      BY <2>0, <3>1 DEF Answered, Responses, TypeOK
    <3>3. Answered(Prompt(w))'
      BY <2>0, <3>1 DEF Answered, Responses, TypeOK
    <3> QED
      BY <2>3, <3>2, <3>3, GotoType DEF SaveResponse, KeepsAnswers
  <2>4. CASE RelayerReturns(w)
    <3>1. relayer[w].pc = "saved"
      BY <2>4 DEF RelayerReturns, Goto
    <3> QED
      BY <2>4, <3>1, GotoType, SameAnswers DEF RelayerReturns, KeepsAnswers
  <2>5. CASE BeginUpdate(w)
    <3>1. relayer[w].pc = "update"
      BY <2>5 DEF BeginUpdate
    <3> QED
      BY <2>5, <3>1, BeginType, SameAnswers DEF BeginUpdate, KeepsAnswers
  <2>6. CASE CommitUpdate(w)
    <3>1. \A v \in Workflows : \/ relayer'[v] = relayer[v]
                               \/ relayer[v].pc = "txn"
      BY <2>6, CommitType
    <3>2. answers' = answers /\ orphans' = orphans /\ lost' = lost
      BY <2>6 DEF CommitUpdate
    <3> QED
      BY <3>1, <3>2, SameAnswers DEF KeepsAnswers
  <2>7. CASE ConflictUpdate(w)
    BY <2>7, ConflictType, SameAnswers DEF ConflictUpdate, KeepsAnswers
  <2>8. CASE Finish(w)
    BY <2>8, GotoType, SameAnswers DEF Finish, KeepsAnswers
  <2> QED
    BY <1>3, <2>1, <2>2, <2>3, <2>4, <2>5, <2>6, <2>7, <2>8 DEF Progress
<1>4. ASSUME NEW w \in Workflows,
             LookupError(w) \/ LoseResponse(w) \/ RelayerCrash(w) \/ UpdateCrash(w)
      PROVE  KeepsAnswers
  <2>0. Prompt(w) \in Prompts
    BY WorkflowPrompt
  <2>1. CASE LookupError(w)
    <3>1. /\ orphans' = [orphans EXCEPT ![Prompt(w)] = @ + 1]
          /\ answers' = answers /\ lost' = lost
      BY <2>1 DEF LookupError
    <3>2. \A p \in Prompts : Answered(p) => Answered(p)'
      BY <2>0, <3>1 DEF Answered, Responses, TypeOK
    <3>3. Answered(Prompt(w))'
      BY <2>0, <3>1 DEF Answered, Responses, TypeOK
    <3> QED
      BY <2>1, <3>2, <3>3, GotoType DEF LookupError, KeepsAnswers
  <2>2. CASE LoseResponse(w)
    <3>1. answers' = answers /\ orphans' = orphans /\ lost' = lost \cup {Prompt(w)}
      BY <2>2 DEF LoseResponse
    <3>2. \A v \in Workflows \ {w} : relayer'[v] = relayer[v]
      BY <2>2, GotoType DEF LoseResponse
    <3> QED
      BY <3>1, <3>2 DEF Answered, Responses, KeepsAnswers
  <2>3. CASE RelayerCrash(w)
    BY <2>3, RestartedType, SameAnswers DEF RelayerCrash, Restarted, KeepsAnswers, Idle
  <2>4. CASE UpdateCrash(w)
    <3>1. relayer[w].pc \in {"update", "txn", "updated"}
      BY <2>4 DEF UpdateCrash, Restarted
    <3> QED
      BY <2>4, <3>1, RestartedType, SameAnswers DEF UpdateCrash, Restarted, KeepsAnswers, Idle
  <2> QED
    BY <1>4, <2>1, <2>2, <2>3, <2>4
<1>5. ASSUME NEW w \in Workflows, RetryWorkflow(w)
      PROVE  KeepsAnswers
  BY <1>5, GotoType, SameAnswers DEF RetryWorkflow, KeepsAnswers
<1>6. ASSUME NEW t \in Tasks, LookupTasks(t)
      PROVE  KeepsAnswers
  BY <1>6, SameAnswers DEF LookupTasks, KeepsAnswers
<1>7. CASE UNCHANGED vars
  BY <1>7, SameAnswers DEF vars, KeepsAnswers
<1> QED
  BY <1>1, <1>2, <1>3, <1>4, <1>5, <1>6, <1>7 DEF Next

(* A mark is only made by a Relayer past its save. *)
LEMMA StepMarked ==
  ASSUME AnswerInv, [Next]_vars
  PROVE  MarkedAnswered'
<1>0. TypeOK /\ KeepsAnswers
  BY StepKeepsAnswers DEF AnswerInv, TreeInv
<1>1. \A v \in Workflows : Prompt(v) \in Prompts
  BY WorkflowPrompt
<1>2. \A w \in Workflows :
        relayer'[w].pc \in {"saved", "update", "txn", "updated"} => Answered(Prompt(w))'
  BY <1>0, <1>1 DEF AnswerInv, MarkedAnswered, KeepsAnswers
<1>3. db'.prompts \subseteq {p \in Prompts : Answered(p)'}
  <2>1. CASE db' = db
    BY <1>0, <2>1 DEF AnswerInv, MarkedAnswered, KeepsAnswers
  <2>2. ASSUME NEW w \in Workflows, CommitUpdate(w)
        PROVE  db'.prompts \subseteq {p \in Prompts : Answered(p)'}
    <3>1. relayer[w].pc = "txn" /\ db' = Plus(db, Writes(w))
      BY <1>0, <2>2, CommitType
    <3>2. db'.prompts \subseteq db.prompts \cup {Prompt(w)}
      BY <3>1 DEF Plus, Writes, Minus, Updated
    <3>3. Answered(Prompt(w))
      BY <3>1 DEF AnswerInv, MarkedAnswered
    <3> QED
      BY <1>0, <1>1, <3>2, <3>3 DEF AnswerInv, MarkedAnswered, KeepsAnswers
  <2> QED
    BY <1>0, <2>1, <2>2, StepKinds DEF Quiet, BeginUpdate
<1> QED
  BY <1>2, <1>3 DEF MarkedAnswered

(* Only a Relayer told that its task is done, and the lookup of done tasks,  *)
(* start an Evaluator.                                                       *)
LEMMA StepEvaluating ==
  ASSUME [Next]_vars, NEW t \in evaluating', t \notin evaluating
  PROVE  \/ t \in db.tasks
         \/ \E w \in Workflows : /\ relayer[w].pc = "updated" /\ relayer[w].isDone
                                 /\ t = TaskOfPrompt(Prompt(w))
<1>1. ASSUME NEW w \in Workflows, Finish(w)
      PROVE  relayer[w].pc = "updated" /\ relayer[w].isDone /\ t = TaskOfPrompt(Prompt(w))
  BY <1>1 DEF Finish, Goto
<1>2. ASSUME NEW u \in Tasks, LookupTasks(u)
      PROVE  t \in db.tasks
  BY <1>2 DEF LookupTasks
<1>3. ASSUME NEW w \in Workflows, Progress(w), ~Finish(w)
      PROVE  evaluating' = evaluating
  BY <1>3 DEF Progress, PromptFound, PromptNotFound, SaveResponse, RelayerReturns,
              BeginUpdate, CommitUpdate, ConflictUpdate
<1>4. ASSUME NEW w \in Workflows,
             \/ LookupError(w) \/ LoseResponse(w) \/ RelayerCrash(w) \/ UpdateCrash(w)
             \/ RetryWorkflow(w)
      PROVE  evaluating' = evaluating
  BY <1>4 DEF LookupError, LoseResponse, RelayerCrash, UpdateCrash, Restarted, RetryWorkflow
<1>5. ASSUME NEW s \in Sessions, GetTasks(s) \/ \E p \in Prompts : StartRelayer(s, p)
      PROVE  evaluating' = evaluating
  BY <1>5 DEF GetTasks, StartRelayer
<1>6. CASE UNCHANGED vars
  BY <1>6 DEF vars
<1> QED
  BY <1>1, <1>2, <1>3, <1>4, <1>5, <1>6 DEF Next

(* Every step evaluates done tasks only. *)
LEMMA StepEvaluated ==
  ASSUME AnswerInv, [Next]_vars
  PROVE  EvaluatedDone'
<1>0. TypeOK /\ \A v \in Workflows : TaskOfPrompt(Prompt(v)) \in Tasks
  BY WorkflowPrompt DEF AnswerInv, TreeInv
<1>1. db.tasks \subseteq db'.tasks
  BY <1>0, StepKinds, CommitUpwards DEF Quiet, BeginUpdate, AnswerInv, Within
<1>2. evaluating' \subseteq db'.tasks
  BY <1>1, StepEvaluating DEF AnswerInv, EvaluatedDone
<1>3. ASSUME NEW v \in Workflows, relayer'[v].pc = "updated", relayer'[v].isDone
      PROVE  TaskOfPrompt(Prompt(v)) \in db'.tasks
  <2>1. CASE relayer'[v] = relayer[v]
    BY <1>1, <1>3, <2>1 DEF AnswerInv, EvaluatedDone
  <2>2. CASE CommitUpdate(v)
    <3>1. db' = Plus(db, Writes(v)) /\ TaskDone(relayer[v].snap, Prompt(v))
      BY <1>0, <1>3, <2>2, CommitType
    <3>2. relayer[v].snap.tasks \subseteq db.tasks
      BY <2>2 DEF CommitUpdate, AnswerInv, TreeInv, SnapshotsCommitted, Within
    <3> QED
      BY <3>1, <3>2 DEF Plus, Writes, Minus, Updated
  <2>3. relayer'[v] = relayer[v] \/ CommitUpdate(v)
    <3>1. CASE Quiet
      BY <1>3, <3>1 DEF Quiet
    <3>2. ASSUME NEW w \in Workflows, BeginUpdate(w)
          PROVE  relayer'[v] = relayer[v]
      BY <1>0, <1>3, <3>2, BeginType
    <3>3. ASSUME NEW w \in Workflows, CommitUpdate(w), v # w
          PROVE  relayer'[v] = relayer[v]
      BY <1>0, <1>3, <3>3, CommitType
    <3> QED
      BY <1>0, <3>1, <3>2, <3>3, StepKinds
  <2> QED
    BY <2>1, <2>2, <2>3
<1> QED
  BY <1>2, <1>3 DEF EvaluatedDone

(* AnswerInv: a prompt marked done has a response, saved or lost to a      *)
(* fault (relayer/activities), and only done tasks are evaluated.          *)
THEOREM AnswerInvAlways == Spec => []AnswerInv
<1>1. Init => AnswerInv
  BY InitTree DEF Init, AnswerInv, MarkedAnswered, EvaluatedDone, NoDocs, Idle
<1>2. AnswerInv /\ [Next]_vars => AnswerInv'
  BY StepTree, StepMarked, StepEvaluated DEF AnswerInv
<1> QED
  BY <1>1, <1>2, PTL DEF Spec

(* The Evaluator of a task starts when each of its prompts has a response,   *)
(* but for the ones the database refused to save.                            *)
THEOREM EvaluationAnswered == Spec => []EvaluatedWhenAnswered
<1>1. AnswerInv => EvaluatedWhenAnswered
  <2> SUFFICES ASSUME AnswerInv, NEW t \in evaluating, NEW p \in Prompts, TaskOfPrompt(p) = t
               PROVE  Responses(p) > 0 \/ p \in lost
    BY DEF EvaluatedWhenAnswered
  <2>1. t \in db.tasks
    BY DEF AnswerInv, EvaluatedDone
  <2>2. InstanceOf[p] \in InstancesOf(t)
    BY TreeAssumption DEF InstancesOf, TaskOfPrompt
  <2>3. p \in db.prompts
    BY <2>1, <2>2 DEF AnswerInv, TreeInv, DoneUpwards, PromptsOf
  <2> QED
    BY <2>3 DEF AnswerInv, MarkedAnswered, Answered
<1> QED
  BY <1>1, AnswerInvAlways, PTL

-----------------------------------------------------------------------------
(* A task whose updates did not overlap is done with its last prompt. *)
SettleInv == TreeInv /\ SnapshotsAgree /\ TreesSettled

(* What a transaction writes belongs to the tree of its task. *)
LEMMA WritesOwnTree ==
  ASSUME NEW w \in Workflows, NEW t, t # TaskOfPrompt(Prompt(w)), NEW d
  PROVE  Agree(d, Plus(d, Writes(w)), t)
BY DEF Agree, Plus, Writes, Minus, Updated, TaskOfPrompt

(* What does not touch a tree does not change it. *)
LEMMA UntouchedAgree ==
  ASSUME NEW d, NEW e, NEW t, ~Touches(e, t),
         e.prompts \subseteq Prompts, e.instances \subseteq Instances
  PROVE  Agree(d, Plus(d, e), t)
BY DEF Touches, Agree, Plus

(* What does not touch a task in two writes does not in either. *)
LEMMA TouchesPlus ==
  ASSUME NEW d, NEW e, NEW t, ~Touches(Plus(d, e), t)
  PROVE  ~Touches(d, t) /\ ~Touches(e, t)
BY DEF Touches, Plus

(* Documents that agree on a task are settled together. *)
LEMMA AgreeSettled ==
  ASSUME NEW d, NEW e, NEW t, Agree(d, e, t), Settled(d, t)
  PROVE  Settled(e, t)
<1>1. \A i \in InstancesOf(t) : \A p \in PromptsOf(i) : p \in Prompts /\ TaskOfPrompt(p) = t
  BY DEF InstancesOf, PromptsOf, TaskOfPrompt
<1> QED
  BY <1>1 DEF Agree, Settled, InstancesOf

(* A transaction that read its task's tree as it is leaves it settled. *)
LEMMA CommitSettles ==
  ASSUME TypeOK, SnapshotsCommitted, NEW w \in Workflows, CommitUpdate(w),
         Agree(relayer[w].snap, db, TaskOfPrompt(Prompt(w))),
         Settled(db, TaskOfPrompt(Prompt(w)))
  PROVE  Settled(db', TaskOfPrompt(Prompt(w)))
<1> DEFINE d == relayer[w].snap
           p == Prompt(w)
           t == TaskOfPrompt(Prompt(w))
<1>1. /\ p \in Prompts /\ InstanceOf[p] \in Instances /\ TaskOf[InstanceOf[p]] = t
      /\ relayer[w].pc = "txn" /\ db' = Plus(db, Writes(w))
  BY WorkflowPrompt, CommitType DEF TaskOfPrompt
<1>2. Within(d, db)
  BY <1>1 DEF SnapshotsCommitted
<1>3. /\ db'.prompts = db.prompts \cup {p}
      /\ db'.instances = db.instances \cup (IF InstanceDone(d, p) THEN {InstanceOf[p]} ELSE {})
      /\ db'.tasks = db.tasks \cup (IF TaskDone(d, p) THEN {t} ELSE {})
  BY <1>1, <1>2 DEF Plus, Writes, Minus, Updated, Within
<1>4. Agree(d, db, t) /\ Settled(db, t)
  OBVIOUS
<1>5. TaskOfPrompt(p) = t
  OBVIOUS
<1> HIDE DEF d, p, t
<1>6. ASSUME NEW i \in InstancesOf(t), PromptsOf(i) \subseteq db'.prompts
      PROVE  i \in db'.instances
  <2>1. CASE i = InstanceOf[p]
    <3>1. PromptsOf(i) \subseteq d.prompts \cup {p}
      BY <1>3, <1>4, <1>6, <2>1 DEF Agree, PromptsOf, InstancesOf, TaskOfPrompt
    <3> QED
      BY <1>3, <2>1, <3>1 DEF InstanceDone
  <2>2. CASE i # InstanceOf[p]
    BY <1>3, <1>4, <1>6, <2>2 DEF Settled, PromptsOf
  <2> QED
    BY <2>1, <2>2
<1>7. ASSUME InstancesOf(t) \subseteq db'.instances
      PROVE  t \in db'.tasks
  <2>1. CASE InstanceDone(d, p)
    <3>1. InstancesOf(t) \subseteq d.instances \cup {InstanceOf[p]}
      BY <1>3, <1>4, <1>7, <2>1 DEF Agree, InstancesOf
    <3> QED
      BY <1>3, <1>5, <2>1, <3>1 DEF TaskDone
  <2>2. CASE ~InstanceDone(d, p)
    BY <1>3, <1>4, <1>7, <2>2 DEF Settled
  <2> QED
    BY <2>1, <2>2
<1> QED
  BY <1>6, <1>7 DEF Settled, t

(* Every step leaves tasks settled, or a skew behind. *)
LEMMA StepSettle == SettleInv /\ [Next]_vars => SettleInv'
<1> SUFFICES ASSUME SettleInv, [Next]_vars
             PROVE  SettleInv'
  OBVIOUS
<1>0. TreeInv' /\ TypeOK /\ TypeOK'
  BY StepTree DEF SettleInv, TreeInv
<1>1. CASE Quiet
  BY <1>0, <1>1 DEF Quiet, SettleInv, SnapshotsAgree, TreesSettled
<1>2. ASSUME NEW w \in Workflows, BeginUpdate(w)
      PROVE  SettleInv'
  <2>1. db' = db /\ skewed' = skewed
    BY <1>2 DEF BeginUpdate
  <2>2. \A v \in Workflows : relayer'[v].snap = db \/ relayer'[v] = relayer[v]
    BY <1>0, <1>2, BeginType
  <2>3. SnapshotsAgree'
    BY <2>1, <2>2 DEF SettleInv, SnapshotsAgree, Agree
  <2> QED
    BY <1>0, <2>1, <2>3 DEF SettleInv, TreesSettled
<1>3. ASSUME NEW w \in Workflows, CommitUpdate(w)
      PROVE  SettleInv'
  <2> DEFINE tw == TaskOfPrompt(Prompt(w))
  <2>1. /\ db' = Plus(db, Writes(w)) /\ relayer[w].pc = "txn" /\ relayer'[w].pc = "updated"
        /\ Writes(w).prompts \subseteq Prompts /\ Writes(w).instances \subseteq Instances
        /\ \A v \in Workflows : relayer'[v].pc = "txn" =>
              /\ relayer[v].pc = "txn" /\ relayer'[v].snap = relayer[v].snap
              /\ relayer'[v].missed = Plus(relayer[v].missed, Writes(w))
    BY <1>0, <1>3, CommitType DEF Docs
  <2>2. ASSUME NEW v \in Workflows, relayer'[v].pc = "txn",
               ~Touches(relayer'[v].missed, TaskOfPrompt(Prompt(v)))
        PROVE  Agree(relayer'[v].snap, db', TaskOfPrompt(Prompt(v)))
    <3> DEFINE t == TaskOfPrompt(Prompt(v))
    <3>1. ~Touches(relayer[v].missed, t) /\ ~Touches(Writes(w), t)
      BY <2>1, <2>2, TouchesPlus
    <3>2. Agree(relayer[v].snap, db, t)
      BY <2>1, <2>2, <3>1 DEF SettleInv, SnapshotsAgree
    <3>3. Agree(db, db', t)
      BY <2>1, <3>1, UntouchedAgree
    <3> HIDE DEF t
    <3>4. Agree(relayer'[v].snap, db', t)
      BY <2>1, <2>2, <3>2, <3>3 DEF Agree
    <3> QED
      BY <3>4 DEF t
  <2>3. SnapshotsAgree'
    BY <2>2 DEF SnapshotsAgree
  <2>4. ASSUME NEW t \in Tasks \ skewed'
        PROVE  Settled(db', t)
    <3>1. t \notin skewed /\ (t = tw => ~Touches(relayer[w].missed, tw))
      BY <1>3 DEF CommitUpdate
    <3>2. Settled(db, t)
      BY <3>1 DEF SettleInv, TreesSettled
    <3>3. CASE t = tw
      <4>1. Agree(relayer[w].snap, db, tw)
        BY <2>1, <3>1, <3>3 DEF SettleInv, SnapshotsAgree
      <4> QED
        BY <1>0, <1>3, <3>2, <3>3, <4>1, CommitSettles DEF SettleInv, TreeInv
    <3>4. CASE t # tw
      <4>1. Agree(db, db', t)
        BY <2>1, <3>4, WritesOwnTree
      <4> QED
        BY <3>2, <4>1, AgreeSettled
    <3> QED
      BY <3>3, <3>4
  <2> QED
    BY <1>0, <2>3, <2>4 DEF SettleInv, TreesSettled
<1> QED
  BY <1>0, <1>1, <1>2, <1>3, StepKinds

(* At first every task is settled. *)
LEMMA InitSettle == Init => SettleInv
<1> SUFFICES ASSUME Init
             PROVE  SettleInv
  OBVIOUS
<1>1. SnapshotsAgree
  BY DEF Init, SnapshotsAgree, Idle
<1>2. \A t \in Tasks : Settled(NoDocs, t)
  BY SamplerAssumption DEF Settled, NoDocs, PromptsOf, InstancesOf
<1> QED
  BY <1>1, <1>2, InitTree DEF Init, SettleInv, TreesSettled

(* As long as no update of a task runs on a snapshot that missed another of  *)
(* the same task, its last prompt done leaves the task done.                 *)
THEOREM LastPromptSettles == Spec => []SettledUnlessSkewed
<1>1. SettleInv => SettledUnlessSkewed
  <2> SUFFICES ASSUME SettleInv, NEW t \in Tasks \ skewed,
                      \A p \in Prompts : TaskOfPrompt(p) = t => p \in db.prompts
               PROVE  t \in db.tasks
    BY DEF SettledUnlessSkewed
  <2>1. Settled(db, t)
    BY DEF SettleInv, TreesSettled
  <2>2. \A i \in InstancesOf(t) : PromptsOf(i) \subseteq db.prompts
    BY DEF InstancesOf, PromptsOf, TaskOfPrompt
  <2> QED
    BY <2>1, <2>2 DEF Settled
<1> QED
  BY <1>1, InitSettle, StepSettle, PTL DEF Spec

-----------------------------------------------------------------------------
(* The responses of a prompt are bounded by its sessions and the faults. *)
Weight(pc) == IF pc \in OpenPlaces THEN 1 ELSE 0

(* A set has one element more than without one of its elements. *)
LEMMA WithoutOne ==
  ASSUME NEW S, IsFiniteSet(S), NEW s
  PROVE  /\ Cardinality(S) \in Nat /\ Cardinality(S \ {s}) \in Nat
         /\ Cardinality(S) = Cardinality(S \ {s}) + (IF s \in S THEN 1 ELSE 0)
<1>1. IsFiniteSet(S \ {s}) /\ Cardinality(S) \in Nat
  BY FS_Subset, FS_CardinalityType
<1>2. Cardinality(S \ {s}) \in Nat
  BY <1>1, FS_CardinalityType
<1>3. CASE s \in S
  <2>1. Cardinality(S \ {s}) = Cardinality(S) - 1
    BY <1>3, FS_RemoveElement
  <2> QED
    BY <1>1, <1>2, <1>3, <2>1
<1>4. CASE s \notin S
  <2>1. Cardinality(S \ {s}) = Cardinality(S)
    <3>1. S \ {s} = S
      BY <1>4
    <3> QED
      BY <3>1
  <2> QED
    BY <1>1, <1>4, <2>1
<1> QED
  BY <1>1, <1>2, <1>3, <1>4

(* What is added to the responses is taken from those to come, or a fault. *)
LEMMA Trade ==
  ASSUME NEW r \in Nat, NEW r2 \in Nat, NEW c \in Nat, NEW u \in Nat, NEW u2 \in Nat,
         NEW n \in Nat, NEW f \in Nat, NEW f2 \in Nat,
         r + (c + u) <= n + f, r2 + u2 - f2 <= r + u - f
  PROVE  r2 + (c + u2) <= n + f2
OBVIOUS

(* A step of one Relayer may trade its turn, or a fault, for a response. *)
LEMMA OneRelayerSteps ==
  ASSUME TypeOK, TypeOK', ResponsesBounded, NEW w \in Workflows,
         \A v \in Workflows \ {w} : relayer'[v].pc = relayer[v].pc,
         faults <= faults',
         \A p \in Prompts \ {Prompt(w)} : Responses(p)' = Responses(p),
         Responses(Prompt(w))' + Weight(relayer'[w].pc) - faults'
           <= Responses(Prompt(w)) + Weight(relayer[w].pc) - faults
  PROVE  ResponsesBounded'
<1>1. PICK s \in Sessions, p \in Prompts : w = <<s, p>>
  BY DEF Workflows
<1>2. /\ Prompt(w) = p /\ faults \in Nat /\ faults' \in Nat
      /\ \A q \in Prompts : Responses(q) \in Nat /\ Responses(q)' \in Nat
  BY <1>1, MaxFaultsAssumption DEF Prompt, TypeOK, Responses
<1>3. \A q \in Prompts : IsFiniteSet(Open(q)) /\ IsFiniteSet(Open(q)')
  BY SessionsAssumption, FS_Subset DEF Open
<1>4. \A q \in Prompts : Cardinality(Open(q)) \in Nat /\ Cardinality(Open(q)') \in Nat
  BY <1>3, FS_CardinalityType
<1>5. Cardinality(Sessions) \in Nat
  BY SessionsAssumption, FS_CardinalityType
<1>6. ASSUME NEW q \in Prompts \ {p}
      PROVE  Responses(q)' + Cardinality(Open(q)') <= Cardinality(Sessions) + faults'
  <2>1. \A r \in Sessions : <<r, q>> \in Workflows \ {w}
    BY <1>1, <1>6 DEF Workflows
  <2>2. Open(q)' = Open(q)
    BY <2>1 DEF Open
  <2>3. Responses(q)' = Responses(q)
    BY <1>2
  <2>4. Responses(q) + Cardinality(Open(q)) <= Cardinality(Sessions) + faults
    BY DEF ResponsesBounded
  <2> HIDE DEF Responses, Open
  <2> QED
    BY <1>2, <1>4, <1>5, <2>2, <2>3, <2>4
<1>7. Responses(p)' + Cardinality(Open(p)') <= Cardinality(Sessions) + faults'
  <2> DEFINE rest == Open(p) \ {s}
  <2>1. Open(p)' \ {s} = rest
    <3>1. \A r \in Sessions \ {s} : <<r, p>> \in Workflows \ {w}
      BY <1>1 DEF Workflows
    <3> QED
      BY <3>1 DEF Open
  <2>2. /\ Cardinality(Open(p)) = Cardinality(rest) + Weight(relayer[w].pc)
        /\ Cardinality(rest) \in Nat
    <3>1. s \in Open(p) <=> relayer[w].pc \in OpenPlaces
      BY <1>1 DEF Open
    <3> QED
      BY <3>1, <1>3, WithoutOne DEF Weight
  <2>3. Cardinality(Open(p)') = Cardinality(rest) + Weight(relayer'[w].pc)
    <3>1. s \in Open(p)' <=> relayer'[w].pc \in OpenPlaces
      BY <1>1 DEF Open
    <3>2. Cardinality(Open(p)') = Cardinality(Open(p)' \ {s}) + (IF s \in Open(p)' THEN 1 ELSE 0)
      BY <1>3, WithoutOne
    <3> QED
      BY <3>1, <3>2, <2>1 DEF Weight
  <2>4. Responses(p) + Cardinality(Open(p)) <= Cardinality(Sessions) + faults
    BY DEF ResponsesBounded
  <2>5. /\ Weight(relayer[w].pc) \in Nat /\ Weight(relayer'[w].pc) \in Nat
        /\ Responses(p)' + Weight(relayer'[w].pc) - faults'
             <= Responses(p) + Weight(relayer[w].pc) - faults
    BY <1>2 DEF Weight
  <2>6. /\ Responses(p) \in Nat /\ Responses(p)' \in Nat
        /\ faults \in Nat /\ faults' \in Nat /\ Cardinality(rest) \in Nat
        /\ Responses(p) + (Cardinality(rest) + Weight(relayer[w].pc)) <= Cardinality(Sessions) + faults
    BY <1>2, <2>2, <2>4
  <2> HIDE DEF rest
  <2>7. Responses(p)' + (Cardinality(rest) + Weight(relayer'[w].pc))
          <= Cardinality(Sessions) + faults'
    BY <1>5, <2>5, <2>6, Trade
  <2> QED
    BY <2>3, <2>7
<1> QED
  BY <1>6, <1>7 DEF ResponsesBounded

(* A step that saves no response, of a Relayer that does not get a new turn. *)
LEMMA QuietRelayerSteps ==
  ASSUME TypeOK, TypeOK', ResponsesBounded, NEW w \in Workflows,
         \A v \in Workflows \ {w} : relayer'[v].pc = relayer[v].pc,
         answers' = answers, orphans' = orphans,
         \/ faults' = faults /\ (relayer[w].pc \in OpenPlaces \/ relayer'[w].pc \notin OpenPlaces)
         \/ faults' = faults + 1
  PROVE  ResponsesBounded'
<1>1. \A p \in Prompts : Responses(p)' = Responses(p)
  BY DEF Responses
<1>2. Prompt(w) \in Prompts /\ Responses(Prompt(w)) \in Nat /\ faults \in Nat
  BY WorkflowPrompt, MaxFaultsAssumption DEF TypeOK, Responses
<1>3. Responses(Prompt(w))' = Responses(Prompt(w))
  BY DEF Responses
<1>4. Responses(Prompt(w))' + Weight(relayer'[w].pc) - faults'
           <= Responses(Prompt(w)) + Weight(relayer[w].pc) - faults
  BY <1>2, <1>3 DEF Weight
<1> QED
  BY <1>1, <1>2, <1>4, OneRelayerSteps

(* A step that saves a response and takes the Relayer past its save, or that *)
(* is a fault.                                                               *)
LEMMA AnsweringRelayerSteps ==
  ASSUME TypeOK, TypeOK', ResponsesBounded, NEW w \in Workflows,
         \A v \in Workflows \ {w} : relayer'[v].pc = relayer[v].pc,
         relayer[w].pc \in OpenPlaces, relayer'[w].pc \notin OpenPlaces,
         faults <= faults',
         \/ answers' = [answers EXCEPT ![Prompt(w)] = @ + 1] /\ orphans' = orphans
         \/ orphans' = [orphans EXCEPT ![Prompt(w)] = @ + 1] /\ answers' = answers
  PROVE  ResponsesBounded'
<1>1. /\ Prompt(w) \in Prompts /\ faults \in Nat /\ faults' \in Nat
      /\ answers \in [Prompts -> Nat] /\ orphans \in [Prompts -> Nat]
  BY WorkflowPrompt, MaxFaultsAssumption DEF TypeOK
<1>2. \A p \in Prompts \ {Prompt(w)} : Responses(p)' = Responses(p)
  BY <1>1 DEF Responses
<1>3. Responses(Prompt(w))' = Responses(Prompt(w)) + 1 /\ Responses(Prompt(w)) \in Nat
  BY <1>1 DEF Responses
<1>4. Responses(Prompt(w))' + Weight(relayer'[w].pc) - faults'
           <= Responses(Prompt(w)) + Weight(relayer[w].pc) - faults
  BY <1>1, <1>3 DEF Weight
<1> QED
  BY <1>2, <1>4, OneRelayerSteps

(* A step that leaves the responses, the faults and every Relayer's place.   *)
LEMMA StillRelayers ==
  ASSUME ResponsesBounded, answers' = answers, orphans' = orphans, faults' = faults,
         relayer' = relayer
  PROVE  ResponsesBounded'
BY DEF ResponsesBounded, Responses, Open

(* Every step keeps responses within sessions and faults. *)
LEMMA StepResponses ==
  ASSUME TypeOK, ResponsesBounded, [Next]_vars
  PROVE  ResponsesBounded'
<1> USE DEF Places, OpenPlaces
<1>0. TypeOK' /\ faults \in Nat
  BY StepTyped, MaxFaultsAssumption DEF TypeOK
<1>1. ASSUME NEW s \in Sessions, GetTasks(s)
      PROVE  ResponsesBounded'
  BY <1>1, StillRelayers DEF GetTasks
<1>2. ASSUME NEW s \in Sessions, NEW p \in Prompts, StartRelayer(s, p)
      PROVE  ResponsesBounded'
  <2>1. /\ <<s, p>> \in Workflows
        /\ \A v \in Workflows \ {<<s, p>>} : relayer'[v] = relayer[v]
        /\ \/ relayer'[<<s, p>>] = relayer[<<s, p>>]
           \/ relayer[<<s, p>>].pc \in {"none", "failed"}
    BY <1>2, StartType
  <2>2. answers' = answers /\ orphans' = orphans /\ faults' = faults
    BY <1>2 DEF StartRelayer
  <2> QED
    BY <1>0, <2>1, <2>2, QuietRelayerSteps
<1>3. ASSUME NEW w \in Workflows, Progress(w)
      PROVE  ResponsesBounded'
  <2>1. CASE PromptFound(w) \/ RelayerReturns(w) \/ Finish(w)
    <3>1. /\ relayer[w].pc \in OpenPlaces \/ relayer'[w].pc \notin OpenPlaces
          /\ \A v \in Workflows \ {w} : relayer'[v] = relayer[v]
      BY <2>1, GotoType DEF PromptFound, RelayerReturns, Finish, Goto
    <3>2. answers' = answers /\ orphans' = orphans /\ faults' = faults
      BY <2>1 DEF PromptFound, RelayerReturns, Finish
    <3> QED
      BY <1>0, <3>1, <3>2, QuietRelayerSteps
  <2>2. CASE PromptNotFound(w) \/ SaveResponse(w)
    <3>1. /\ relayer[w].pc \in OpenPlaces /\ relayer'[w].pc \notin OpenPlaces
          /\ \A v \in Workflows \ {w} : relayer'[v] = relayer[v]
      BY <2>2, GotoType DEF PromptNotFound, SaveResponse, Goto
    <3>2. /\ faults' = faults
          /\ \/ answers' = [answers EXCEPT ![Prompt(w)] = @ + 1] /\ orphans' = orphans
             \/ orphans' = [orphans EXCEPT ![Prompt(w)] = @ + 1] /\ answers' = answers
      BY <2>2 DEF PromptNotFound, SaveResponse
    <3> QED
      BY <1>0, <3>1, <3>2, AnsweringRelayerSteps
  <2>3. CASE BeginUpdate(w) \/ ConflictUpdate(w)
    <3>1. /\ relayer'[w].pc \notin OpenPlaces
          /\ \A v \in Workflows \ {w} : relayer'[v] = relayer[v]
      BY <2>3, BeginType, ConflictType
    <3>2. answers' = answers /\ orphans' = orphans /\ faults' = faults
      BY <2>3 DEF BeginUpdate, ConflictUpdate
    <3> QED
      BY <1>0, <3>1, <3>2, QuietRelayerSteps
  <2>4. CASE CommitUpdate(w)
    <3>1. /\ relayer'[w].pc \notin OpenPlaces
          /\ \A v \in Workflows \ {w} : relayer'[v].pc = relayer[v].pc
      BY <2>4, CommitType
    <3>2. answers' = answers /\ orphans' = orphans /\ faults' = faults
      BY <2>4 DEF CommitUpdate
    <3> QED
      BY <1>0, <3>1, <3>2, QuietRelayerSteps
  <2> QED
    BY <1>3, <2>1, <2>2, <2>3, <2>4 DEF Progress
<1>4. ASSUME NEW w \in Workflows, LookupError(w)
      PROVE  ResponsesBounded'
  <2>1. /\ relayer[w].pc \in OpenPlaces /\ relayer'[w].pc \notin OpenPlaces
        /\ \A v \in Workflows \ {w} : relayer'[v] = relayer[v]
    BY <1>4, GotoType DEF LookupError, Goto
  <2>2. /\ faults <= faults' /\ answers' = answers
        /\ orphans' = [orphans EXCEPT ![Prompt(w)] = @ + 1]
    BY <1>0, <1>4 DEF LookupError
  <2> QED
    BY <1>0, <2>1, <2>2, AnsweringRelayerSteps
<1>5. ASSUME NEW w \in Workflows, LoseResponse(w) \/ RelayerCrash(w) \/ UpdateCrash(w)
      PROVE  ResponsesBounded'
  <2>1. \A v \in Workflows \ {w} : relayer'[v] = relayer[v]
    BY <1>5, GotoType, RestartedType DEF LoseResponse, RelayerCrash, UpdateCrash
  <2>2. answers' = answers /\ orphans' = orphans /\ faults' = faults + 1
    BY <1>5 DEF LoseResponse, RelayerCrash, UpdateCrash, Restarted
  <2> QED
    BY <1>0, <2>1, <2>2, QuietRelayerSteps
<1>6. ASSUME NEW w \in Workflows, RetryWorkflow(w)
      PROVE  ResponsesBounded'
  <2>1. /\ relayer[w].pc \in OpenPlaces
        /\ \A v \in Workflows \ {w} : relayer'[v] = relayer[v]
    BY <1>6, GotoType DEF RetryWorkflow, Goto
  <2> QED
    BY <1>0, <1>6, <2>1, QuietRelayerSteps DEF RetryWorkflow
<1>7. ASSUME NEW t \in Tasks, LookupTasks(t)
      PROVE  ResponsesBounded'
  BY <1>7, StillRelayers DEF LookupTasks
<1>8. CASE UNCHANGED vars
  BY <1>8, StillRelayers DEF vars
<1> QED
  BY <1>1, <1>2, <1>3, <1>4, <1>5, <1>6, <1>7, <1>8 DEF Next

BoundInv == TypeOK /\ ResponsesBounded

(* A prompt has at most one response for each session it was relayed in and  *)
(* for each fault, however many Relayers, retries and stale listings.        *)
THEOREM ResponsesOncePerSession == Spec => []OneResponsePerSession
<1>1. Init => BoundInv
  <2> SUFFICES ASSUME Init, NEW p \in Prompts
               PROVE  Responses(p) + Cardinality(Open(p)) <= Cardinality(Sessions) + faults
    BY InitTyped DEF BoundInv, ResponsesBounded
  <2>1. Responses(p) = 0 /\ faults = 0
    BY DEF Init, Responses
  <2>2. Open(p) = Sessions
    BY DEF Init, Open, OpenPlaces, Workflows, Idle
  <2>3. Cardinality(Sessions) \in Nat
    BY SessionsAssumption, FS_CardinalityType
  <2> QED
    BY <2>1, <2>2, <2>3
<1>2. BoundInv /\ [Next]_vars => BoundInv'
  BY StepTyped, StepResponses DEF BoundInv
<1>3. BoundInv => OneResponsePerSession
  <2> SUFFICES ASSUME BoundInv, NEW p \in Prompts
               PROVE  Responses(p) <= Cardinality(Sessions) + faults
    BY DEF OneResponsePerSession
  <2>1. IsFiniteSet(Open(p))
    BY SessionsAssumption, FS_Subset DEF Open
  <2>2. /\ Cardinality(Open(p)) \in Nat /\ Cardinality(Sessions) \in Nat
        /\ Responses(p) \in Nat /\ faults \in Nat
    BY <2>1, SessionsAssumption, MaxFaultsAssumption, FS_CardinalityType
       DEF BoundInv, TypeOK, Responses
  <2> QED
    BY <2>2 DEF BoundInv, ResponsesBounded
<1> QED
  BY <1>1, <1>2, <1>3, PTL DEF Spec
=============================================================================
