------------------------------ MODULE TaskTree ------------------------------
(***************************************************************************)
(* How the Requester turns the prompts of a task into relays and decides   *)
(* that the task is done (apps/go/requester).                              *)
(*                                                                         *)
(* A Requester workflow, one per application and session, lists the        *)
(* prompts still to do (GetTasks) and starts one Relayer workflow for each,*)
(* whose id holds the session and the prompt.  A Relayer looks the prompt  *)
(* up, sends the relay, saves a response and then updates the task tree in *)
(* a MongoDB transaction: it marks its prompt done, the instance when all  *)
(* the prompts it sees are done, the task when all the instances it sees   *)
(* are done.  The Relayer that sees the task done starts the Evaluator;    *)
(* LookupTasks, on a schedule, starts it for any done task as well.        *)
(*                                                                         *)
(* MongoDB transactions run on a snapshot and are retried when a document  *)
(* they modify was modified by a transaction committed since (external).   *)
(***************************************************************************)
EXTENDS Naturals, FiniteSets

CONSTANTS
  Prompts, Instances, Tasks,
  InstanceOf,  (* The instance of each prompt.                             *)
  TaskOf,      (* The task of each instance.                               *)
  Sessions,    (* The application sessions the node of the tasks is in.    *)
  MaxFaults    (* Bound on crashes, lost activity results and DB errors.   *)

ASSUME TreeAssumption ==
  /\ InstanceOf \in [Prompts -> Instances]
  /\ TaskOf \in [Instances -> Tasks]
ASSUME SamplerAssumption ==  \* sample.py gives each task instances, each instance prompts
  /\ \A i \in Instances : \E p \in Prompts : InstanceOf[p] = i
  /\ \A t \in Tasks : \E i \in Instances : TaskOf[i] = t
ASSUME SessionsAssumption == IsFiniteSet(Sessions)
ASSUME MaxFaultsAssumption == MaxFaults \in Nat

VARIABLES
  db,          (* The documents marked done in each collection             *)
  answers,     (* Responses saved with the ids of their prompt's task      *)
  orphans,     (* Error responses saved with no id but their prompt's      *)
  listed,      (* What each Requester still has to start a Relayer for     *)
  relayer,     (* The Relayer workflow of each session and prompt          *)
  evaluating,  (* Tasks whose Evaluator was started                        *)
  faults,
  lost,        (* History: prompts with a response that was not saved      *)
  skewed       (* History: tasks updated from a snapshot that missed part  *)
               (* of the task's tree                                       *)

vars == <<db, answers, orphans, listed, relayer, evaluating, faults, lost, skewed>>

PromptsOf(i)   == {p \in Prompts : InstanceOf[p] = i}
InstancesOf(t) == {i \in Instances : TaskOf[i] = t}
TaskOfPrompt(p) == TaskOf[InstanceOf[p]]

Docs == [prompts: SUBSET Prompts, instances: SUBSET Instances, tasks: SUBSET Tasks]

Workflows == Sessions \X Prompts
Prompt(w) == w[2]

NoDocs == [prompts |-> {}, instances |-> {}, tasks |-> {}]

Places == {"none", "lookup", "relaying", "saved", "update", "txn", "updated", "done", "failed"}

\* A workflow's place, the snapshot its transaction runs on, what other
\* transactions wrote since, and the IsDone its last transaction returned.
RelayerState == [pc: Places, snap: Docs, missed: Docs, isDone: BOOLEAN]

Idle == [pc |-> "none", snap |-> NoDocs, missed |-> NoDocs, isDone |-> FALSE]

Init ==
  /\ db = NoDocs
  /\ answers = [p \in Prompts |-> 0]
  /\ orphans = [p \in Prompts |-> 0]
  /\ listed = [s \in Sessions |-> {}]
  /\ relayer = [w \in Workflows |-> Idle]
  /\ evaluating = {}
  /\ faults = 0
  /\ lost = {}
  /\ skewed = {}

Goto(w, from, to) ==
  /\ relayer[w].pc = from
  /\ relayer' = [relayer EXCEPT ![w].pc = to]

-----------------------------------------------------------------------------
(***************************************************************************)
(* The Requester workflow.                                                 *)
(***************************************************************************)
ToDo == {p \in Prompts : /\ p \notin db.prompts
                         /\ InstanceOf[p] \notin db.instances
                         /\ TaskOfPrompt(p) \notin db.tasks}

GetTasks(s) ==
  /\ listed[s] = {}
  /\ listed' = [listed EXCEPT ![s] = ToDo]
  /\ UNCHANGED <<db, answers, orphans, relayer, evaluating, faults, lost, skewed>>

(* Mutant: a Relayer that failed is never started again. *)
StartRelayerOnce(s, p) ==
  /\ p \in listed[s]
  /\ listed' = [listed EXCEPT ![s] = @ \ {p}]
  /\ IF relayer[<<s, p>>].pc = "none"
     THEN relayer' = [relayer EXCEPT ![<<s, p>>] = [Idle EXCEPT !.pc = "lookup"]]
     ELSE UNCHANGED relayer
  /\ UNCHANGED <<db, answers, orphans, evaluating, faults, lost, skewed>>

(* Mutant: a workflow id may be started again while it runs. *)
StartRelayerAlways(s, p) ==
  /\ p \in listed[s]
  /\ listed' = [listed EXCEPT ![s] = @ \ {p}]
  /\ relayer' = [relayer EXCEPT ![<<s, p>>] = [Idle EXCEPT !.pc = "lookup"]]
  /\ UNCHANGED <<db, answers, orphans, evaluating, faults, lost, skewed>>

\* Workflow ids may be used again only after a failure; any other start is skipped.
StartRelayer(s, p) ==
  /\ p \in listed[s]
  /\ listed' = [listed EXCEPT ![s] = @ \ {p}]
  /\ IF relayer[<<s, p>>].pc \in {"none", "failed"}
     THEN relayer' = [relayer EXCEPT ![<<s, p>>] = [Idle EXCEPT !.pc = "lookup"]]
     ELSE UNCHANGED relayer
  /\ UNCHANGED <<db, answers, orphans, evaluating, faults, lost, skewed>>

(***************************************************************************)
(* The Relayer activity: look the prompt up, relay, save the response.     *)
(***************************************************************************)
PromptFound(w) ==
  /\ Prompt(w) \notin db.prompts
  /\ Goto(w, "lookup", "relaying")
  /\ UNCHANGED <<db, answers, orphans, listed, evaluating, faults, lost, skewed>>

PromptNotFound(w) ==
  /\ Prompt(w) \in db.prompts
  /\ Goto(w, "lookup", "saved")
  /\ orphans' = [orphans EXCEPT ![Prompt(w)] = @ + 1]
  /\ UNCHANGED <<db, answers, listed, evaluating, faults, lost, skewed>>

\* A database error of the lookup is answered for as well, without the task id.
LookupError(w) ==
  /\ faults < MaxFaults
  /\ faults' = faults + 1
  /\ Goto(w, "lookup", "saved")
  /\ orphans' = [orphans EXCEPT ![Prompt(w)] = @ + 1]
  /\ UNCHANGED <<db, answers, listed, evaluating, lost, skewed>>

SaveResponse(w) ==
  /\ Goto(w, "relaying", "saved")
  /\ answers' = [answers EXCEPT ![Prompt(w)] = @ + 1]
  /\ UNCHANGED <<db, orphans, listed, evaluating, faults, lost, skewed>>

\* The error of the save is logged and the activity still succeeds.
LoseResponse(w) ==
  /\ faults < MaxFaults
  /\ faults' = faults + 1
  /\ Goto(w, "lookup", "saved") \/ Goto(w, "relaying", "saved")
  /\ lost' = lost \cup {Prompt(w)}
  /\ UNCHANGED <<db, answers, orphans, listed, evaluating, skewed>>

RelayerReturns(w) ==
  /\ Goto(w, "saved", "update")
  /\ UNCHANGED <<db, answers, orphans, listed, evaluating, faults, lost, skewed>>

-----------------------------------------------------------------------------
(***************************************************************************)
(* UpdateTaskTree: what the transaction of prompt p writes on snapshot d.  *)
(***************************************************************************)
(* Mutant: the other prompts of the instance are not looked at. *)
InstanceDoneAlways(d, p) == TRUE

InstanceDone(d, p) == PromptsOf(InstanceOf[p]) \subseteq d.prompts \cup {p}

(* Mutant: the instance just marked is looked up as it was before. *)
TaskDoneStale(d, p) ==
  InstanceDone(d, p) /\ InstancesOf(TaskOfPrompt(p)) \subseteq d.instances

TaskDone(d, p) ==
  InstanceDone(d, p) /\ InstancesOf(TaskOfPrompt(p)) \subseteq d.instances \cup {InstanceOf[p]}

Updated(d, p) ==
  [prompts   |-> d.prompts \cup {p},
   instances |-> d.instances \cup (IF InstanceDone(d, p) THEN {InstanceOf[p]} ELSE {}),
   tasks     |-> d.tasks \cup (IF TaskDone(d, p) THEN {TaskOfPrompt(p)} ELSE {})]

Plus(d, e) == [prompts   |-> d.prompts \cup e.prompts,
               instances |-> d.instances \cup e.instances,
               tasks     |-> d.tasks \cup e.tasks]

Minus(d, e) == [prompts   |-> d.prompts \ e.prompts,
                instances |-> d.instances \ e.instances,
                tasks     |-> d.tasks \ e.tasks]

Common(d, e) == \/ d.prompts \cap e.prompts # {}
                \/ d.instances \cap e.instances # {}
                \/ d.tasks \cap e.tasks # {}

Writes(w) == Minus(Updated(relayer[w].snap, Prompt(w)), relayer[w].snap)

\* Whether a set of documents has one of the tree of task t.
Touches(d, t) == \/ \E p \in d.prompts : TaskOfPrompt(p) = t
                 \/ \E i \in d.instances : TaskOf[i] = t
                 \/ t \in d.tasks

BeginUpdate(w) ==
  /\ relayer[w].pc = "update"
  /\ relayer' = [relayer EXCEPT ![w].pc = "txn", ![w].snap = db, ![w].missed = NoDocs]
  /\ UNCHANGED <<db, answers, orphans, listed, evaluating, faults, lost, skewed>>

CommitUpdate(w) ==
  LET written == Writes(w)
      t == TaskOfPrompt(Prompt(w))
  IN  /\ relayer[w].pc = "txn"
      /\ ~Common(written, relayer[w].missed)
      /\ db' = Plus(db, written)
      /\ relayer' = [v \in Workflows |->
           IF v = w THEN [pc     |-> "updated", snap |-> NoDocs, missed |-> NoDocs,
                          isDone |-> TaskDone(relayer[w].snap, Prompt(w))]
           ELSE IF relayer[v].pc = "txn"
                THEN [relayer[v] EXCEPT !.missed = Plus(@, written)]
                ELSE relayer[v]]
      /\ skewed' = IF Touches(relayer[w].missed, t) THEN skewed \cup {t} ELSE skewed
      /\ UNCHANGED <<answers, orphans, listed, evaluating, faults, lost>>

ConflictUpdate(w) ==
  /\ relayer[w].pc = "txn"
  /\ Common(Writes(w), relayer[w].missed)
  /\ relayer' = [relayer EXCEPT ![w].pc = "update", ![w].snap = NoDocs, ![w].missed = NoDocs]
  /\ UNCHANGED <<db, answers, orphans, listed, evaluating, faults, lost, skewed>>

\* The end of the Relayer workflow: the Evaluator's id is the task's, so it runs once.
Finish(w) ==
  /\ Goto(w, "updated", "done")
  /\ evaluating' = IF relayer[w].isDone THEN evaluating \cup {TaskOfPrompt(Prompt(w))}
                                        ELSE evaluating
  /\ UNCHANGED <<db, answers, orphans, listed, faults, lost, skewed>>

-----------------------------------------------------------------------------
(***************************************************************************)
(* Faults.  An activity that crashes or whose result is lost is attempted  *)
(* again from its start, whatever it did already; out of attempts, or when *)
(* the Evaluator cannot be started, the workflow fails.                    *)
(***************************************************************************)
Restarted(w, pcs, first) ==
  /\ faults < MaxFaults
  /\ faults' = faults + 1
  /\ relayer[w].pc \in pcs
  /\ \E pc \in {first, "failed"} : relayer' = [relayer EXCEPT ![w] = [Idle EXCEPT !.pc = pc]]
  /\ UNCHANGED <<db, answers, orphans, listed, evaluating, lost, skewed>>

(* Mutant: a Relayer activity that crashed is taken for one that returned. *)
RelayerCrashSkips(w) == Restarted(w, {"lookup", "relaying", "saved"}, "saved")

RelayerCrash(w) == Restarted(w, {"lookup", "relaying", "saved"}, "lookup")
UpdateCrash(w)  == Restarted(w, {"update", "txn", "updated"}, "update")

\* The retry policy of the workflow itself.
RetryWorkflow(w) ==
  /\ Goto(w, "failed", "lookup")
  /\ UNCHANGED <<db, answers, orphans, listed, evaluating, faults, lost, skewed>>

(***************************************************************************)
(* The Evaluator side: the scheduled lookup of done, unevaluated tasks.    *)
(***************************************************************************)
LookupTasks(t) ==
  /\ t \in db.tasks \ evaluating
  /\ evaluating' = evaluating \cup {t}
  /\ UNCHANGED <<db, answers, orphans, listed, relayer, faults, lost, skewed>>

Progress(w) ==
  \/ PromptFound(w) \/ PromptNotFound(w) \/ SaveResponse(w) \/ RelayerReturns(w)
  \/ BeginUpdate(w) \/ CommitUpdate(w) \/ ConflictUpdate(w) \/ Finish(w)

Next ==
  \/ \E s \in Sessions : GetTasks(s)
  \/ \E s \in Sessions, p \in Prompts : StartRelayer(s, p)
  \/ \E w \in Workflows : Progress(w)
  \/ \E w \in Workflows : LookupError(w) \/ LoseResponse(w) \/ RelayerCrash(w) \/ UpdateCrash(w)
  \/ \E w \in Workflows : RetryWorkflow(w)
  \/ \E t \in Tasks : LookupTasks(t)

Spec == Init /\ [][Next]_vars

(***************************************************************************)
(* Requester and LookupTasks run every minute, and Temporal dispatches the *)
(* tasks of a running workflow.  Nothing promises a fault, nor that the    *)
(* workflow retry policy has attempts left.                                *)
(***************************************************************************)
Fairness ==
  /\ \A s \in Sessions : WF_vars(GetTasks(s))
  /\ \A s \in Sessions, p \in Prompts : WF_vars(StartRelayer(s, p))
  /\ \A w \in Workflows : WF_vars(Progress(w))
  /\ \A t \in Tasks : WF_vars(LookupTasks(t))

FairSpec == Spec /\ Fairness
-----------------------------------------------------------------------------
(* The type invariant. *)
TypeOK ==
  /\ db \in Docs
  /\ answers \in [Prompts -> Nat]
  /\ orphans \in [Prompts -> Nat]
  /\ listed \in [Sessions -> SUBSET Prompts]
  /\ relayer \in [Workflows -> RelayerState]
  /\ evaluating \in SUBSET Tasks
  /\ faults \in 0 .. MaxFaults
  /\ lost \in SUBSET Prompts
  /\ skewed \in SUBSET Tasks

(* Marks only move up a complete tree: a done task has only done instances, *)
(* a done instance only done prompts, whatever snapshots they were written  *)
(* from.                                                                    *)
DoneUpwards ==
  /\ \A i \in db.instances : PromptsOf(i) \subseteq db.prompts
  /\ \A t \in db.tasks : InstancesOf(t) \subseteq db.instances

\* The Evaluator joins responses to prompts by the prompt id, which all of them have.
Responses(p) == answers[p] + orphans[p]

(* The Evaluator joins the responses of every prompt of its task: none may  *)
(* be missing when it starts, unless the database refused to save one.      *)
EvaluatedWhenAnswered ==
  \A t \in evaluating, p \in Prompts :
    TaskOfPrompt(p) = t => Responses(p) > 0 \/ p \in lost

(* "We will not get the same relayer workflow executed twice" in a session  *)
(* (workflows/requester.go): a prompt has one response per session it was   *)
(* relayed in at most, and one more for every fault.                        *)
OneResponsePerSession ==
  \A p \in Prompts : Responses(p) <= Cardinality(Sessions) + faults

(* A prompt that is answered for the last time completes its task at once,  *)
(* as long as no update of that task ran on a snapshot that missed another. *)
SettledUnlessSkewed ==
  \A t \in Tasks \ skewed :
    (\A p \in Prompts : TaskOfPrompt(p) = t => p \in db.prompts) => t \in db.tasks

(* Every task is evaluated in the end, crashes, retries and stale listings  *)
(* notwithstanding, unless its updates skewed.                              *)
EventuallyEvaluated == \A t \in Tasks : <>(t \in evaluating \/ t \in skewed)

-----------------------------------------------------------------------------
(* What the repository says and the code does not do.                       *)

(* UpdateTaskTree: "if all the prompts are done, mark the instance as done",*)
(* "if all the instances are done, lookup for the task and mark as done".   *)
InFlight(w) == relayer[w].pc \notin {"none", "done", "failed"}

DoneWhenAllAnswered ==
  (\A w \in Workflows : ~InFlight(w)) =>
    \A t \in Tasks :
      (\A p \in Prompts : TaskOfPrompt(p) = t => p \in db.prompts) => t \in db.tasks
=============================================================================
